-------------------------- MODULE TypePropagation --------------------------
(* The decompiler's types: what is known of the value in each register after *)
(* each operation of a function, and what remains known where paths meet.    *)
(* e: what else the function knows: types of symbols, labels, stack slots.   *)
EXTENDS TypeSystem

SYM_INFO_OFFSET == 65332
GOAL_MEMUSAGE_METHOD == 8
GOAL_RELOC_METHOD == 7

(***************************************************************************)
(* What is known of a value.                                               *)
(***************************************************************************)
TP(kind) == [kind |-> kind, ts |-> Spec("none"), int |-> 0, extra |-> 0, str |-> "", pcpyud |-> FALSE]
WithTs(kind, ts) == [TP(kind) EXCEPT !.ts = ts]
WithInt(kind, n) == [TP(kind) EXCEPT !.int = n]
make_from_ts(ts) == WithTs("TYPESPEC", ts)
FromName(name) == make_from_ts(Spec(name))
make_from_format_string(n_args) == WithInt("FORMAT_STRING", n_args)
make_virtual_method(ts) == WithTs("VIRTUAL_METHOD", ts)
make_non_virtual_method(ts) == WithTs("NON_VIRTUAL_METHOD", ts)
make_from_string(str) == [TP("STRING_CONSTANT") EXCEPT !.str = str]
make_type_allow_virtual_object(ts) == WithTs("TYPE_OF_TYPE_OR_CHILD", ts)
make_type_no_virtual_object(ts) == WithTs("TYPE_OF_TYPE_NO_VIRTUAL", ts)
make_false == TP("FALSE_AS_NULL")
make_uninitialized == TP("UNINITIALIZED")
make_from_integer(n) == WithInt("INTEGER_CONSTANT", n)
make_from_integer_constant_plus_var(n, ts) == [WithTs("INTEGER_CONSTANT_PLUS_VAR", ts) EXCEPT !.int = n]
make_from_integer_constant_plus_product(n, ts, multiplier) ==
    [WithTs("INTEGER_CONSTANT_PLUS_VAR_MULT", ts) EXCEPT !.int = n, !.extra = multiplier]
make_from_product(multiplier, is_signed) ==
    [WithTs("PRODUCT_WITH_CONSTANT", Spec(IF is_signed THEN "int" ELSE "uint")) EXCEPT !.int = multiplier]
make_partial_dynamic_vtable_access == TP("DYNAMIC_METHOD_ACCESS")
make_object_new(ts) == WithTs("OBJECT_NEW_METHOD", ts)
make_object_plus_product(ts, multiplier) == [WithTs("OBJECT_PLUS_PRODUCT_WITH_CONSTANT", ts) EXCEPT !.int = multiplier]
make_from_left_shift_bitfield(ts, amount, pcpyud) ==
    [WithTs("LEFT_SHIFTED_BITFIELD", ts) EXCEPT !.int = amount, !.pcpyud = pcpyud]
make_from_pcpyud_bitfield(ts) == [WithTs("PCPYUD_BITFIELD", ts) EXCEPT !.pcpyud = TRUE]
make_enter_state == TP("ENTER_STATE_FUNCTION")
make_label_addr == TP("LABEL_ADDR")
\* The propagation gives up on the function.
Unhandled == TP("THROW")

\* A product is compared by its multiplier only.
SameTP(a, b) == a = b \/ (a.kind = "PRODUCT_WITH_CONSTANT" /\ b.kind = a.kind /\ a.int = b.int)
typespec(tp) ==
    CASE tp.kind \in {"TYPE_OF_TYPE_OR_CHILD", "TYPE_OF_TYPE_NO_VIRTUAL"} -> Spec("type")
      [] tp.kind = "FALSE_AS_NULL" -> Spec("symbol")
      [] tp.kind = "OBJECT_PLUS_PRODUCT_WITH_CONSTANT" -> IF tp.ts.base = "pointer" THEN tp.ts ELSE Spec("int")
      [] tp.kind \in {"OBJECT_NEW_METHOD", "ENTER_STATE_FUNCTION"} -> Spec("function")
      [] tp.kind \in {"STRING_CONSTANT", "FORMAT_STRING"} -> Spec("string")
      [] tp.kind \in {"INTEGER_CONSTANT", "LEFT_SHIFTED_BITFIELD", "PCPYUD_BITFIELD"} -> Spec("int")
      [] tp.kind = "DYNAMIC_METHOD_ACCESS" -> Spec("object")
      [] tp.kind = "LABEL_ADDR" -> Spec("pointer")
      [] OTHER -> tp.ts
requires_cast(tp) ==
    \/ tp.kind \in {"UNINITIALIZED", "OBJECT_NEW_METHOD", "DYNAMIC_METHOD_ACCESS"}
    \/ tp.kind = "OBJECT_PLUS_PRODUCT_WITH_CONSTANT" /\ tp.ts.base # "pointer"
is_integer_constant(tp, n) == tp.kind = "INTEGER_CONSTANT" /\ tp.int = n
can_be_format_string(tp) == tp.kind \in {"FORMAT_STRING", "STRING_CONSTANT"}
IsTypeObject(tp) == tp.kind \in {"TYPE_OF_TYPE_OR_CHILD", "TYPE_OF_TYPE_NO_VIRTUAL"}

(***************************************************************************)
(* What remains known of one of two.                                       *)
(***************************************************************************)
get_format_arg_count(e, tp) == IF tp.kind = "STRING_CONSTANT" THEN e.formats[tp.str] ELSE tp.int
MergedFormat(e, a, b) ==
    IF get_format_arg_count(e, a) = get_format_arg_count(e, b)
    THEN make_from_format_string(get_format_arg_count(e, a)) ELSE FromName("string")
Common(s, a, b) == lowest_common_ancestor(s, a, b)
\* Both known in the same way, but not the same.
tp_lca_same_kind(e, s, existing, add) ==
    CASE existing.kind = "TYPESPEC" -> make_from_ts(coerce_to_reg_type(Common(s, existing.ts, add.ts)))
      [] IsTypeObject(existing) -> [existing EXCEPT !.ts = Common(s, existing.ts, add.ts)]
      [] existing.kind \in {"PRODUCT_WITH_CONSTANT", "INTEGER_CONSTANT", "INTEGER_CONSTANT_PLUS_VAR_MULT"} -> FromName("int")
      [] existing.kind = "OBJECT_PLUS_PRODUCT_WITH_CONSTANT" -> FromName("object")
      [] existing.kind = "OBJECT_NEW_METHOD" -> FromName("function")
      [] can_be_format_string(existing) -> MergedFormat(e, existing, add)
      [] existing.kind = "INTEGER_CONSTANT_PLUS_VAR" ->
            IF existing.int = add.int
            THEN make_from_integer_constant_plus_var(existing.int, coerce_to_reg_type(Common(s, existing.ts, add.ts)))
            ELSE FromName("int")
      [] existing.kind \in {"VIRTUAL_METHOD", "NON_VIRTUAL_METHOD"} -> make_from_ts(Common(s, existing.ts, add.ts))
      [] OTHER -> Unhandled
tp_lca_other_kind(e, s, existing, add) ==
    IF can_be_format_string(existing) /\ can_be_format_string(add) THEN MergedFormat(e, existing, add)
    ELSE IF IsTypeObject(existing) /\ IsTypeObject(add)
    THEN make_type_no_virtual_object(Common(s, existing.ts, add.ts))
    ELSE make_from_ts(coerce_to_reg_type(Common(s, typespec(existing), typespec(add))))
tp_lca(e, s, existing, add) ==
    CASE SameTP(existing, add) -> existing
      [] ~SameTP(existing, add) /\ add.kind = "UNINITIALIZED" -> existing
      [] existing.kind = "UNINITIALIZED" /\ add.kind # "UNINITIALIZED" -> add
      [] existing.kind \notin {"UNINITIALIZED", "FALSE_AS_NULL"} /\ add.kind = "FALSE_AS_NULL" -> existing
      [] existing.kind = "FALSE_AS_NULL" /\ add.kind \notin {"UNINITIALIZED", "FALSE_AS_NULL"} -> add
      [] existing.kind = add.kind /\ ~SameTP(existing, add) -> tp_lca_same_kind(e, s, existing, add)
      [] OTHER -> tp_lca_other_kind(e, s, existing, add)

\* What is known at one point: of the registers, the stack slots and the next state.
TypeState(regs, slots) == [reg |-> regs, slots |-> slots, next |-> make_uninitialized]
Slot(st, offset) == IF offset \in DOMAIN st.slots THEN st.slots[offset] ELSE make_uninitialized
tp_lca_state(e, s, combined, add) ==
    [reg |-> [r \in DOMAIN combined.reg |-> tp_lca(e, s, combined.reg[r], add.reg[r])],
     slots |-> [o \in DOMAIN combined.slots \cup DOMAIN add.slots |->
                   IF o \in DOMAIN add.slots THEN tp_lca(e, s, Slot(combined, o), add.slots[o]) ELSE combined.slots[o]],
     next |-> tp_lca(e, s, combined.next, add.next)]
Changed(a, b) ==
    \/ \E r \in DOMAIN a.reg : ~SameTP(a.reg[r], b.reg[r])
    \/ \E o \in DOMAIN b.slots : ~SameTP(Slot(a, o), b.slots[o])
    \/ ~SameTP(a.next, b.next)

(***************************************************************************)
(* Expressions: k is the kind, args are atoms.                             *)
(***************************************************************************)
Atom(k) == [k |-> k, reg |-> "", n |-> 0, name |-> ""]
Var(reg) == [Atom("var") EXCEPT !.reg = reg]
IntAtom(n) == [Atom("int") EXCEPT !.n = n]
SymbolPtr(name) == [Atom("sym") EXCEPT !.name = name]
SymbolVal(name) == [Atom("symval") EXCEPT !.name = name]
StaticAddress(label) == [Atom("static") EXCEPT !.n = label]
SimpleExpression(k, args) == [k |-> k, args |-> args]
Identity(atom) == SimpleExpression("identity", <<atom>>)
IsAdd(x) == x.k = "add" /\ x.args[1].k = "var" /\ x.args[2].k = "int"
as_reg_offset(x) == IsAdd(x) \/ (x.k = "identity" /\ x.args[1].k = "var")
OffsetOf(x) == IF IsAdd(x) THEN x.args[2].n ELSE 0

tct(s, name, tp) == tc(s, Spec(name), typespec(tp))
is_int_or_uint(s, tp) == tct(s, "integer", tp) \/ tct(s, "uint", tp)
is_signed(s, tp) == tct(s, "int", tp) /\ ~tct(s, "uint", tp)
IsBitField(s, ts) == s.types[ts.base].kind = "bitfield"

\* label: at, its offset modulo 8; word, the type before it; str; func; hint.
StaticType(label) ==
    LET Hinted == IF label.hint # "" THEN FromName(label.hint) ELSE make_label_addr
    IN  CASE label.at = BASIC_OFFSET /\ label.word = "string" -> make_from_string(label.str)
          [] label.at = BASIC_OFFSET /\ label.word = "function" /\ label.hint = "_lambda_" /\ label.func # <<>> ->
                make_from_ts(label.func[1])
          [] label.at = BASIC_OFFSET /\ label.word \notin {"", "string"}
                /\ ~(label.word = "function" /\ label.hint = "_lambda_" /\ label.func # <<>>) -> FromName(label.word)
          [] label.at = 2 -> FromName("pair")
          [] OTHER -> Hinted
SymbolValueType(e, name) ==
    CASE name = "#f" -> make_false
      [] name = "__START-OF-TABLE__" -> FromName("pointer")
      [] name = "enter-state" -> make_enter_state
      [] name \in DOMAIN e.symbols /\ name # "enter-state" ->
            IF e.symbols[name] = Spec("type") THEN make_type_no_virtual_object(Spec(name)) ELSE make_from_ts(e.symbols[name])
      [] OTHER -> Unhandled
AtomType(e, s, st, a) ==
    CASE a.k = "empty" -> FromName("pair")
      [] a.k = "var" -> st.reg[a.reg]
      [] a.k = "int" -> make_from_integer(a.n)
      [] a.k = "sym" -> IF a.name = "#f" THEN make_false ELSE FromName("symbol")
      [] a.k = "symval" -> SymbolValueType(e, a.name)
      [] a.k = "static" -> StaticType(e.labels[a.n])

try_find_field(s, type, start_bit, size, unsigned) ==
    LET IsInt(f) == tc(s, Spec("integer"), f.type) \/ tc(s, Spec("float"), f.type)
        IsUint(f) == tc(s, Spec("uinteger"), f.type)
        Suits(f) == CASE unsigned = "any" -> TRUE
                      [] unsigned = "no" -> IsInt(f) \/ (~IsUint(f) /\ type.name = "handle")
                      [] unsigned = "yes" -> IsUint(f) \/ ~IsInt(f)
    IN  SelectSeq(type.fields, LAMBDA f : f.size = size /\ f.offset = start_bit /\ Suits(f))
FoundType(found) == IF found = <<>> THEN Unhandled ELSE make_from_ts(found[1].type)
FieldType(s, ts, start_bit, size, unsigned) ==
    FoundType(try_find_field(s, s.types[ts.base], start_bit, size, unsigned))
InRegister(tp) == IF tp = Unhandled THEN tp ELSE make_from_ts(coerce_to_reg_type(tp.ts))

\* The type of sp + offset.
get_stack_type_at_constant_offset(e, st, offset) ==
    LET here == SelectSeq(e.stack, LAMBDA h : h.offset = offset /\ h.single)
    IN  IF here # <<>> THEN make_from_ts(coerce_to_reg_type(here[1].ref_type))
        ELSE IF offset \in DOMAIN st.slots THEN make_from_ts(make_pointer_typespec(typespec(st.slots[offset])))
        ELSE Unhandled

Answer(tp) == <<tp>>
Nothing == <<>>
LeftShift(s, x, a) ==
    IF x.args[2].k = "int" /\ is_int_or_uint(s, a)
    THEN CASE IsBitField(s, typespec(a)) -> Answer(make_from_left_shift_bitfield(typespec(a), x.args[2].n, FALSE))
           [] a.kind = "PCPYUD_BITFIELD" -> Answer(make_from_left_shift_bitfield(a.ts, x.args[2].n, TRUE))
           [] OTHER -> Answer(make_from_product(2 ^ x.args[2].n, is_signed(s, a)))
    ELSE IF x.args[2].k = "int" /\ tct(s, "pointer", a) THEN Answer(FromName("uint"))
    ELSE Nothing
RightShift(s, x, a) ==
    LET by == x.args[2].n
        end_bit == 64 - a.int + (IF a.pcpyud THEN 64 ELSE 0)
        start_bit == end_bit - (64 - by)
        unsigned == IF x.k = "right_shift_logic" THEN "yes" ELSE "no"
        Shifted == a.kind = "LEFT_SHIFTED_BITFIELD" /\ ~IsBitField(s, typespec(a))
    IN  IF x.args[2].k = "int" /\ (IsBitField(s, typespec(a)) \/ Shifted)
        THEN Answer(IF Shifted /\ start_bit < 0 THEN Unhandled
                    ELSE InRegister(FieldType(s, IF Shifted THEN a.ts ELSE typespec(a), IF Shifted THEN start_bit ELSE by,
                                              64 - by, unsigned)))
        ELSE IF x.k = "right_shift_arith" THEN Answer(FromName("int"))
        ELSE Nothing
Multiply(s, a, b, result) ==
    IF a.kind = "INTEGER_CONSTANT" /\ is_int_or_uint(s, b) THEN Answer(make_from_product(a.int, is_signed(s, a)))
    ELSE IF is_int_or_uint(s, a) /\ is_int_or_uint(s, b) THEN Answer(FromName(result))
    ELSE Nothing
AddSpecial(e, s, st, x, a, b) ==
    IF x.args[1].k = "var" /\ x.args[1].reg = "sp" /\ x.args[2].k = "int"
    THEN Answer(get_stack_type_at_constant_offset(e, st, x.args[2].n))
    ELSE IF a.kind = "PRODUCT_WITH_CONSTANT" /\ a.int = 4 /\ tct(s, "type", b)
    THEN Answer(make_partial_dynamic_vtable_access)
    ELSE IF b.kind = "INTEGER_CONSTANT" /\ a.kind = "PRODUCT_WITH_CONSTANT"
    THEN Answer(make_from_integer_constant_plus_product(b.int, a.ts, a.int))
    ELSE IF b.kind = "INTEGER_CONSTANT" /\ is_int_or_uint(s, a)
    THEN Answer(make_from_integer_constant_plus_var(b.int, typespec(a)))
    ELSE Nothing
\* The operations that are treated on their own.
SpecialInt(e, s, st, x, a, b) ==
    CASE x.k = "left_shift" -> LeftShift(s, x, a)
      [] x.k \in {"right_shift_arith", "right_shift_logic"} -> RightShift(s, x, a)
      [] x.k = "mul_signed" -> Multiply(s, a, b, "int")
      [] x.k = "mul_unsigned" -> Multiply(s, a, b, "uint")
      [] x.k \in {"div_signed", "mod_signed"} ->
            IF is_int_or_uint(s, a) /\ is_int_or_uint(s, b) THEN Answer(FromName("int")) ELSE Nothing
      [] x.k = "add" -> AddSpecial(e, s, st, x, a, b)
      [] x.k = "min_signed" -> Answer(FromName("int"))
      [] OTHER -> Nothing

\* What a look for a field at this address gives.
AsRegister(results) == IF results = <<>> THEN Nothing ELSE Answer(make_from_ts(coerce_to_reg_type(results[1].type)))
AddressType(s, ts, offset, stride) == AsRegister(reverse_field_lookup(s, Input(ts, offset, stride, <<>>)))
VariableType(s, ts, stride) ==
    AsRegister(SelectSeq(reverse_field_multi_lookup(s, Input(ts, 0, stride, <<>>)), has_variable_token))
PlusVariable(s, a, b) ==
    IF a.kind \in {"INTEGER_CONSTANT_PLUS_VAR_MULT", "INTEGER_CONSTANT_PLUS_VAR"}
    THEN AddressType(s, typespec(b), a.int, IF a.kind = "INTEGER_CONSTANT_PLUS_VAR" THEN 1 ELSE a.extra)
    ELSE Nothing
IsRow(tp) == tp.kind = "TYPESPEC" /\ tp.ts.base = "inline-array"
RowPlus(s, row, product) ==
    IF IsRow(row) /\ product.kind = "PRODUCT_WITH_CONSTANT" THEN VariableType(s, row.ts, product.int) ELSE Nothing
Known1(tp) == tp.kind = "TYPESPEC"
IsPointer(tp) == typespec(tp).base = "pointer"
FirstAnswer(answers) ==
    LET given == SelectSeq(answers, LAMBDA x : x # Nothing) IN IF given = <<>> THEN Nothing ELSE given[1]

\* Two numbers.
Numbers(s, a, b) ==
    IF SameTP(a, b) /\ is_int_or_uint(s, a) THEN Answer(make_from_ts(typespec(a)))
    ELSE IF is_int_or_uint(s, a) /\ is_int_or_uint(s, b)
    THEN Answer(make_from_ts(typespec(IF a.kind = "INTEGER_CONSTANT" /\ b.kind # "INTEGER_CONSTANT" THEN b ELSE a)))
    ELSE IF tct(s, "binteger", a) /\ is_int_or_uint(s, b) THEN Answer(FromName("binteger"))
    ELSE IF /\ typespec(a) \in {Spec("object"), Spec("pair")} \/ tct(s, "basic", a)
            /\ is_integer_constant(b, 62) \/ is_integer_constant(b, 61)
    THEN Answer(FromName("int"))
    ELSE Nothing
\* An object or an array and how far to go from it.
ObjectPlus(s, x, a, b) ==
    IF x.k # "add" THEN Nothing
    ELSE FirstAnswer(<<
        IF x.args[2].k = "int" /\ Known1(a) THEN AddressType(s, a.ts, x.args[2].n, 0) ELSE Nothing,
        RowPlus(s, a, b), RowPlus(s, b, a),
        IF a.kind = "PRODUCT_WITH_CONSTANT" /\ Known1(b) THEN Answer(make_object_plus_product(b.ts, a.int)) ELSE Nothing,
        IF b.kind = "PRODUCT_WITH_CONSTANT" /\ Known1(a) THEN Answer(make_object_plus_product(a.ts, b.int)) ELSE Nothing>>)
PointerPlus(s, x, a, b) ==
    IF x.k \in {"add", "sub"} /\ IsPointer(a) /\ tct(s, "integer", b)
    THEN Answer(IF x.k = "add" /\ x.args[2].k # "int" THEN make_object_plus_product(typespec(a), 1)
                ELSE make_from_ts(typespec(a)))
    ELSE IF x.k \in {"add", "sub"} /\ IsPointer(b) /\ tct(s, "integer", a) THEN Answer(make_from_ts(typespec(b)))
    ELSE IF /\ x.k = "add" /\ tct(s, "structure", a) /\ b.kind = "INTEGER_CONSTANT"
            /\ s.types[typespec(a).base].size = b.int
    THEN Answer(make_from_ts(typespec(a)))
    ELSE IF tct(s, "structure", b) /\ x.args[1].k # "int" /\ is_int_or_uint(s, a)
    THEN Answer(IF typespec(b) = Spec("symbol") /\ is_integer_constant(a, SYM_INFO_OFFSET + POINTER_SIZE)
                THEN make_from_ts(make_pointer_typespec(Spec("string")))
                ELSE make_object_plus_product(typespec(b), 1))
    ELSE Nothing
Odd(s, x, a, b) ==
    IF x.k = "and"
    THEN IF IsPointer(a) /\ tct(s, "integer", b) THEN make_from_ts(typespec(a))
         ELSE IF IsPointer(b) /\ tct(s, "integer", a) THEN make_from_ts(typespec(b)) ELSE FromName("int")
    ELSE IF x.k \in {"add", "sub"} /\ tct(s, "pointer", a) /\ tct(s, "pointer", b) THEN FromName("int")
    ELSE IF x.k = "right_shift_logic" /\ typespec(a) = Spec("float") /\ is_integer_constant(b, 63) THEN FromName("int")
    ELSE IF x.k = "or" /\ typespec(a) = Spec("float") /\ typespec(b) = Spec("float") THEN FromName("float")
    ELSE Unhandled
Bitfields(x, a, b) ==
    IF a.kind = "PCPYUD_BITFIELD" /\ x.k \in {"and", "or"} THEN Answer(make_from_pcpyud_bitfield(a.ts))
    ELSE IF x.k = "pcpyld" THEN Answer(IF a.kind = "PCPYUD_BITFIELD" THEN b ELSE FromName("uint"))
    ELSE Nothing
get_type_int2(e, s, st, x, a, b) ==
    FirstAnswer(<<SpecialInt(e, s, st, x, a, b), Bitfields(x, a, b),
                  IF x.k = "add" THEN PlusVariable(s, a, b) ELSE Nothing,
                  Numbers(s, a, b), ObjectPlus(s, x, a, b), PointerPlus(s, x, a, b), Answer(Odd(s, x, a, b))>>)[1]
get_type_int1(s, x, a) ==
    IF ~is_int_or_uint(s, a) THEN Unhandled
    ELSE IF x.k = "neg" THEN FromName("int") ELSE make_from_ts(typespec(a))
IntMath2 ==
    {"add", "sub", "mul_signed", "div_signed", "right_shift_arith", "right_shift_logic", "mod_signed", "min_signed",
     "max_signed", "or", "and", "nor", "xor", "left_shift", "mul_unsigned", "pcpyld"}
ExpressionType(e, s, st, x) ==
    LET a == AtomType(e, s, st, x.args[1])
        b == AtomType(e, s, st, x.args[2])
    IN  CASE x.k \in {"identity", "fpr_to_gpr"} -> a
          [] x.k = "gpr_to_fpr" -> IF is_integer_constant(a, 0) THEN FromName("float") ELSE a
          [] x.k \in {"div.s", "sub.s", "mul.s", "add.s", "sqrt.s", "abs.s", "neg.s", "int_to_float", "min.s", "max.s", "vec3dot"} ->
                FromName("float")
          [] x.k \in {"float_to_int", "subu_l32_s7"} -> FromName("int")
          [] x.k \in IntMath2 -> IF Unhandled \in {a, b} THEN Unhandled ELSE get_type_int2(e, s, st, x, a, b)
          [] x.k \in {"neg", "lognot"} -> get_type_int1(s, x, a)
          [] x.k \in {"div_unsigned", "mod_unsigned"} -> FromName("uint")
          [] x.k \in {"vec+", "vec-", "vec*"} -> FromName("vector")
          [] OTHER -> Unhandled

(***************************************************************************)
(* Operations.                                                             *)
(***************************************************************************)
Op(k) ==
    [k |-> k, dst |-> "", x |-> Identity(IntAtom(0)), size |-> 4, kind |-> "unsigned", value |-> IntAtom(0),
     delay |-> "nop", src |-> "", clobber |-> {}, write |-> {}, instr |-> "", srcs |-> <<>>, n |-> 0]
Writes(op, reg) == [op EXCEPT !.dst = reg, !.write = {reg}]
SetVarOp(dst, x) == [Writes(Op("set"), dst) EXCEPT !.x = x]
LoadVarOp(dst, kind, size, x) == [Writes(Op("load"), dst) EXCEPT !.x = x, !.size = size, !.kind = kind]
StoreOp(x, value) == [Op("store") EXCEPT !.x = x, !.value = value]
SetVarConditionOp(dst) == Writes(Op("set-condition"), dst)
BranchOp(delay, dst, src) ==
    [Op("branch") EXCEPT !.delay = delay, !.dst = dst, !.src = src, !.write = IF dst = "" THEN {} ELSE {dst}]
CallOp == [Writes(Op("call"), "v0") EXCEPT !.clobber = {"a0", "a1", "a2", "a3", "v1", "t9"}]
ConditionalMoveFalseOp(dst) == Writes(Op("cmove-false"), dst)
FunctionEndOp == Op("end")
AsmOp(instr, dst, srcs) == [Writes(Op("asm"), dst) EXCEPT !.instr = instr, !.srcs = srcs]
AsmBranchOp(writes) == [Op("asm-branch") EXCEPT !.write = writes]
StackSpillLoadOp(dst, offset) == [Writes(Op("spill-load"), dst) EXCEPT !.n = offset]
StackSpillStoreOp(value, offset) == [Op("spill-store") EXCEPT !.value = value, !.n = offset]
SpecialOp == Op("special")

IsFloatReg(reg) == reg \in {"f0", "f1"}
Gave(st) == [ok |-> TRUE, st |-> st]
GaveUp(st) == [ok |-> FALSE, st |-> st]
Put(st, reg, tp) == IF tp = Unhandled THEN GaveUp(st) ELSE Gave([st EXCEPT !.reg[reg] = tp])

\* What is loaded from a plain pointer.
PlainLoad(op, wide) ==
    CASE op.kind = "float" -> Answer(FromName("float"))
      [] op.kind # "float" /\ op.size \in {1, 2, 4, 8} -> Answer(FromName(IF op.kind = "signed" THEN "int" ELSE "uint"))
      [] op.kind # "float" /\ op.size = 16 /\ wide -> Answer(FromName(IF op.kind = "signed" THEN "int128" ELSE "uint128"))
      [] OTHER -> Nothing
DerefOf(op) == <<[size |-> op.size, signed |-> op.kind = "signed", store |-> FALSE]>>
LoadedType(s, op, ts, stride) == AsRegister(reverse_field_lookup(s, Input(ts, OffsetOf(op.x), stride, DerefOf(op))))
\* An entry of the method table of a type.
IsMethodLoad(op) == OffsetOf(op.x) >= 16 /\ OffsetOf(op.x) % 4 = 0 /\ op.size = 4 /\ op.kind = "unsigned"
MethodIdOf(op) == (OffsetOf(op.x) - 16) \div 4
MethodType(s, name, id) ==
    LET found == try_lookup_method_id(s, s.types[name], id)
    IN  IF found = <<>> THEN <<>> ELSE <<substitute_for_method_call(found[1].type, name)>>
MethodOf(in, name, id, type) ==
    IF type = <<>> THEN Unhandled
    ELSE IF name = "object" /\ id = 0 THEN make_object_new(type[1])
    ELSE IF id = 0 THEN make_from_ts(type[1])
    ELSE IF in.kind = "TYPE_OF_TYPE_NO_VIRTUAL" THEN make_non_virtual_method(type[1])
    ELSE make_virtual_method(type[1])
TableLoad(s, op, in) ==
    IF ~IsMethodLoad(op) THEN Nothing
    ELSE IF IsTypeObject(in) THEN Answer(MethodOf(in, in.ts.base, MethodIdOf(op), MethodType(s, in.ts.base, MethodIdOf(op))))
    ELSE IF /\ in.kind = "TYPESPEC" /\ in.ts = Spec("type")
            /\ MethodIdOf(op) \in 1 .. GOAL_MEMUSAGE_METHOD \ {GOAL_RELOC_METHOD}
    THEN Answer(make_non_virtual_method(MethodType(s, "object", MethodIdOf(op))[1]))
    ELSE Nothing
IsPlainPointer(in) == typespec(in) = Spec("pointer")
IsSum(in) == in.kind = "OBJECT_PLUS_PRODUCT_WITH_CONSTANT"
PairLoad(e, op, in) ==
    IF e.sloppy /\ op.kind = "signed" /\ op.size = 4 /\ typespec(in) \in {Spec("object"), Spec("pair")}
    THEN CASE OffsetOf(op.x) = 2 -> Answer(FromName("pair"))
           [] OffsetOf(op.x) = -2 -> Answer(FromName("object"))
           [] OTHER -> Nothing
    ELSE Nothing
RegisterLoad(e, s, op, in) ==
    FirstAnswer(<<
        TableLoad(s, op, in),
        IF IsPlainPointer(in) /\ ~IsSum(in) THEN PlainLoad(op, FALSE) ELSE Nothing,
        IF IsSum(in) THEN LoadedType(s, op, in.ts, in.int) ELSE Nothing,
        IF in.kind = "TYPESPEC" /\ OffsetOf(op.x) = -4 /\ op.kind = "unsigned" /\ op.size = 4
        THEN Answer(make_type_allow_virtual_object(Spec(in.ts.base))) ELSE Nothing,
        IF in.kind = "DYNAMIC_METHOD_ACCESS" /\ OffsetOf(op.x) = 16 THEN Answer(FromName("function")) ELSE Nothing,
        IF typespec(in) # Spec("pair") \/ ~e.sloppy THEN LoadedType(s, op, typespec(in), 0) ELSE Nothing,
        IF IsPlainPointer(in) \/ IsSum(in) THEN PlainLoad(op, TRUE) ELSE Nothing,
        PairLoad(e, op, in)>>)
StaticLoad(e, op) ==
    LET label == e.labels[op.x.args[1].n] IN
    CASE op.kind = "float" -> Answer(FromName("float"))
      [] op.kind # "float" /\ label.hint # "" -> Answer(make_from_ts(coerce_to_reg_type(Spec(label.hint))))
      [] op.kind # "float" /\ label.hint = "" /\ op.size = 8 -> Answer(FromName("uint"))
      [] OTHER -> Nothing
get_src_type(e, s, op, st) ==
    LET found == IF op.x.k = "identity" /\ op.x.args[1].k = "static" THEN StaticLoad(e, op)
                 ELSE IF as_reg_offset(op.x) THEN RegisterLoad(e, s, op, st.reg[op.x.args[1].reg])
                 ELSE Nothing
    IN  (found \o Answer(Unhandled))[1]

DelayType(s, op, st) ==
    CASE op.delay = "dsllv" ->
            IF tct(s, "uint", st.reg[op.src]) THEN FromName("uint")
            ELSE IF tct(s, "int", st.reg[op.src]) THEN FromName("int") ELSE Unhandled
      [] op.delay = "negate" -> FromName("int")
      [] op.delay = "set-false" -> make_false
      [] op.delay = "set-reg" -> st.reg[op.src]
      [] op.delay = "set-true" -> FromName("symbol")
      [] op.delay = "set-binteger" -> make_type_no_virtual_object(Spec("binteger"))
      [] op.delay = "set-pair" -> make_type_no_virtual_object(Spec("pair"))
      [] OTHER -> Unhandled
IsWide(s, tp) == tct(s, "int128", tp) \/ tct(s, "uint128", tp)
AsmType(s, op, st) ==
    LET Of(i) == st.reg[op.srcs[i]]
        IsBits(i) == op.srcs[i] # "r0" /\ IsBitField(s, typespec(Of(i)))
        Generals == {i \in DOMAIN op.srcs : ~IsFloatReg(op.srcs[i])}
        FieldAt(i, start, size, unsigned) == FieldType(s, typespec(Of(i)), start, size, unsigned)
    IN  CASE op.instr = "qmfc2" -> FromName("float")
          [] op.instr = "pcpyud" /\ op.srcs[2] = "r0" /\ IsBits(1) -> make_from_pcpyud_bitfield(typespec(Of(1)))
          [] op.instr = "pextuw" /\ op.srcs[1] = "r0" /\ IsBits(2) -> FieldAt(2, 64, 32, "yes")
          [] op.instr = "sllv" /\ op.srcs[2] = "r0" /\ IsBits(1) -> FieldAt(1, 0, 32, "any")
          [] OTHER ->
                IF IsFloatReg(op.dst) THEN FromName("float")
                ELSE IF \E i \in Generals : IsWide(s, Of(i)) /\ (i = 1 \/ op.srcs[i] # op.dst) THEN FromName("uint128")
                ELSE FromName("int")

\* A call: what is called, and with how many arguments.
state_to_go_function(ts) == TypeSpec("function", Append(Front(ts.args), Spec("none")))
CallType(e, st) ==
    LET called == st.reg["t9"]
        ts == IF called.kind = "ENTER_STATE_FUNCTION" THEN state_to_go_function(typespec(st.next)) ELSE typespec(called)
        format == st.reg["a1"]
        Varargs == Len(ts.args) = 2 /\ ts.args[1] = Spec("_varargs_")
        Objects == [i \in 1 .. get_format_arg_count(e, format) + 1 |-> Spec("object")]
    IN  CASE called.kind = "OBJECT_NEW_METHOD" /\ e.method # "" ->
                Answer([called.ts EXCEPT !.args[Len(called.ts.args)] = Spec(e.method)])
          [] called.kind = "ENTER_STATE_FUNCTION" /\ (typespec(st.next).base # "state" \/ typespec(st.next).args = <<>>) -> Nothing
          [] OTHER ->
                IF ts.base # "function" \/ ts.args = <<>> THEN Nothing
                ELSE IF ~Varargs THEN Answer(ts)
                ELSE IF can_be_format_string(format)
                THEN Answer(TypeSpec("function", <<Spec("object"), Spec("string")>> \o Objects))
                ELSE Nothing
ResultOf(e, st, call) ==
    LET called == st.reg["t9"]
    IN  make_from_ts(IF called.kind = "OBJECT_NEW_METHOD" /\ e.method # "" THEN Spec(e.method)
                     ELSE IF called.kind = "ENTER_STATE_FUNCTION" THEN Last(call.args)
                     ELSE Last(typespec(called).args))

Clobbered(op, st) == [st EXCEPT !.reg = [r \in DOMAIN @ |-> IF r \in op.clobber THEN make_uninitialized ELSE @[r]]]
SetsNextState(op) == as_reg_offset(op.x) /\ op.x.args[1].reg = "s6" /\ OffsetOf(op.x) = 72
propagate_types_internal(e, s, op, st) ==
    CASE op.k = "set" ->
            IF IsFloatReg(op.dst) /\ op.x = Identity(IntAtom(0)) THEN Put(st, op.dst, FromName("float"))
            ELSE Put(st, op.dst, ExpressionType(e, s, st, op.x))
      [] op.k = "load" -> Put(st, op.dst, get_src_type(e, s, op, st))
      [] op.k = "store" -> Gave([st EXCEPT !.next = IF SetsNextState(op) THEN AtomType(e, s, st, op.value) ELSE @])
      [] op.k = "set-condition" -> Put(st, op.dst, FromName("symbol"))
      [] op.k = "branch" -> IF op.delay = "nop" THEN Gave(st) ELSE Put(st, op.dst, DelayType(s, op, st))
      [] op.k = "call" ->
            LET call == CallType(e, st)
            IN  IF call = Nothing THEN GaveUp(st) ELSE Put(st, "v0", ResultOf(e, st, call[1]))
      [] op.k = "cmove-false" ->
            IF typespec(st.reg[op.dst]) = Spec("symbol") THEN Gave(st) ELSE Put(st, op.dst, FromName("symbol"))
      [] op.k = "asm" -> IF op.dst = "" THEN Gave(st) ELSE Put(st, op.dst, AsmType(s, op, st))
      [] op.k = "asm-branch" ->
            Gave([st EXCEPT !.reg = [r \in DOMAIN @ |-> IF r \in op.write THEN FromName("uint") ELSE @[r]]])
      [] op.k = "spill-load" -> Put(st, op.dst, Slot(st, op.n))
      [] op.k = "spill-store" -> Gave([st EXCEPT !.slots = Set(@, op.n, AtomType(e, s, st, op.value))])
      [] op.k \in {"end", "special"} -> Gave(st)
propagate_types(e, s, op, st) ==
    LET r == propagate_types_internal(e, s, op, st) IN [r EXCEPT !.st = Clobbered(op, @)]

(***************************************************************************)
(* A function.  f: blocks, each with its operations, where it goes, and    *)
(* the order; casts: for an operation, what some registers are said to be. *)
(***************************************************************************)
ArgumentRegisters == <<"a0", "a1", "a2", "a3">>
construct_initial_typestate(e, ts, registers) ==
    LET args == Front(ts.args)
        Of(r) == {i \in DOMAIN args : ArgumentRegisters[i] = r}
    IN  TypeState([r \in registers |-> IF r = "s6" THEN FromName("process")
                                       ELSE IF Of(r) = {} THEN make_uninitialized
                                       ELSE make_from_ts(args[CHOOSE i \in Of(r) : TRUE])],
                  [o \in e.spills |-> make_uninitialized])
CastsAt(f, at) == IF at \in DOMAIN f.casts THEN f.casts[at] ELSE <<>>
CastTo(st, casts) == [st EXCEPT !.reg = [r \in DOMAIN @ |-> IF r \in DOMAIN casts THEN make_from_ts(casts[r]) ELSE @[r]]]
StackCast(e, st) ==
    [st EXCEPT !.slots = [o \in DOMAIN @ |-> IF o \in DOMAIN e.stack_casts THEN make_from_ts(e.stack_casts[o]) ELSE @[o]]]
try_modify_input_types_for_casts(e, f, at, st) ==
    LET casts == CastsAt(f, at) IN StackCast(e, IF casts = <<>> THEN st ELSE CastTo(st, casts))
\* A cast of a register holds for its operation, unless that writes the register.
IsCast(f, at, st, r) ==
    LET casts == CastsAt(f, at)
    IN  casts # <<>> /\ r \in DOMAIN casts /\ ~SameTP(st.reg[r], make_from_ts(casts[r]))
UndoCasts(f, at, op, before, after) ==
    [after EXCEPT !.reg = [r \in DOMAIN @ |-> IF IsCast(f, at, before, r) /\ r \notin op.write THEN before.reg[r] ELSE @[r]]]
\* known: what is known at the start of the block, then after each operation.
AfterOperation(e, f, b, a, i, r) ==
    [ok |-> r.ok,
     known |-> Append(Front(a.known), StackCast(e, Last(a.known)))
                  \o <<UndoCasts(f, <<b, i>>, f.blocks[b].ops[i], Last(a.known), r.st)>>]
OneOperation(e, s, f, b, a, i) ==
    IF ~a.ok THEN a
    ELSE AfterOperation(e, f, b, a, i,
            propagate_types(e, s, f.blocks[b].ops[i], try_modify_input_types_for_casts(e, f, <<b, i>>, Last(a.known))))
OneBlock(e, s, f, b, init) ==
    FoldLeft(LAMBDA a, i : OneOperation(e, s, f, b, a, i), [ok |-> TRUE, known |-> <<init>>],
             [i \in DOMAIN f.blocks[b].ops |-> i])
Succs(f, b) == SelectSeq(<<f.blocks[b].ft, f.blocks[b].branch>>, LAMBDA x : x # 0)
\* Mutant: a block that was done is not done again.
Merge_Once(e, s, p, succ, st) == [p EXCEPT !.known[succ][1] = tp_lca_state(e, s, @, st)]
\* p: what is known in the blocks, and the blocks that are to be done.
Start(p, b) == p.known[b][1]
Update(p, succ, combined) ==
    IF Changed(Start(p, succ), combined)
    THEN [p EXCEPT !.known[succ][1] = combined, !.todo = @ \cup {succ}, !.again = TRUE] ELSE p
Merge(e, s, p, succ, st) == Update(p, succ, tp_lca_state(e, s, Start(p, succ), st))
AfterBlock(e, s, f, p, b, r) ==
    IF ~r.ok THEN [p EXCEPT !.ok = FALSE]
    ELSE FoldLeft(LAMBDA q, succ : Merge(e, s, q, succ, Last(r.known)),
                  [p EXCEPT !.known[b] = r.known, !.todo = @ \ {b}], Succs(f, b))
VisitBlock(e, s, f, p, b) ==
    IF ~p.ok \/ b \notin p.todo THEN p ELSE AfterBlock(e, s, f, p, b, OneBlock(e, s, f, b, Start(p, b)))
RECURSIVE Propagate(_, _, _, _)
Propagate(e, s, f, p) ==
    IF ~p.ok \/ ~p.again THEN p
    ELSE Propagate(e, s, f, FoldLeft(LAMBDA q, b : VisitBlock(e, s, f, q, b), [p EXCEPT !.again = FALSE], f.order))
run_type_analysis_ir2(e, s, f, ts, registers) ==
    LET nothing == TypeState([r \in registers |-> make_uninitialized], <<>>)
        Begin(b) == IF b = 1 THEN construct_initial_typestate(e, ts, registers) ELSE nothing
    IN  Propagate(e, s, f, [ok |-> TRUE, again |-> TRUE, known |-> [b \in DOMAIN f.blocks |-> <<Begin(b)>>],
                            todo |-> DOMAIN f.blocks])
\* At the end the casts stay, each before its operation.
final_types(e, f, p) ==
    [b \in DOMAIN p.known |->
        [i \in DOMAIN p.known[b] |->
            IF i < Len(p.known[b]) THEN try_modify_input_types_for_casts(e, f, <<b, i>>, p.known[b][i]) ELSE p.known[b][i]]]
\* The type of a stack variable is what is known of it everywhere.
SlotType(e, s, known, offset) ==
    typespec(FoldLeft(LAMBDA tp, st : tp_lca(e, s, tp, Slot(st, offset)), make_uninitialized, FlattenSeq(known)))
=============================================================================
