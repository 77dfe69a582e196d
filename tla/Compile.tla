------------------------------- MODULE Compile -------------------------------
(* The front end of the compiler on integer expressions (goalc/compiler/     *)
(* compilation/Math, ControlFlow, Block, Define, Function; Val.cpp): a form  *)
(* emits operations (IR) and returns a value, which may not have been        *)
(* computed yet.                                                             *)
(*                                                                           *)
(* A form is [op, args, name, n].  The state of a compilation is             *)
(*   [code, regs, labels, returned, val, con, ok]                            *)
(* the operations, the number of registers, where each label is, the blocks  *)
(* that are returned from, the value and the condition last compiled.        *)
EXTENDS Integers, Sequences, FiniteSets, TLC

Form(op, args, name, n) == [op |-> op, args |-> args, name |-> name, n |-> n]

Op(name, kind, dst, src, n) == [name |-> name, kind |-> kind, dst |-> dst, src |-> src, n |-> n]
Val(k, r, n, type) == [k |-> k, r |-> r, n |-> n, type |-> type]
None == Val("none", 0, 0, "none")
Register(r, type) == Val("reg", r, 0, type)

\* The registers of the variables are the first ones.
Begin(variables) ==
    [code |-> <<>>, regs |-> variables, labels |-> <<>>, returned |-> {}, val |-> None,
     con |-> [kind |-> "", a |-> 0, b |-> 0, signed |-> FALSE], ok |-> TRUE]

Emit(s, x) == [s EXCEPT !.code = Append(@, x)]
Error(s) == [s EXCEPT !.ok = FALSE]
Here(s) == Len(s.code) + 1
NewLabel(s) == [s EXCEPT !.labels = Append(@, 0)]
Place(s, label) == [s EXCEPT !.labels[label] = Here(s)]
\* A new register with this type, set by an operation.
Into(s, name, kind, src, n, type) ==
    [Emit(s, Op(name, kind, s.regs + 1, src, n)) EXCEPT !.regs = @ + 1, !.val = Register(s.regs + 1, type)]
Copy(s, r, type) == Into(s, "RegSet", "", <<r>>, 0, type)

\* lowest_common_ancestor: a common type of an int and an
\* uint is signed.
\* The width of a number, 64.
WordBits == 8
Numbers == {"int", "uint"}
Common(types) ==
    LET ts == types \ {"none"} IN
    IF Cardinality(ts) = 1 THEN CHOOSE t \in ts : TRUE ELSE IF ts # {} /\ ts \subseteq Numbers THEN "int" ELSE "object"

\* Val::to_gpr.
to_gpr(s) ==
    CASE s.val.k = "const" -> Into(s, "LoadConstant64", "", <<>>, s.val.n, "int")
      [] s.val.k = "symbol" -> Into(s, "LoadSymbolPointer", "", <<>>, s.val.n, "symbol")
      [] s.val.k = "global" -> Into(s, "GetSymbolValue", "", <<>>, 0, s.val.type)
      [] s.val.k = "reg" -> s
      [] s.val.k = "none" -> Error(s)
Symbol(s, n) == to_gpr([s EXCEPT !.val = Val("symbol", 0, n, "symbol")])
FALSE_ == 0
TRUE_ == 1

get_power_of_two(n) == CHOOSE p \in {q \in 0 .. 6 : 2 ^ q = n} \cup {-1} : p >= 0 \/ \A q \in 0 .. 6 : 2 ^ q # n
PowerOfTwo(val) == IF val.k = "const" /\ val.n > 0 THEN get_power_of_two(val.n) ELSE -1

MathOp(s, kind, r, n) == Emit(s, Op("IntegerMath", kind, r, IF s.val.k = "reg" /\ n < 0 THEN <<s.val.r>> ELSE <<>>, n))
\* to_math_type on integers: nothing else can be converted to one here.
Math(s) == IF s.val.type \in Numbers THEN s ELSE Error(s)

conditions_normal ==
    [op \in {"!=", "=", ">", "<", ">=", "<="} |->
        CASE op = "!=" -> "NOT_EQUAL" [] op = "=" -> "EQUAL" [] op = ">" -> "GT" [] op = "<" -> "LT" [] op = ">=" -> "GEQ"
          [] op = "<=" -> "LEQ"]
\* Mutant: the opposites of < and > are strict.
conditions_inverted_Strict ==
    [op \in DOMAIN conditions_normal |->
        CASE op = "!=" -> "EQUAL" [] op = "=" -> "NOT_EQUAL" [] op = ">" -> "LT" [] op = "<" -> "GT" [] op = ">=" -> "LT"
          [] op = "<=" -> "GT"]
conditions_inverted ==
    [op \in DOMAIN conditions_normal |->
        CASE op = "!=" -> "EQUAL" [] op = "=" -> "NOT_EQUAL" [] op = ">" -> "LEQ" [] op = "<" -> "GEQ" [] op = ">=" -> "LT"
          [] op = "<=" -> "GT"]
-----------------------------------------------------------------------------
RECURSIVE Compile(_, _, _), Accumulate(_, _, _, _, _), Body(_, _, _), Arguments(_, _, _, _), compile_condition(_, _, _, _),
          Cases(_, _, _, _, _, _), AndOr(_, _, _, _, _, _)

\* The rest of the operands of +, * and -, each combined into r when compiled.
Accumulate(s, op, r, args, env) ==
    LET Next(val, shift) ==
            IF op = "*" /\ shift >= 0 THEN MathOp(val, "SHL_64", r, shift)
            ELSE MathOp(to_gpr(Math(val)), CASE op = "+" -> "ADD_64" [] op = "*" -> "IMUL_32" [] op = "-" -> "SUB_64", r, -1)
        Combine(val) == Next(val, PowerOfTwo(val.val))
    IN IF args = <<>> THEN s ELSE Accumulate(Combine(Compile(Head(args), env, s)), op, r, Tail(args), env)

compile_add(f, env, s) ==
    LET Rest(result) == [Accumulate(result, f.op, result.val.r, Tail(f.args), env) EXCEPT !.val = result.val]
        Copied(first) == Rest(Copy(first, first.val.r, first.val.type))
    IN Copied(to_gpr(Math(Compile(f.args[1], env, s))))

\* The first operand is compiled for its type, then again for its value.
compile_sub(f, env, s) ==
    LET Rest(result, args) == [Accumulate(result, "-", result.val.r, args, env) EXCEPT !.val = result.val]
        Copied(again, type) == Rest(Copy(again, again.val.r, type), Tail(f.args))
        Typed(first) ==
            IF Len(f.args) = 1 THEN Rest(to_gpr([first EXCEPT !.val = Val("const", 0, 0, "int")]), f.args)
            ELSE Copied(to_gpr(Compile(f.args[1], env, first)), first.val.type)
    IN Typed(Math(Compile(f.args[1], env, s)))

compile_div(f, env, s) ==
    LET Quotient(result, val, shift, signed) ==
            [IF shift >= 0 THEN MathOp(val, IF signed THEN "SAR_64" ELSE "SHR_64", result.r, shift)
             ELSE MathOp(to_gpr(Math(val)), IF signed THEN "IDIV_32" ELSE "UDIV_32", result.r, -1)
             EXCEPT !.val = result]
        By(result, val) == Quotient(result, val, PowerOfTwo(val.val), result.type = "int")
        Rest(result) == By(result.val, Compile(f.args[2], env, result))
        Copied(first) == Rest(Copy(first, first.val.r, first.val.type))
    IN Copied(to_gpr(Math(Compile(f.args[1], env, s))))

Kind(op) ==
    CASE op = "logand" -> "AND_64" [] op = "logior" -> "OR_64" [] op = "logxor" -> "XOR_64" [] op = "mod" -> "IMOD_32"
      [] op = "lognot" -> "NOT_64" [] op = "shl" -> "SHL_64" [] op = "shr" -> "SHR_64" [] op = "sar" -> "SAR_64"
Variable(op) == CASE op = "shl" -> "SHLV_64" [] op = "shr" -> "SHRV_64" [] op = "sar" -> "SARV_64"

\* logand, logior, logxor and mod: the first is copied when the second is there.
compile_logical(f, env, s) ==
    LET Combined(result, second) ==
            [Emit(result, Op("IntegerMath", Kind(f.op), result.val.r, <<second>>, -1)) EXCEPT !.val = result.val]
        Copied(first, second) == Combined(Copy(second, first.r, first.type), second.val.r)
        Rest(first) == Copied(first.val, to_gpr(Math(Compile(f.args[2], env, first))))
    IN Rest(to_gpr(Math(Compile(f.args[1], env, s))))

compile_lognot(f, env, s) ==
    LET Negated(result) == MathOp(result, "NOT_64", result.val.r, 0)
        Copied(first) == Negated(Copy(first, first.val.r, first.val.type))
    IN Copied(to_gpr(Math(Compile(f.args[1], env, s))))

compile_shift(f, env, s) ==
    LET Fixed(result) == MathOp(result, Kind(f.op), result.val.r, f.args[2].n)
        Shifted(result, sa_in) == [Emit(sa_in, Op("IntegerMath", Variable(f.op), result.r, <<sa_in.val.r>>, -1)) EXCEPT !.val = result]
        Amount(result, second) == Shifted(result.val, Copy(result, second.r, second.type))
        Copied(first, second) == Amount(Copy(second, first.r, first.type), second.val)
        First(first) ==
            IF f.args[2].op # "const" THEN Copied(first.val, to_gpr(Math(Compile(f.args[2], env, first))))
            ELSE IF f.args[2].n \in 0 .. WordBits THEN Fixed(Copy(first, first.val.r, first.val.type)) ELSE Error(s)
    IN First(to_gpr(Math(Compile(f.args[1], env, s))))

\* A condition to branch on.  Both operands are compiled before either is put
\* into a register.
compile_condition(f, env, s, invert) ==
    LET Condition(kind, a, b, signed) == [b EXCEPT !.con = [kind |-> kind, a |-> a, b |-> b.val.r, signed |-> signed]]
        Relation == IF invert THEN conditions_inverted[f.op] ELSE conditions_normal[f.op]
        Loaded(a, second, signed) == Condition(Relation, a.val.r, to_gpr([a EXCEPT !.val = second]), signed)
        Operands(first, second) == Loaded(to_gpr([second EXCEPT !.val = first]), second.val, first.type = "int")
        First(first) == Operands(first.val, Compile(f.args[2], env, first))
        Truth(a) == Condition(IF invert THEN "EQUAL" ELSE "NOT_EQUAL", a.val.r, Symbol(a, FALSE_), FALSE)
    IN IF f.op = "not" THEN compile_condition(f.args[1], env, s, ~invert)
       ELSE IF f.op \in DOMAIN conditions_normal THEN First(Compile(f.args[1], env, s))
       ELSE Truth(to_gpr(Compile(f, env, s)))

Branch(s, label) == Emit(s, Op("ConditionalBranch", s.con.kind, label, <<s.con.a, s.con.b>>, IF s.con.signed THEN 1 ELSE 0))
Goto(s, label) == Emit(s, Op("GotoLabel", "", label, <<>>, 0))

compile_condition_as_bool(f, env, s) ==
    LET label == Len(s.labels) + 1
        Joined(result, true) == [Place(Emit(true, Op("RegSet", "", result.r, <<true.val.r>>, 0)), label) EXCEPT !.val = result]
        Tested(result) == Joined(result.val, Symbol(Branch(result, label), TRUE_))
    IN Tested(Symbol(compile_condition(f, env, NewLabel(s), TRUE), FALSE_))

\* A list of forms, of which the last is the value.
Body(fs, env, s) ==
    LET Value(result) == IF result.val.k = "none" THEN result ELSE to_gpr(result) IN
    IF fs = <<>> THEN s ELSE Body(Tail(fs), env, Value(Compile(Head(fs), env, s)))
compile_begin(f, env, s) == Body(f.args, env, [s EXCEPT !.val = None])

SetResult(s, r) == IF s.val.k = "none" THEN s ELSE Emit(s, Op("RegSet", "", r, <<s.val.r>>, 0))

\* A case of a cond is a form [op |-> "case" or "else", args |-> the test, if any, and the clauses].
Cases(cases, env, s, r, end, types) ==
    LET next == Len(s.labels) + 1
        Clauses(fs, start) == Body(fs, env, [start EXCEPT !.val = None])
        Otherwise(result) == [Place(SetResult(result, r), end) EXCEPT !.val = Register(r, Common(types \cup {result.val.type}))]
        Rest(result) == Cases(Tail(cases), env, Place(Goto(SetResult(result, r), end), next), r, end, types \cup {result.val.type})
    IN IF cases = <<>>
       THEN [Place(Emit(s, Op("LoadSymbolPointer", "", r, <<>>, FALSE_)), end) EXCEPT !.val = Register(r, Common(types))]
       ELSE IF Head(cases).op = "else" THEN Otherwise(Clauses(Head(cases).args, s))
       ELSE Rest(Clauses(Tail(Head(cases).args), Branch(compile_condition(Head(cases).args[1], env, NewLabel(s), TRUE), next)))
compile_cond(f, env, s) ==
    Cases(f.args, env, NewLabel([s EXCEPT !.regs = @ + 1]), s.regs + 1, Len(s.labels) + 1, {})

AndOr(op, fs, env, s, r, end) ==
    LET Tested(false) ==
            Branch([false EXCEPT !.con = [kind |-> IF op = "and" THEN "EQUAL" ELSE "NOT_EQUAL", a |-> r, b |-> false.val.r, signed |-> FALSE]], end)
        Rest(set) == IF Len(fs) = 1 THEN Place(set, end) ELSE AndOr(op, Tail(fs), env, Tested(Symbol(set, FALSE_)), r, end)
        Stored(temp) == Rest(Emit(temp, Op("RegSet", "", r, <<temp.val.r>>, 0)))
    IN Stored(to_gpr(Compile(Head(fs), env, s)))
compile_and_or(f, env, s) ==
    [AndOr(f.op, f.args, env, NewLabel([s EXCEPT !.regs = @ + 1]), s.regs + 1, Len(s.labels) + 1)
     EXCEPT !.val = Register(s.regs + 1, "object")]

ReturnTypes(s, end) == {r[2] : r \in {q \in s.returned : q[1] = end}}
\* The block's own register is its value only when something returns from it.
compile_block(f, env, s) ==
    LET ret == s.regs + 1
        end == Len(s.labels) + 1
        Ended(result, returned) ==
            IF returned = {} THEN result
            ELSE [Place(SetResult(result, ret), end) EXCEPT !.val = Register(ret, Common(returned \cup {result.val.type}))]
        Left(result) == Ended(result, ReturnTypes(result, end))
    IN Left(Body(f.args, [env EXCEPT !.blocks = (f.name :> [ret |-> ret, end |-> end]) @@ @],
                 [NewLabel([s EXCEPT !.regs = @ + 1]) EXCEPT !.val = None]))
compile_return_from(f, env, s) ==
    LET block == env.blocks[f.name]
        Returned(result) ==
            [Goto(SetResult(result, block.ret), block.end) EXCEPT !.returned = @ \cup {<<block.end, result.val.type>>}, !.val = None]
    IN Returned(to_gpr(Compile(f.args[1], env, s)))

\* The labels of a function are numbers that the form knows.
compile_goto(f, s) == [Goto(s, f.n) EXCEPT !.val = None]
compile_label(f, s) == [Place(s, f.n) EXCEPT !.val = None]
compile_when_goto(f, env, s) == [Branch(compile_condition(f.args[1], env, s, FALSE), f.n) EXCEPT !.val = None]

\* set! returns the register of its source.
compile_set(f, env, s) ==
    LET Assigned(source) ==
            Emit(source, IF f.name = "g" THEN Op("SetSymbolValue", "", 0, <<source.val.r>>, 0)
                         ELSE Op("RegSet", "", env.vars[f.name], <<source.val.r>>, 0))
    IN Assigned(to_gpr(Compile(f.args[1], env, s)))

\* The arguments, each in some register: perhaps that of a variable.
Arguments(args, env, s, regs) ==
    LET Rest(a) == Arguments(Tail(args), env, a, Append(regs, a.val)) IN
    IF args = <<>> THEN [s |-> s, regs |-> regs] ELSE Rest(to_gpr(Compile(Head(args), env, s)))

RECURSIVE CopyAll(_, _)
CopyAll(s, vals) ==
    IF vals = <<>> THEN s ELSE CopyAll(Copy(s, Head(vals).r, Head(vals).type), Tail(vals))

\* A real call: the arguments are copied just before it.
compile_call(f, env, s) ==
    LET Called(temp_function, copies) == Into(temp_function, "FunctionCall", "", <<temp_function.val.r>> \o copies, 0, "int")
        Outs(function, args) ==
            Called(Copy(CopyAll(args.s, args.regs), function, "function"), [i \in 1 .. Len(f.args) |-> args.s.regs + i])
        Function(function) == Outs(function.val.r, Arguments(f.args, env, function, <<>>))
    IN Function(to_gpr([s EXCEPT !.val = Val("symbol", 0, f.n, "function")]))

\* A lambda applied at once (let), or a function that is inlined: f.args is the
\* value of its parameter f.name and its body.
compile_inline(f, env, s) ==
    LET Ended(result, ret, end, returned) ==
            IF returned = {} THEN Emit(result, Op("Null", "", 0, <<>>, 0))
            ELSE [Place(Emit(SetResult(result, ret), Op("Null", "", 0, <<>>, 0)), end)
                  EXCEPT !.val = Register(ret, Common(returned \cup {result.val.type}))]
        Left(result, ret, end) == Ended(result, ret, end, ReturnTypes(result, end))
        Scope(param, ret, end) ==
            [env EXCEPT !.vars = (f.name :> param.r) @@ @, !.types = (f.name :> param.type) @@ @,
                        !.blocks = IF f.op = "let" THEN @ ELSE ("#f" :> [ret |-> ret, end |-> end]) @@ @]
        Inlined(copy, ret, end) ==
            Left(Body(Tail(f.args), Scope(copy.val, ret, end), [NewLabel([copy EXCEPT !.regs = @ + 1]) EXCEPT !.val = None]), ret, end)
        Bound(copy) == Inlined(copy, copy.regs + 1, Len(copy.labels) + 1)
        Copied(arg) == Bound(Copy(arg, arg.val.r, arg.val.type))
    IN Copied(to_gpr(Compile(f.args[1], env, s)))

Compile(f, env, s) ==
    CASE f.op = "const" -> [s EXCEPT !.val = Val("const", 0, f.n, "int")]
      [] f.op = "var" -> [s EXCEPT !.val = IF f.name = "g" THEN Val("global", 0, 0, "int") ELSE Register(env.vars[f.name], env.types[f.name])]
      [] f.op = "symbol" -> [s EXCEPT !.val = Val("symbol", 0, f.n, "symbol")]
      [] f.op \in {"+", "*"} -> compile_add(f, env, s)
      [] f.op = "-" -> compile_sub(f, env, s)
      [] f.op = "/" -> compile_div(f, env, s)
      [] f.op \in {"logand", "logior", "logxor", "mod"} -> compile_logical(f, env, s)
      [] f.op = "lognot" -> compile_lognot(f, env, s)
      [] f.op \in {"shl", "shr", "sar"} -> compile_shift(f, env, s)
      [] f.op \in DOMAIN conditions_normal \cup {"not"} -> compile_condition_as_bool(f, env, s)
      [] f.op = "begin" -> compile_begin(f, env, s)
      [] f.op = "cond" -> compile_cond(f, env, s)
      [] f.op \in {"and", "or"} -> compile_and_or(f, env, s)
      [] f.op = "block" -> compile_block(f, env, s)
      [] f.op = "return-from" -> compile_return_from(f, env, s)
      [] f.op = "goto" -> compile_goto(f, s)
      [] f.op = "label" -> compile_label(f, s)
      [] f.op = "when-goto" -> compile_when_goto(f, env, s)
      [] f.op = "set!" -> compile_set(f, env, s)
      [] f.op = "call" -> compile_call(f, env, s)
      [] f.op \in {"let", "inline"} -> compile_inline(f, env, s)

\* A form whose value is used; a form whose type is.
CompileToGpr(f, env, s) == to_gpr(Compile(f, env, s))
CompiledType(f, env) == Compile(f, env, Begin(9)).val.type
-----------------------------------------------------------------------------
(* Bitfields of a 64-bit or 128-bit value.                                   *)

set_bits_in_bitfield(size, offset, dst, src, temp) ==
    LET left == WordBits - size
        right == WordBits - size - offset
        mask == 2 ^ WordBits - 1 - (2 ^ size - 1) * 2 ^ offset
    IN <<Op("LoadConstant64", "", temp, <<>>, mask), Op("IntegerMath", "AND_64", dst, <<temp>>, -1), Op("RegSet", "", temp, <<src>>, 0)>>
       \o (IF left > 0 THEN <<Op("IntegerMath", "SHL_64", temp, <<>>, left)>> ELSE <<>>)
       \o (IF right > 0 THEN <<Op("IntegerMath", "SHR_64", temp, <<>>, right)>> ELSE <<>>)
       \o <<Op("IntegerMath", "OR_64", dst, <<temp>>, -1)>>

\* The registers: the value, a copy of it, 64 bits of it, the source and a
\* temporary.  The first two are 128-bit registers when it is wide.
set_bitfield(size, offset) ==
    <<Op("RegSet", "", 2, <<1>>, 0)>> \o set_bits_in_bitfield(size, offset, 2, 4, 5) \o <<Op("RegSet", "", 1, <<2>>, 0)>>
Wide(kind, dst, a, b) == Op("Int128Math3Asm", kind, dst, <<a, b>>, 0)
set_bitfield_128(size, offset) ==
    LET top == offset >= WordBits IN
    (IF top THEN <<Wide("PCPYUD", 2, 1, 1)>> ELSE <<Op("RegSet", "", 2, <<1>>, 0)>>)
    \o <<Op("RegSet", "", 3, <<2>>, 0)>>
    \o set_bits_in_bitfield(size, IF top THEN offset - WordBits ELSE offset, 3, 4, 5)
    \o <<Op("RegSet", "", 2, <<3>>, 0)>>
    \o (IF top THEN <<Wide("PCPYLD", 2, 2, 1)>> ELSE <<Wide("PCPYLD", 2, 2, 2), Wide("PCPYUD", 2, 2, 1)>>)
    \o <<Op("RegSet", "", 1, <<2>>, 0)>>

\* BitFieldVal::to_reg, into register 5.
get_bitfield(size, offset, sign_extend) ==
    LET start == IF offset < WordBits THEN offset ELSE offset - WordBits
        epad == WordBits - (start + size)
        shift == epad + start
    IN (IF offset < WordBits THEN <<Op("RegSet", "", 5, <<1>>, 0)>> ELSE <<Wide("PCPYUD", 2, 1, 1), Op("RegSet", "", 5, <<2>>, 0)>>)
       \o (IF epad > 0 THEN <<Op("IntegerMath", "SHL_64", 5, <<>>, epad)>> ELSE <<>>)
       \o (IF shift > 0 THEN <<Op("IntegerMath", IF sign_extend THEN "SAR_64" ELSE "SHR_64", 5, <<>>, shift)>> ELSE <<>>)
==============================================================================
