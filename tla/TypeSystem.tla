----------------------------- MODULE TypeSystem -----------------------------
(* The types of GOAL: what a type is, how a program adds types to the        *)
(* system, and what the compiler and the decompiler ask of it.  A form that  *)
(* throws returns ok = FALSE with what it had already changed.               *)
EXTENDS Integers, Sequences, FiniteSets, SequencesExt, FiniteSetsExt, TLC

POINTER_SIZE == 4
BASIC_OFFSET == 4
STRUCTURE_ALIGNMENT == 16
ARRAY_DATA_OFFSET == 12

Least(a, b) == IF a < b THEN a ELSE b
Most(a, b) == IF a > b THEN a ELSE b
align(size, to) == ((size + to - 1) \div to) * to
Quot(a, b) == IF a >= 0 THEN a \div b ELSE -((-a) \div b)

(***************************************************************************)
(* References to types.                                                    *)
(***************************************************************************)
TypeSpec(base, args) == [base |-> base, args |-> args, behavior |-> ""]
Spec(name) == TypeSpec(name, <<>>)
has_single_arg(ts) == Len(ts.args) = 1
make_pointer_typespec(ts) == TypeSpec("pointer", <<ts>>)
make_inline_array_typespec(ts) == TypeSpec("inline-array", <<ts>>)

RECURSIVE is_compatible_child_method(_, _, _)
is_compatible_child_method(ts, implementation, child) ==
    /\ implementation.base = ts.base \/ (ts.base = "_type_" /\ implementation.base = child)
    /\ Len(implementation.args) = Len(ts.args)
    /\ \A i \in DOMAIN ts.args : is_compatible_child_method(ts.args[i], implementation.args[i], child)

RECURSIVE substitute_for_method_call(_, _)
substitute_for_method_call(ts, method_type) ==
    TypeSpec(IF ts.base = "_type_" THEN method_type ELSE ts.base,
             [i \in DOMAIN ts.args |-> substitute_for_method_call(ts.args[i], method_type)])

coerce_to_reg_type(ts) ==
    IF ts.args # <<>> THEN ts
    ELSE IF ts.base \in {"int8", "int16", "int32", "int64", "integer"} THEN Spec("int")
    ELSE IF ts.base \in {"uint8", "uint16", "uint32", "uint64", "uinteger"} THEN Spec("uint")
    ELSE ts

(***************************************************************************)
(* Types.                                                                  *)
(***************************************************************************)
MethodInfo(id, name, type, in, no_virtual, overrides) ==
    [id |-> id, name |-> name, type |-> type, in |-> in, no_virtual |-> no_virtual, overrides |-> overrides]
Field(name, type) ==
    [name |-> name, type |-> type, offset |-> -1, inline |-> FALSE, dynamic |-> FALSE, array |-> FALSE,
     array_size |-> 0, alignment |-> -1, skip |-> FALSE, placed |-> FALSE, score |-> 0]
Type(kind, parent, name, boxed) ==
    [kind |-> kind, parent |-> parent, name |-> name, runtime |-> name, boxed |-> boxed, heap_base |-> 0,
     methods |-> <<>>, new |-> <<>>, size |-> 0, offset |-> 0, signed |-> FALSE, reg |-> "gpr64",
     fields |-> <<>>, dynamic |-> FALSE, pack |-> FALSE, misalign |-> FALSE, first |-> 0, final |-> FALSE,
     entries |-> <<>>, bits |-> FALSE]
NullType(name) == Type("null", "", name, FALSE)
ValueType(parent, name, boxed, size, signed, reg) ==
    [Type("value", parent, name, boxed) EXCEPT !.size = size, !.signed = signed, !.reg = reg]
StructureType(parent, name, boxed) == Type("structure", parent, name, boxed)
BasicType(parent, name) == Type("basic", parent, name, TRUE)
BitFieldType(parent, name, size, signed) ==
    [ValueType(parent, name, FALSE, size, signed, "gpr64") EXCEPT !.kind = "bitfield"]
BitField(type, name, offset, size) == [name |-> name, type |-> type, offset |-> offset, size |-> size]
EnumType(parent, name, is_bitfield, entries) ==
    [ValueType(parent.name, name, parent.boxed, parent.size, parent.signed, parent.reg)
        EXCEPT !.kind = "enum", !.bits = is_bitfield, !.entries = entries]

IsStructure(t) == t.kind \in {"structure", "basic"}
is_reference(t) == IsStructure(t)
get_load_size(t) == IF is_reference(t) THEN POINTER_SIZE ELSE t.size
get_load_signed(t) == ~is_reference(t) /\ t.signed
get_offset(t) == IF t.kind = "basic" THEN BASIC_OFFSET ELSE t.offset
get_in_memory_alignment(t) == IF is_reference(t) THEN STRUCTURE_ALIGNMENT ELSE t.size
StrictestField(t, least) == FoldLeft(LAMBDA a, f : Most(a, f.alignment), least, t.fields)
get_inline_array_stride_alignment(t) ==
    IF ~is_reference(t) THEN t.size
    ELSE IF t.pack THEN StrictestField(t, 1) ELSE STRUCTURE_ALIGNMENT
get_inline_array_start_alignment(t) ==
    CASE t.kind = "basic" -> IF t.pack THEN StrictestField(t, 8) ELSE STRUCTURE_ALIGNMENT
      [] t.kind = "structure" -> IF t.pack \/ t.misalign THEN StrictestField(t, 1) ELSE STRUCTURE_ALIGNMENT
      [] OTHER -> t.size

ValueInherit(t, parent) ==
    [t EXCEPT !.signed = parent.signed, !.size = parent.size, !.offset = parent.offset, !.reg = parent.reg]
StructureInherit(t, parent) ==
    [t EXCEPT !.fields = parent.fields, !.dynamic = parent.dynamic, !.size = parent.size,
              !.first = Len(parent.fields)]
\* What the comparison of two fields looks at.
FieldKey(f) == [f EXCEPT !.skip = FALSE, !.score = 0, !.placed = FALSE]
\* What the comparison of two types of a class looks at.
TypeKey(t) ==
    IF IsStructure(t) THEN [t EXCEPT !.fields = [i \in DOMAIN t.fields |-> FieldKey(t.fields[i])]]
    ELSE IF t.kind \in {"bitfield", "enum"} THEN [t EXCEPT !.size = 0, !.signed = FALSE, !.reg = "", !.offset = 0]
    ELSE t
SameType(a, b) == a.kind # "null" /\ TypeKey(a) = TypeKey(b)

has_parent(t) == t.name # "object" /\ t.parent # ""
get_my_method(t, name) == SelectSeq(t.methods, LAMBDA m : m.name = name)
get_my_method_id(t, id) == SelectSeq(t.methods, LAMBDA m : m.id = id)
get_my_last_method(t) == SelectSeq(t.methods, LAMBDA m : ~m.overrides)
Last1(s) == IF s = <<>> THEN <<>> ELSE <<Last(s)>>
CanAddMethod(t, info) == \A m \in ToSet(Last1(get_my_last_method(t))) : m.id + 1 = info.id
lookup_field(t, name) == SelectSeq(t.fields, LAMBDA f : f.name = name)

(***************************************************************************)
(* The system: the types, the types that are only declared with what they  *)
(* will be, and the numbers of methods foreseen.                           *)
(***************************************************************************)
System == [types |-> <<>>, forward |-> <<>>, counts |-> <<>>]
fully_defined_type_exists(s, name) == name \in DOMAIN s.types
partially_defined_type_exists(s, name) == name \in DOMAIN s.forward
make_typespec_ok(s, name) == fully_defined_type_exists(s, name) \/ partially_defined_type_exists(s, name)
lookup_type(s, name) == s.types[name]

Unknown == Type("unknown", "", "", FALSE)
RECURSIVE lookup_type_allow_partial_def(_, _)
lookup_type_allow_partial_def(s, name) ==
    IF name \in DOMAIN s.types THEN s.types[name]
    ELSE IF name \in DOMAIN s.forward THEN lookup_type_allow_partial_def(s, s.forward[name])
    ELSE Unknown

RECURSIVE Ancestors(_, _)
\* A type with all its parents, itself first.
Ancestors(s, t) == <<t>> \o (IF has_parent(t) THEN Ancestors(s, s.types[t.parent]) ELSE <<>>)

get_next_method_id(s, t) ==
    LET Firsts == SelectSeq(Ancestors(s, t), LAMBDA a : get_my_last_method(a) # <<>>)
    IN  IF Firsts = <<>> THEN 1 ELSE Last(get_my_last_method(Firsts[1])).id + 1
\* The answer of the first on the way up that has one; method 0 is new, which every type may have its own of.
Own(t, name) == IF name = "new" THEN t.new ELSE get_my_method(t, name)
OwnById(t, id) == IF id = 0 THEN t.new ELSE get_my_method_id(t, id)
try_lookup_method(s, t, name) ==
    LET Having == SelectSeq(Ancestors(s, t), LAMBDA a : Own(a, name) # <<>>)
    IN  IF Having = <<>> THEN <<>> ELSE <<Own(Having[1], name)[1]>>
try_lookup_method_id(s, t, id) ==
    LET Having == SelectSeq(Ancestors(s, t), LAMBDA a : OwnById(a, id) # <<>>)
    IN  IF Having = <<>> THEN <<>> ELSE <<OwnById(Having[1], id)[1]>>
should_use_virtual_methods(s, t, id) ==
    t.kind = "basic" /\ ~t.final /\ \A m \in ToSet(try_lookup_method_id(s, t, id)) : ~m.no_virtual

(***************************************************************************)
(* Is a thing of this type one of that type?                               *)
(***************************************************************************)
\* The unit types are not picky.
Unpicky(name) ==
    CASE name \in {"meters", "degrees"} -> "float"
      [] name = "seconds" -> "uint"
      [] OTHER -> name
typecheck_base_types(s, input_expected, actual) ==
    \E expected \in {Unpicky(input_expected)}, t \in {lookup_type_allow_partial_def(s, actual)} :
        /\ lookup_type_allow_partial_def(s, expected) # Unknown
        /\ t # Unknown
        /\ \/ expected = actual
           \/ \E a \in ToSet(Ancestors(s, t)) : a.name = expected
RECURSIVE tc(_, _, _)
tc(s, expected, actual) ==
    /\ typecheck_base_types(s, expected.base, actual.base)
    /\ \/ expected.args = <<>>
       \/ /\ Len(expected.args) = Len(actual.args)
          /\ \A i \in DOMAIN expected.args : tc(s, expected.args[i], actual.args[i])
    /\ expected.behavior # "" => actual.behavior = expected.behavior
tcb(s, expected, actual) == tc(s, Spec(expected), Spec(actual))

\* The name of a type, then of its parents.
get_path_up_tree(s, name) ==
    LET t == lookup_type_allow_partial_def(s, name)
        Up == Ancestors(s, s.types[t.parent])
    IN  <<name>> \o [i \in DOMAIN Up |-> Up[i].name]
LastShared(a_up, b_up) ==
    a_up[Max({i \in 1 .. Least(Len(a_up), Len(b_up)) : \A j \in 1 .. i : a_up[j] = b_up[j]})]
lca_base(s, a, b) ==
    IF a = b THEN a
    ELSE IF a = "none" \/ b = "none" THEN "none"
    ELSE LastShared(Reverse(get_path_up_tree(s, a)), Reverse(get_path_up_tree(s, b)))
RECURSIVE lowest_common_ancestor(_, _, _)
WithArguments(s, a, b, result) ==
    LET AnyArguments == Len(a.args) = 2 /\ "_varargs_" \in {a.args[1].base, b.args[1].base}
    IN  IF a.args = <<>> \/ Len(a.args) # Len(b.args) \/ (result = "function" /\ AnyArguments) THEN Spec(result)
        ELSE TypeSpec(result, [i \in DOMAIN a.args |-> lowest_common_ancestor(s, a.args[i], b.args[i])])
lowest_common_ancestor(s, a, b) == WithArguments(s, a, b, lca_base(s, a.base, b.base))

(***************************************************************************)
(* Adding types.                                                           *)
(***************************************************************************)
Accept(s) == [ok |-> TRUE, s |-> s]
Throw(s) == [ok |-> FALSE, s |-> s]
Without(f, name) == [n \in DOMAIN f \ {name} |-> f[n]]
Set(f, name, value) == (name :> value) @@ f
Roots == {"object", "none", "_type_", "_varargs_"}

\* A different second definition throws: nothing in the repository sets
\* m_allow_redefinition, which would accept some.
add_type(s, t) ==
    LET name == t.name
        known == name \in DOMAIN s.types
        with == [s EXCEPT !.types = Set(s.types, name, t)]
    IN  CASE name \in DOMAIN s.counts /\ get_next_method_id(s, t) # s.counts[name] -> Throw(s)
          [] known -> IF SameType(s.types[name], t) THEN Accept(s) ELSE Throw(s)
          [] name \notin Roots /\ t.parent \notin DOMAIN s.types -> Throw(s)
          [] name \in DOMAIN s.forward /\ ~tcb(with, s.forward[name], name) -> Throw(with)
          [] OTHER -> Accept([with EXCEPT !.forward = Without(s.forward, name)])

\* Mutant: a second declaration replaces the first even when it says less.
forward_declare_type_as_Last(s, name, parent) == Accept([s EXCEPT !.forward = Set(s.forward, name, parent)])
forward_declare_type_as(s, name, parent) ==
    LET known == name \in DOMAIN s.types
        before == s.forward[name]
    IN  CASE known -> IF parent \in DOMAIN s.types /\ tcb(s, parent, name) THEN Accept(s) ELSE Throw(s)
          [] name \notin DOMAIN s.forward -> Accept([s EXCEPT !.forward = Set(s.forward, name, parent)])
          [] before = parent -> Accept(s)
          [] {before, parent} \subseteq DOMAIN s.types /\ tcb(s, before, parent) ->
                Accept([s EXCEPT !.forward = Set(s.forward, name, parent)])
          [] {before, parent} \subseteq DOMAIN s.types /\ tcb(s, parent, before) -> Accept(s)
          [] OTHER -> Throw(s)

forward_declare_type_method_count(s, name, count) ==
    IF \/ name \in DOMAIN s.counts /\ s.counts[name] # count
       \/ name \in DOMAIN s.types /\ get_next_method_id(s, s.types[name]) # count
    THEN Throw(s)
    ELSE Accept([s EXCEPT !.counts = Set(s.counts, name, count)])

(***************************************************************************)
(* Fields.                                                                 *)
(***************************************************************************)
get_alignment_in_type(s, f) ==
    LET t == lookup_type_allow_partial_def(s, f.type.base)
    IN  IF f.inline THEN get_inline_array_start_alignment(t)
        ELSE IF is_reference(t) THEN POINTER_SIZE
        ELSE get_in_memory_alignment(t)

\* Only what is fully defined has a size, and the roots are not meant inline.
AllowInline(s, f) ==
    /\ fully_defined_type_exists(s, f.type.base)
    /\ f.type.base \notin {"basic", "structure"}
    /\ is_reference(s.types[f.type.base])
get_size_in_type(s, f) ==
    LET t == lookup_type_allow_partial_def(s, f.type.base)
        One == CASE f.inline /\ f.array -> align(t.size, get_inline_array_stride_alignment(t))
                 [] f.inline -> t.size
                 [] is_reference(t) -> POINTER_SIZE
                 [] OTHER -> align(t.size, get_in_memory_alignment(t))
    IN  IF f.dynamic THEN 0 ELSE IF f.array THEN f.array_size * One ELSE One
HasSize(s, f) ==
    /\ lookup_type_allow_partial_def(s, f.type.base).kind \notin {"null", "unknown"}
    /\ f.inline /\ ~f.dynamic => AllowInline(s, f)

\* def: the field as written, array = -1 when it is none, offset = -1 when it is not placed.
FieldOf(def) ==
    [Field(def.name, def.type) EXCEPT
        !.inline = def.inline, !.dynamic = def.dynamic, !.array = def.dynamic \/ def.array # -1,
        !.array_size = IF def.array # -1 THEN def.array ELSE 0, !.placed = def.offset # -1, !.score = def.score,
        !.skip = def.skip]
Grown(t, to) == [t EXCEPT !.size = Most(t.size, to)]
PlaceField(s, t, f, def, offset) ==
    IF offset # align(offset, f.alignment) \/ def.assert \notin {-1, offset} THEN [ok |-> FALSE, t |-> t]
    ELSE [ok |-> TRUE,
          t |-> [Grown(t, offset + get_size_in_type(s, f)) EXCEPT !.fields = Append(@, [f EXCEPT !.offset = offset]),
                                                                  !.dynamic = @ \/ f.dynamic]]
AlignField(s, t, f, def) ==
    PlaceField(s, t, f, def, IF def.offset = -1 THEN align(t.size, f.alignment) ELSE def.offset)
add_field_to_type(s, t, def) ==
    IF lookup_field(t, def.name) # <<>> \/ ~HasSize(s, FieldOf(def)) THEN [ok |-> FALSE, t |-> t]
    ELSE AlignField(s, t, [FieldOf(def) EXCEPT !.alignment = get_alignment_in_type(s, FieldOf(def))], def)

add_field_to_bitfield(s, t, def) ==
    LET load_size == get_load_size(s.types[def.type.base]) * 8
        size == IF def.size = -1 THEN load_size ELSE def.size
        Fits == /\ def.offset # -1
                /\ size <= load_size
                /\ size + def.offset <= get_load_size(t) * 8
                /\ ~(def.offset < 64 /\ def.offset + size > 64)
    IN  IF def.type.base \in DOMAIN s.types /\ Fits
        THEN [ok |-> TRUE, t |-> [t EXCEPT !.fields = Append(@, BitField(def.type, def.name, def.offset, size))]]
        ELSE [ok |-> FALSE, t |-> t]

(***************************************************************************)
(* Methods.  def: the method as written, id = -1 when it is not given.     *)
(***************************************************************************)
add_method(t, info) ==
    [ok |-> CanAddMethod(t, info), t |-> [t EXCEPT !.methods = Append(@, info)], id |-> info.id]
add_new_method(t, ts) ==
    IF t.new # <<>> THEN [ok |-> is_compatible_child_method(t.new[1].type, ts, t.name), t |-> t, id |-> 0]
    ELSE [ok |-> TRUE, t |-> [t EXCEPT !.new = <<MethodInfo(0, "new", ts, t.name, FALSE, FALSE)>>], id |-> 0]
declare_method(s, t, def) ==
    LET existing == try_lookup_method(s, t, def.name)
        old == existing[1]
        Agrees == /\ is_compatible_child_method(old.type, def.type, t.name)
                  /\ (old.no_virtual \/ def.no_virtual) => old.in = t.name
                  /\ def.no_virtual = old.no_virtual
    IN  CASE def.name = "new" -> IF def.replace THEN [ok |-> FALSE, t |-> t, id |-> 0] ELSE add_new_method(t, def.type)
          [] def.name # "new" /\ def.replace ->
                IF existing = <<>> THEN [ok |-> FALSE, t |-> t, id |-> 0]
                ELSE add_method(t, MethodInfo(old.id, def.name, def.type, t.name, def.no_virtual, TRUE))
          [] def.name # "new" /\ ~def.replace /\ existing # <<>> -> [ok |-> Agrees, t |-> t, id |-> old.id]
          [] OTHER ->
                add_method(t, MethodInfo(get_next_method_id(s, t), def.name, def.type, t.name, def.no_virtual, FALSE))
define_method(s, t, name, ts) ==
    LET existing == try_lookup_method(s, t, name)
    IN  IF name = "new" THEN add_new_method(t, ts)
        ELSE [ok |-> \A old \in ToSet(existing) : is_compatible_child_method(old.type, ts, t.name),
              t |-> t, id |-> IF existing = <<>> THEN -1 ELSE existing[1].id]

(***************************************************************************)
(* The forms of a program.                                                 *)
(***************************************************************************)
RECURSIVE parse_typespec_ok(_, _)
parse_typespec_ok(s, ts) ==
    /\ make_typespec_ok(s, ts.base)
    /\ \A i \in DOMAIN ts.args : parse_typespec_ok(s, ts.args[i])
    /\ ts.behavior # "" => make_typespec_ok(s, ts.behavior)

add_field(s, t, def) == IF parse_typespec_ok(s, def.type) THEN add_field_to_type(s, t, def) ELSE [ok |-> FALSE, t |-> t]
add_bitfield(s, t, def) ==
    IF parse_typespec_ok(s, def.type) THEN add_field_to_bitfield(s, t, def) ELSE [ok |-> FALSE, t |-> t]
WithId(one, id) == IF id \in {-1, one.id} THEN one ELSE [one EXCEPT !.ok = FALSE]
DeclareMethod(s, t, def) ==
    IF parse_typespec_ok(s, def.type) THEN WithId(declare_method(s, t, def), def.id) ELSE [ok |-> FALSE, t |-> t]

\* The asserts of a deftype: -1 where there is none.
AssertsHold(s, t, def) ==
    /\ def.size_assert \in {-1, t.size % 65536}
    /\ def.method_count_assert \in {-1, get_next_method_id(s, t)}
\* The fields in order, then the methods; the first that throws ends it.
Refuse(t) == [ok |-> FALSE, t |-> t]
AddMethods(s, laid, def) ==
    FoldLeft(LAMBDA a, m : IF a.ok THEN DeclareMethod(s, a.t, m) ELSE a, laid, def.methods)
Checked(s, done, def) == IF done.ok /\ AssertsHold(s, done.t, def) THEN done ELSE Refuse(done.t)
parse_structure_def(s, t, def) ==
    LET laid == FoldLeft(LAMBDA a, f : IF a.ok THEN add_field(s, a.t, f) ELSE a, [ok |-> TRUE, t |-> t], def.fields)
    IN  Checked(s, AddMethods(s, laid, def), def)
parse_bitfield_type_def(s, t, def) ==
    LET laid == FoldLeft(LAMBDA a, f : IF a.ok THEN add_bitfield(s, a.t, f) ELSE a, [ok |-> TRUE, t |-> t], def.fields)
    IN  Checked(s, AddMethods(s, laid, def), def)

AddParsed(s, parsed, attributes) == IF parsed.ok THEN add_type(s, attributes @@ parsed.t) ELSE Throw(s)
FinishBasic(s, def, parent, fwd) ==
    IF def.misalign \/ ~fwd.ok THEN Throw(fwd.s)
    ELSE AddParsed(fwd.s, parse_structure_def(fwd.s, StructureInherit(BasicType(def.parent, def.name), parent), def),
                   [pack |-> def.pack, heap_base |-> def.heap_base, final |-> def.final])
DefBasic(s, def, parent) ==
    IF parent.final THEN Throw(s) ELSE FinishBasic(s, def, parent, forward_declare_type_as(s, def.name, "basic"))
FinishStructure(s, def, parent, fwd) ==
    IF def.final \/ ~fwd.ok THEN Throw(fwd.s)
    ELSE AddParsed(fwd.s, parse_structure_def(fwd.s, StructureInherit(StructureType(def.parent, def.name, FALSE), parent), def),
                   [pack |-> def.pack, misalign |-> def.misalign, heap_base |-> def.heap_base])
DefStructure(s, def, parent) == FinishStructure(s, def, parent, forward_declare_type_as(s, def.name, "structure"))
DefBitfield(s, def, parent) ==
    LET t == ValueInherit(BitFieldType(def.parent, def.name, parent.size, parent.signed), parent)
    IN  AddParsed(s, parse_bitfield_type_def(s, [t EXCEPT !.runtime = parent.runtime], def), <<>>)
parse_deftype(s, def) ==
    LET parent == s.types[def.parent]
    IN  CASE def.parent \notin DOMAIN s.types -> Throw(s)
          [] parent.kind = "basic" -> DefBasic(s, def, parent)
          [] parent.kind = "structure" /\ tcb(s, "structure", def.parent) -> DefStructure(s, def, parent)
          [] tcb(s, "integer", def.parent) -> DefBitfield(s, def, parent)
          [] OTHER -> Throw(s)

\* entries: name and value, "next" for one more than the highest so far.
EntryNames(entries) == {entries[i].name : i \in DOMAIN entries}
RECURSIVE Entries(_, _, _)
Entries(sofar, highest, rest) ==
    IF rest = <<>> THEN [ok |-> TRUE, entries |-> sofar]
    ELSE LET one == Head(rest)
             value == IF one.next THEN highest + 1 ELSE one.value
         IN  IF one.name \in EntryNames(sofar) THEN [ok |-> FALSE, entries |-> sofar]
             ELSE Entries(Append(sofar, [name |-> one.name, value |-> value]),
                          IF sofar = <<>> /\ ~one.next THEN value ELSE Most(highest, value), Tail(rest))
parse_defenum(s, def) ==
    LET Copied == IF def.copy = "" THEN <<>> ELSE s.types[def.copy].entries
        parsed == Entries(Copied, -1, def.entries)
        parent == s.types[def.type]
        t == [EnumType(parent, def.name, def.bitfield, parsed.entries) EXCEPT !.runtime = parent.runtime]
    IN  IF /\ def.type \in DOMAIN s.types
           /\ def.copy = "" \/ (def.copy \in DOMAIN s.types /\ s.types[def.copy].kind = "enum")
        THEN IF parsed.ok /\ tcb(s, "integer", def.type) THEN add_type(s, t) ELSE Throw(s)
        ELSE Throw(s)

\* (defmethod name type ...): the type itself may change, by its own new method.
DefMethod(s, def) ==
    IF def.type \notin DOMAIN s.types \/ ~parse_typespec_ok(s, def.ts) THEN Throw(s)
    ELSE LET one == define_method(s, s.types[def.type], def.name, def.ts)
         IN  [ok |-> one.ok /\ one.id # -1, s |-> [s EXCEPT !.types = Set(s.types, def.type, one.t)]]

Evaluate(s, def) ==
    CASE def.form = "deftype" -> parse_deftype(s, def)
      [] def.form = "defenum" -> parse_defenum(s, def)
      [] def.form = "declare-type" -> forward_declare_type_as(s, def.name, def.parent)
      [] def.form = "method-count" -> forward_declare_type_method_count(s, def.name, def.count)
      [] def.form = "defmethod" -> DefMethod(s, def)

(***************************************************************************)
(* The deftype that says what a type is.                                   *)
(***************************************************************************)
generate_field(f) ==
    [name |-> f.name, type |-> f.type, array |-> IF f.array /\ ~f.dynamic THEN f.array_size ELSE -1,
     inline |-> f.inline, dynamic |-> f.dynamic, offset |-> IF f.placed THEN f.offset ELSE -1,
     assert |-> IF f.placed THEN -1 ELSE f.offset, score |-> 0, skip |-> FALSE]
generate_method(m) ==
    [name |-> m.name, type |-> m.type, no_virtual |-> m.no_virtual, replace |-> m.overrides, id |-> m.id]
generate_deftype_footer(s, t) ==
    [methods |-> [i \in DOMAIN t.new |-> generate_method(t.new[i])] \o [i \in DOMAIN t.methods |-> generate_method(t.methods[i])],
     pack |-> t.pack, misalign |-> t.misalign, heap_base |-> t.heap_base,
     size_assert |-> t.size, method_count_assert |-> get_next_method_id(s, t)]
generate_deftype_for_structure(s, t) ==
    LET own == SubSeq(t.fields, t.first + 1, Len(t.fields))
    IN  [form |-> "deftype", name |-> t.name, parent |-> t.parent, final |-> FALSE,
         fields |-> [i \in DOMAIN own |-> generate_field(own[i])]] @@ generate_deftype_footer(s, t)
generate_deftype_for_bitfield(s, t) ==
    [form |-> "deftype", name |-> t.name, parent |-> t.parent, final |-> FALSE,
     fields |-> t.fields] @@ generate_deftype_footer(s, t)
generate_deftype(s, t) ==
    IF IsStructure(t) THEN generate_deftype_for_structure(s, t) ELSE generate_deftype_for_bitfield(s, t)

(***************************************************************************)
(* The types every program begins with.                                    *)
(***************************************************************************)
Args(names) == [i \in DOMAIN names |-> Spec(names[i])]
make_function_typespec(args, result) == TypeSpec("function", Append(Args(args), Spec(result)))
Plain(name, type) ==
    [name |-> name, type |-> type, array |-> -1, inline |-> FALSE, dynamic |-> FALSE, offset |-> -1,
     assert |-> -1, score |-> 0, skip |-> FALSE]
Flexible(name, type) == [Plain(name, type) EXCEPT !.dynamic = TRUE]
Method(name, args, result) ==
    [name |-> name, type |-> make_function_typespec(args, result), no_virtual |-> FALSE, replace |-> FALSE, id |-> -1]

add_builtin_value_types ==
    <<ValueType("object", "pointer", FALSE, 4, FALSE, "gpr64"),
      [ValueType("object", "inline-array", FALSE, 4, FALSE, "gpr64") EXCEPT !.runtime = "pointer"],
      ValueType("object", "number", FALSE, 8, FALSE, "gpr64"), ValueType("number", "float", FALSE, 4, FALSE, "float"),
      ValueType("number", "integer", FALSE, 8, FALSE, "gpr64"), ValueType("integer", "binteger", TRUE, 8, FALSE, "gpr64"),
      ValueType("integer", "sinteger", FALSE, 8, TRUE, "gpr64"), ValueType("sinteger", "int8", FALSE, 1, TRUE, "gpr64"),
      ValueType("sinteger", "int16", FALSE, 2, TRUE, "gpr64"), ValueType("sinteger", "int32", FALSE, 4, TRUE, "gpr64"),
      ValueType("sinteger", "int64", FALSE, 8, TRUE, "gpr64"), ValueType("sinteger", "int128", FALSE, 16, TRUE, "int128"),
      ValueType("integer", "uinteger", FALSE, 8, FALSE, "gpr64"), ValueType("uinteger", "uint8", FALSE, 1, FALSE, "gpr64"),
      ValueType("uinteger", "uint16", FALSE, 2, FALSE, "gpr64"), ValueType("uinteger", "uint32", FALSE, 4, FALSE, "gpr64"),
      ValueType("uinteger", "uint64", FALSE, 8, FALSE, "gpr64"), ValueType("uinteger", "uint128", FALSE, 16, FALSE, "int128"),
      [ValueType("float", "meters", FALSE, 4, FALSE, "float") EXCEPT !.runtime = "float"],
      [ValueType("float", "degrees", FALSE, 4, FALSE, "float") EXCEPT !.runtime = "float"],
      [ValueType("uint64", "seconds", FALSE, 8, FALSE, "gpr64") EXCEPT !.runtime = "uint64"],
      ValueType("integer", "int", FALSE, 8, TRUE, "gpr64"), ValueType("uinteger", "uint", FALSE, 8, FALSE, "gpr64")>>
add_builtin_structures ==
    <<StructureType("object", "structure", FALSE), BasicType("structure", "basic"), BasicType("basic", "symbol"),
      BasicType("basic", "type"), [BasicType("basic", "string") EXCEPT !.final = TRUE], BasicType("basic", "function"),
      StructureType("structure", "vu-function", FALSE), BasicType("basic", "link-block"),
      StructureType("structure", "kheap", FALSE), BasicType("basic", "array"),
      [StructureType("object", "pair", TRUE) EXCEPT !.offset = 2], StructureType("structure", "connectable", FALSE),
      BasicType("basic", "file-stream")>>
\* What each gets: the fields of its parent or not, its own, and its methods.
Filling(name, inherits, fields, methods) == [name |-> name, inherits |-> inherits, fields |-> fields, methods |-> methods]
Int32(name) == Plain(name, Spec("int32"))
Fillings ==
    <<Filling("object", FALSE, <<>>,
        <<Method("new", <<"symbol", "type", "int">>, "_type_"), Method("delete", <<"_type_">>, "none"),
          Method("print", <<"_type_">>, "_type_"), Method("inspect", <<"_type_">>, "_type_"),
          Method("length", <<"_type_">>, "int"), Method("asize-of", <<"_type_">>, "int"),
          Method("copy", <<"_type_", "symbol">>, "_type_"), Method("relocate", <<"_type_", "int">>, "_type_"),
          Method("mem-usage", <<"_type_", "memory-usage-block", "int">>, "_type_")>>),
      Filling("structure", FALSE, <<>>, <<Method("new", <<"symbol", "type">>, "_type_")>>),
      Filling("basic", FALSE, <<Plain("type", Spec("type"))>>, <<Method("new", <<"symbol", "type">>, "_type_")>>),
      Filling("symbol", TRUE, <<Plain("value", Spec("object"))>>, <<Method("new", <<>>, "none")>>),
      Filling("type", TRUE,
        <<Plain("symbol", Spec("symbol")), Plain("parent", Spec("type")), Plain("size", Spec("uint16")),
          Plain("psize", Spec("uint16")), Plain("heap-base", Spec("uint16")), Plain("allocated-length", Spec("uint16")),
          Flexible("method-table", Spec("function"))>>,
        <<Method("new", <<"symbol", "type", "int">>, "_type_")>>),
      Filling("string", TRUE, <<Int32("allocated-length"), Flexible("data", Spec("uint8"))>>,
        <<Method("new", <<"symbol", "type", "int", "string">>, "_type_")>>),
      Filling("function", TRUE, <<>>, <<>>),
      Filling("vu-function", FALSE, <<Int32("length"), Int32("origin"), Int32("qlength"), Flexible("data", Spec("uint8"))>>, <<>>),
      Filling("link-block", TRUE, <<Int32("allocated-length"), Int32("version")>>, <<>>),
      Filling("kheap", FALSE,
        <<Plain("base", Spec("pointer")), Plain("top", Spec("pointer")), Plain("current", Spec("pointer")),
          Plain("top-base", Spec("pointer"))>>, <<>>),
      Filling("array", TRUE,
        <<Int32("length"), Int32("allocated-length"), Plain("content-type", Spec("type")), Flexible("data", Spec("uint8"))>>,
        <<Method("new", <<"symbol", "type", "type", "int">>, "_type_")>>),
      Filling("pair", FALSE, <<Plain("car", Spec("object")), Plain("cdr", Spec("object"))>>,
        <<Method("new", <<"symbol", "type", "object", "object">>, "_type_")>>),
      Filling("connectable", FALSE,
        <<Plain("next0", Spec("connectable")), Plain("prev0", Spec("connectable")), Plain("next1", Spec("connectable")),
          Plain("prev1", Spec("connectable"))>>, <<>>),
      Filling("file-stream", TRUE,
        <<Plain("flags", Spec("uint32")), Plain("mode", Spec("basic")), Plain("name", Spec("string")),
          Plain("file", Spec("uint32"))>>,
        <<Method("new", <<"symbol", "type", "string", "basic">>, "_type_")>>)>>
Fill(s, filling) ==
    LET t == s.types[filling.name]
        begun == IF filling.inherits THEN StructureInherit(t, s.types[t.parent]) ELSE t
        laid == FoldLeft(LAMBDA u, f : add_field_to_type(s, u, f).t, begun, filling.fields)
    IN  [s EXCEPT !.types[filling.name] = FoldLeft(LAMBDA u, m : declare_method(s, u, m).t, laid, filling.methods)]
add_builtin_types ==
    LET roots == <<NullType("none"), NullType("_type_"), NullType("_varargs_"),
                   ValueType("object", "object", FALSE, 4, FALSE, "gpr64")>>
        added == FoldLeft(LAMBDA s, t : add_type(s, t).s, System, roots \o add_builtin_structures \o add_builtin_value_types)
    IN  FoldLeft(Fill, forward_declare_type_as(added, "memory-usage-block", "basic").s, Fillings)

-----------------------------------------------------------------------------
(* Fields from both sides: how the compiler turns a path of fields and       *)
(* indices into an address and an access, and how the decompiler turns an    *)
(* offset, a stride and an access back into the paths that may be meant.     *)

(***************************************************************************)
(* What a reference gives when it is followed.                             *)
(***************************************************************************)
NoDeref == [can |-> FALSE, mem |-> TRUE, type |-> Spec("none"), signed |-> FALSE, stride |-> 0, load |-> 0]
Elements(ts, stride) == [NoDeref EXCEPT !.can = TRUE, !.mem = FALSE, !.type = ts, !.stride = stride]
Access(ts, size, signed) ==
    [can |-> TRUE, mem |-> TRUE, type |-> ts, signed |-> signed, stride |-> size, load |-> size]
DerefElement(s, ts, t) ==
    CASE ts.base = "inline-array" /\ ts.args[1].base \in DOMAIN s.types /\ IsStructure(t) /\ ~t.dynamic ->
            Elements(ts.args[1], align(t.size, get_inline_array_stride_alignment(t)))
      [] ts.base = "pointer" -> Access(ts.args[1], get_load_size(t), get_load_signed(t))
      [] OTHER -> NoDeref
get_deref_info(s, ts) ==
    IF has_single_arg(ts) THEN DerefElement(s, ts, lookup_type_allow_partial_def(s, ts.args[1].base)) ELSE NoDeref

FieldInfo(field, reference) ==
    [field |-> field, needs_deref |-> ~field.array /\ (reference => ~field.inline),
     type |-> IF ~field.array THEN field.type
              ELSE IF reference /\ field.inline THEN make_inline_array_typespec(field.type)
              ELSE make_pointer_typespec(field.type)]
InfoOf(s, field) == FieldInfo(field, is_reference(lookup_type_allow_partial_def(s, field.type.base)))
lookup_field_info(s, type_name, field_name) == InfoOf(s, lookup_field(s.types[type_name], field_name)[1])
lookup_bitfield_info(s, type_name, field_name) ==
    LET f == lookup_field(s.types[type_name], field_name)[1]
    IN  [type |-> f.type, offset |-> f.offset, size |-> f.size, signed |-> get_load_signed(s.types[f.type.base])]

(***************************************************************************)
(* The compiler: a place is an offset from the object the path begins with *)
(* and how often a variable index is multiplied; it is accessed, or only   *)
(* pointed to.                                                             *)
(***************************************************************************)
CONSTANT_INDEX_SCORE == -10
Token(kind, name, idx, score) == [kind |-> kind, name |-> name, idx |-> idx, score |-> score]
FieldToken(name, score) == Token("field", name, 0, score)
ConstantIdx(idx) == Token("constant", "", idx, CONSTANT_INDEX_SCORE)
VarIdx == Token("variable", "", 0, 0)

NoAccess == [size |-> 0, signed |-> FALSE]
Place(type, offset, stride) ==
    [ok |-> TRUE, type |-> type, offset |-> offset, stride |-> stride, mem |-> FALSE, at |-> Spec("none"),
     access |-> NoAccess, loads |-> 0]
Accessed(place, di) ==
    [place EXCEPT !.type = di.type, !.at = place.type, !.mem = TRUE,
                  !.access = [size |-> di.load, signed |-> di.signed]]
Nowhere == [Place(Spec("none"), 0, 0) EXCEPT !.ok = FALSE]
\* What was accessed becomes the object of what follows.
Loaded(val) == IF val.mem THEN [Place(val.type, 0, 0) EXCEPT !.loads = val.loads + 1] ELSE val
Moved(val, type, by, stride) == [val EXCEPT !.type = type, !.offset = @ + by, !.stride = @ + stride]

PlaceOfField(s, object, field, at) ==
    IF field.needs_deref
    THEN Accessed(Moved(object, make_pointer_typespec(field.type), at, 0), get_deref_info(s, make_pointer_typespec(field.type)))
    ELSE Moved(object, field.type,
               at + get_offset(s.types[IF field.type.base = "inline-array" THEN field.type.args[1].base ELSE field.type.base]), 0)
get_field_of_structure(s, type, object, field_name) ==
    PlaceOfField(s, object, lookup_field_info(s, type.name, field_name),
                 lookup_field(type, field_name)[1].offset - get_offset(type))
get_field_of_bitfield(s, type, object, field_name) ==
    LET info == lookup_bitfield_info(s, type.name, field_name)
    IN  [value |-> object, type |-> info.type, offset |-> info.offset, size |-> info.size, signed |-> info.signed]

IsArrayField(name) == name \in {"content-type", "length", "allocated-length", "type", "data"}
Indexed(val, type, token, stride) ==
    IF token.kind = "variable" THEN Moved(val, type, 0, stride) ELSE Moved(val, type, token.idx * stride, 0)
IndexElement(val, type, token, di) ==
    CASE type.base = "inline-array" /\ di.can -> Indexed(val, di.type, token, di.stride)
      [] type.base = "pointer" /\ di.can -> Accessed(Indexed(val, type, token, di.stride), di)
      [] OTHER -> Nowhere
\* A boxed array is indexed as the pointer to its data.
IndexBoxed(s, val, type, token) ==
    IndexElement(Moved(val, type, ARRAY_DATA_OFFSET, 0), type, token, get_deref_info(s, type))
CompileIndex(s, val, token) ==
    IF val.type.base = "array" /\ has_single_arg(val.type)
    THEN IndexBoxed(s, val, make_pointer_typespec(val.type.args[1]), token)
    ELSE IndexElement(val, val.type, token, get_deref_info(s, val.type))
CompileToken(s, val, token) ==
    LET type == s.types[val.type.base]
        AsField == /\ token.kind = "field"
                   /\ IsStructure(type)
                   /\ val.type.base = "array" => IsArrayField(token.name)
    IN  CASE ~val.ok -> val
          [] val.ok /\ AsField ->
               IF lookup_field(type, token.name) = <<>> THEN Nowhere
               ELSE get_field_of_structure(s, type, val, token.name)
          [] val.ok /\ ~AsField /\ token.kind = "field" -> Nowhere
          [] OTHER -> CompileIndex(s, val, token)
compile_deref(s, ts, tokens) ==
    IF tokens = <<>>
    THEN IF get_deref_info(s, ts).can /\ get_deref_info(s, ts).mem
         THEN Accessed(Place(ts, 0, 0), get_deref_info(s, ts)) ELSE Nowhere
    ELSE FoldLeft(LAMBDA val, token : CompileToken(s, Loaded(val), token), Place(ts, 0, 0), tokens)
compile_addr_of(val) ==
    IF val.mem THEN [val EXCEPT !.mem = FALSE, !.type = val.at, !.access = NoAccess] ELSE Nowhere

get_size_for_size_of(s, name) == IF IsStructure(s.types[name]) THEN s.types[name].size ELSE get_load_size(s.types[name])
compile_psize_of(s, name) == align(get_size_for_size_of(s, name), 16)
get_offset_of_method(id) == 16 + 4 * id
\* Where the table of a call is found at run time, and which of its entries.
compile_get_method_of_object(s, type_name, method_name) ==
    LET info == try_lookup_method(s, s.types[type_name], method_name)[1]
    IN  [from |-> IF should_use_virtual_methods(s, s.types[type_name], info.id) THEN "object" ELSE type_name,
         offset |-> get_offset_of_method(info.id), type |-> substitute_for_method_call(info.type, type_name)]

(***************************************************************************)
(* The decompiler.  input: base_type, offset, stride, and deref, <<>> or   *)
(* the access [size, signed, store].                                       *)
(***************************************************************************)
Input(base_type, offset, stride, deref) ==
    [base_type |-> base_type, offset |-> offset, stride |-> stride, deref |-> deref]
has_variable_token(result) == \E i \in DOMAIN result.tokens : result.tokens[i].kind = "variable"
Result(addr_of, type, tokens) == [addr_of |-> addr_of, type |-> type, tokens |-> tokens]

\* Mutant: the sign is never looked at.
deref_matches_Unsigned(expected, actual, is_integer, is_basic) == expected.load = actual.size
deref_matches(expected, actual, is_integer, is_basic) ==
    /\ expected.load = actual.size
    /\ (~actual.store /\ actual.size < 8 /\ is_integer /\ ~is_basic) => expected.signed = actual.signed
Matches(s, di, ts, deref) ==
    deref_matches(di, deref[1], tc(s, Spec("integer"), ts), tc(s, Spec("basic"), ts))

RECURSIVE try_reverse_lookup(_, _, _)

\* An element of an array of values or of references, or just the array.
Element(s, in, tokens, di, elt) ==
    IF in.deref = <<>> THEN <<Result(TRUE, make_pointer_typespec(di.type), tokens)>>
    ELSE IF Matches(s, di, elt, in.deref) THEN <<Result(FALSE, di.type, tokens)>>
    ELSE <<>>
JustArray(in, parent, data_type, boxed_array) ==
    IF boxed_array THEN <<Result(FALSE, data_type, Append(parent, FieldToken("data", 0)))>>
    ELSE IF parent # <<>> THEN <<Result(FALSE, in.base_type, parent)>>
    ELSE <<>>
VariableElement(s, in, parent, start, di, elt) ==
    IF in.stride = di.stride /\ in.offset = start THEN Element(s, in, Append(parent, VarIdx), di, elt) ELSE <<>>
ConstantElement(s, in, parent, offset, di, elt, data_type, boxed_array) ==
    LET elt_idx == Quot(offset, di.stride)
    IN  IF offset # elt_idx * di.stride THEN <<>>
        ELSE Element(s, in, Append(parent, ConstantIdx(elt_idx)), di, elt)
             \o (IF in.deref = <<>> /\ elt_idx = 0 THEN JustArray(in, parent, data_type, boxed_array) ELSE <<>>)
ArrayElement(s, in, parent, start, di, data_type) ==
    IF in.stride # 0 THEN VariableElement(s, in, parent, start, di, data_type.args[1])
    ELSE ConstantElement(s, in, parent, in.offset - start, di, data_type.args[1], data_type, start # 0)
try_reverse_lookup_array_like(s, in, parent, boxed_array) ==
    LET data_type == make_pointer_typespec(in.base_type.args[1])
    IN  IF ~has_single_arg(in.base_type) THEN <<>>
        ELSE ArrayElement(s, in, parent, IF boxed_array THEN ARRAY_DATA_OFFSET ELSE 0, get_deref_info(s, data_type), data_type)

\* Something in one of the objects that lie in a row.
InElement(s, in, parent, type, into, stride, tokens, first) ==
    (IF into = 0 /\ in.deref = <<>> THEN <<Result(FALSE, type, tokens)>> ELSE <<>>)
        \o (IF into = 0 /\ in.deref = <<>> /\ first /\ parent # <<>> THEN <<Result(FALSE, in.base_type, parent)>> ELSE <<>>)
        \o try_reverse_lookup(s, Input(type, into, stride, in.deref), tokens)
InConstant(s, in, parent, di, elt_idx) ==
    InElement(s, in, parent, di.type, in.offset - elt_idx * di.stride, in.stride, Append(parent, ConstantIdx(elt_idx)), elt_idx = 0)
InRow(s, in, parent, di) ==
    IF in.stride # 0 /\ in.stride = di.stride /\ in.offset < di.stride
    THEN InElement(s, in, parent, di.type, in.offset, 0, Append(parent, VarIdx), FALSE)
    ELSE InConstant(s, in, parent, di, Quot(get_offset(s.types[di.type.base]) + in.offset, di.stride))
try_reverse_lookup_inline_array(s, in, parent) == InRow(s, in, parent, get_deref_info(s, in.base_type))

\* A field that has to be loaded is met at its start or not at all.
LoadedField(s, in, tokens, type, into) ==
    IF in.stride # 0 \/ into # 0 THEN <<>>
    ELSE Element(s, in, tokens, get_deref_info(s, make_pointer_typespec(type)), type)
HeldField(s, in, tokens, type, into) ==
    IF into = 0 /\ in.deref = <<>> /\ in.stride = 0 THEN <<Result(FALSE, type, tokens)>>
    ELSE try_reverse_lookup(s, Input(type, into, in.stride, in.deref), tokens)
Touches(s, field, offset, size) ==
    /\ ~field.skip
    /\ offset >= field.offset
    /\ offset + size <= field.offset + get_size_in_type(s, field) \/ field.dynamic
OneField(s, in, parent, field, info, into) ==
    LET tokens == Append(parent, FieldToken(field.name, field.score))
    IN  IF info.needs_deref THEN LoadedField(s, in, tokens, info.type, into)
        ELSE HeldField(s, in, tokens, info.type,
                       into - (IF field.inline THEN get_offset(s.types[field.type.base]) ELSE 0))
try_reverse_lookup_other(s, in, parent) ==
    LET type == s.types[in.base_type.base]
        offset == in.offset + get_offset(type)
        size == IF in.deref = <<>> THEN 1 ELSE in.deref[1].size
        touched == SelectSeq(type.fields, LAMBDA f : Touches(s, f, offset, size))
    IN  IF ~IsStructure(type) THEN <<>>
        ELSE FoldLeft(LAMBDA found, f :
                          found \o OneField(s, in, parent, f, lookup_field_info(s, type.name, f.name), offset - f.offset),
                      <<>>, touched)

try_reverse_lookup(s, in, parent) ==
    LET boxed == in.base_type.base = "array" /\ has_single_arg(in.base_type)
    IN  CASE in.base_type.base = "pointer" -> try_reverse_lookup_array_like(s, in, parent, FALSE)
          [] in.base_type.base = "inline-array" -> try_reverse_lookup_inline_array(s, in, parent)
          [] boxed /\ in.offset >= ARRAY_DATA_OFFSET -> try_reverse_lookup_array_like(s, in, parent, TRUE)
          [] OTHER -> try_reverse_lookup_other(s, in, parent)

\* The search ends with the hundredth answer.
max_count == 100
FirstOnes(results) == IF Len(results) > max_count THEN SubSeq(results, 1, max_count) ELSE results
reverse_field_multi_lookup(s, in) ==
    CHOOSE found \in {FirstOnes(all) : all \in {try_reverse_lookup(s, in, <<>>)}} : TRUE
\* The best of the answers is the first with the highest score.
total_score(result) == FoldLeft(LAMBDA sum, token : sum + token.score, 0, result.tokens)
Better(a, b) == IF total_score(b) > total_score(a) THEN b ELSE a
Best(results) == IF results = <<>> THEN <<>> ELSE <<FoldLeft(Better, results[1], results)>>
reverse_field_lookup(s, in) == Best(reverse_field_multi_lookup(s, in))
=============================================================================
