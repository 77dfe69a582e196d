----------------------------- MODULE TypeTasks -----------------------------
(* The type system as a program and its tools use it: forms are evaluated in *)
(* any order, accepted or not, and fields are looked up from both sides.     *)
EXTENDS Naturals, Sequences, FiniteSets, SequencesExt, Functions, Task, FiniteSetsExt, TLC

\* How many forms a program has.
MaxForms == 5

Y == INSTANCE TypePropagation

(***************************************************************************)
(* The forms.                                                              *)
(***************************************************************************)
FloatType == Y!Spec("float")
IntType(name) == Y!Spec(name)
InlineField(name, type) == [Y!Plain(name, Y!Spec(type)) EXCEPT !.inline = TRUE]
ArrayField(name, type, size) == [Y!Plain(name, Y!Spec(type)) EXCEPT !.array = size]
RowField(name, type, size) == [InlineField(name, type) EXCEPT !.array = size]
AtOffset(field, offset) == [field EXCEPT !.offset = offset]
Bits(name, type, offset, size) == Y!BitField(Y!Spec(type), name, offset, size)
Deftype(name, parent, fields, methods) ==
    [form |-> "deftype", name |-> name, parent |-> parent, fields |-> fields, methods |-> methods, pack |-> FALSE,
     misalign |-> FALSE, heap_base |-> 0, final |-> FALSE, size_assert |-> -1, method_count_assert |-> -1]
Declare(name, parent) == [form |-> "declare-type", name |-> name, parent |-> parent]
Foresee(name, count) == [form |-> "method-count", name |-> name, count |-> count]
Defmethod(type, name, args, result) ==
    [form |-> "defmethod", type |-> type, name |-> name, ts |-> Y!make_function_typespec(args, result)]
EnumEntry(name, value) == [name |-> name, next |-> FALSE, value |-> value]
NextEntry(name) == [name |-> name, next |-> TRUE, value |-> 0]
Defenum(name, type, bitfield, entries) ==
    [form |-> "defenum", name |-> name, type |-> type, bitfield |-> bitfield, copy |-> "", entries |-> entries]

Point == Deftype("point", "structure", <<Y!Plain("x", FloatType), Y!Plain("y", FloatType)>>, <<>>)
Area == Y!Method("area", <<"_type_", "point">>, "float")
Grow == [Y!Method("grow", <<"_type_", "int">>, "_type_") EXCEPT !.no_virtual = TRUE]
Box ==
    Deftype("box", "basic",
            <<Y!Plain("width", IntType("int16")), InlineField("corner", "point"), Y!Plain("next", Y!Spec("box")),
              Y!Plain("tag", IntType("uint8"))>>,
            <<Area, Grow>>)
Crate ==
    [Deftype("crate", "box", <<Y!Plain("height", IntType("int8")), ArrayField("sides", "uint16", 3)>>,
             <<[Area EXCEPT !.replace = TRUE, !.type = Y!make_function_typespec(<<"_type_", "crate">>, "int")],
               Y!Method("volume", <<"_type_">>, "int")>>)
        EXCEPT !.method_count_assert = 12, !.heap_base = 16]
Tiny ==
    [Deftype("tiny", "structure", <<Y!Plain("a", IntType("uint8")), Y!Plain("b", IntType("int16"))>>, <<>>)
        EXCEPT !.pack = TRUE, !.size_assert = 4]
Grid ==
    Deftype("grid", "structure",
            <<RowField("cells", "tiny", 3), Y!Plain("owner", Y!Spec("node")),
              AtOffset(Y!Plain("first", IntType("uint32")), 0), RowField("points", "point", 2),
              InlineField("one", "tiny")>>, <<>>)
Node ==
    Deftype("node", "basic",
            <<[Y!Plain("kids", Y!Spec("node")) EXCEPT !.array = 2], Y!Plain("place", Y!make_pointer_typespec(FloatType)),
              Y!Flexible("data", IntType("int64"))>>,
            <<Y!Method("new", <<"symbol", "type", "int">>, "_type_")>>)
Flags == Deftype("flags", "uint32", <<Bits("low", "uint8", 0, 4), Bits("high", "int16", 4, 12)>>, <<>>)
Direction == Defenum("direction", "uint8", FALSE, <<NextEntry("up"), EnumEntry("down", 5), NextEntry("left")>>)
OtherPoint == Deftype("point", "structure", <<Y!Plain("x", FloatType)>>, <<>>)
Skewed == Deftype("skewed", "structure", <<AtOffset(Y!Plain("a", IntType("int32")), 2)>>, <<>>)
Forms ==
    <<Point, Box, Crate, Tiny, Grid, Node, Flags, Direction, OtherPoint, Skewed, Declare("node", "structure"),
      Declare("node", "basic"), Foresee("node", 9), Foresee("crate", 11),
      Defmethod("box", "area", <<"box", "point">>, "float"), Defmethod("box", "area", <<"box", "tiny">>, "float"),
      [Box EXCEPT !.methods = <<Area>>]>>

(***************************************************************************)
(* A program.  The types every program begins with stay as they are.       *)
(***************************************************************************)
Begun == Y!add_builtin_types
Joined(system, begun) == [system EXCEPT !.types = @ @@ begun.types, !.forward = @ @@ begun.forward]
Beyond(s, begun) ==
    [s EXCEPT !.types = Restrict(@, DOMAIN @ \ DOMAIN begun.types),
              !.forward = Restrict(@, DOMAIN @ \ DOMAIN begun.forward)]
Whole(system) == Joined(system, Begun)
OwnPart(s) == Beyond(s, Begun)
EvaluateForm ==
    \/ /\ task = Asked("types")
       /\ task' = [kind |-> "types", system |-> Y!System, accepted |-> {}, forms |-> 0]
    \/ /\ task.kind = "types" /\ task.forms < MaxForms
       /\ \E i \in DOMAIN Forms \ task.accepted : \E r \in {Y!Evaluate(Whole(task.system), Forms[i])} :
             task' = [task EXCEPT !.system = OwnPart(r.s), !.forms = @ + 1,
                                  !.accepted = IF r.ok THEN @ \cup {i} ELSE @]

\* What is asked of each of the types there are.
Structures(s) == {n \in DOMAIN task.system.types : Y!IsStructure(s.types[n])}
EndOf(s, f) == f.offset + Y!get_size_in_type(s, f)
LayoutSound(s, t) ==
    /\ Y!IsStructure(s.types[t.parent]) => IsPrefix(s.types[t.parent].fields, t.fields)
    /\ t.size >= s.types[t.parent].size
    /\ \A i \in DOMAIN t.fields :
          LET f == t.fields[i] IN
          /\ f.offset % f.alignment = 0 /\ f.alignment = Y!get_alignment_in_type(s, f)
          /\ EndOf(s, f) <= t.size
          /\ f.placed \/ \A j \in 1 .. i - 1 : f.offset >= EndOf(s, t.fields[j])
\* The table of methods has no hole and begins as that of the parent does.
MethodNames(s, t) == {m.name : m \in UNION {ToSet(a.methods) : a \in ToSet(Y!Ancestors(s, t))}}
MethodsSound(s, t) ==
    LET next == Y!get_next_method_id(s, t) IN
    /\ {Y!try_lookup_method(s, t, n)[1].id : n \in MethodNames(s, t)} = 1 .. next - 1
    /\ Cardinality(MethodNames(s, t)) = next - 1
    /\ \A n \in MethodNames(s, t) : \E m \in {Y!try_lookup_method(s, t, n)[1]} :
          Y!try_lookup_method_id(s, t, m.id) = <<m>>
    /\ \A n \in MethodNames(s, s.types[t.parent]) : \E m \in {Y!try_lookup_method(s, t, n)[1]} :
          /\ Y!try_lookup_method(s, s.types[t.parent], n)[1].id = m.id
          /\ Y!compile_get_method_of_object(s, t.name, n).offset =
                Y!compile_get_method_of_object(s, t.parent, n).offset
    /\ t.name \in DOMAIN s.counts => s.counts[t.name] = next
\* Is a kind of: an order, in which the common ancestor is the least.
Related(s, names) ==
    \A a, b \in names :
        /\ Y!tcb(s, a, b) /\ Y!tcb(s, b, a) <=> a = b
        /\ \A c \in names : Y!tcb(s, a, b) /\ Y!tcb(s, b, c) => Y!tcb(s, a, c)
        /\ \E up \in {Y!lowest_common_ancestor(s, Y!Spec(a), Y!Spec(b)).base} :
              /\ Y!tcb(s, up, a) /\ Y!tcb(s, up, b)
              /\ \A c \in names : Y!tcb(s, c, a) /\ Y!tcb(s, c, b) => Y!tcb(s, c, up)
SayTheSame(s, r) == r.ok /\ r.s = s
ProgramSound(s) ==
    /\ \A n \in Structures(s) : LayoutSound(s, s.types[n]) /\ MethodsSound(s, s.types[n])
    /\ Related(s, DOMAIN task.system.types \cup {"object", "structure", "basic", "uint8", "integer"})
    /\ \A form \in {Forms[i] : i \in task.accepted} \cup
                    {Y!generate_deftype(s, s.types[n]) : n \in {x \in DOMAIN task.system.types : s.types[x].kind # "enum"}} :
          SayTheSame(s, Y!Evaluate(s, form))

\* What a program has been told of its types stays true (TypeSystem, deftype).
TypesSound == task.kind = "types" => \A s \in {Whole(task.system)} : ProgramSound(s)

(***************************************************************************)
(* Fields.                                                                 *)
(***************************************************************************)
\* A structure that lies in another, an array of it, and two names for a place.
Holder ==
    Deftype("holder", "basic",
            <<RowField("boxes", "box", 2), InlineField("grid", "grid"), [Y!Plain("hidden", IntType("uint32")) EXCEPT !.skip = TRUE],
              [AtOffset(Y!Plain("word", IntType("int32")), 12) EXCEPT !.score = 1],
              Y!Plain("names", Y!TypeSpec("array", <<Y!Spec("string")>>)), ArrayField("flags", "flags", 2),
              ArrayField("turns", "direction", 4)>>, <<>>)
Known ==
    FoldLeft(LAMBDA s, form : Y!Evaluate(s, form).s, Begun,
             <<Declare("node", "basic"), Point, Box, Crate, Tiny, Grid, Node, Flags, Direction, Holder>>)
Pointers(types) == {Y!make_pointer_typespec(Y!Spec(t)) : t \in types}
Rows(types) == {Y!make_inline_array_typespec(Y!Spec(t)) : t \in types}
Arrays(types) == {Y!TypeSpec("array", <<Y!Spec(t)>>) : t \in types}
Objects ==
    {Y!Spec(t) : t \in {"point", "box", "crate", "tiny", "grid", "node", "holder", "string", "pair"}}
        \cup Pointers({"int16", "uint8", "float", "box", "direction"}) \cup Rows({"point", "tiny", "box"})
        \cup Arrays({"uint16", "float", "node"})
Tokens(s, ts) ==
    IF ts.base \in {"pointer", "inline-array"} THEN {Y!ConstantIdx(i) : i \in 0 .. 1} \cup {Y!VarIdx}
    ELSE {Y!FieldToken(f.name, f.score) : f \in {g \in ToSet(s.types[ts.base].fields) : ~g.skip /\ ~(ts.base = "array" /\ g.name = "data")}}
         \cup (IF ts.base = "array" THEN {Y!ConstantIdx(1), Y!VarIdx} ELSE {})
\* A path is followed as long as nothing has been loaded.
FollowPath ==
    \/ /\ task = Asked("path")
       /\ \E ts \in Objects : task' = [kind |-> "path", base |-> ts, tokens |-> <<>>, place |-> Y!Place(ts, 0, 0)]
    \/ /\ task.kind = "path" /\ task.place.ok /\ ~task.place.mem
       /\ \E s \in {Known} :
             /\ task.place.type.base \in {"pointer", "inline-array"} \/ Y!IsStructure(s.types[task.place.type.base])
             /\ \E token \in Tokens(s, task.place.type) :
                   /\ token = Y!VarIdx => task.place.stride = 0
                   /\ task' = [task EXCEPT !.tokens = Append(@, token), !.place = Y!CompileToken(s, @, token)]
\* An address, a step and an access that may mean something.
LookUp ==
    /\ task = Asked("fields")
    /\ \E ts \in Objects, offset \in -4 .. 60, stride \in {0, 1, 2, 4, 8, 16, 48} :
          task' = [kind |-> "fields", base |-> ts, offset |-> offset, stride |-> stride]
Accesses ==
    {<<>>} \cup {<<[size |-> n, signed |-> sign, store |-> store]>> : n \in {1, 2, 4, 8}, sign \in BOOLEAN, store \in BOOLEAN}

Exact(place) == <<[size |-> place.access.size, signed |-> place.access.signed, store |-> FALSE]>>
\* The path is among those that its own access may mean; of those its own
\* address may mean is one that it goes on from, as an array has that of its first.
PathFound(s, path, place) ==
    LET Of(deref) == Y!reverse_field_multi_lookup(s, Y!Input(path.base, place.offset, place.stride, deref))
    IN  /\ \E r \in ToSet(Of(<<>>)) : IsPrefix(r.tokens, path.tokens)
        /\ place.mem => Y!Result(FALSE, place.type, path.tokens) \in ToSet(Of(Exact(place)))
\* The compiler makes of the answer just the place and the access looked for.
MeansTheSame(s, in, r, val) ==
    LET place == IF r.addr_of THEN Y!compile_addr_of(val) ELSE val
        size == IF in.deref = <<>> THEN 0 ELSE in.deref[1].size
        Signed == ~in.deref[1].store /\ size < 8 /\ Y!tc(s, Y!Spec("integer"), r.type)
    IN  /\ place.ok /\ place.loads = 0 /\ place.offset = in.offset /\ place.stride = in.stride
        /\ place.mem <=> in.deref # <<>>
        /\ place.type = r.type \/ Last(r.tokens).name = "data"
        /\ place.access.size = size
        /\ in.deref # <<>> /\ Signed => place.access.signed = in.deref[1].signed
\* An element of a row is an answer whatever the step, when its address is asked.
HasStep(in, r) == in.stride = 0 \/ in.deref # <<>> \/ Y!has_variable_token(r)
AnswersSound(s, in, results) ==
    /\ \A r \in ToSet(results) : HasStep(in, r) => MeansTheSame(s, in, r, Y!compile_deref(s, in.base_type, r.tokens))
    /\ \A best \in ToSet(Y!reverse_field_lookup(s, in)) :
          \A i \in DOMAIN results : Y!total_score(results[i]) <= Y!total_score(best)

\* What the decompiler takes a place for is that place, and nothing the
\* compiler can name is missed (compile_deref, TypeSystem::reverse_field_lookup).
FieldsSound ==
    \A s \in {Known} :
        /\ task.kind = "path" /\ task.tokens # <<>> => task.place.ok /\ PathFound(s, task, task.place)
        /\ task.kind = "fields" =>
              \A deref \in Accesses : \E in \in {Y!Input(task.base, task.offset, task.stride, deref)} :
                  AnswersSound(s, in, Y!reverse_field_multi_lookup(s, in))

-----------------------------------------------------------------------------
(* The decompiler's types while the code runs: the compiler's operations on  *)
(* objects, indices and methods are taken one by one, each with what the     *)
(* decompiler knows before it and what the registers then really hold.       *)

\* How many operations a straight piece of code has.
MaxOps == 4

(***************************************************************************)
(* Values: a number c + m * index, an address in an object of a type, with *)
(* how much an index is multiplied by and what the compiler takes it for,  *)
(* a type, a method, a float.                                              *)
(***************************************************************************)
Thing(is, ts) == [is |-> is, ts |-> ts, at |-> 0, by |-> 0, as |-> ts, sum |-> FALSE]
Num(c, m, ts) == [Thing("num", ts) EXCEPT !.at = c, !.by = m]
At(root) == Thing("ref", root)
Flt == Thing("float", FloatType)
TheType(name) == Thing("type", Y!Spec(name))
TheMethod(ts) == Thing("method", ts)
Boolean == Thing("symbol", Y!Spec("symbol"))
Junk == Thing("junk", Y!Spec("none"))
\* #f is allowed everywhere, as what nothing was put in is.
False == Thing("false", Y!Spec("symbol"))

\* All the places in an object that a path leads to without a load before the last.
RECURSIVE Reached(_, _, _)
Reached(s, places, depth) ==
    LET Open == {p \in places : ~p.mem /\ (p.type.base \in {"pointer", "inline-array"} \/ Y!IsStructure(s.types[p.type.base]))}
        Next(p) == {Y!CompileToken(s, p, token) : token \in {t \in Tokens(s, p.type) : t = Y!VarIdx => p.stride = 0}}
    IN  IF depth = 0 THEN places ELSE Reached(s, places \cup UNION {Next(p) : p \in Open}, depth - 1)
Roots == {"point", "box", "crate", "tiny", "grid", "node", "holder"}
\* The types of the program, and what lies in the objects of some of them.
WorldOf(s) == [s |-> s, places |-> [t \in Roots |-> Reached(s, {Y!Place(Y!Spec(t), 0, 0)}, 4)]]
World == WorldOf(Known)
PlacesOf(w, ts) == IF ts.base \in Roots THEN w.places[ts.base] ELSE Reached(w.s, {Y!Place(ts, 0, 0)}, 3)
Here(w, v) == {IF p.mem THEN p.at ELSE p.type : p \in {q \in PlacesOf(w, v.ts) : q.offset = v.at /\ q.stride = v.by}}
\* What the compiler reaches from it with no index, or with the one it has a sum for.
\* (What lies next to an element at an index is taken for a plain number.)
Onward(w, v) ==
    {p \in PlacesOf(w, v.as) :
        /\ p.stride = IF v.sum THEN v.by ELSE 0
        /\ v.by # 0 /\ v.as.base = "pointer" => p.offset = 0}
\* An access that can only mean one thing.
Cells(w, v) ==
    {p \in Onward(w, v) :
        /\ p.mem /\ p.type # Y!Spec("type")
        /\ \A q \in Onward(w, v) : q.mem /\ q.offset = p.offset => q.type = p.type}

(***************************************************************************)
(* Whether a value is what is known of it.                                 *)
(***************************************************************************)
Is(w, ts, actual) == Y!tc(w.s, ts, actual)
IsA(w, v, ts) ==
    CASE ts = Y!Spec("object") -> TRUE
      [] v.is = "num" -> ts.base \in {"int", "uint"} \/ Is(w, ts, v.ts)
      [] v.is = "ref" -> \E actual \in Here(w, v) : Is(w, ts, actual)
      [] v.is = "type" -> Is(w, ts, Y!Spec("type"))
      [] OTHER -> Is(w, ts, v.ts)
Conforms(w, v, tp) ==
    CASE tp.kind = "UNINITIALIZED" \/ v = False -> TRUE
      [] tp.kind = "TYPESPEC" /\ v # False -> IsA(w, v, tp.ts)
      [] tp.kind = "INTEGER_CONSTANT" /\ v # False -> v.is = "num" /\ v.at = tp.int /\ v.by = 0
      [] tp.kind = "PRODUCT_WITH_CONSTANT" /\ v # False -> v.is = "num" /\ v.at = 0 /\ v.by % tp.int = 0
      [] tp.kind = "INTEGER_CONSTANT_PLUS_VAR" /\ v # False -> v.is = "num"
      [] tp.kind = "INTEGER_CONSTANT_PLUS_VAR_MULT" /\ v # False -> v.is = "num" /\ v.at = tp.int /\ v.by % tp.extra = 0
      [] tp.kind = "OBJECT_PLUS_PRODUCT_WITH_CONSTANT" /\ v # False ->
            v.is = "ref" /\ v.by % tp.int = 0
                /\ \E p \in PlacesOf(w, v.ts) :
                      ~p.mem /\ p.stride = 0 /\ (v.at - p.offset) % tp.int = 0 /\ Is(w, tp.ts, p.type)
      [] Y!IsTypeObject(tp) /\ v # False -> v.is = "type" /\ Y!tcb(w.s, tp.ts.base, v.ts.base)
      [] tp.kind \in {"VIRTUAL_METHOD", "NON_VIRTUAL_METHOD", "OBJECT_NEW_METHOD"} /\ v # False -> v.is = "method"
      [] OTHER -> FALSE
Agrees(w, values, st) == \A r \in DOMAIN values : Conforms(w, values[r], st.reg[r])

(***************************************************************************)
(* Operations as the compiler makes them.                                  *)
(***************************************************************************)
Env ==
    [symbols |-> "box" :> Y!Spec("type") @@ "crate" :> Y!Spec("type") @@ "tiny" :> Y!Spec("type"), labels |-> <<>>, stack |-> <<>>,
     formats |-> <<>>, sloppy |-> FALSE, method |-> "", spills |-> {0}, stack_casts |-> <<>>]
Registers == {"a0", "a1", "v1", "t9", "v0"}
KindOf(access, ts) == IF ts = FloatType THEN "float" ELSE IF access.signed THEN "signed" ELSE "unsigned"
\* What is read from a place, of a value of its type.
Content(w, ts) ==
    CASE Is(w, Y!Spec("integer"), ts) -> Num(0, 1, ts)
      [] Is(w, FloatType, ts) -> Flt
      [] OTHER -> At(ts)
Step(op, values) == [op |-> op, values |-> values]
Gets(values, r, v) == [values EXCEPT ![r] = v]
Shifts(values) ==
    {Step(Y!SetVarOp("v1", Y!SimpleExpression("left_shift", <<Y!Var("a1"), Y!IntAtom(n)>>)),
          Gets(values, "v1", Num(0, 2 ^ n, IntType("int")))) : n \in 1 .. 4}
Constants(values) ==
    {Step(Y!SetVarOp("v1", Y!Identity(Y!IntAtom(n))), Gets(values, "v1", Num(n, 0, IntType("int")))) : n \in {12, 48}}
Products(values) ==
    IF values["v1"].is # "num" \/ values["v1"].by # 0 THEN {}
    ELSE {Step(Y!SetVarOp("v1", Y!SimpleExpression("mul_signed", <<Y!Var("v1"), Y!Var("a1")>>)),
               Gets(values, "v1", Num(0, values["v1"].at, IntType("int"))))}
\* The compiler goes to a place, or with an index is still on the way to it.
Goes(v, p) == [v EXCEPT !.at = @ + p.offset, !.by = @ + p.stride, !.as = IF p.mem THEN p.at ELSE p.type]
WithIndex(w, v, index) ==
    LET Places == {p \in PlacesOf(w, v.as) : p.stride = index.by}
    IN  {Goes(v, p) : p \in {q \in Places : q.offset = index.at}}
            \cup (IF index.at = 0 /\ Places # {} THEN {[v EXCEPT !.by = index.by, !.sum = TRUE]} ELSE {})
Sums(w, values) ==
    LET Expression(p) == Y!SimpleExpression("add", <<Y!Var(p[1]), Y!Var(p[2])>>)
        Object == values["a0"]
        Index == values["v1"]
    IN  IF Object.is # "ref" \/ Index.is # "num" \/ Index.by = 0 \/ Object.by # 0 THEN {}
        ELSE {Step(Y!SetVarOp("v1", Expression(p)), Gets(values, "v1", v)) :
                 p \in {<<"a0", "v1">>, <<"v1", "a0">>}, v \in WithIndex(w, Object, Index)}
Offsets(w, values) ==
    UNION {{Step(Y!SetVarOp("v1", Y!SimpleExpression("add", <<Y!Var(r), Y!IntAtom(p.offset)>>)),
                 Gets(values, "v1", Goes(values[r], p))) :
               p \in {q \in Onward(w, values[r]) : ~q.mem /\ q.offset # 0}} :
           r \in {x \in {"a0", "v1"} : values[x].is = "ref" /\ ~values[x].sum}}
IndexOffsets(values) ==
    IF values["v1"].is # "num" \/ values["v1"].by < 2 \/ values["v1"].at # 0 THEN {}
    ELSE {Step(Y!SetVarOp("v1", Y!SimpleExpression("add", <<Y!Var("v1"), Y!IntAtom(n)>>)),
               Gets(values, "v1", [values["v1"] EXCEPT !.at = n])) : n \in {12, 28, 44}}
Fetch(w, r, values, p) ==
    Step(Y!LoadVarOp("v1", KindOf(p.access, p.type), p.access.size,
                     Y!SimpleExpression("add", <<Y!Var(r), Y!IntAtom(p.offset)>>)),
         Gets(values, "v1", Content(w, p.type)))
Loads(w, values) ==
    UNION {{Fetch(w, r, values, p) : p \in Cells(w, values[r])} : r \in {x \in {"a0", "v1"} : values[x].is = "ref"}}
\* The type of an object, its methods and a call of one.
DynamicType(w, v) ==
    IF \E ts \in Here(w, v) : ts.base = "inline-array" THEN {}
    ELSE {ts.base : ts \in {x \in Here(w, v) : Is(w, Y!Spec("basic"), x)}}
TypesLoaded(w, values) ==
    IF values["a0"].is # "ref" THEN {}
    ELSE {Step(Y!LoadVarOp("v1", "unsigned", 4, Y!SimpleExpression("add", <<Y!Var("a0"), Y!IntAtom(-4)>>)),
               Gets(values, "v1", TheType(n))) : n \in DynamicType(w, values["a0"])}
TypesNamed(values) ==
    {Step(Y!SetVarOp("v1", Y!Identity(Y!SymbolVal(n))), Gets(values, "v1", TheType(n))) : n \in {"box", "crate"}}
Methods(w, values) ==
    LET name == values["v1"].ts.base
        MethodAt(id) == Y!try_lookup_method_id(w.s, w.s.types[name], id)
    IN  IF values["v1"].is # "type" THEN {}
        ELSE {Step(Y!LoadVarOp("t9", "unsigned", 4, Y!SimpleExpression("add", <<Y!Var("v1"), Y!IntAtom(16 + 4 * id)>>)),
                   Gets(values, "t9", TheMethod(Y!substitute_for_method_call(MethodAt(id)[1].type, name)))) :
                 id \in {i \in 0 .. 13 : MethodAt(i) # <<>> /\ MethodAt(i)[1].name # "area"}}
Calls(w, values) ==
    IF values["t9"].is # "method" THEN {}
    ELSE {Step(Y!CallOp, [r \in Registers |-> IF r = "v0" THEN Content(w, Last(values["t9"].ts.args))
                                              ELSE IF r \in Y!CallOp.clobber THEN Junk ELSE values[r]])}
Steps(w, values) ==
    UNION {Shifts(values), Constants(values), Products(values), Sums(w, values), Offsets(w, values), IndexOffsets(values),
           Loads(w, values), TypesLoaded(w, values), TypesNamed(values), Methods(w, values), Calls(w, values)}

Infer ==
    \/ /\ task = Asked("infer")
       /\ \E w \in {World} : \E said \in {Y!Spec(t) : t \in {"object"} \cup Roots} \cup Pointers({"int16", "box"}) \cup Rows({"tiny", "box"}) \cup Arrays({"float", "node"}) :
          \E is \in {ts \in {said} \cup {Y!Spec("crate"), Y!Spec("grid")} : Is(w, said, ts)} :
             task' = [kind |-> "infer", ops |-> 0, ok |-> TRUE,
                      known |-> Y!construct_initial_typestate(Env, Y!TypeSpec("function", <<said, IntType("int"), IntType("int")>>), Registers),
                      values |-> "a0" :> At(is) @@ "a1" :> Num(0, 1, IntType("int"))
                                    @@ [r \in {"v1", "t9", "v0"} |-> False]]
    \/ /\ task.kind = "infer" /\ task.ok /\ task.ops < MaxOps
       /\ \E w \in {World} : \E step \in Steps(w, task.values) : \E r \in {Y!propagate_types(Env, w.s, step.op, task.known)} :
             task' = [task EXCEPT !.ops = @ + 1, !.ok = r.ok, !.known = r.st, !.values = step.values]

(***************************************************************************)
(* Where paths meet.                                                       *)
(***************************************************************************)
LangTypes == {"object", "structure", "basic", "symbol", "function", "box", "crate", "point", "int", "uint", "float"}
Sample ==
    {Y!FromName(t) : t \in LangTypes} \cup {Y!make_from_ts(ts) : ts \in Pointers({"int16", "box"}) \cup Rows({"box"})}
        \cup {Y!make_false, Y!make_uninitialized, Y!make_from_integer(4), Y!make_from_integer(16), Y!make_from_product(4, TRUE),
              Y!make_from_product(16, TRUE), Y!make_from_integer_constant_plus_var(4, IntType("int")),
              Y!make_from_integer_constant_plus_product(4, IntType("int"), 16)}
        \cup {Y!make_type_no_virtual_object(Y!Spec(t)) : t \in {"box", "crate", "point"}}
        \cup {Y!make_type_allow_virtual_object(Y!Spec(t)) : t \in {"box", "crate"}}
        \cup {Y!make_object_plus_product(Y!Spec("holder"), 16)}
        \cup {Y!make_virtual_method(Y!make_function_typespec(<<t>>, t)) : t \in {"box", "crate"}}
Things ==
    {Num(c, m, IntType("int")) : c \in {0, 4, 16}, m \in {0, 4, 16}} \cup {Flt, Boolean}
        \cup {At(ts) : ts \in {Y!Spec(t) : t \in {"box", "crate", "point"}} \cup Pointers({"int16", "box"}) \cup Rows({"box"})}
        \cup {TheType(t) : t \in {"box", "crate", "point"}}
        \cup {TheMethod(Y!make_function_typespec(<<t>>, t)) : t \in {"box", "crate"}}
Meet ==
    /\ task = Asked("meet")
    /\ \E a \in Sample, b \in Sample : task' = [kind |-> "meet", a |-> a, b |-> b]
\* Whatever either may be is still allowed, whichever comes first, and a second time adds nothing.
MeetSound(w, a, b, both) ==
    /\ \A v \in Things, tp \in {a, b} : Conforms(w, v, tp) /\ tp.kind # "UNINITIALIZED" => Conforms(w, v, both)
    /\ Y!SameTP(Y!tp_lca(Env, w.s, both, a), both) /\ Y!SameTP(Y!tp_lca(Env, w.s, both, b), both)

(***************************************************************************)
(* A function with a loop or two branches.  Each move is an operation with *)
(* what it does, where it can be done at all.                              *)
(***************************************************************************)
NextOffset(w) == Y!lookup_field(w.s.types["box"], "next")[1].offset - 4
Moves(w) ==
    <<Y!SetVarOp("v1", Y!Identity(Y!Var("a0"))), Y!SetVarOp("a0", Y!Identity(Y!Var("v1"))),
      Y!LoadVarOp("v1", "unsigned", 4, Y!SimpleExpression("add", <<Y!Var("v1"), Y!IntAtom(NextOffset(w))>>)),
      Y!SetVarOp("v1", Y!Identity(Y!SymbolPtr("#f"))), Y!SetVarOp("v1", Y!Identity(Y!IntAtom(4))),
      Y!SetVarOp("v1", Y!SimpleExpression("left_shift", <<Y!Var("a1"), Y!IntAtom(2)>>)),
      Y!LoadVarOp("v1", "unsigned", 4, Y!SimpleExpression("add", <<Y!Var("a0"), Y!IntAtom(-4)>>)),
      Y!StackSpillStoreOp(Y!Var("v1"), 0), Y!StackSpillLoadOp("v1", 0), Y!BranchOp("set-reg", "a0", "v1"),
      Y!AsmOp("por", "v1", <<"a0", "a1">>), Y!SetVarConditionOp("v1"), Y!SetVarOp("v1", Y!Identity(Y!Var("a1")))>>
Instances(w, ts) == {At(Y!Spec(t)) : t \in {x \in {"box", "crate"} : Is(w, ts, Y!Spec(x))}}
NextOf(w, v) == IF v.is = "ref" /\ \E ts \in Here(w, v) : Is(w, Y!Spec("box"), ts) THEN Instances(w, Y!Spec("box")) ELSE {}
After(w, op, values) ==
    LET From(v) == {Gets(values, op.dst, v)}
    IN  CASE op.k = "set" /\ op.x.k = "identity" /\ op.x.args[1].k = "var" -> From(values[op.x.args[1].reg])
          [] op.k = "set" /\ op.x.args[1].k = "sym" -> From(False)
          [] op.k = "set" /\ op.x.args[1].k = "int" -> From(Num(op.x.args[1].n, 0, IntType("int")))
          [] op.k = "set" /\ op.x.k = "left_shift" -> IF values["a1"].is = "num" THEN From(Num(0, 4, IntType("int"))) ELSE {}
          [] op.k = "load" /\ op.x.args[1].reg = "v1" -> {Gets(values, "v1", v) : v \in NextOf(w, values["v1"])}
          [] op.k = "load" /\ op.x.args[1].reg = "a0" ->
                IF values["a0"].is = "ref" THEN {Gets(values, "v1", TheType(n)) : n \in DynamicType(w, values["a0"])} ELSE {}
          [] op.k = "spill-store" -> {Gets(values, "slot", values["v1"])}
          [] op.k = "spill-load" -> From(values["slot"])
          [] op.k = "branch" -> From(values[op.src])
          [] op.k = "asm" -> From(Num(0, 1, IntType("int")))
          [] op.k = "set-condition" -> From(Boolean)
Block(w, moves, ft, branch) == [ops |-> [i \in DOMAIN moves |-> Moves(w)[moves[i]]], ft |-> ft, branch |-> branch]
Loop(w, m) == [blocks |-> <<Block(w, <<m[1]>>, 2, 0), Block(w, <<m[2], m[3]>>, 3, 2), Block(w, <<>>, 0, 0)>>, order |-> <<1, 2, 3>>, casts |-> <<>>]
Choice(w, m) ==
    [blocks |-> <<Block(w, <<m[1]>>, 2, 3), Block(w, <<m[2]>>, 4, 0), Block(w, <<m[3]>>, 4, 0), Block(w, <<>>, 0, 0)>>,
     order |-> <<1, 3, 2, 4>>, casts |-> <<>>]
FlowRegisters == {"a0", "a1", "v1"}
Analyse ==
    /\ task = Asked("analyse")
    /\ \E w \in {World} : \E m \in [1 .. 3 -> DOMAIN Moves(w)], loop \in BOOLEAN :
          task' = [kind |-> "analyse", function |-> IF loop THEN Loop(w, m) ELSE Choice(w, m),
                   paths |-> IF loop THEN {<<1, 2, 3>>, <<1, 2, 2, 3>>, <<1, 2, 2, 2, 3>>} ELSE {<<1, 2, 4>>, <<1, 3, 4>>}]
FlowArgs == Y!TypeSpec("function", <<Y!Spec("crate"), IntType("int"), IntType("int")>>)
FlowStart ==
    {[a0 |-> At(Y!Spec("crate")), a1 |-> Num(0, 1, IntType("int")), v1 |-> False, slot |-> False]}
Fit(w, values, st) ==
    /\ \A r \in FlowRegisters : Conforms(w, values[r], st.reg[r])
    /\ 0 \in DOMAIN st.slots => Conforms(w, values["slot"], st.slots[0])
\* known: what is known before each operation of the block and after the last.
RECURSIVE Runs(_, _, _, _, _)
Runs(w, known, ops, i, states) ==
    /\ \A values \in states : Fit(w, values, known[i])
    /\ i <= Len(ops) => Runs(w, known, ops, i + 1, UNION {After(w, ops[i], values) : values \in states})
EndStates(w, ops, states) == FoldLeft(LAMBDA found, op : UNION {After(w, op, values) : values \in found}, states, ops)
PathSound(w, f, known, path) ==
    \A n \in DOMAIN path :
        Runs(w, known[path[n]], f.blocks[path[n]].ops, 1,
             EndStates(w, FlattenSeq([k \in 1 .. n - 1 |-> f.blocks[path[k]].ops]), FlowStart))
AnalysisSound(w, f, paths, p) == p.ok => \A path \in paths : PathSound(w, f, Y!final_types(Env, f, p), path)

\* What the decompiler says of a register is true of what is in it, after any
\* operation, whatever way led to it (propagate_types, run_type_analysis_ir2).
InferenceSound ==
    task.kind \in {"infer", "meet", "analyse"} =>
        \A w \in {World} :
            CASE task.kind = "infer" -> task.ok => Agrees(w, task.values, task.known)
              [] task.kind = "meet" -> MeetSound(w, task.a, task.b, Y!tp_lca(Env, w.s, task.a, task.b))
              [] task.kind = "analyse" ->
                    AnalysisSound(w, task.function, task.paths,
                                  Y!run_type_analysis_ir2(Env, w.s, task.function, FlowArgs, FlowRegisters))
=============================================================================
