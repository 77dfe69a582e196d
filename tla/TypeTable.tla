----------------------------- MODULE TypeTable ------------------------------
(***************************************************************************)
(* Types and their method tables in game/kernel/kscheme.cpp: intern_type   *)
(* makes a type that the linker met, new_type defines it (deftype),        *)
(* method_set sets a method and hands it down to the types that inherit it.*)
(***************************************************************************)
EXTENDS Integers, FiniteSets

CONSTANTS
    TypeNames,      \* types of the program
    object,         \* the type that all others have as an ancestor
    NoType,
    MethodIds,      \* method ids that are set
    MethodCounts,   \* method counts that a deftype or the linker ask for
    Functions,      \* functions that a defmethod can set
    FALLBACK_UNKNOWN_METHOD_COUNT,
    MaxDefinitions  \* bound on the number of deftypes

\* Room for methods in a type that was made for n of them (size_of_type).
Room(n) == ((n + 8) \div 4) * 4 - 5
Ids == 0 .. Room(FALLBACK_UNKNOWN_METHOD_COUNT) - 1

ASSUME TypeTableAssumption ==
    /\ object \notin TypeNames /\ NoType \notin TypeNames \cup {object}
    /\ MethodCounts \subseteq Nat \ {0, 1} /\ FALLBACK_UNKNOWN_METHOD_COUNT \in Nat
    /\ MethodIds \subseteq Ids /\ MaxDefinitions \in Nat

VARIABLES
    type,           \* [types -> record]
    enable,         \* *EnableMethodSet || (!FastLink && MasterDebug && !DiskBoot)
    defined,        \* when a type was defined, as a number; 0 if it was not
    overrides,      \* pairs of type and method id set since the definition
    definitions

typeVars == <<type, enable, defined, overrides, definitions>>

Types == TypeNames \cup {object}
NoMethod == "0"
Wild == "what follows the parent in memory"

Unmade == [num_methods |-> 0, room |-> 0, declared |-> 0, parent |-> NoType, method |-> [i \in Ids |-> NoMethod]]

\* The types of InitHeapAndSymbol are in their fixed slots.
TypeTableInit ==
    /\ type = [t \in Types |-> IF t = object THEN [num_methods |-> 2, room |-> Room(2), declared |-> 2, parent |-> NoType,
                                                   method |-> [i \in Ids |-> IF i < 2 THEN "object" ELSE NoMethod]]
                               ELSE Unmade]
    /\ enable \in BOOLEAN
    /\ defined = [t \in Types |-> 0] /\ overrides = {} /\ definitions = 0

\* The type's symbol has a value.
Made(t) == type[t].room > 0

\* alloc_and_init_type, with the count of intern_type_from_c.
FreshType(n) == [Unmade EXCEPT !.num_methods = n, !.room = Room(n)]

\* intern_type_from_c of a type that exists stops the program when it is
\* asked for more methods than there is room for.
Fits(t, n) == Made(t) => Room(n) <= type[t].room

\* intern_type: the linker meets a type; 1 stands for an unknown count.
intern_type(t, n) ==
    /\ ~Made(t)
    /\ type' = [type EXCEPT ![t] = FreshType(IF n = 1 THEN FALLBACK_UNKNOWN_METHOD_COUNT ELSE n)]
    /\ UNCHANGED <<enable, defined, overrides, definitions>>

Max(a, b) == IF a > b THEN a ELSE b

\* The loop of new_type, which goes by the number of methods of the child.
Copied(t, parent, n) ==
    [i \in Ids |-> IF i >= n THEN t.method[i]
                   ELSE IF i < parent.room THEN parent.method[i] ELSE Wild]

\* A set of types that has the parent of each of its members, as far as
\* type_typep looks.
WithParents(above) == \A t \in above : t \in TypeNames => type[t].parent \in above

\* type_typep: whether its loop over the parents of t1 comes to t2.
type_typep(t1, t2) ==
    \A above \in SUBSET (Types \cup {NoType}) : t1 \in above /\ WithParents(above) => t2 \in above

\* new_type, with set_type_values.  Files are loaded in the order of their
\* dependencies, so the parent is defined, and the compiler declares at least
\* as many methods as it did for the parent.  A type may be defined again.
new_type(t, parent, n) ==
    /\ definitions < MaxDefinitions
    /\ type[parent].declared \in 1 .. n /\ ~type_typep(parent, t) /\ Fits(t, n)
    /\ LET old == IF Made(t) THEN type[t] ELSE FreshType(n) IN
       type' = [type EXCEPT ![t] = [old EXCEPT !.method = Copied(old, type[parent], n), !.parent = parent,
                                               !.num_methods = Max(@, n), !.declared = n]]
    /\ defined' = [defined EXCEPT ![t] = definitions + 1] /\ definitions' = definitions + 1
    /\ overrides' = {o \in overrides : o[1] # t}
    /\ UNCHANGED enable

\* Mutant: types that have set the method themselves are changed too.
HandedDown_All(t, id, existing) == {c \in Types : Made(c) /\ id < type[c].num_methods /\ type_typep(c, t)}

\* The types that method_set changes besides its own.
HandedDown(t, id, existing) ==
    {c \in Types : /\ Made(c) /\ id < type[c].num_methods
                   /\ type[c].method[id] = existing /\ type_typep(c, t)}

\* method_set; 1 stands for no method, 2 for the parent's.
method_set(t, id, method) ==
    /\ type[t].parent # NoType /\ id < type[t].num_methods
    /\ LET existing == type[t].method[id]
           new == CASE method = "1" -> NoMethod
                    [] method = "2" -> type[type[t].parent].method[id]
                    [] OTHER -> method
           changed == {t} \cup (IF enable THEN HandedDown(t, id, existing) ELSE {})
       IN type' = [c \in Types |-> IF c \in changed THEN [type[c] EXCEPT !.method[id] = new] ELSE type[c]]
    /\ overrides' = IF method = "2" THEN overrides \ {<<t, id>>} ELSE overrides \cup {<<t, id>>}
    /\ UNCHANGED <<enable, defined, definitions>>

TypeTableNext ==
    \/ \E t \in TypeNames, n \in MethodCounts \cup {1} : intern_type(t, n)
    \/ \E t \in TypeNames, parent \in Types, n \in MethodCounts : new_type(t, parent, n)
    \/ \E t \in TypeNames, id \in MethodIds, m \in Functions \cup {"1", "2"} : method_set(t, id, m)

TypeTableSpec == TypeTableInit /\ [][TypeTableNext]_typeVars

-----------------------------------------------------------------------------
\* The parent of a type was defined before it, and not again.
InOrder(t) == type[t].parent = object \/ defined[type[t].parent] \in 1 .. defined[t] - 1

Inherited(t, id) ==
    /\ defined[t] > 0 /\ <<t, id>> \notin overrides
    /\ id < type[type[t].parent].declared

\* As long as the parent of a type is not defined again, a type that did not
\* set a method has that of its parent, in whatever order the methods of the
\* hierarchy were set: method_set reaches every child that has not overridden
\* the method.
ChildrenFollow ==
    enable => \A t \in TypeNames, id \in MethodIds :
                  Inherited(t, id) /\ InOrder(t) => type[t].method[id] = type[type[t].parent].method[id]

\* A method that a type has set itself is not replaced when an ancestor, whose
\* method is another one, sets its own.
OverridesStay ==
    [][\A t, a \in TypeNames, id \in MethodIds :
          (/\ <<t, id>> \in overrides \cap overrides' /\ a # t /\ type_typep(t, a)
           /\ type[a].method[id] # type[t].method[id] /\ type'[a].method[id] # type[a].method[id])
          => type'[t].method[id] = type[t].method[id]]_typeVars

\* method_set changes the methods of those who inherit and of no others.
MethodsInherited == []ChildrenFollow /\ OverridesStay
=============================================================================
