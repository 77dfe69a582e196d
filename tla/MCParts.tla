------------------------------- MODULE MCParts -------------------------------
(* Parts of the system that share no state with each other, each explored    *)
(* on its own: `part' is chosen at the start and only that part takes steps. *)
EXTENDS KHeap, Services, SymbolTable, TypeTable, Linker

VARIABLE part

\* Two adjacent small heaps; blocks fit, just fit or do not fit.
HeapBases   == [h \in Heaps |-> IF h = kglobalheap THEN 304 ELSE 464]
HeapSizes   == [h \in Heaps |-> IF h = kglobalheap THEN 160 ELSE 64]
FileLengths == <<3, 5, 8>>
Fixed1      == <<"x">>

partsVars == <<part, vars, servicesVars, tableVars, typeVars, linkVars>>

PartsInit ==
    /\ part \in {"heap", "str", "ramdisk", "host", "symbols", "types", "linker"}
    /\ Init /\ ServicesInit /\ SymbolTableInit /\ TypeTableInit /\ LinkerInit
    \* What the initial states of a part differ in, they differ in only while that part runs.
    /\ part # "symbols" => \A n \in DOMAIN hashed : hashed[n] = 0
    /\ part # "types" => enable

\* A step of one part leaves the variables of the others alone.
HeapPart    == part = "heap" /\ Next /\ UNCHANGED <<part, servicesVars, tableVars, typeVars, linkVars>>
Service(p, step) == part = p /\ step /\ UNCHANGED <<part, vars, tableVars, typeVars, linkVars>>
SymbolsPart == part = "symbols" /\ SymbolTableNext /\ UNCHANGED <<part, vars, servicesVars, typeVars, linkVars>>
TypesPart   == part = "types" /\ TypeTableNext /\ UNCHANGED <<part, vars, servicesVars, tableVars, linkVars>>
LinkerPart  == part = "linker" /\ LinkerNext /\ UNCHANGED <<part, vars, servicesVars, tableVars, typeVars>>

PartsNext ==
    \/ HeapPart
    \/ Service("str", StrNext) \/ Service("ramdisk", RamdiskNext) \/ Service("host", HostNext)
    \/ SymbolsPart \/ TypesPart \/ LinkerPart

PartsSpec == PartsInit /\ [][PartsNext]_partsVars
==============================================================================
