---------------------------- MODULE SymbolTable ----------------------------
(***************************************************************************)
(* The GOAL symbol table of game/kernel/kscheme.cpp: two areas around s7,  *)
(* a fixed part after it, linear probes from a hash that wrap from one     *)
(* area to the other.  Slots are numbered from s7; a name's hash is any    *)
(* slot, chosen once.                                                      *)
(***************************************************************************)
EXTENDS Integers, FiniteSets

CONSTANTS
    FixedNames,     \* names of fixed symbols, in the order of their slots
    Names,          \* other names
    NoName,
    Half,           \* GOAL_MAX_SYMBOLS / 2
    Reserved        \* slots after LastSymbol

FixedEnd == Cardinality(DOMAIN FixedNames)
LastSymbol == Half - Reserved

ASSUME SymbolTableAssumption ==
    /\ Half \in Nat /\ Half > 2 /\ Reserved \in 0 .. Half
    /\ FixedEnd \in Nat /\ DOMAIN FixedNames = 1 .. FixedEnd /\ FixedEnd <= LastSymbol
    /\ \A i, j \in DOMAIN FixedNames : FixedNames[i] = FixedNames[j] => i = j
    /\ NoName \notin Names /\ \A i \in DOMAIN FixedNames : FixedNames[i] \notin Names \cup {NoName}

VARIABLES
    hashed,         \* [names -> slot]: sh2 / 8
    table,          \* [slots -> name]
    NumSymbols,
    interned        \* what intern_from_c returned for a name; 0 before

tableVars == <<hashed, table, NumSymbols, interned>>

Fixed == {FixedNames[i] : i \in DOMAIN FixedNames}
SymbolTable2 == -Half
TableSlots == SymbolTable2 .. Half - 1

\* No slot: symbol_slot or a symbol of 0; and the 1 of a probe that ran out.
Null == 2 * Half
RanOut == 3 * Half

\* InitHeapAndSymbol, set_fixed_symbol and set_fixed_type.
SymbolTableInit ==
    /\ hashed \in [Names \cup Fixed -> TableSlots]
    /\ table = [s \in TableSlots |-> IF s \in 0 .. FixedEnd - 1 THEN FixedNames[s + 1] ELSE NoName]
    /\ NumSymbols = FixedEnd
    /\ interned = [n \in Names |-> Null]

-----------------------------------------------------------------------------
find_symbol_in_fixed_area(name) ==
    IF \E s \in 0 .. FixedEnd - 1 : table[s] = name
    THEN CHOOSE s \in 0 .. FixedEnd - 1 : table[s] = name
    ELSE Null

\* Mutant: an open slot ends the search.
find_symbol_in_area_Open(name, start, end) ==
    LET stops == {s \in start .. end - 1 : table[s] \in {name, NoName}}
        first == CHOOSE s \in stops : \A t \in stops : s <= t
    IN IF stops = {} THEN [symbol |-> RanOut, slot |-> Null]
       ELSE IF table[first] = name THEN [symbol |-> first, slot |-> Null]
       ELSE [symbol |-> Null, slot |-> first]

\* find_symbol_in_area: the symbol that is found, and symbol_slot.
find_symbol_in_area(name, start, end) ==
    LET stops == {s \in start .. end - 1 : table[s] \in {name, NoName}}
        first == CHOOSE s \in stops : \A t \in stops : s <= t
    IN IF stops = {} THEN [symbol |-> RanOut, slot |-> Null]
       ELSE IF table[first] = name THEN [symbol |-> first, slot |-> Null]
       ELSE [symbol |-> find_symbol_in_fixed_area(name), slot |-> first]

\* The pair () lies in the two slots below s7.
LowerEnd == -2

\* Where the search goes on when the first area ran out.
SecondStart(sh2) == IF sh2 > 0 THEN SymbolTable2 ELSE FixedEnd

find_symbol_from_c(name) ==
    LET sh2 == hashed[name]
        first == find_symbol_in_area(name, sh2, IF sh2 > 0 THEN LastSymbol ELSE LowerEnd)
        second == find_symbol_in_area(name, SecondStart(sh2), IF SecondStart(sh2) < 0 THEN LowerEnd ELSE LastSymbol)
    IN IF first.symbol # RanOut THEN first
       ELSE IF second.symbol # RanOut THEN second
       ELSE [symbol |-> find_symbol_in_fixed_area(name), slot |-> Null]

\* intern_from_c.  When both areas ran out the symbol is written at address 0.
intern_from_c(name) ==
    LET found == find_symbol_from_c(name) IN
    IF found.symbol # Null
    THEN interned' = [interned EXCEPT ![name] = found.symbol] /\ UNCHANGED <<table, NumSymbols>>
    ELSE /\ table' = IF found.slot = Null THEN table ELSE [table EXCEPT ![found.slot] = name]
         /\ NumSymbols' = NumSymbols + 1
         /\ interned' = [interned EXCEPT ![name] = found.slot]

\* A name that found no room may be tried again, up to a bound.
MaxInterned == FixedEnd + Cardinality(Names) + 1

Intern(name) == interned[name] = Null /\ NumSymbols < MaxInterned /\ intern_from_c(name) /\ UNCHANGED hashed

SymbolTableNext == \E name \in Names : Intern(name)
SymbolTableSpec == SymbolTableInit /\ [][SymbolTableNext]_tableVars

-----------------------------------------------------------------------------
\* A name that was interned is found where it was put, whatever was interned
\* since, and so is every fixed symbol, however full its area: the compiled
\* code holds the offset of the slot.
SymbolsStay ==
    /\ \A name \in Names : interned[name] # Null => find_symbol_from_c(name).symbol = interned[name]
    /\ \A i \in DOMAIN FixedNames : find_symbol_from_c(FixedNames[i]).symbol = i - 1

\* Two names never have the same symbol, and none is put on the empty pair or
\* after LastSymbol.
SymbolsApart ==
    /\ \A m, n \in Names : m # n /\ interned[m] # Null => interned[m] # interned[n]
    /\ \A s \in TableSlots : table[s] # NoName => s \notin {-1, -2} /\ s < LastSymbol

\* A name has one slot of its own for ever.
SymbolsSound == SymbolsStay /\ SymbolsApart
=============================================================================
