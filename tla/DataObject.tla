----------------------------- MODULE DataObject -----------------------------
(* Data objects of the compiler (DataObjectGenerator.cpp) and how their link *)
(* table is read, by the kernel (klink.cpp) and by the decompiler            *)
(* (LinkedObjectFileCreation.cpp).  Bytes are digits below Base.  A name in  *)
(* the table, with its marker and its terminator, is one number above them.  *)
EXTENDS Integers, Sequences, FiniteSets, SequencesExt

CONSTANT Base       \* 256

UINT8_MAX == Base - 1

\* The words of an object: plain data, pointers into it, links to symbols and
\* types, references to strings of the pool.
Symbols == {"sym1", "sym2"}
Types == {"string", "type1"}
Strings == {"str1", "str2"}
StringWords(s) == IF s = "str1" THEN 1 ELSE 2
NameByte(s) == CASE s = "sym1" -> Base [] s = "sym2" -> Base + 1 [] s = "string" -> Base + 2 [] s = "type1" -> Base + 3
Named(byte) == CHOOSE s \in Symbols \cup Types : NameByte(s) = byte

At(words, kind) == {w \in 0 .. Len(words) - 1 : words[w + 1].kind = kind}
Word(kind, target) == [kind |-> kind, target |-> target]
Plain == Word("plain", 0)

\* DataObjectGenerator::add_strings: each string of the pool goes to the end.
RECURSIVE add_strings(_, _)
add_strings(words, pool) ==
    IF pool = <<>> THEN words
    ELSE LET refs == At(words, Head(pool))
             aligned == words \o [i \in 1 .. (-Len(words)) % 4 |-> Plain]
             target == Len(aligned) + 1
             linked == [i \in 1 .. Len(aligned) |->
                           IF i - 1 \in refs THEN Word("pointer", 4 * target) ELSE aligned[i]]
             string == <<Word("string", 0)>> \o [i \in 1 .. 1 + StringWords(Head(pool)) |-> Plain]
         IN IF refs = {} THEN add_strings(words, Tail(pool))
            ELSE add_strings(linked \o string, Tail(pool))

\* push_variable_length_integer.
push_variable_length_integer(value) == [i \in 1 .. value \div UINT8_MAX |-> UINT8_MAX] \o <<value % UINT8_MAX>>

Digit(value, i) == (value \div Base ^ i) % Base

\* push_better_variable_length_integer: the low bits say how many bytes follow.
push_better_variable_length_integer(value) ==
    LET flag == IF value >= Base ^ 3 THEN 3 ELSE IF value >= Base ^ 2 THEN 2 ELSE IF value >= Base THEN 1 ELSE 0
    IN <<Digit(value, 0) + flag>> \o [i \in 1 .. flag |-> Digit(value, i)]

Sorted(S) == [i \in 1 .. Cardinality(S) |-> CHOOSE x \in S : Cardinality({y \in S : y < x}) = i - 1]

\* The pointers as runs of consecutive words, in order.
Runs(pointers) ==
    LET firsts == Sorted({w \in pointers : w - 1 \notin pointers})
        lasts == Sorted({w \in pointers : w + 1 \notin pointers})
    IN [i \in 1 .. Len(firsts) |-> <<firsts[i], lasts[i]>>]

LastWord(r) == r[2] + 1

PointerTable(pointers) ==
    LET runs == Runs(pointers) IN
    FlattenSeq([i \in 1 .. Len(runs) |->
        push_variable_length_integer(runs[i][1] - IF i = 1 THEN 0 ELSE LastWord(runs[i - 1]))
        \o push_variable_length_integer(runs[i][2] - runs[i][1] + 1)]) \o <<0>>

NameTable(words, name) ==
    LET at == Sorted(At(words, name)) IN
    IF at = <<>> THEN <<>>
    ELSE <<NameByte(name)>>
         \o FlattenSeq([i \in 1 .. Len(at) |->
                push_better_variable_length_integer(4 * (at[i] - IF i = 1 THEN 0 ELSE at[i - 1]))])
         \o <<0>>

\* DataObjectGenerator::generate_link_table.
generate_link_table(words) ==
    PointerTable(At(words, "pointer"))
    \o NameTable(words, "sym1") \o NameTable(words, "sym2")
    \o NameTable(words, "string") \o NameTable(words, "type1") \o <<0, 0>>

-----------------------------------------------------------------------------
(* Reading the table.  s holds the position in it, the word reached, whether *)
(* words are being fixed, and what has been fixed so far.                    *)

Toggle(s) == [s EXCEPT !.fixing = ~@]

RECURSIVE OneMode(_, _)
OneMode(table, s) ==
    LET count == table[s.at]
        read == [s EXCEPT !.at = @ + 1, !.word = @ + count,
                          !.fixed = IF s.fixing THEN @ \cup (s.word .. s.word + count - 1) ELSE @]
    IN IF count # UINT8_MAX THEN read
       ELSE OneMode(table, IF table[read.at] = 0 THEN Toggle([read EXCEPT !.at = @ + 1]) ELSE read)

RECURSIVE AllModes(_, _)
AllModes(table, s) ==
    LET next == Toggle(OneMode(table, s)) IN
    IF table[next.at] = 0 THEN [next EXCEPT !.at = @ + 1] ELSE AllModes(table, next)

\* LINK_V2_STATE_OFFSETS of work_v2, and the first section of link_v2_or_v4.
Offsets(table) ==
    LET s == [at |-> 1, word |-> 0, fixing |-> FALSE, fixed |-> {}] IN
    IF table[1] = 0 THEN [s EXCEPT !.at = 2] ELSE AllModes(table, s)

\* c_symlink2: the words of one name, and where its entry ends.
RECURSIVE c_symlink2(_, _, _, _)
c_symlink2(table, at, byte, found) ==
    LET first == table[at]
        more == first % 4
        seek == first - more + FoldFunction(+, 0, [i \in 1 .. more |-> table[at + i] * Base ^ i])
        next == at + 1 + more
        here == byte + seek
    IN IF table[next] = 0 THEN [at |-> next + 1, words |-> found \cup {here \div 4}]
       ELSE c_symlink2(table, next, here, found \cup {here \div 4})

\* The symbol section: which words each name is linked to.
RECURSIVE SymbolSection(_, _, _)
SymbolSection(table, at, links) ==
    IF table[at] < Base THEN links
    ELSE LET entry == c_symlink2(table, at + 1, 0, {})
         IN SymbolSection(table, entry.at, [links EXCEPT ![Named(table[at])] = @ \cup entry.words])

Linked(table) ==
    LET offsets == Offsets(table) IN
    [pointers |-> offsets.fixed,
     names |-> SymbolSection(table, offsets.at, [n \in Symbols \cup Types |-> {}])]

-----------------------------------------------------------------------------
(* What the data compilers make.                                             *)

Words(kinds) == [i \in 1 .. Len(kinds) |-> Word(kinds[i], 0)]
Repeat(n, kinds) == FlattenSeq([i \in 1 .. n |-> kinds])

\* compile_game_count, with n levels.
compile_game_count(n) ==
    Words(<<"type1", "plain">> \o Repeat(n, <<"plain", "plain">>) \o <<"plain", "plain">>)

\* compile_dir_tpages, with n lengths.
compile_dir_tpages(n) == Words(<<"type1", "plain">> \o Repeat(n, <<"plain", "sym1", "sym1">>))

\* compile, of game_text.cpp, with the texts of one language.
compile_game_text(group, texts) ==
    Words(<<"type1", "plain", "plain", group>> \o FlattenSeq([i \in 1 .. Len(texts) |-> <<"plain", texts[i]>>]))

=============================================================================
