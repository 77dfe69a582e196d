------------------------------ MODULE FlowTasks ------------------------------
(* Functions whose control flow is found, and what the result must say.      *)
EXTENDS Integers, Sequences, FiniteSets, SequencesExt, Task

G == INSTANCE ControlFlow

(***************************************************************************)
(* Functions as the GOAL compiler lays them out: a statement has a kind    *)
(* and parts, conditions first.  Its code is words and labels; a branch    *)
(* names its label, the path of its statement and a number.                *)
(***************************************************************************)
Do(s, parts) == [s |-> s, parts |-> parts]
Work == Do("work", <<>>)
Instr(what) == [is |-> "word", what |-> what]
Label(l) == [is |-> "label", label |-> l]
Jump(kind, cond, l, what) == <<[is |-> "branch", kind |-> kind, cond |-> cond, label |-> l], Instr(what)>>
Return == <<>>

RECURSIVE Code(_, _, _, _)
\* next: the label a break goes to; again: the one a continue goes to.
Code(x, path, next, again) ==
    LET l(k) == Append(path, k)
        end == l(0)
        Part(k) == Code(x.parts[k], l(k), next, again)
        Inner(k) == Code(x.parts[k], l(k), end, l(9))
        Unless(k, label, what) == Part(k) \o <<Instr("WORK")>> \o Jump("branch", "TEST", label, what)
        Go(label) == Jump("branch", "ALWAYS", label, "NOP")
        Likely(k) == Part(k) \o Jump("likely", "TEST", end, "VAR")
    IN  CASE x.s = "work" -> <<Instr("WORK")>>
          [] x.s = "seq" -> Part(1) \o Part(2)
          [] x.s = "when" -> Unless(1, end, "SET_REG_FALSE") \o Part(2) \o <<Label(end)>>
          [] x.s = "unless" -> Unless(1, end, "SET_REG_TRUE") \o Part(2) \o <<Label(end)>>
          [] x.s = "cond" ->
                Unless(1, l(8), "SET_REG_FALSE") \o Part(2) \o Go(end) \o <<Label(l(8))>>
                  \o Unless(3, end, "SET_REG_FALSE") \o Part(4) \o <<Label(end)>>
          [] x.s = "if" -> Unless(1, l(8), "NOP") \o Part(2) \o Go(end) \o <<Label(l(8))>> \o Part(3) \o <<Label(end)>>
          [] x.s = "case" ->
                Unless(1, l(8), "NOP") \o Part(2) \o Go(end) \o <<Label(l(8))>>
                  \o Unless(3, l(7), "NOP") \o Part(4) \o Go(end) \o <<Label(l(7))>> \o Part(5) \o <<Label(end)>>
          [] x.s = "if0" -> Unless(1, end, "NOP") \o Part(2) \o Go(end) \o <<Label(end)>>
          [] x.s = "and" -> Likely(1) \o Part(2) \o <<Label(end)>>
          [] x.s = "and3" -> Likely(1) \o Likely(2) \o Part(3) \o <<Label(end)>>
          [] x.s = "while" -> Go(l(9)) \o <<Label(l(8))>> \o Inner(2) \o <<Label(l(9))>> \o Unless(1, l(8), "NOP") \o <<Label(end)>>
          [] x.s = "until" -> <<Label(l(8))>> \o Inner(2) \o <<Label(l(9))>> \o Unless(1, l(8), "NOP") \o <<Label(end)>>
          [] x.s = "loop" -> <<Label(l(9))>> \o Inner(1) \o Go(l(9)) \o <<Label(end)>>
          [] x.s = "again" -> <<Label(l(9))>> \o Unless(1, end, "SET_REG_FALSE") \o Inner(2) \o Go(l(9)) \o <<Label(end)>>
          [] x.s = "return" -> <<Instr("WORK")>> \o Go(Return) \o <<Instr("WORK")>>
          [] x.s = "break" -> Go(next) \o <<Instr("WORK")>>
          [] x.s = "continue" -> Go(again) \o <<Instr("WORK")>>
          [] x.s = "asm" -> Jump("branch", "TEST", Return, "WORK") \o <<Instr("WORK")>>
          [] x.s = "likely" -> Jump("likely", "TEST", Return, "WORK") \o <<Instr("WORK")>>
\* The type tag, the code and an epilogue, with the labels made into words.
FunctionOf(x) ==
    LET Items == <<Instr("TAG")>> \o Code(x, <<1>>, Return, Return) \o <<Label(Return), Instr("EPILOGUE"), Instr("EPILOGUE")>>
        Resolve(items) ==
            LET IsLabel(item) == item.is = "label"
                At(l) == Cardinality({k \in DOMAIN items : items[k].is # "label" /\ \E m \in DOMAIN items : m > k /\ items[m] = Label(l)})
                words == SelectSeq(items, LAMBDA item : ~IsLabel(item))
            IN  [k \in DOMAIN words |-> IF words[k].is = "word" THEN G!Op(words[k].what) ELSE G!Branch(words[k].kind, words[k].cond, At(words[k].label))]
    IN  Resolve(Items)

\* Statements with work in all their parts.
Parts == [work |-> 0, return |-> 0, when |-> 2, unless |-> 2, cond |-> 4, if |-> 3, case |-> 5, if0 |-> 2, and |-> 2, and3 |-> 3,
          while |-> 2, until |-> 2, loop |-> 1, asm |-> 0, likely |-> 0, seq |-> 2]
Plain(s) == Do(s, [k \in 1 .. Parts[s] |-> Work])
With(x, k, y) == [x EXCEPT !.parts[k] = y]
Conditions(s) == CASE s \in {"cond", "case"} -> {1, 3} [] s \in {"and", "and3"} -> 1 .. Parts[s] [] s = "loop" -> {} [] OTHER -> {1}
\* A likely assembly branch is only found between two blocks or two sequences.
\* A condition has a value.  The second condition of a cond without else is
\* found too early, and the cond with it, unless it is simple.
Fits(s, k) ==
    IF k \notin Conditions(s) THEN DOMAIN Parts \ (IF s = "seq" THEN {"likely"} ELSE {})
    ELSE DOMAIN Parts \ ({"return", "asm", "likely"} \cup IF s = "cond" /\ k = 3 THEN {"if0", "until", "loop"} ELSE {})
Nested == UNION {UNION {{With(Plain(s), k, Plain(t)) : t \in Fits(s, k)} : k \in 1 .. Parts[s]} : s \in DOMAIN Parts}
\* Loops that are left from inside.  What comes next is not a loop without
\* condition, whose first block a break cannot name, nor an until loop of more
\* than one block, for which it names another block.
Leaves == [s : {"break", "continue", "return"}, parts : {<<>>}]
LoopsOver(body) == {Do("while", <<Work, body>>), Do("until", <<Work, body>>), Do("loop", <<body>>)}
Exits == UNION {LoopsOver(Do("when", <<Work, leaf>>)) : leaf \in Leaves}
Programs ==
    Nested \cup {Do("again", <<Work, Work>>)} \cup {Do("seq", <<x, Plain(t)>>) : x \in Exits, t \in DOMAIN Parts \ {"loop", "likely"}}

BlocksOf(func) == G!WithoutEpilogue(G!resize_first_block(G!find_blocks_in_function(func), 1), Len(func) - 2)
FindBlocks ==
    /\ task = Asked("flow")
    /\ \E x \in Programs : \E func \in {FunctionOf(x)} : \E blocks \in {BlocksOf(func)} :
          \E g \in {G!InitialGraph(func, blocks, {})} :
             task' = [kind |-> "flow", func |-> func, blocks |-> blocks, first |-> g, g |-> g, done |-> FALSE]
Structure ==
    /\ task.kind = "flow" /\ ~task.done
    /\ \E h \in {G!build_cfg_step(task.g, <<>>)} : task' = [task EXCEPT !.g = h, !.done = h = task.g]
-----------------------------------------------------------------------------
(* What the structures say of the blocks.                                    *)

None == -1
End == 0
RECURSIVE Start(_, _, _)
\* The block that is run first when x is run, or what comes after it.
Start(g, x, then) ==
    CASE g.v[x].kind = "block" -> x - 2
      [] g.v[x].kind = "until" -> Start(g, g.v[x].kids[2], then)
      [] g.v[x].kind = "empty" -> then
      [] OTHER -> Start(g, g.v[x].kids[1], then)
RECURSIVE Flow(_, _, _, _)
\* The blocks in x with where they go when they fall through and when they
\* branch, given where x goes.
Flow(g, x, ft, br) ==
    LET kids == g.v[x].kids
        n == Len(kids)
        At(k) == IF k > n THEN ft ELSE Start(g, kids[k], ft)
        In(k, f, b) == Flow(g, kids[k], f, b)
        Odd == {k \in 1 .. n - 1 : k % 2 = 1}
        Case(k) == In(k, At(k + 1), At(k + 2)) \cup In(k + 1, ft, None)
        Short(k) == In(k, At(k + 2), At(k + 1)) \cup In(k + 1, None, ft)
    IN  CASE g.v[x].kind = "block" -> {<<x - 2, ft, br>>}
          [] g.v[x].kind = "seq" -> UNION {IF k = n THEN In(k, ft, br) ELSE In(k, At(k + 1), None) : k \in 1 .. n}
          [] g.v[x].kind \in {"while", "until"} -> In(1, ft, At(2)) \cup In(2, At(1), None)
          [] g.v[x].kind = "until1" -> In(1, ft, At(1))
          [] g.v[x].kind = "inf-loop" -> In(1, None, At(1))
          [] g.v[x].kind \in {"cwe", "cne"} -> UNION {Case(k) : k \in Odd} \cup (IF n % 2 = 1 THEN In(n, ft, None) ELSE {})
          [] g.v[x].kind = "sc" -> UNION {Short(k) : k \in Odd} \cup (IF n % 2 = 1 THEN In(n, ft, None) ELSE {})
          [] g.v[x].kind = "goto_end" -> In(1, None, Len(task.blocks)) \cup In(2, ft, br)
          [] g.v[x].kind = "break" -> In(1, None, g.v[x].dest) \cup (IF n = 2 THEN In(2, ft, br) ELSE {})
          [] OTHER -> {}
BlockOf(x) == CASE x = G!Null -> None [] x = G!Exit -> End [] OTHER -> x - 2
\* Where the block goes by its own instructions.
Ways(b) == <<BlockOf(task.first.v[G!BlockVertex(b)].sf), BlockOf(task.first.v[G!BlockVertex(b)].sb)>>
SameWay(a, b) == a = b \/ (None \in Range(a) /\ Range(a) = Range(b))
\* An assembly branch stays in its sequence, which goes on after it and, when
\* it is likely, after its delay slot.
AsmEnd(b) == task.first.v[G!BlockVertex(b)].end.asm
Asm(b) == AsmEnd(b) \/ (b > 1 /\ AsmEnd(b - 1) /\ task.first.v[G!BlockVertex(b - 1)].end.likely)
SameFlow(flow) ==
    /\ Cardinality(flow) = Len(task.blocks)
    /\ \A b \in DOMAIN task.blocks : \E e \in flow : e[1] = b /\ (Asm(b) \/ SameWay(<<e[2], e[3]>>, Ways(b)))
\* The links of the vertices that are not part of another one agree.
Consistent(g) ==
    LET Top == G!for_each_top_level_vtx(g) \cup {G!Entry, G!Exit} IN
    \A x \in Top :
        /\ \A y \in Range(G!succs(g.v[x])) : y \in Top /\ G!has_pred(g.v[y], x)
        /\ \A p \in Range(g.v[x].pred) : p \in Top /\ x \in Range(G!succs(g.v[p]))
        /\ IsInjective(g.v[x].pred)
        /\ g.v[x].next # G!Null => g.v[x].next \in Top /\ g.v[g.v[x].next].prev = x
        /\ g.v[x].sb = G!Null <=> ~g.v[x].end.has
        /\ x # G!Exit /\ g.v[x].sf = G!Null /\ g.v[x].sb # G!Null => g.v[x].end.always
        /\ \A kid \in Range(g.v[x].kids) : g.v[kid].parent = x

\* No assertion of the passes fails, and the graph stays a graph after each; at
\* the end all blocks are in one structure, in which each goes where its branch
\* and its place in the code say, to a label where that is a jump out of it
\* (ControlFlowGraph, build_cfg).
ControlFlowFaithful ==
    task.kind = "flow" =>
        /\ task.g.ok /\ Consistent(task.g)
        /\ task.done => /\ G!is_fully_resolved(task.g)
                        /\ SameFlow(Flow(task.g, G!get_single_top_level(task.g), End, None))
                        /\ \A x \in DOMAIN task.g.v : task.g.v[x].kind = "break" => task.g.v[G!BlockVertex(task.g.v[x].dest)].label
=============================================================================
