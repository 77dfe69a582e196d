----------------------------- MODULE ControlFlow -----------------------------
(* The control flow of a function as nested structures: its basic blocks,    *)
(* the graph of them, and the passes that fold parts of the graph into one   *)
(* vertex until a single one is left.                                        *)
EXTENDS Integers, Sequences, FiniteSets, SequencesExt

(***************************************************************************)
(* A word of a function is an ordinary instruction, named by what it would *)
(* be in a delay slot, or a branch to the word `to'.  Words are numbered   *)
(* from 0; word 0 is the type tag.                                         *)
(***************************************************************************)
Op(what) == [k |-> "op", what |-> what, cond |-> "none", to |-> 0]
Branch(kind, cond, to) == [k |-> kind, what |-> "branch", cond |-> cond, to |-> to]

is_branch(i, likely) == i.k = (IF likely THEN "likely" ELSE "branch")
is_always_branch(i) == i.cond = "ALWAYS"
WordOf(func, k) == func[k + 1]
-----------------------------------------------------------------------------
(* Basic blocks: [first word, word after the last one).                      *)

Dividers(func) ==
    {0, Len(func)} \cup UNION {
        IF WordOf(func, k).k = "op" THEN {}
        ELSE {k + 2, WordOf(func, k).to} \cup (IF is_branch(WordOf(func, k), TRUE) THEN {k + 1} ELSE {}) : k \in 0 .. Len(func) - 1}
\* Every branch has its delay slot and its target inside the function.
find_blocks_in_function(func) ==
    LET Cut(divider) == [j \in 1 .. Len(divider) - 1 |-> [start |-> divider[j], end |-> divider[j + 1]]]
    IN  Cut(SelectSeq([k \in 1 .. Len(func) + 1 |-> k - 1], LAMBDA word : word \in Dividers(func)))

\* The prologue is taken out of the first block, together with a second block
\* that starts where it ends; the epilogue out of the last, which may leave it
\* empty.
resize_first_block(blocks, new_start) ==
    IF Len(blocks) >= 2 /\ blocks[2].start = new_start
    THEN <<[start |-> new_start, end |-> blocks[2].end]>> \o SubSeq(blocks, 3, Len(blocks))
    ELSE [blocks EXCEPT ![1].start = new_start]
WithoutEpilogue(blocks, epilogue_start) == [blocks EXCEPT ![Len(blocks)].end = epilogue_start]
-----------------------------------------------------------------------------
(* Vertices.  A graph is its vertices in the order of their allocation, with *)
(* the entry and the exit first, and whether an assertion has failed.        *)

Null == 0
Entry == 1
Exit == 2
NoBranch == [has |-> FALSE, likely |-> FALSE, always |-> FALSE, asm |-> FALSE, slot |-> "NO_BRANCH"]
\* kids: the children in the order condition, body, condition, body, ..., else.
CfgVtx(kind, kids) ==
    [kind |-> kind, kids |-> kids, parent |-> Null, sb |-> Null, sf |-> Null, next |-> Null, prev |-> Null, pred |-> <<>>,
     end |-> NoBranch, label |-> FALSE, exit |-> FALSE, dest |-> Null]
BlockVertex(k) == k + 2

Abort(g) == [g EXCEPT !.ok = FALSE]
alloc(g, vtx) == [g EXCEPT !.v = Append(@, vtx)]
Newest(g) == Len(g.v)
for_each_top_level_vtx(g) == {x \in 3 .. Len(g.v) : g.v[x].parent = Null}
is_fully_resolved(g) == Cardinality(for_each_top_level_vtx(g)) = 1
get_single_top_level(g) == CHOOSE x \in for_each_top_level_vtx(g) : TRUE

succs(u) == (IF u.sb # Null THEN <<u.sb>> ELSE <<>>) \o (IF u.sf \notin {Null, u.sb} THEN <<u.sf>> ELSE <<>>)
has_pred(u, p) == \E k \in DOMAIN u.pred : u.pred[k] = p

parent_claim(g, xs, parent) ==
    [g EXCEPT !.v = [x \in DOMAIN @ |->
        IF x \notin xs THEN @[x]
        ELSE [@[x] EXCEPT !.parent = parent, !.next = Null, !.prev = Null, !.pred = <<>>, !.sf = Null, !.sb = Null]]]
replace_pred_and_check(g, x, old, new) ==
    IF Cardinality({k \in DOMAIN g.v[x].pred : g.v[x].pred[k] = old}) # 1 THEN Abort(g)
    ELSE [g EXCEPT !.v[x].pred = [k \in DOMAIN @ |-> IF @[k] = old THEN new ELSE @[k]]]
replace_succ_and_check(g, x, old, new) ==
    IF old \notin {g.v[x].sb, g.v[x].sf} THEN Abort(g)
    ELSE [g EXCEPT !.v[x].sb = IF @ = old THEN new ELSE @, !.v[x].sf = IF @ = old THEN new ELSE @]
replace_preds_with_and_check(g, x, olds, new) ==
    IF x = Null \/ \E k \in DOMAIN olds : ~has_pred(g.v[x], olds[k]) THEN Abort(g)
    ELSE [g EXCEPT !.v[x].pred = SelectSeq(@, LAMBDA p : \A k \in DOMAIN olds : olds[k] # p)
                                   \o (IF new = Null THEN <<>> ELSE <<new>>)]

\* What comes to b comes to x instead; where b goes x goes instead.
TakePreds(g, b, x) ==
    LET Redirected == FoldLeft(LAMBDA h, p : replace_succ_and_check(h, p, b, x), g, g.v[b].pred)
    IN  [Redirected EXCEPT !.v[x].pred = g.v[b].pred]
TakeSuccs(g, b, x) ==
    LET Redirected == FoldLeft(LAMBDA h, s : replace_pred_and_check(h, s, b, x), g, succs(g.v[b]))
    IN  [Redirected EXCEPT !.v[x].sf = g.v[b].sf, !.v[x].sb = g.v[b].sb]
\* x takes the place of the code from first to last.
After(g, x, next) == [g EXCEPT !.v = [y \in DOMAIN @ |-> IF y = x THEN [@[y] EXCEPT !.next = next] ELSE IF y = next THEN [@[y] EXCEPT !.prev = x] ELSE @[y]]]
Before(g, x, prev) == [g EXCEPT !.v = [y \in DOMAIN @ |-> IF y = x THEN [@[y] EXCEPT !.prev = prev] ELSE IF y = prev THEN [@[y] EXCEPT !.next = x] ELSE @[y]]]
Place(g, x, first, last) == After(Before(g, x, g.v[first].prev), x, g.v[last].next)
\* The branch of b is now part of what b belongs to.
DropBranch(g, b) == IF g.v[b].sb = Null THEN g ELSE replace_preds_with_and_check(g, g.v[b].sb, <<b>>, Null)

RECURSIVE get_first_block_id(_, _)
\* Null where the code asserts that it is not asked.
get_first_block_id(g, x) ==
    CASE x < 3 -> Null
      [] x >= 3 /\ g.v[x].kind = "block" -> x - 2
      [] x >= 3 /\ g.v[x].kind \in {"while", "inf-loop", "empty"} -> Null
      [] OTHER -> get_first_block_id(g, g.v[x].kids[1])
NeedsLabel(g, x) ==
    LET b == get_first_block_id(g, x) IN IF b = Null THEN Abort(g) ELSE [g EXCEPT !.v[BlockVertex(b)].label = TRUE]

RECURSIVE Following(_, _)
\* The code after x, in the order of its layout.
Following(g, x) == IF g.v[x].next = Null THEN <<>> ELSE <<g.v[x].next>> \o Following(g, g.v[x].next)
is_found_after(g, a, b) == \E k \in DOMAIN Following(g, b) : Following(g, b)[k] = a
\* The code from x up to stop.
Upto(g, x, stop) == LET run == <<x>> \o Following(g, x) IN SubSeq(run, 1, (CHOOSE k \in DOMAIN run : run[k] = stop) - 1)
First(found) == IF found = {} THEN Null ELSE CHOOSE x \in found : \A y \in found : x <= y
-----------------------------------------------------------------------------
(* The graph of the blocks.                                                  *)

create_blocks(count) ==
    [ok |-> TRUE, brk |-> FALSE,
     v |-> <<CfgVtx("entry", <<>>), CfgVtx("exit", <<>>)>>
             \o [k \in 1 .. count |-> [CfgVtx("block", <<>>) EXCEPT
                    !.next = IF k = count THEN Null ELSE BlockVertex(k + 1), !.prev = IF k = 1 THEN Null ELSE BlockVertex(k - 1)]]]
AddPred(g, first, second) == IF has_pred(g.v[second], first) THEN g ELSE [g EXCEPT !.v[second].pred = Append(@, first)]
link_fall_through(g, first, second) == AddPred([g EXCEPT !.v[first].sf = second], first, second)
link_branch(g, first, second) == AddPred([g EXCEPT !.v[first].sb = second], first, second)

get_delay_slot(i) == IF i.what \in {"NOP", "SET_REG_FALSE", "SET_REG_TRUE"} THEN i.what ELSE "OTHER"
branch_delay_asm(i) == i.what \notin {"NOP", "SET_REG_FALSE", "SET_REG_TRUE", "VAR"}

\* The last block that starts at the word.
TargetBlock(blocks, word) == CHOOSE k \in DOMAIN blocks : blocks[k].start = word /\ \A m \in DOMAIN blocks : blocks[m].start = word => m <= k
EndsLikely(func, b) == b.end > b.start /\ is_branch(WordOf(func, b.end - 1), TRUE)
EndsBranch(func, b) == b.end - b.start >= 2 /\ ~EndsLikely(func, b) /\ is_branch(WordOf(func, b.end - 2), FALSE)

\* is_always_branch asserts that no likely branch is always taken.
LinkLikely(g, func, blocks, k) ==
    LET x == BlockVertex(k)
        likely == WordOf(func, blocks[k].end - 1)
        To(h) == link_branch(h, x, x + 1)
        Skip(h) == IF k < Len(blocks) THEN link_fall_through(h, x, x + 2) ELSE h
        Slot(h) == link_branch([h EXCEPT !.v[x + 1].end = [NoBranch EXCEPT !.has = TRUE, !.always = TRUE, !.slot = "NO_DELAY"]],
                               x + 1, BlockVertex(TargetBlock(blocks, likely.to)))
    IN  IF is_always_branch(likely) THEN Abort(g)
        ELSE Slot(Skip(To([g EXCEPT !.v[x].end = [NoBranch EXCEPT !.has = TRUE, !.likely = TRUE, !.slot = "NO_DELAY"]])))
LinkBranch(g, func, blocks, k) ==
    LET x == BlockVertex(k)
        branch == WordOf(func, blocks[k].end - 2)
        To(h) == link_branch(h, x, BlockVertex(TargetBlock(blocks, branch.to)))
        Skip(h) == IF k < Len(blocks) /\ ~is_always_branch(branch) THEN link_fall_through(h, x, x + 1) ELSE h
    IN  Skip(To([g EXCEPT !.v[x].end = [NoBranch EXCEPT
            !.has = TRUE, !.always = is_always_branch(branch), !.slot = get_delay_slot(WordOf(func, blocks[k].end - 1))]]))
\* The delay slot of a likely branch has been linked with its branch.
LinkBlock(g, func, blocks, k) ==
    IF g.v[BlockVertex(k)].end.always THEN g
    ELSE IF EndsLikely(func, blocks[k]) THEN LinkLikely(g, func, blocks, k)
    ELSE IF EndsBranch(func, blocks[k]) THEN LinkBranch(g, func, blocks, k)
    ELSE IF k < Len(blocks) THEN link_fall_through(g, BlockVertex(k), BlockVertex(k + 1)) ELSE g
EndsInAsm(func, b) ==
    \/ EndsLikely(func, b) /\ branch_delay_asm(WordOf(func, b.end))
    \/ EndsBranch(func, b) /\ branch_delay_asm(WordOf(func, b.end - 1))

LinkEnds(g, count) ==
    [g EXCEPT !.v[Entry].sf = BlockVertex(1), !.v[BlockVertex(1)].pred = <<Entry>>,
              !.v[Exit].pred = <<BlockVertex(count)>>, !.v[BlockVertex(count)].sf = Exit]
\* asm_blocks: the blocks that are said to end in an assembly branch.
MarkAsm(g, func, blocks, asm_blocks) ==
    [g EXCEPT !.v = [x \in DOMAIN @ |->
        IF x < 3 THEN @[x]
        ELSE [@[x] EXCEPT !.end.asm = blocks[x - 2].end > blocks[x - 2].start /\ (x - 2 \in asm_blocks \/ EndsInAsm(func, blocks[x - 2]))]]]
flag_early_exit(g, blocks) == [g EXCEPT !.v[BlockVertex(Len(blocks))].exit = blocks[Len(blocks)].start = blocks[Len(blocks)].end]
InitialGraph(func, blocks, asm_blocks) ==
    LET Linked == FoldLeft(LAMBDA g, k : LinkBlock(g, func, blocks, k), LinkEnds(create_blocks(Len(blocks)), Len(blocks)),
                           [k \in 1 .. Len(blocks) |-> k])
    IN  flag_early_exit(MarkAsm(Linked, func, blocks, asm_blocks), blocks)
-----------------------------------------------------------------------------
(* Loops.                                                                    *)

is_while_loop(g, b0, b1, b2) ==
    /\ b1 # Null /\ b2 # Null /\ g.v[b2].prev = b1 /\ g.v[b1].prev = b0
    /\ g.v[b0].sf = Null /\ g.v[b0].sb = b2 /\ ~g.v[b0].end.likely
    /\ g.v[b1].sf = b2 /\ g.v[b1].sb = Null
    /\ Len(g.v[b2].pred) = 2 /\ g.v[b2].sb = b1 /\ ~g.v[b2].end.likely /\ ~g.v[b2].end.always
is_until_loop(g, b1, b2) ==
    /\ b2 # Null /\ g.v[b2].prev = b1
    /\ g.v[b1].sf = b2 /\ g.v[b1].sb = Null
    /\ Len(g.v[b2].pred) = 1 /\ g.v[b2].sb = b1 /\ ~g.v[b2].end.likely /\ ~g.v[b2].end.always
Next2(g, x) == IF g.v[x].next = Null THEN Null ELSE g.v[g.v[x].next].next

RECURSIVE find_while_loop_top_level(_)
find_while_loop_top_level(g) ==
    LET b0 == First({x \in for_each_top_level_vtx(g) : is_while_loop(g, x, g.v[x].next, Next2(g, x))})
        b1 == g.v[b0].next
        b2 == g.v[b1].next
        x == Newest(g) + 1
        Entered(h) == [replace_succ_and_check(h, b0, b2, x) EXCEPT !.v[x].pred = <<b0>>, !.v[x].sf = g.v[b2].sf]
        Left(h) == replace_pred_and_check(h, g.v[b2].sf, b2, x)
    IN  IF b0 = Null THEN g
        ELSE find_while_loop_top_level(parent_claim(Place(Left(Entered(alloc(g, CfgVtx("while", <<b2, b1>>)))), x, b1, b2), {b1, b2}, x))

RECURSIVE find_until_loop(_)
find_until_loop(g) ==
    LET b1 == First({x \in for_each_top_level_vtx(g) : is_until_loop(g, x, g.v[x].next)})
        b2 == g.v[b1].next
        x == Newest(g) + 1
        Entered(h) == [replace_preds_with_and_check(TakePreds(h, b1, x), x, <<b2>>, Null) EXCEPT !.v[x].sf = g.v[b2].sf]
        Left(h) == replace_pred_and_check(h, g.v[b2].sf, b2, x)
    IN  IF b1 = Null THEN g
        ELSE find_until_loop(parent_claim(Place(Left(Entered(alloc(g, CfgVtx("until", <<b2, b1>>)))), x, b1, b2), {b1, b2}, x))
find_until1_loop(g) ==
    LET b == First({x \in for_each_top_level_vtx(g) : g.v[x].sb = x /\ g.v[x].sf # Null})
        x == Newest(g) + 1
        Entered(h) == [replace_preds_with_and_check(TakePreds(h, b, x), x, <<b>>, Null) EXCEPT !.v[x].sf = g.v[b].sf]
        Left(h) == replace_pred_and_check(h, g.v[b].sf, b, x)
    IN  IF b = Null THEN g ELSE parent_claim(Place(Left(Entered(alloc(g, CfgVtx("until1", <<b>>)))), x, b, b), {b}, x)
\* An infinite loop is said to fall through to the code after it.
FallThrough(g, x) == IF g.v[x].next = Null THEN g ELSE [g EXCEPT !.v[x].sf = g.v[x].next, !.v[g.v[x].next].pred = Append(@, x)]
find_infinite_loop(g) ==
    LET b == First({x \in for_each_top_level_vtx(g) : g.v[x].sb = x /\ g.v[x].sf = Null /\ ~g.v[x].end.asm})
        x == Newest(g) + 1
        Entered(h) == replace_preds_with_and_check(TakePreds(h, b, x), x, <<b>>, Null)
    IN  IF b = Null THEN g ELSE parent_claim(FallThrough(Place(Entered(alloc(g, CfgVtx("inf-loop", <<b>>))), x, b, b), x), {b}, x)
-----------------------------------------------------------------------------
(* Jumps out of a structure.                                                 *)

Jumps(u) == u.end.has /\ u.end.always /\ ~u.end.likely
is_goto_end_and_unreachable(g, b0, b1) ==
    /\ b1 # Null /\ Jumps(g.v[b0]) /\ g.v[b1].pred = <<>>
    /\ g.v[b0].sb # Null /\ g.v[g.v[b0].sb].exit
is_goto_not_end_and_unreachable(g, b0, b1) ==
    b1 # Null /\ ~g.v[b0].end.asm /\ ~g.v[b1].end.asm /\ Jumps(g.v[b0]) /\ g.v[b1].pred = <<>>

\* The jump and the dead code after it become one vertex that goes where the
\* dead code goes.
Goto(g, vtx, b0, b1) ==
    LET x == Newest(g) + 1
        Linked(h) == [TakeSuccs(TakePreds(h, b0, x), b1, x) EXCEPT !.v[x].end = g.v[b1].end]
    IN  parent_claim(DropBranch(Place(Linked(alloc(g, vtx)), x, b0, b1), b0), {b0, b1}, x)
find_goto_end(g) ==
    LET b0 == First({x \in for_each_top_level_vtx(g) : is_goto_end_and_unreachable(g, x, g.v[x].next) /\ ~g.v[x].end.asm})
    IN  IF b0 = Null THEN g ELSE Goto(g, CfgVtx("goto_end", <<b0, g.v[b0].next>>), b0, g.v[b0].next)
BreakTo(g, kids, b0) == [CfgVtx("break", kids) EXCEPT !.dest = get_first_block_id(g, g.v[b0].sb)]
find_goto_not_end(g) ==
    LET b0 == First({x \in for_each_top_level_vtx(g) : is_goto_not_end_and_unreachable(g, x, g.v[x].next)})
        b1 == g.v[b0].next
        Labelled == [NeedsLabel(g, g.v[b0].sb) EXCEPT !.brk = TRUE]
    IN  IF b0 = Null THEN g ELSE IF ~Labelled.ok THEN Labelled ELSE Goto(Labelled, BreakTo(g, <<b0, b1>>, b0), b0, b1)

\* Backwards to code that is still at the top, which comes before.
is_infinite_continue(g, b0) ==
    /\ Jumps(g.v[b0]) /\ ~g.v[b0].end.asm
    /\ get_first_block_id(g, g.v[b0].sb) < get_first_block_id(g, b0)
    /\ is_found_after(g, b0, g.v[b0].sb)
\* The block numbers of both are asked for even if the branch is assembly's.
Unnumbered(g, b0) == Jumps(g.v[b0]) /\ (get_first_block_id(g, g.v[b0].sb) = Null \/ get_first_block_id(g, b0) = Null)
find_infinite_continue(g) ==
    LET b0 == First({x \in for_each_top_level_vtx(g) : Unnumbered(g, x) \/ is_infinite_continue(g, x)})
        x == Newest(g) + 1
        Labelled == [NeedsLabel(g, g.v[b0].sb) EXCEPT !.brk = TRUE]
        Placed(h) == FallThrough(Place(TakePreds(h, b0, x), x, b0, b0), x)
    IN  IF b0 = Null THEN g ELSE IF Unnumbered(g, b0) \/ succs(g.v[b0]) # <<g.v[b0].sb>> THEN Abort(g)
        ELSE parent_claim(DropBranch(Placed(alloc(Labelled, BreakTo(g, <<b0>>, b0))), b0), {b0}, x)
-----------------------------------------------------------------------------
(* Sequences.                                                                *)

\* Mutant: other branches to the second are not looked at.
SequenceOverLabel(g, b0, b1, allow_self_loops) ==
    /\ b1 # Null /\ {g.v[b0].sf, g.v[b0].sb} = {b1, Null}
    /\ allow_self_loops \/ g.v[b1].sb # b0

is_sequence(g, b0, b1, allow_self_loops) ==
    /\ b1 # Null
    /\ \/ g.v[b0].sf = b1 /\ g.v[b0].sb = Null
       \/ g.v[b0].sf = Null /\ g.v[b0].sb = b1
    /\ g.v[b1].prev = b0 /\ g.v[b1].pred = <<b0>>
    /\ allow_self_loops \/ g.v[b1].sb # b0
IsSeq(g, x) == g.v[x].kind = "seq"

\* b, and the vertices between, become one sequence with last; sequences are
\* not nested.
Elements(g, x) == IF IsSeq(g, x) THEN g.v[x].kids ELSE <<x>>
NewSequence(g, run) ==
    LET x == Newest(g) + 1
        b0 == run[1]
        last == run[Len(run)]
        Linked(h) == [TakeSuccs(TakePreds(h, b0, x), last, x) EXCEPT !.v[x].end = g.v[last].end]
    IN  parent_claim(Place(Linked(alloc(g, CfgVtx("seq", run))), x, b0, last), Range(run), x)
\* The first of the run is the sequence that grows.
GrowSequence(g, run) ==
    LET seq == run[1]
        last == run[Len(run)]
        more == SubSeq(run, 2, Len(run) - 1) \o Elements(g, last)
        Linked(h) == [TakeSuccs(h, last, seq) EXCEPT !.v[seq].end = g.v[last].end, !.v[seq].kids = @ \o more]
    IN  parent_claim(After(Linked(g), seq, g.v[last].next), Range(more) \cup Range(Tail(run)), seq)
\* The second is the sequence, and b0 comes before it.
PrependSequence(g, b0, seq) == parent_claim(Before([TakePreds(g, b0, seq) EXCEPT !.v[seq].kids = <<b0>> \o @], seq, g.v[b0].prev), {b0}, seq)

find_seq_top_level(g, allow_self_loops) ==
    LET b0 == First({x \in for_each_top_level_vtx(g) : is_sequence(g, x, g.v[x].next, allow_self_loops)})
        b1 == g.v[b0].next
    IN  CASE b0 = Null -> g
          [] b0 # Null /\ ~IsSeq(g, b0) /\ ~IsSeq(g, b1) -> NewSequence(g, <<b0, b1>>)
          [] b0 # Null /\ ~IsSeq(g, b0) /\ IsSeq(g, b1) -> PrependSequence(g, b0, b1)
          [] OTHER -> GrowSequence(g, <<b0, b1>>)

\* An assembly branch is left inside a sequence; its target gets a label.
IsAsmBranch(g, b0) ==
    LET b1 == g.v[b0].next IN
    /\ b1 # Null /\ g.v[b0].end.asm /\ g.v[b1].pred \in {<<>>, <<g.v[b1].prev>>}
    /\ IF g.v[b0].end.likely THEN g.v[b1].next # Null /\ IsSeq(g, b0) = IsSeq(g, g.v[b1].next)
       ELSE IsSeq(g, b0) \/ ~IsSeq(g, b1)
clean_up_asm_branches(g) ==
    LET b0 == First({x \in for_each_top_level_vtx(g) : IsAsmBranch(g, x)})
        b1 == g.v[b0].next
        run == IF g.v[b0].end.likely THEN <<b0, b1, g.v[b1].next>> ELSE <<b0, b1>>
        jump == IF g.v[b0].end.likely THEN b1 ELSE b0
        Cut(h) == DropBranch(IF jump = b1 THEN DropBranch(h, b0) ELSE h, jump)
        Joined(h) == IF ~h.ok THEN h ELSE IF IsSeq(h, b0) THEN GrowSequence(h, run) ELSE NewSequence(h, run)
    IN  IF b0 = Null THEN g
        ELSE IF g.v[jump].sb = Null THEN Abort(g) ELSE Joined(Cut(NeedsLabel(g, g.v[jump].sb)))
-----------------------------------------------------------------------------
(* Conditions.                                                               *)

Slot(g, x) == g.v[x].end.slot
\* The run is condition, body, condition, body, ...: a condition that fails
\* goes on to the next one and the last one to `otherwise'.
Conditions(run) == {k \in DOMAIN run : k % 2 = 1}
NextCondition(run, k, otherwise) == IF k + 2 <= Len(run) THEN run[k + 2] ELSE otherwise
GoesOn(g, run, otherwise) ==
    /\ Len(run) % 2 = 0
    /\ \A k \in Conditions(run) :
          /\ g.v[run[k]].sf = run[k + 1] /\ g.v[run[k]].sb = NextCondition(run, k, otherwise) /\ ~g.v[run[k]].end.likely
          /\ Len(g.v[run[k + 1]].pred) = 1 /\ (k > 1 => Len(g.v[run[k]].pred) = 1)
\* A body that jumps to the end.
JumpsTo(g, b, to) == g.v[b].sf = Null /\ ~g.v[b].end.likely /\ Slot(g, b) = "NOP" /\ g.v[b].sb = to

\* The vertex takes the place of what is between c0 and the end; the vertices
\* of olds go to the end.
Condition(g, vtx, c0, end, olds, claimed) ==
    LET x == Newest(g) + 1
        Linked(h) == [replace_preds_with_and_check(TakePreds(h, c0, x), end, olds, x) EXCEPT !.v[x].sf = end]
    IN  parent_claim(After(Before(Linked(alloc(g, vtx)), x, g.v[c0].prev), x, end), claimed, x)
Bodies(run) == [k \in 1 .. Len(run) \div 2 |-> run[2 * k]]
LastCondition(run) == run[Len(run) - 1]

\* The end of a cond with else: where the first body jumps to.
CondEnd(g, c0) ==
    LET b0 == g.v[c0].next IN
    IF b0 # Null /\ g.v[c0].sf = b0 /\ g.v[b0].sf = Null /\ g.v[b0].sb # Null /\ is_found_after(g, g.v[b0].sb, b0)
    THEN g.v[b0].sb ELSE Null
IsCondRun(g, run, otherwise, end) ==
    /\ GoesOn(g, run, otherwise)
    /\ \A k \in Conditions(run) : Slot(g, run[k]) = "NOP" /\ JumpsTo(g, run[k + 1], end)
\* max_length: how many cases a cond may have that starts at the vertex, when
\* there is a hint about it.
is_cond_w_else(g, c0, max_length) ==
    LET end == CondEnd(g, c0)
        else == g.v[end].prev
        run == Upto(g, c0, else)
    IN  /\ end # Null /\ is_found_after(g, else, g.v[c0].next)
        /\ g.v[else].sb = Null /\ g.v[else].sf = end
        /\ IsCondRun(g, run, else, end)
        /\ c0 \in DOMAIN max_length => Len(run) \div 2 <= max_length[c0]
find_cond_w_else(g, max_length) ==
    LET c0 == First({x \in for_each_top_level_vtx(g) : is_cond_w_else(g, x, max_length)})
        end == CondEnd(g, c0)
        else == g.v[end].prev
        run == Upto(g, c0, else)
    IN  IF c0 = Null THEN g
        ELSE Condition(g, CfgVtx("cwe", Append(run, else)), c0, end, <<else>> \o Bodies(run), Range(run) \cup {else})

is_cond_w_empty_else(g, c0) ==
    LET end == CondEnd(g, c0) IN end # Null /\ g.v[end].prev = g.v[c0].next /\ IsCondRun(g, Upto(g, c0, end), end, end)
\* The else is a new vertex, allocated after the cond.
find_cond_w_empty_else(g) ==
    LET c0 == First({x \in for_each_top_level_vtx(g) : is_cond_w_empty_else(g, x)})
        end == CondEnd(g, c0)
        run == Upto(g, c0, end)
        x == Newest(g) + 1
        Built == Condition(g, CfgVtx("cwe", Append(run, x + 1)), c0, end, <<LastCondition(run)>> \o Bodies(run), Range(run))
    IN  IF c0 = Null THEN g ELSE parent_claim(alloc(Built, CfgVtx("empty", <<>>)), {x + 1}, x)

NoElseEnd(g, c0) ==
    LET b0 == g.v[c0].next
        end == IF b0 = Null THEN Null ELSE IF ~g.v[b0].end.has THEN g.v[b0].sf ELSE IF JumpsTo(g, b0, g.v[b0].sb) THEN g.v[b0].sb ELSE Null
    IN  IF b0 # Null /\ end # Null /\ is_found_after(g, end, b0) THEN end ELSE Null
\* The last case of a longer cond whose other cases have not been found yet.
Incomplete(g, c0, end) ==
    /\ g.v[c0].prev # Null /\ JumpsTo(g, g.v[c0].prev, end)
    /\ \E k \in DOMAIN g.v[c0].pred : g.v[g.v[c0].pred[k]].sb = c0 /\ Slot(g, g.v[c0].pred[k]) = "SET_REG_FALSE"
is_cond_n_else(g, c0) ==
    LET end == NoElseEnd(g, c0)
        run == Upto(g, c0, end)
    IN  /\ end # Null /\ GoesOn(g, run, end)
        /\ \A k \in Conditions(run) :
              IF k + 2 <= Len(run) THEN Slot(g, run[k]) = "SET_REG_FALSE" /\ JumpsTo(g, run[k + 1], end)
              ELSE Slot(g, run[k]) \in {"SET_REG_FALSE"} \cup (IF Len(run) = 2 THEN {"SET_REG_TRUE"} ELSE {}) /\ g.v[run[k + 1]].sf = end
        /\ ~Incomplete(g, c0, end)
find_cond_n_else(g) ==
    LET c0 == First({x \in for_each_top_level_vtx(g) : is_cond_n_else(g, x)})
        end == NoElseEnd(g, c0)
        run == Upto(g, c0, end)
    IN  IF c0 = Null THEN g
        ELSE Condition(g, CfgVtx("cne", run), c0, end, Append(Bodies(run), LastCondition(run)), Range(run))

\* A condition whose likely branch goes to the code after it.
Shorts(g, c) == g.v[c].next # Null /\ g.v[c].sb = g.v[c].next /\ g.v[c].end.likely /\ Slot(g, c) = "NO_DELAY"
RECURSIVE ShortRun(_, _, _, _)
\* The entries of a short circuit that starts with the ones found; none when it
\* is not one.
ShortRun(g, found, c, end) ==
    LET slot == g.v[c].next
        root == Next2(g, c)
    IN  CASE slot = Null \/ end = Null -> <<>>
          [] slot # Null /\ end # Null /\ slot = end /\ found # <<>> -> IF g.v[c].end.has THEN <<>> ELSE Append(found, c)
          [] slot # Null /\ end # Null /\ ~(slot = end /\ found # <<>>) ->
                IF ~Shorts(g, c) THEN <<>>
                ELSE IF found = <<>> /\ root = end THEN <<c, slot>>
                ELSE IF /\ Len(g.v[slot].pred) = 1 /\ g.v[slot].sf = Null /\ g.v[slot].sb = end /\ Jumps(g.v[slot]) /\ Slot(g, slot) = "NO_DELAY"
                        /\ root # Null /\ root = g.v[c].sf /\ Len(g.v[root].pred) = 1
                     THEN ShortRun(g, found \o <<c, slot>>, root, end)
                     ELSE <<>>
ShortEntries(g, c0) ==
    IF g.v[c0].next = Null \/ g.v[c0].end.asm THEN <<>> ELSE ShortRun(g, <<>>, c0, g.v[g.v[c0].next].sb)
find_short_circuits(g) ==
    LET c0 == First({x \in for_each_top_level_vtx(g) : ShortEntries(g, x) # <<>>})
        run == ShortEntries(g, c0)
        end == g.v[g.v[c0].next].sb
        To == Append(Bodies(run), IF Len(run) = 2 THEN run[1] ELSE run[Len(run)])
    IN  IF c0 = Null THEN g ELSE Condition(g, CfgVtx("sc", run), c0, end, To, Range(run))
-----------------------------------------------------------------------------
(* build_cfg: the first pass that changes something, again and again.        *)

Passes == 14
Pass(g, n, max_length) ==
    CASE n = 1 -> find_cond_w_else(g, max_length)
      [] n = 2 -> find_while_loop_top_level(g)
      [] n = 3 -> find_seq_top_level(g, FALSE)
      [] n = 4 -> find_short_circuits(g)
      [] n = 5 -> find_cond_n_else(g)
      [] n = 6 -> find_goto_end(g)
      [] n = 7 -> find_until_loop(g)
      [] n = 8 -> find_until1_loop(g)
      [] n = 9 -> find_infinite_loop(g)
      [] n = 10 -> find_seq_top_level(g, TRUE)
      [] n = 11 -> find_goto_not_end(g)
      [] n = 12 -> find_cond_w_empty_else(g)
      [] n = 13 -> clean_up_asm_branches(g)
      [] n = 14 -> find_infinite_continue(g)
RECURSIVE FirstChange(_, _, _)
FirstChange(g, n, max_length) ==
    IF n > Passes THEN g
    ELSE \* the result of the pass
         LET Changed(h) == IF h # g THEN h ELSE FirstChange(g, n + 1, max_length) IN Changed(Pass(g, n, max_length))
build_cfg_step(g, max_length) == FirstChange(g, 1, max_length)
=============================================================================
