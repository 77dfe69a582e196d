------------------------------ MODULE RegAlloc ------------------------------
(* The register allocator of the compiler: where each variable of a          *)
(* function is alive, which register or stack slot it gets at each           *)
(* instruction, and the loads and stores of the variables on the stack.      *)
EXTENDS Integers, Sequences, FiniteSets, SequencesExt, FiniteSetsExt

(* A function has code: instructions that read and write variables, clobber  *)
(* registers for others and exclude them for all, jump or fall through; the  *)
(* class of each variable; the variables on_stack; constraints <<variable,   *)
(* instruction, register>>, for every instruction when that is 0; and for    *)
(* each class the registers in the order they are tried for a variable (in   *)
(* assembly functions only temporaries), all of those, and those for one     *)
(* instruction.                                                              *)

Vars(f) == DOMAIN f.class
Size(f) == Len(f.code)
Read(f, i) == ToSet(f.code[i].read)
Written(f, i) == ToSet(f.code[i].write)
\* Overwritten without being read.
Dead(f, i) == Written(f, i) \ Read(f, i)

\* find_basic_blocks: a block is named by its first instruction.
Blocks(f) ==
    ({1} \cup UNION {{i + 1} \cup f.code[i].jumps : i \in {j \in 1 .. Size(f) : f.code[j].jumps # {}}}) \ {Size(f) + 1}
BlockEnd(f, b) == Min({c \in Blocks(f) : c > b} \cup {Size(f) + 1}) - 1
Successors(f, b) ==
    LET last == f.code[BlockEnd(f, b)] IN last.jumps \cup (IF last.fall THEN {BlockEnd(f, b) + 1} \cap Blocks(f) ELSE {})

\* analyze_liveliness_phase1
Used(f, b) == {v \in Vars(f) : \E i \in b .. BlockEnd(f, b) : v \in Read(f, i) /\ \A j \in b .. i - 1 : v \notin Dead(f, j)}
Defined(f, b) == {v \in Vars(f) : \E i \in b .. BlockEnd(f, b) : v \in Dead(f, i) /\ \A j \in b .. i - 1 : v \notin Read(f, j)}

\* analyze_liveliness_phase2, until nothing changes.
Inputs(f) ==
    LET Next(input) == [b \in Blocks(f) |-> Used(f, b) \cup (UNION {input[c] : c \in Successors(f, b)} \ Defined(f, b))]
        stable[input \in [Blocks(f) -> SUBSET Vars(f)]] == IF Next(input) = input THEN input ELSE stable[Next(input)]
    IN stable[[b \in Blocks(f) |-> {}]]

\* analyze_liveliness_phase3: the variables alive after each instruction.
LiveOut(f) ==
    LET input == Inputs(f)
        End(i) == \E b \in Blocks(f) : BlockEnd(f, b) = i
        BlockOf(i) == Max({b \in Blocks(f) : b <= i})
        out[i \in 1 .. Size(f)] ==
            IF End(i) THEN UNION {input[c] : c \in Successors(f, BlockOf(i))}
            ELSE (out[i + 1] \ Dead(f, i + 1)) \cup Read(f, i + 1)
    IN out

\* compute_live_ranges: the instructions where each variable is alive.
LiveRanges(f, out) ==
    [v \in Vars(f) |->
        {i \in 1 .. Size(f) : v \in Read(f, i) \cup Written(f, i) \cup out[i]}
        \cup {f.constraints[k][2] : k \in {j \in DOMAIN f.constraints : f.constraints[j][1] = v /\ f.constraints[j][2] # 0}}]
-----------------------------------------------------------------------------
(* Assignments: the register of each variable at each instruction ("none" when *)
(* it is not in one) and whether one has been chosen.                        *)

Unassigned == [assigned |-> FALSE, reg |-> "none"]
InRegister(reg) == [assigned |-> TRUE, reg |-> reg]
OnStack == [assigned |-> TRUE, reg |-> "none"]

InRange(alive, v) == Min(alive[v]) .. Max(alive[v])
becomes_live_at_instr(alive, v, i) == i \in alive[v] /\ (i - 1) \notin alive[v]
dies_next_at_instr(alive, v, i) == i \in alive[v] /\ (i + 1) \notin alive[v]

\* The constraints of a variable, by their numbers, and the register of the last.
ConstraintsOf(f, v) == {k \in DOMAIN f.constraints : f.constraints[k][1] = v}
HasConstraint(f, v) == ConstraintsOf(f, v) # {}
LastRegister(f, numbers) == f.constraints[Max(numbers)][3]

\* do_constrained_alloc: a later constraint overwrites an earlier one.
ConstraintsAt(f, alive, v, i) ==
    {k \in ConstraintsOf(f, v) : \/ f.constraints[k][2] = i
                                 \/ f.constraints[k][2] = 0 /\ i \in InRange(alive, v)}
do_constrained_alloc(f, alive) ==
    [v \in Vars(f) |-> [i \in 1 .. Size(f) |->
        LET here == ConstraintsAt(f, alive, v, i) IN
        IF here = {} THEN Unassigned ELSE InRegister(LastRegister(f, here))]]

check_constrained_alloc(f, alive, ass) ==
    /\ \A k \in DOMAIN f.constraints :
          LET c == f.constraints[k] IN
          \A i \in IF c[2] = 0 THEN InRange(alive, c[1]) ELSE {c[2]} : ass[c[1]][i].reg = c[3]
    /\ \A i \in 1 .. Size(f) : \A v, w \in {u \in Vars(f) : i \in alive[u]} :
          v # w => ass[v][i].reg = "none" \/ ass[v][i].reg # ass[w][i].reg

\* Mutant: the other variable need not end where this one begins.
MayShare_Always(alive, v, w, i) == dies_next_at_instr(alive, v, i) \/ dies_next_at_instr(alive, w, i)
\* Two variables in one register at an instruction: one may be read for the last
\* time where the other is written first.
MayShare(alive, v, w, i) ==
    \/ dies_next_at_instr(alive, v, i) /\ becomes_live_at_instr(alive, w, i)
    \/ becomes_live_at_instr(alive, v, i) /\ dies_next_at_instr(alive, w, i)

NoConflictAt(f, alive, ass, v, i, reg) ==
    \A w \in Vars(f) \ {v} : i \in alive[w] /\ ass[w][i].reg = reg => MayShare(alive, v, w, i)

can_var_be_assigned(f, alive, ass, v, reg) ==
    /\ \A i \in InRange(alive, v) :
          /\ NoConflictAt(f, alive, ass, v, i, reg)
          /\ reg \notin f.code[i].exclude
          /\ HasConstraint(f, v) /\ ass[v][i].assigned => ass[v][i].reg = reg
    /\ \A i \in Min(alive[v]) + 1 .. Max(alive[v]) - 1 : reg \notin f.code[i].clobber

\* Mutant: a register the instruction excludes is taken.
assignment_ok_at_Excluded(f, alive, ass, v, i, reg) ==
    /\ NoConflictAt(f, alive, ass, v, i, reg)
    /\ i \notin {Min(alive[v]), Max(alive[v])} => reg \notin f.code[i].clobber
    /\ ass[v][i].assigned => ass[v][i].reg = reg
assignment_ok_at(f, alive, ass, v, i, reg) ==
    /\ NoConflictAt(f, alive, ass, v, i, reg)
    /\ i \notin {Min(alive[v]), Max(alive[v])} => reg \notin f.code[i].clobber
    /\ reg \notin f.code[i].exclude
    /\ ass[v][i].assigned => ass[v][i].reg = reg
-----------------------------------------------------------------------------
(* The allocation so far: [ok, ass, ops, slots, top].  A slot is 8 bytes.    *)

slot_size(class) == IF class \in {"vector", "int128"} THEN 2 ELSE 1
get_stack_slot_for_var(f, v, top) == IF slot_size(f.class[v]) = 2 THEN top + (top % 2) ELSE top

\* try_spill_coloring: a register at each instruction that uses the variable,
\* the one of the last constraint first.
SpillHint(f, alive, ass, v, i) ==
    LET before == {j \in InRange(alive, v) : j < i /\ ass[v][j].assigned} IN
    IF before = {} THEN <<>> ELSE <<ass[v][Max(before)].reg>>
SpillCandidates(f, alive, ass, v, i) ==
    IF ass[v][i].assigned THEN <<ass[v][i].reg>> ELSE SpillHint(f, alive, ass, v, i) \o f.spill_order[f.class[v]]
SpillRegister(f, alive, ass, v, i) ==
    LET regs == SpillCandidates(f, alive, ass, v, i)
        fit == {k \in DOMAIN regs : assignment_ok_at(f, alive, ass, v, i, regs[k])}
    IN IF fit = {} THEN "none" ELSE regs[Min(fit)]
Touches(f, ass, v, i) == v \in Read(f, i) \cup Written(f, i) \/ ass[v][i].assigned

SpillAssignment(f, alive, ass, v, i) ==
    IF i \notin InRange(alive, v) THEN Unassigned
    ELSE IF Touches(f, ass, v, i) THEN InRegister(SpillRegister(f, alive, ass, v, i))
    ELSE OnStack
StackOp(f, v, i, reg, slot) == [var |-> v, reg |-> reg, slot |-> slot, load |-> v \in Read(f, i), store |-> v \in Written(f, i)]

try_spill_coloring(f, alive, a, v) ==
    LET slot == get_stack_slot_for_var(f, v, a.top) IN
    [ok |-> a.ok /\ \A i \in InRange(alive, v) : Touches(f, a.ass, v, i) => SpillRegister(f, alive, a.ass, v, i) # "none",
     ass |-> [a.ass EXCEPT ![v] = [i \in 1 .. Size(f) |-> SpillAssignment(f, alive, a.ass, v, i)]],
     ops |-> [i \in 1 .. Size(f) |->
                 IF v \in Read(f, i) \cup Written(f, i)
                 THEN Append(a.ops[i], StackOp(f, v, i, SpillRegister(f, alive, a.ass, v, i), slot))
                 ELSE a.ops[i]],
     slots |-> [w \in DOMAIN a.slots \cup {v} |-> IF w = v THEN slot ELSE a.slots[w]],
     top |-> slot + slot_size(f.class[v])]

\* do_allocation_for_var: the register of its last constraint, then that of the
\* variable it is moved to or from, then any.
MoveRegister(f, alive, ass, w, i, v) ==
    IF ass[w][i].assigned /\ ass[w][i].reg \in ToSet(f.all_order[f.class[v]]) THEN <<ass[w][i].reg>> ELSE <<>>
Candidates(f, alive, ass, v) ==
    LET first == Min(alive[v])
        last == Max(alive[v])
    IN (IF HasConstraint(f, v) THEN <<LastRegister(f, ConstraintsOf(f, v))>> ELSE <<>>)
       \o (IF f.code[last].move THEN MoveRegister(f, alive, ass, Head(f.code[last].write), last, v) ELSE <<>>)
       \o (IF f.code[first].move THEN MoveRegister(f, alive, ass, Head(f.code[first].read), first, v) ELSE <<>>)
       \o f.order[f.class[v]]
do_allocation_for_var(f, alive, a, v) ==
    LET regs == Candidates(f, alive, a.ass, v)
        fit == IF v \in f.on_stack THEN {} ELSE {k \in DOMAIN regs : can_var_be_assigned(f, alive, a.ass, v, regs[k])}
        reg == regs[Min(fit)]
    IN IF fit = {} THEN try_spill_coloring(f, alive, a, v)
       ELSE [a EXCEPT !.ass[v] = [i \in 1 .. Size(f) |-> IF i \in InRange(alive, v) THEN InRegister(reg) ELSE Unassigned]]

\* run_allocator: of the variables seen, those with constraints are allocated
\* first, from the allocation that do_constrained_alloc makes.
Seen(f, alive) == {v \in Vars(f) : alive[v] # {}}
NextVar(f, todo) ==
    LET constrained == {v \in todo : HasConstraint(f, v)} IN
    IF constrained # {} THEN Min(constrained) ELSE Min(todo)
FirstAllocation(f, alive) ==
    LET ass == do_constrained_alloc(f, alive) IN
    [ok |-> check_constrained_alloc(f, alive, ass), ass |-> ass, ops |-> [i \in 1 .. Size(f) |-> <<>>], slots |-> <<>>, top |-> 0]

\* What allocate_registers returns; saved is the sequence of all saved registers.
AllocationResult(f, a, saved) ==
    [ok |-> a.ok, ass |-> a.ass, ops |-> a.ops, slots |-> a.slots, slots_for_spills |-> a.top,
     used_saved |-> SelectSeq(saved, LAMBDA reg : \E v \in Vars(f), i \in 1 .. Size(f) : a.ass[v][i].reg = reg)]

-----------------------------------------------------------------------------
(* The code of a function around its IRs: the prologue that backs up saved   *)
(* registers and makes room on the stack, the loads and stores of spilled     *)
(* variables, the epilogue.  A machine instruction is [op, reg, n, wide].    *)

GPR_SIZE == 8
XMM_SIZE == 16

is_xmm(reg) == reg \in {"xmm0", "xmm8", "xmm14"}
SavedXmms(r) == SelectSeq(r.used_saved, LAMBDA reg : is_xmm(reg))
SavedGprs(r) == SelectSeq(r.used_saved, LAMBDA reg : ~is_xmm(reg))

Op(op, reg, n, wide) == [op |-> op, reg |-> reg, n |-> n, wide |-> wide]
Sub(n) == <<Op("sub", "rsp", n, FALSE)>>
Add(n) == <<Op("add", "rsp", n, FALSE)>>

(* How much stack is used: f.vars slots of variables, f.aligned when the     *)
(* function makes calls or has variables on the stack.                       *)
xmm_backup_stack_offset(r) == 8 + XMM_SIZE * Len(SavedXmms(r))
SlotBytes(f, r) == GPR_SIZE * (r.slots_for_spills + f.vars)
NeedsAlignment(f, r) == SlotBytes(f, r) > 0 \/ r.slots # <<>> \/ f.aligned
Unaligned(f, r) ==
    ((IF SavedXmms(r) = <<>> THEN 0 ELSE xmm_backup_stack_offset(r)) + GPR_SIZE * Len(SavedGprs(r)) + SlotBytes(f, r)) % 16 = 0
manually_added_stack_offset(f, r) == SlotBytes(f, r) + (IF SlotBytes(f, r) > 0 /\ Unaligned(f, r) THEN 8 ELSE 0)
bonus_push(f, r) == NeedsAlignment(f, r) /\ SlotBytes(f, r) = 0 /\ Unaligned(f, r)

\* get_slot_for_spill: the variables come first.
get_slot_for_spill(f, slot) == slot + f.vars

Backups(op, r) == [k \in 1 .. Len(SavedXmms(r)) |-> Op(op, SavedXmms(r)[k], (k - 1) * XMM_SIZE, TRUE)]

Prologue(f, r, saved) ==
    (IF SavedXmms(r) = <<>> THEN <<>> ELSE Sub(xmm_backup_stack_offset(r)) \o Backups("store", r))
    \o [k \in 1 .. Len(SavedGprs(r)) |-> Op("push", SavedGprs(r)[k], 0, FALSE)]
    \o (IF bonus_push(f, r) THEN <<Op("push", saved[1], 0, FALSE)>> ELSE <<>>)
    \o (IF manually_added_stack_offset(f, r) > 0 THEN Sub(manually_added_stack_offset(f, r)) ELSE <<>>)

Pops(r) == [k \in 1 .. Len(SavedGprs(r)) |-> Op("pop", SavedGprs(r)[Len(SavedGprs(r)) + 1 - k], 0, FALSE)]
Epilogue(f, r, saved) ==
    (IF manually_added_stack_offset(f, r) > 0 THEN Add(manually_added_stack_offset(f, r)) ELSE <<>>)
    \o (IF bonus_push(f, r) THEN <<Op("pop", saved[1], 0, FALSE)>> ELSE <<>>)
    \o Pops(r)
    \o (IF SavedXmms(r) = <<>> THEN <<>> ELSE Reverse(Backups("load", r)) \o Add(xmm_backup_stack_offset(r)))

\* The spilled variables an IR reads, before it; those it writes, after it.
SpillOp(f, op, what) ==
    Op(what, op.reg, get_slot_for_spill(f, op.slot) * GPR_SIZE, slot_size(f.class[op.var]) = 2)
SpillLoads(f, r, i) ==
    LET ops == SelectSeq(r.ops[i], LAMBDA op : op.load) IN [k \in DOMAIN ops |-> SpillOp(f, ops[k], "load")]
SpillStores(f, r, i) ==
    LET ops == SelectSeq(r.ops[i], LAMBDA op : op.store) IN [k \in DOMAIN ops |-> SpillOp(f, ops[k], "store")]

\* do_asm_function: nothing around the IRs, and errors where something would be.
AsmAccepted(f, r) == f.saved_allowed \/ r.used_saved = <<>>
Compiles(f, r) == r.ok /\ (f.asm => AsmAccepted(f, r) /\ r.slots_for_spills = 0 /\ f.vars = 0)
=============================================================================
