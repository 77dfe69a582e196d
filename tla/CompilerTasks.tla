---------------------------- MODULE CompilerTasks ---------------------------
(* Functions as the compiler's front end makes them, allocated, generated    *)
(* and then run on a machine that knows which value each place should hold.  *)
EXTENDS Task, RegAlloc

Saved == <<"rbx", "r11", "r12", "xmm8", "xmm14">>
AllRegisters == Saved \o <<"rax", "rdx", "xmm0">>
Registers_ == ToSet(AllRegisters)

CONSTANT Functions \* the functions to allocate, of each shape

\* Variables have numbers; a constraint names a variable, an instruction of the
\* function or 0 for all, and a register.
ASSUME FunctionsAssumption ==
    \A shape \in DOMAIN Functions : \A f \in Functions[shape] :
        /\ Vars(f) \subseteq Nat
        /\ Len(f.code) \in Nat
        /\ f.constraints \in Seq(Vars(f) \X (0 .. Len(f.code)) \X Registers_)
        /\ \A v \in Vars(f) : \A order \in {f.order, f.all_order, f.spill_order} : order[f.class[v]] \in Seq(Registers_)

-----------------------------------------------------------------------------
(* The machine: the stack pointer, what the registers and the 8-byte cells   *)
(* of the stack hold, and whether an access was unaligned.  A wide value     *)
(* takes two cells.                                                          *)

Entry == 1000
Garbage == <<0, 0>>
Saves(reg) == <<0, CHOOSE k \in 1 .. Len(AllRegisters) : AllRegisters[k] = reg>>
Caller == [rsp |-> Entry, regs |-> [reg \in Registers_ |-> Saves(reg)],
           mem |-> [at \in {Entry - 8 * k : k \in 0 .. 16} |-> <<Garbage, 0>>], aligned |-> TRUE]

Run1(m, op) ==
    CASE op.op = "sub" -> [m EXCEPT !.rsp = @ - op.n]
      [] op.op = "add" -> [m EXCEPT !.rsp = @ + op.n]
      [] op.op = "push" -> [m EXCEPT !.rsp = @ - 8, !.mem[m.rsp - 8] = <<m.regs[op.reg], 0>>]
      [] op.op = "pop" -> [m EXCEPT !.rsp = @ + 8, !.regs[op.reg] = m.mem[m.rsp][1]]
      [] op.op = "store" /\ ~op.wide -> [m EXCEPT !.mem[m.rsp + op.n] = <<m.regs[op.reg], 0>>]
      [] op.op = "store" /\ op.wide ->
            [m EXCEPT !.mem[m.rsp + op.n] = <<m.regs[op.reg], 0>>, !.mem[m.rsp + op.n + 8] = <<m.regs[op.reg], 1>>,
                      !.aligned = @ /\ (m.rsp + op.n) % 16 = 0]
      [] op.op = "load" /\ ~op.wide -> [m EXCEPT !.regs[op.reg] = m.mem[m.rsp + op.n][1]]
      [] op.op = "load" /\ op.wide ->
            [m EXCEPT !.regs[op.reg] = IF m.mem[m.rsp + op.n + 8] = <<m.mem[m.rsp + op.n][1], 1>> THEN m.mem[m.rsp + op.n][1] ELSE Garbage,
                      !.aligned = @ /\ (m.rsp + op.n) % 16 = 0]
RunOps(m, ops) == FoldLeft(Run1, m, ops)

\* What the variables on the stack hold, for the function to keep.
StackVariable(k) == <<<<-1, k>>, 0>>
Started(f, r) ==
    LET m == IF f.asm THEN Caller ELSE RunOps(Caller, Prologue(f, r, Saved)) IN
    [m EXCEPT !.mem = [at \in DOMAIN m.mem |-> IF at \in m.rsp .. m.rsp + 8 * f.vars - 1 THEN StackVariable((at - m.rsp) \div 8) ELSE m.mem[at]]]

FrontEnd ==
    \E shape \in DOMAIN Functions :
        task = Asked(shape) /\ \E f \in Functions[shape] : task' = [kind |-> "function", f |-> f]

\* allocate_registers, one variable at a time.
FindLive == task.kind = "function" /\ task' = [kind |-> "live", f |-> task.f, out |-> LiveOut(task.f)]
Analyze ==
    /\ task.kind = "live"
    /\ LET alive == LiveRanges(task.f, task.out) IN
       task' = [kind |-> "allocate", f |-> task.f, out |-> task.out, alive |-> alive,
                a |-> FirstAllocation(task.f, alive), todo |-> Seen(task.f, alive)]
Allocate ==
    /\ task.kind = "allocate"
    /\ task.todo # {}
    /\ task.a.ok
    /\ LET v == NextVar(task.f, task.todo) IN
       task' = [task EXCEPT !.a = do_allocation_for_var(task.f, task.alive, @, v), !.todo = @ \ {v}]
Generate ==
    /\ task.kind = "allocate"
    /\ task.todo = {}
    /\ LET f == task.f
           r == AllocationResult(f, task.a, Saved)
       IN /\ Compiles(f, r)
          /\ task' = [kind |-> "run", f |-> f, r |-> r, out |-> task.out, alive |-> task.alive, pc |-> 1,
                      env |-> [v \in Vars(f) |-> Garbage], m |-> Started(f, r), good |-> TRUE]

\* An IR: the value it writes is a new one, or for a move the one it reads.
NewValue(i, old) == IF old = <<i, 0>> THEN <<i, 1>> ELSE <<i, 0>>
Execute ==
    /\ task.kind = "run"
    /\ task.pc <= Size(task.f)
    /\ LET f == task.f
           i == task.pc
           ir == f.code[i]
           RegOf(v) == task.r.ass[v][i].reg
           loaded == RunOps(task.m, SpillLoads(f, task.r, i))
           ready == [reg \in Registers_ |-> IF reg \in ir.exclude THEN Garbage ELSE loaded.regs[reg]]
           Value(v) == IF ir.move THEN task.env[ir.read[1]] ELSE NewValue(i, task.env[v])
           Computed(v) == IF ir.move THEN ready[RegOf(ir.read[1])] ELSE NewValue(i, task.env[v])
           after == [reg \in Registers_ |->
                        IF \E v \in Written(f, i) : RegOf(v) = reg THEN Computed(CHOOSE v \in Written(f, i) : RegOf(v) = reg)
                        ELSE IF reg \in ir.clobber THEN Garbage ELSE ready[reg]]
           mem == IF ir.call THEN [at \in DOMAIN loaded.mem |-> IF at < loaded.rsp THEN <<Garbage, 0>> ELSE loaded.mem[at]] ELSE loaded.mem
       IN \E next \in ir.jumps \cup (IF ir.fall THEN {i + 1} ELSE {}) :
             task' = [task EXCEPT !.pc = next,
                                  !.env = [v \in Vars(f) |-> IF v \in Written(f, i) THEN Value(v) ELSE task.env[v]],
                                  !.good = /\ @
                                           /\ \A v \in Read(f, i) : ready[RegOf(v)] = task.env[v]
                                           /\ ir.exclude # {} => RegOf(ir.write[1]) = "rax",
                                  !.m = RunOps([loaded EXCEPT !.regs = after, !.mem = mem], SpillStores(f, task.r, i))]

Leave ==
    /\ task.kind = "run"
    /\ task.pc = Size(task.f) + 1
    /\ task' = [task EXCEPT !.kind = "returned", !.m = IF task.f.asm THEN @ ELSE RunOps(@, Epilogue(task.f, task.r, Saved))]

CompilerNext == FrontEnd \/ FindLive \/ Analyze \/ Allocate \/ Generate \/ Execute \/ Leave
CompilerSpec == TaskInit /\ [][CompilerNext]_task

-----------------------------------------------------------------------------
(* What has been allocated, while allocate_registers is at work.             *)

RegisterAt(v, i) == task.a.ass[v][i].reg
Settled == Seen(task.f, task.alive) \ task.todo
Spilled == DOMAIN task.a.slots

\* Two variables alive at an instruction are in different registers, but for one
\* that is read for the last time where the other is written first.
RegistersApart ==
    \A v, w \in Vars(task.f) : \A i \in task.alive[v] \cap task.alive[w] :
        v # w /\ RegisterAt(v, i) = RegisterAt(w, i) => RegisterAt(v, i) = "none" \/ MayShare(task.alive, v, w, i)

\* Every constraint holds, also where a spilled variable is loaded.
ConstraintsKept ==
    \A k \in DOMAIN task.f.constraints :
        LET c == task.f.constraints[k] IN
        \A i \in IF c[2] = 0 THEN InRange(task.alive, c[1]) ELSE {c[2]} : RegisterAt(c[1], i) = c[3]

\* A variable is in one register from its first to its last instruction, or has
\* a slot and a register where it is used; no instruction in between takes a
\* register from it.
RegistersSurvive ==
    \A v \in Settled : \A i \in InRange(task.alive, v) :
        /\ v \notin Spilled => RegisterAt(v, i) = RegisterAt(v, Min(task.alive[v]))
        /\ v \notin Spilled \/ v \in Read(task.f, i) \cup Written(task.f, i) => RegisterAt(v, i) # "none"
        /\ RegisterAt(v, i) = "none" \/ RegisterAt(v, i) \notin task.f.code[i].exclude
        /\ i \in {Min(task.alive[v]), Max(task.alive[v])} \/ RegisterAt(v, i) = "none"
           \/ RegisterAt(v, i) \notin task.f.code[i].clobber

\* Slots do not overlap, and those of 16 bytes are aligned.
SlotsApart ==
    \A v \in Spilled :
        LET End(w) == task.a.slots[w] + slot_size(task.f.class[w]) IN
        /\ slot_size(task.f.class[v]) = 2 => task.a.slots[v] % 2 = 0
        /\ 0 <= task.a.slots[v] /\ End(v) <= task.a.top
        /\ \A w \in Spilled \ {v} : End(v) <= task.a.slots[w] \/ End(w) <= task.a.slots[v]

\* Where a spilled variable is used, and nowhere else, it is loaded or stored,
\* from its slot and in the register the instruction has for it.
SpillsMatch ==
    \A i \in 1 .. Size(task.f) :
        /\ \A v \in Spilled \cap (Read(task.f, i) \cup Written(task.f, i)) : \E k \in DOMAIN task.a.ops[i] : task.a.ops[i][k].var = v
        /\ \A k \in DOMAIN task.a.ops[i] :
              LET v == task.a.ops[i][k].var IN
              v \in Spilled /\ task.a.ops[i][k] = StackOp(task.f, v, i, RegisterAt(v, i), task.a.slots[v])

\* Each variable allocated leaves the assignments of all of them right.
AssignmentSound ==
    task.kind = "allocate" /\ task.a.ok =>
        RegistersApart /\ ConstraintsKept /\ RegistersSurvive /\ SlotsApart /\ SpillsMatch

-----------------------------------------------------------------------------
(* What the allocated function does.                                         *)

\* A variable that is alive at the start of a block, and not at the instruction
\* before it in the text, is taken to be written there: its register may be given
\* to a variable that dies there.
JumpedTo ==
    \E b \in Blocks(task.f) : \E w \in (task.out[b] \ Dead(task.f, b)) \cup Read(task.f, b) :
        /\ becomes_live_at_instr(task.alive, w, b)
        /\ \E v \in Vars(task.f) \ {w} : dies_next_at_instr(task.alive, v, b)

\* Every IR finds in its registers the values of the variables it reads,
\* along every path.
ReadsItsVariables == task.kind = "run" => task.good \/ JumpedTo

\* Calls are made with the stack aligned, aligned accesses are, the variables
\* on the stack are kept, and those whose address is taken are up to date.
StackIsKept ==
    task.kind = "run" =>
        LET m == task.m
            f == task.f
        IN /\ task.pc <= Size(f) /\ f.code[task.pc].call => m.rsp % 16 = 0
           /\ f.vars % 2 = 0 => m.aligned
           /\ \A k \in 0 .. f.vars - 1 : m.mem[m.rsp + 8 * k] = StackVariable(k)
           /\ \A v \in f.on_stack : v \in DOMAIN task.r.slots =>
                 task.env[v] = Garbage \/ m.mem[m.rsp + 8 * (f.vars + task.r.slots[v])][1] = task.env[v]

\* The caller gets its registers and its stack back, and the value returned.
CallerIsRestored ==
    task.kind = "returned" =>
        /\ task.m.rsp = Entry
        /\ \A reg \in ToSet(Saved) : task.m.regs[reg] = Saves(reg)
        /\ task.m.regs["rax"] = task.env[5] \/ JumpedTo

\* An allocated function runs as its IRs say and returns to its caller.
AllocationSound == ReadsItsVariables /\ StackIsKept /\ CallerIsRestored
=============================================================================
