----------------------------- MODULE Toolchain ------------------------------
(* The algorithms of the compiler, each over bounded inputs.                 *)
EXTENDS Integers, Sequences, FiniteSets, Task, CompilerTasks, CompileTasks, Emitter

-----------------------------------------------------------------------------
\* Displacements around the limits of one byte.
ByteLimits == {0, 127, 128, -128, -129, 70000}

(* Object files that the compiler makes, read back.                          *)

CONSTANT ByteBase

D == INSTANCE DataObject WITH Base <- ByteBase

\* Objects as groups of words of one kind.  The gaps and runs are those around
\* the limits of one byte of the table.
Group(kind, count) == [i \in 1 .. count |-> D!Word(kind, 0)]
Around == {0, 1, ByteBase - 2, ByteBase - 1, ByteBase, 2 * (ByteBase - 1)}
Distances == {0, 1, ByteBase \div 4, ByteBase ^ 2 \div 4, ByteBase ^ 3 \div 4}

Objects ==
    {Group("type1", 1) \o Group("plain", gap) \o Group("pointer", run) \o Group("plain", gap2) \o Group("pointer", run2) :
        gap, gap2, run, run2 \in Around}
    \cup {Group("plain", d) \o Group("sym1", 1) \o Group(k1, 1) \o Group("plain", d2) \o Group("sym1", 1) \o Group(k2, 1) :
        d, d2 \in Distances, k1, k2 \in {"plain", "sym2", "type1", "str1", "str2", "pointer"}}

DataTask(object) ==
    LET words == D!add_strings(object, <<"str1", "str2">>) IN
    [kind |-> "data", words |-> words, linked |-> D!Linked(D!generate_link_table(words))]

GenerateObject == task = Asked("data") /\ \E object \in Objects : task' = DataTask(object)

GenerateGameData ==
    /\ task = Asked("data")
    /\ \/ \E n \in 0 .. 8 : task' = DataTask(D!compile_game_count(n))
       \/ \E n \in 0 .. 8 : task' = DataTask(D!compile_dir_tpages(n))
       \/ \E n \in 0 .. 5 : \E texts \in [1 .. n -> D!Strings] : task' = DataTask(D!compile_game_text("str1", texts))

\* The words that the kernel and the decompiler link are those the compiler
\* asked for, at any distance.  A pointer in the first word, or a last run of a
\* multiple of 255 pointers, would be misread.
LinksRoundTrip ==
    task.kind = "data" =>
        LET pointers == D!At(task.words, "pointer")
            runs == D!Runs(pointers)
            last == runs[Len(runs)]
        IN (pointers = {} \/ (0 \notin pointers /\ (last[2] - last[1] + 1) % (ByteBase - 1) # 0)) =>
               /\ task.linked.pointers = pointers
               /\ \A n \in D!Symbols \cup D!Types : task.linked.names[n] = D!At(task.words, n)

-----------------------------------------------------------------------------
(* Files with code: functions 1 and 2, static data 1 and 2, and the          *)
(* top-level function 3.                                                     *)

G == INSTANCE ObjectGenerator

Link(kind, id, at) == [kind |-> kind, id |-> id, at |-> at]
Instr(size, patch, link) == [size |-> size, patch |-> patch, link |-> link]

\* IRs: one with no instructions, one of two, jumps, and each kind of link.
Irs == {<<>>, <<Instr(3, 0, G!NoLink), Instr(5, 1, Link("jump", 1, 0))>>, <<Instr(6, 2, Link("jump", 2, 0))>>,
        <<Instr(8, 4, Link("symbol", 1, 0))>>, <<Instr(7, 3, Link("symbol", 2, 0))>>,
        <<Instr(7, 3, Link("rip function", 1, 0))>>, <<Instr(7, 3, Link("rip function", 2, 0))>>,
        <<Instr(8, 4, Link("rip static", 1, 4))>>, <<Instr(9, 5, Link("rip static", 2, 0))>>}

\* Static data: strings, pairs and structures, which point within their segment.
StaticData(seg) ==
    {[seg |-> seg, align |-> 16, size |-> 13, links |-> {[at |-> 0, link |-> Link("type", 0, 0)]}],
     [seg |-> seg, align |-> 4, size |-> 4, links |-> {}],
     [seg |-> seg, align |-> 16, size |-> 8, links |-> {[at |-> 0, link |-> Link("symbol", 1, 0)],
                                                        [at |-> 4, link |-> Link("static", 1, 2)]}],
     [seg |-> seg, align |-> 16, size |-> 12, links |-> {[at |-> 4, link |-> Link("function", 1, 0)],
                                                         [at |-> 8, link |-> Link("static", 2, 0)]}]}
OwnSegment(p) ==
    \A s \in 1 .. 2 : \A l \in p.statics[s].links :
        /\ l.link.kind = "static" => p.statics[l.link.id].seg = p.statics[s].seg /\ l.link.id <= s
        /\ l.link.kind = "function" => p.functions[l.link.id].seg = p.statics[s].seg

Programs ==
    {p \in {[functions |-> <<[seg |-> 0, irs |-> <<a, b>>], [seg |-> seg, irs |-> <<c>>], [seg |-> 2, irs |-> <<d>>]>>,
             statics |-> <<s1, s2>>] :
              a, b \in Irs, c, d \in {<<>>, <<Instr(9, 5, Link("rip static", 2, 0))>>, <<Instr(7, 3, Link("rip function", 1, 0))>>},
              seg \in {0, 1}, s1 \in StaticData(0), s2 \in StaticData(0) \cup StaticData(1)} : OwnSegment(p)}

GenerateCode ==
    /\ task = Asked("code")
    /\ \E p \in Programs, debug \in {0, 7008} :
          LET base == [s \in 0 .. 2 |-> CASE s = 0 -> 4096 [] s = 1 -> debug [] s = 2 -> 8192] IN
          task' = [kind |-> "code", program |-> p, base |-> base,
                   patches |-> UNION {G!Patches(p, base, seg) : seg \in 0 .. 2}]

\* Where things are in memory.
FunctionAddress(f) == task.base[task.program.functions[f].seg] + G!FunctionAt(task.program, f)
StaticAddress(s) == task.base[task.program.statics[s].seg] + G!StaticAt(task.program, s)
Loaded(seg) == task.base[seg] # 0

\* What the processor and the programs find, in memory, at an address.
Memory4(at) == (CHOOSE w \in task.patches : w.at = at).value

\* Once a file is linked, wherever its segments were put and with or without
\* the debug segment, every jump goes to its IR, every access to its target
\* (to 0 when that is not loaded), every pointer and symbol is the one asked
\* for; no patch touches another one; and the entry is the top-level function.
ReferencesResolve ==
    task.kind = "code" =>
        /\ \A f \in 1 .. 3 : Loaded(task.program.functions[f].seg) =>
              LET instrs == G!Instructions(task.program.functions[f])
                  Address(i) == FunctionAddress(f) + G!CodeSize(SubSeq(instrs, 1, i - 1))
                  Reached(i) == Address(i) + instrs[i].size + Memory4(Address(i) + instrs[i].patch)
              IN /\ Memory4(FunctionAddress(f) - 4) = G!TypeAddress("function")
                 /\ FunctionAddress(f) % 16 = 4
                 /\ \A i \in 1 .. Len(instrs) :
                       LET link == instrs[i].link IN
                       CASE link.kind = "none" -> TRUE
                         [] link.kind = "jump" -> Reached(i) = Address(G!IrToInstruction(task.program.functions[f], link.id))
                         [] link.kind = "symbol" -> Memory4(Address(i) + instrs[i].patch) + G!s7 = G!SymbolAddress(link.id)
                         [] link.kind = "rip function" ->
                               Reached(i) = IF Loaded(task.program.functions[link.id].seg) THEN FunctionAddress(link.id) ELSE 0
                         [] link.kind = "rip static" ->
                               Reached(i) = IF Loaded(task.program.statics[link.id].seg) THEN StaticAddress(link.id) + link.at ELSE 0
        /\ \A s \in 1 .. 2 : Loaded(task.program.statics[s].seg) => \A l \in task.program.statics[s].links :
              Memory4(StaticAddress(s) + l.at) =
                  CASE l.link.kind = "symbol" -> G!SymbolAddress(l.link.id)
                    [] l.link.kind = "type" -> G!TypeAddress("string")
                    [] l.link.kind = "function" -> FunctionAddress(l.link.id)
                    [] l.link.kind = "static" -> StaticAddress(l.link.id) + l.link.at
        /\ \A w, v \in task.patches : w = v \/ w.at >= v.at + 4 \/ v.at >= w.at + 4
        /\ G!EntryPoint(task.base) = FunctionAddress(3)

\* Files of data and files of code link to what the compiler put in them.
FilesLink == LinksRoundTrip /\ ReferencesResolve

-----------------------------------------------------------------------------
(* Functions as the compiler's front end makes them, to be allocated.        *)

Temps == {"rax", "rdx", "xmm0"}

IR(read, write) == [read |-> read, write |-> write, clobber |-> {}, exclude |-> {}, jumps |-> {}, fall |-> TRUE, move |-> FALSE,
                    call |-> FALSE, con |-> <<>>]
Constant(v) == IR(<<>>, <<v>>)
Move(v, w) == [IR(<<w>>, <<v>>) EXCEPT !.move = TRUE]
Math(v, w) == IR(<<v, w>>, <<v>>)
Divide(v, w) == [IR(<<v, w>>, <<v>>) EXCEPT !.exclude = {"rdx"}, !.con = <<<<v, "rax">>>>]
\* compile_div constrains the dividend where the divisor is converted, if it is.
DivideByNumber(v) ==
    <<Move(6, v), [Constant(7) EXCEPT !.con = <<<<6, "rax">>>>], [Divide(6, 7) EXCEPT !.con = <<>>]>>
Store(v, w) == IR(<<v, w>>, <<>>)
Call(function, result) ==
    [IR(<<function>>, <<function, result>>) EXCEPT !.clobber = Temps, !.call = TRUE, !.con = <<<<result, "rax">>>>]
Branch(v, target) == [IR(<<v>>, <<>>) EXCEPT !.jumps = {target}]
Goto(target) == [IR(<<>>, <<>>) EXCEPT !.jumps = {target}, !.fall = FALSE]
Null == IR(<<>>, <<>>)
Return(v) == [IR(<<v>>, <<5>>) EXCEPT !.con = <<<<5, "rax">>>>, !.move = TRUE]

\* One or two IRs of the body of a function with variables 1 to 3; 4 is the
\* function called, 5 the value returned.
Pieces == {<<Constant(1)>>, <<Constant(2)>>, <<Move(1, 2)>>, <<Move(2, 3)>>, <<Move(3, 1)>>, <<Math(1, 2)>>, <<Math(2, 3)>>,
           <<Divide(1, 2)>>, <<Divide(3, 2)>>, <<Store(3, 1)>>, <<Move(4, 1), Call(4, 2)>>, <<Move(4, 2), Call(4, 3)>>}

\* With a quotient (6) that may live on.
FirstPieces == Pieces \cup {DivideByNumber(1) \o <<Move(3, 6)>>, DivideByNumber(3) \o <<Move(4, 2), Call(4, 3), Math(2, 6)>>}

\* The shapes of bodies: one after the other; a test, two cases and what follows
\* both; a loop, whose test comes after it.
Straight(a, b, c) == a \o b \o c \o <<Store(1, 2), Return(3)>>
Cond(a, b, c) == <<Branch(1, 6 + Len(a))>> \o a \o <<Goto(6 + Len(a) + Len(b))>> \o b \o c \o <<Return(2)>>
While(a, b, c) == <<Goto(5 + Len(a))>> \o a \o b \o <<Branch(1, 5)>> \o c \o <<Store(2, 3), Return(1)>>
Code(shape, a, b, c) ==
    <<Constant(1), Constant(2), Constant(3)>> \o
    CASE shape = "straight" -> Straight(a, b, c) [] shape = "cond" -> Cond(a, b, c) [] shape = "while" -> While(a, b, c)

\* What differs between functions: the class of variables 1 to 3, the registers
\* there are, the variables whose address is taken, the slots of other
\* variables on the stack, and whether it is an assembly function.
Option(class, regs, on_stack, vars, asm) == [class |-> class, regs |-> regs, on_stack |-> on_stack, vars |-> vars, asm |-> asm]
Options == {Option("gpr", <<"rax", "rbx">>, {}, 0, FALSE), Option("gpr", <<"rax", "rdx">>, {}, 0, FALSE)}
OtherOptions == {Option("gpr", <<"rax", "rbx">>, {1}, 1, FALSE), Option("gpr", <<"rax", "rdx">>, {2, 3}, 2, FALSE),
                 Option("vector", <<"rax", "rbx">>, {}, 0, FALSE), Option("vector", <<"rax", "rbx">>, {1}, 1, FALSE),
                 Option("float", <<"rax", "rdx">>, {2}, 3, FALSE), Option("gpr", <<"rax", "rdx">>, {}, 0, TRUE)}

\* The registers that constraints name depend on the class, and a move between
\* classes is not one to the allocator.
Function(code, o) ==
    LET classes == [v \in 1 .. 7 |-> IF v <= 3 THEN o.class ELSE "gpr"]
        Reg(con) == IF classes[con[1]] = "gpr" THEN con[2] ELSE "xmm0"
        xmms == <<"xmm0", "xmm8">>
        Each(gpr, xmm) == [gpr |-> gpr, float |-> xmm, vector |-> xmm]
    IN [code |-> [i \in DOMAIN code |-> [code[i] EXCEPT !.move = @ /\ classes[Head(code[i].read)] = classes[Head(code[i].write)]]],
        class |-> classes,
        constraints |-> FlattenSeq([i \in DOMAIN code |-> [k \in DOMAIN code[i].con |-> <<code[i].con[k][1], i, Reg(code[i].con[k])>>]]),
        on_stack |-> o.on_stack, vars |-> o.vars, aligned |-> o.vars > 0 \/ \E i \in DOMAIN code : code[i].call,
        asm |-> o.asm, saved_allowed |-> FALSE,
        order |-> Each(o.regs, IF o.asm THEN <<"xmm0">> ELSE xmms),
        all_order |-> Each(IF o.asm THEN o.regs \o <<"rbx">> ELSE o.regs, xmms),
        spill_order |-> Each(o.regs \o <<"r11", "r12">>, xmms \o <<"xmm14">>)]

\* Vectors are not divided, and assembly functions make no calls.
Meaningful(code, o) ==
    \A i \in DOMAIN code : (o.class # "gpr" => code[i].exclude = {}) /\ (o.asm => ~code[i].call)

ShapedFunctions ==
    [shape \in {"straight", "cond", "while"} |->
        {Function(Code(shape, q[1], q[2], q[3]), q[4]) :
            q \in {p \in (FirstPieces \X Pieces \X Pieces \X Options)
                         \cup (FirstPieces \X Pieces \X {<<Math(1, 2)>>} \X OtherOptions) :
                   Meaningful(Code(shape, p[1], p[2], p[3]), p[4])}}]

-----------------------------------------------------------------------------

ToolchainNext ==
    \/ Emit \/ GenerateObject \/ GenerateGameData \/ GenerateCode \/ CompileIr \/ CompileForm
    \/ CompilerNext
    \/ CompileExpression \/ RunExpression \/ SetBitfield

ToolchainSpec == TaskInit /\ [][ToolchainNext]_task
=============================================================================
