----------------------------- MODULE AtomicTasks ----------------------------
(* Basic blocks converted to atomic operations, and to the basic operations  *)
(* of the first representation: every instruction with its special registers *)
(* and immediates, every pattern of instructions, and branches with every    *)
(* kind of delay slot.                                                       *)
EXTENDS Integers, Sequences, FiniteSets, Task

P == INSTANCE MipsDecode
A == INSTANCE AtomicOps WITH WordBits <- 8, ImmBits <- 4, FIX_SYM_TRUE <- 4, FIX_SYM_EMPTY_PAIR <- -5, SymbolTableStart <- -8,
                             ThreadOffset <- 7, SuspendOffset <- 3, LaneBytes <- 1, BintegerSymbol <- 1, PairSymbol <- 2
-----------------------------------------------------------------------------
(* What an operation means.                                                  *)

AtomValue(a, m) ==
    CASE a[1] = "var" -> m.reg[<<a[2], a[3]>>]
      [] a[1] = "int" -> a[3] % P!RegMod
      [] a[1] = "sym_val" -> IF a[3] = 0 THEN m.reg[P!s7] ELSE P!Loaded(4, "SIGNED", m.reg[P!s7] + a[3])
      [] a[1] = "sym_ptr" -> m.reg[P!s7] + a[3]
      [] a[1] = "empty" -> m.reg[P!s7] - 5
      [] a[1] = "table" -> m.reg[P!s7] - 8
      [] a[1] = "static" -> P!Static(a[3])

Binary == [ADD |-> "DADDU", SUB |-> "DSUBU", OR |-> "OR", AND |-> "AND", XOR |-> "XOR", NOR |-> "NOR", LEFT_SHIFT |-> "DSLLV",
           RIGHT_SHIFT_ARITH |-> "DSRAV", RIGHT_SHIFT_LOGIC |-> "DSRLV", MUL_SIGNED |-> "MULT3", MUL_UNSIGNED |-> "MULTU3", PCPYLD |-> "PCPYLD"]
Value(kind, x, y) ==
    CASE kind \in {"IDENTITY"} -> x
      [] kind \in DOMAIN Binary -> P!Arith(Binary[kind], x, y)
      [] kind \in DOMAIN P!Float2 -> P!FloatOp(P!Float2[kind], x, y)
      [] kind \in DOMAIN P!Float1 -> P!FloatOp(P!Float1[kind], x, 0)
      [] kind = "NEG" -> (-x) % P!RegMod [] kind = "LOGNOT" -> P!Complement(x)
      [] kind = "GPR_TO_FPR" -> x % P!WordMod [] kind = "FPR_TO_GPR" -> P!Sext(x)
      [] kind = "DIV_SIGNED" -> P!Sext(P!Quotient(P!SignedWord(x), P!SignedWord(y)))
      [] kind = "MOD_SIGNED" -> P!Sext(P!Remainder(P!SignedWord(x), P!SignedWord(y)))
      [] kind = "DIV_UNSIGNED" -> P!Sext(P!Quotient(x % P!WordMod, y % P!WordMod))
      [] kind = "MOD_UNSIGNED" -> P!Sext(P!Remainder(x % P!WordMod, y % P!WordMod))
      [] kind = "MIN_SIGNED" -> P!Lesser(P!SignedReg(x), P!SignedReg(y)) % P!RegMod
      [] kind = "MAX_SIGNED" -> P!Greater(P!SignedReg(x), P!SignedReg(y)) % P!RegMod
      [] kind = "MIN_UNSIGNED" -> P!Lesser(x, y) [] kind = "MAX_UNSIGNED" -> P!Greater(x, y)

Holds(kind, x, y, m) ==
    LET sx == P!SignedReg(x)  sy == P!SignedReg(y)  fx == P!SignedWord(x)  fy == P!SignedWord(y) IN
    CASE kind \in {"EQUAL", "FLOAT_EQUAL"} -> x = y [] kind \in {"NOT_EQUAL", "FLOAT_NOT_EQUAL"} -> x # y
      [] kind = "ZERO" -> x = 0 [] kind = "NONZERO" -> x # 0 [] kind = "FALSE" -> x = m.reg[P!s7] [] kind = "TRUTHY" -> x # m.reg[P!s7]
      [] kind = "ALWAYS" -> TRUE [] kind = "NEVER" -> FALSE
      [] kind = "LESS_THAN_SIGNED" -> sx < sy [] kind = "GEQ_SIGNED" -> sx >= sy
      [] kind = "LESS_THAN_UNSIGNED" -> x < y [] kind = "GEQ_UNSIGNED" -> x >= y
      [] kind = "LESS_THAN_ZERO_SIGNED" -> sx < 0 [] kind = "GEQ_ZERO_SIGNED" -> sx >= 0
      [] kind = "GREATER_THAN_ZERO_SIGNED" -> sx > 0 [] kind = "LEQ_ZERO_SIGNED" -> sx <= 0
      [] kind = "LESS_THAN_ZERO_UNSIGNED" -> FALSE [] kind = "GEQ_ZERO_UNSIGNED" -> TRUE
      [] kind = "GREATER_THAN_ZERO_UNSIGNED" -> x > 0 [] kind = "LEQ_ZERO_UNSIGNED" -> x = 0
      [] kind = "FLOAT_LESS_THAN" -> fx < fy [] kind = "FLOAT_GEQ" -> fx >= fy
      [] kind = "FLOAT_LEQ" -> fx <= fy [] kind = "FLOAT_GREATER_THAN" -> fx > fy
      [] kind = "IS_PAIR" -> (x \div 2) % 2 = 1 [] kind = "IS_NOT_PAIR" -> (x \div 2) % 2 = 0
\* The value of the k-th argument; zero if there is none.
Arg(args, k, m) == IF k <= Len(args) THEN AtomValue(args[k], m) ELSE 0
Truth(condition, m) == Holds(condition.kind, Arg(condition.args, 1, m), Arg(condition.args, 2, m), m)

Vector(m, kind, dst, a, b) ==
    P!Out(m, P!Stored(16, dst, P!Lanes(
        CASE kind = "VECTOR_PLUS" -> P!Add(P!Xyz(P!Loaded(16, "VECTOR_FLOAT", a)), P!Xyz(P!Loaded(16, "VECTOR_FLOAT", b)))
          [] kind = "VECTOR_MINUS" -> P!FloatOp(P!Float2["SUB_S"], P!Xyz(P!Loaded(16, "VECTOR_FLOAT", a)), P!Xyz(P!Loaded(16, "VECTOR_FLOAT", b)))
          [] kind = "VECTOR_FLOAT_PRODUCT" -> P!Mul(P!Xyz(P!Loaded(16, "VECTOR_FLOAT", a)), P!Xyz(b)), 1)))
Dot(a, b) ==
    LET Product(lane) == P!Mul(P!Loaded(4, "FLOAT", a + lane), P!Loaded(4, "FLOAT", b + lane))
    IN P!Add(P!Add(Product(0), Product(1)), Product(2))
SetMeans(op, m) ==
    LET x == Arg(op.src.args, 1, m)  y == Arg(op.src.args, 2, m) IN
    CASE op.src.kind \in {"VECTOR_PLUS", "VECTOR_MINUS", "VECTOR_FLOAT_PRODUCT"} -> Vector(m, op.src.kind, x, y, Arg(op.src.args, 3, m))
      [] op.src.kind = "VECTOR_3_DOT" -> P!Set(m, op.dst, Dot(x, y))
      [] op.src.kind = "SUBU_L32_S7" -> P!Set(m, op.dst, P!Sext(x - m.reg[P!s7]))
      [] OTHER -> P!Set(m, op.dst, Value(op.src.kind, x, y) % (IF op.dst[1] = "FPR" THEN P!WordMod ELSE P!RegMod))
Sum(expr, m) == IF expr.kind = "IDENTITY" THEN Arg(expr.args, 1, m) ELSE Arg(expr.args, 1, m) + Arg(expr.args, 2, m)
\* A store to a symbol is a store to its address.
StoreAddress(expr, m) == IF expr.args[1][1] = "sym_val" /\ expr.args[1][3] # 0 THEN m.reg[P!s7] + expr.args[1][3] ELSE Sum(expr, m)
DelayMeans(d, m) ==
    CASE d.kind = "SET_REG_FALSE" -> P!Set(m, d.vars[1], m.reg[P!s7])
      [] d.kind = "SET_REG_TRUE" -> P!Set(m, d.vars[1], m.reg[P!s7] + 4)
      [] d.kind = "SET_REG_REG" -> P!Set(m, d.vars[1], m.reg[d.vars[2]])
      [] d.kind = "SET_BINTEGER" -> P!Set(m, d.vars[1], P!Loaded(4, "SIGNED", m.reg[P!s7] + 1))
      [] d.kind = "SET_PAIR" -> P!Set(m, d.vars[1], P!Loaded(4, "SIGNED", m.reg[P!s7] + 2))
      [] d.kind = "DSLLV" -> P!Set(m, d.vars[1], P!Arith("DSLLV", m.reg[d.vars[2]], m.reg[d.vars[3]]))
      [] d.kind = "NEGATE" -> P!Set(m, d.vars[1], (-m.reg[d.vars[2]]) % P!RegMod)
      [] d.kind \in {"NOP", "NO_DELAY"} -> m

Means(op, m, relative) ==
    CASE op.op = "set" -> SetMeans(op, m)
      [] op.op = "load" -> P!Set(m, op.dst, P!Loaded(op.size, op.kind, Sum(op.src, m)))
      [] op.op = "stackload" ->
           P!Set(m, op.dst, P!Loaded(op.size, IF op.signed THEN "SIGNED" ELSE IF op.dst[1] = "VF" THEN "VECTOR_FLOAT" ELSE "UNSIGNED", m.reg[P!sp] + op.offset))
      \* a double word at address 2 is not aligned
      [] op.op = "store" -> P!Out(m, IF op.size = 8 /\ StoreAddress(op.addr, m) = 2 THEN <<"trap", "SD">>
                                     ELSE P!Stored(op.size, StoreAddress(op.addr, m), AtomValue(op.value, m)))
      [] op.op = "stackstore" -> P!Out(m, P!Stored(op.size, m.reg[P!sp] + op.offset, AtomValue(op.value, m)))
      [] op.op = "asm" -> P!Execute(op.i, m, relative)
      [] op.op = "cmove" -> IF (m.reg[op.src] = 0) = op.on_zero THEN P!Set(m, op.dst, m.reg[P!s7]) ELSE m
      [] op.op = "setcond" -> P!Set(m, op.dst, m.reg[P!s7] + (IF Truth(op.condition, m) THEN 4 ELSE 0))
      [] op.op = "call" -> P!Called(m, m.reg[P!Gpr(25)])
      [] op.op = "special" ->
           (CASE op.kind = "NOP" -> m
              [] op.kind = "BREAK" -> P!Out(m, <<"trap", "LW">>)
              [] op.kind = "CRASH" -> P!Out(m, <<"trap", "SD">>)
              [] op.kind = "SUSPEND" -> P!Called(m, P!Loaded(4, "UNSIGNED", P!Loaded(4, "UNSIGNED", m.reg[P!Gpr(22)] + 7) + 3)))
OpMeans(op, m, relative) ==
    CASE op.op = "branch" -> DelayMeans(op.delay, P!Out(m, <<"branch", Truth(op.condition, m), op.label>>))
      [] op.op = "asmbranch" ->
           LET Branched(n) == IF op.delay = A!Null THEN n ELSE Means(op.delay, n, relative)
           IN Branched(P!Out(m, <<"branch", Truth(op.condition, m), op.label>>))
      [] OTHER -> Means(op, m, relative)
-----------------------------------------------------------------------------
(* Blocks.                                                                   *)

I(kind, dst, src) == [kind |-> kind, dst |-> dst, src |-> src, dest |-> 255, bc |-> 255, il |-> 255]
V(kind, dst, src, dest, bc) == [kind |-> kind, dst |-> <<dst>>, src |-> src, dest |-> dest, bc |-> bc, il |-> 255]
Imm(n) == <<"imm", n>>
Sym(n) == <<"sym", n>>
Lab(n) == <<"label", n>>
g(n) == P!Gpr(n)
f(n) == <<"FPR", n>>
vf(n) == <<"VF", n>>
zero == g(0)
v0 == g(2)
v1 == g(3)
a0 == g(4)
a1 == g(5)
ra == g(31)
nop == I("SLL", <<zero>>, <<zero, Imm(0)>>)

Registers3 ==
    {I(kind, <<d>>, <<x, y>>) :
        kind \in {"OR", "POR", "AND", "XOR", "NOR", "DADDU", "DSUBU", "SUBU", "ADDU", "MULT3", "SLT", "PCPYLD", "DSLLV", "DSRAV", "DSRLV", "MOVN"},
        d \in {a0, v1}, x \in {a0, P!s7, zero}, y \in {a1, P!s7, zero}}
    \cup {I("OR", <<v1>>, <<zero, ra>>), I("MOVZ", <<v1>>, <<P!s7, a0>>)}
Immediates ==
    {I("DADDIU", <<v1>>, <<x, Imm(n)>>) : x \in {a0, P!s7}, n \in {0, 1, -5, -8, 4}}
    \cup {I("DADDIU", <<v1>>, <<P!s7, Sym(3)>>), I("DADDIU", <<v1>>, <<P!fp, Lab(3)>>)}
    \cup {I(kind, <<v1>>, <<x, Imm(n)>>) : kind \in {"ORI", "ANDI", "XORI", "ADDIU"}, x \in {a0, zero}, n \in {0, 7}}
    \cup {I(kind, <<d>>, <<a0, Imm(n)>>) : kind \in {"DSLL", "DSRL", "DSRA", "DSLL32", "DSRL32", "DSRA32", "SRA"}, d \in {v1, ra}, n \in {0, 3}}
    \cup {I("LUI", <<d>>, <<Imm(n)>>) : d \in {v1, g(1)}, n \in {3, -2}} \cup {nop}
Where == {<<Imm(n), b>> : n \in {0, 2}, b \in {a0, P!sp}} \cup {<<Imm(0), zero>>}
LoadInstructions ==
    {I(kind, <<d>>, w) : kind \in DOMAIN P!Loads \ {"LWC1", "LQC2"}, d \in {v1, a0, ra}, w \in Where \cup {<<Lab(3), P!fp>>}}
    \cup {I("LWC1", <<f(1)>>, w) : w \in Where \cup {<<Lab(3), P!fp>>}} \cup {I("LQC2", <<vf(1)>>, w) : w \in Where}
    \cup {I("LW", <<zero>>, <<Imm(2), zero>>)} \cup {I("LW", <<d>>, <<Sym(3), P!s7>>) : d \in {v1, g(1)}}
StoreInstructions ==
    {I(kind, <<>>, <<x>> \o w) : kind \in DOMAIN P!Stores \ {"SWC1", "SQC2"}, x \in {a1, P!s7, zero}, w \in Where}
    \cup {I("SWC1", <<>>, <<f(1)>> \o w) : w \in Where} \cup {I("SQC2", <<>>, <<vf(1)>> \o w) : w \in Where}
    \cup {I("SW", <<>>, <<x, Sym(3), P!s7>>) : x \in {a1, P!s7, zero}} \cup {I("SD", <<>>, <<zero, Imm(2), zero>>)}
Floats ==
    {I(kind, <<f(0)>>, <<f(1), f(2)>>) : kind \in DOMAIN P!FloatKind}
    \cup {I(kind, <<f(0)>>, <<f(1)>>) : kind \in DOMAIN P!FloatKind1 \cup {"MOVS"}}
    \cup {I("MTC1", <<f(0)>>, <<x>>) : x \in {a0, zero}} \cup {I("MFC1", <<d>>, <<f(1)>>) : d \in {v1, g(1), zero}}
Singles == UNION {Registers3, Immediates, LoadInstructions, StoreInstructions, Floats}

Delays ==
    {nop, I("OR", <<v1>>, <<P!s7, zero>>), I("OR", <<a0>>, <<a1, zero>>), I("OR", <<v1>>, <<a0, a1>>), I("DADDIU", <<v1>>, <<P!s7, Imm(4)>>),
     I("DADDIU", <<a0>>, <<a0, Imm(1)>>), I("DSLLV", <<v1>>, <<a0, a1>>), I("DSUBU", <<a0>>, <<zero, a0>>), I("SRA", <<a1>>, <<a0, Imm(3)>>),
     I("SW", <<>>, <<a1, Imm(0), a0>>)} \cup {I("LW", <<v1>>, <<Sym(n), P!s7>>) : n \in {1, 2, 3}}
Pairs == {<<a0, a1>>, <<a0, zero>>, <<P!s7, a0>>, <<a0, P!s7>>, <<zero, zero>>, <<P!s7, P!s7>>, <<P!s7, zero>>, <<zero, a0>>}
Delayed ==
    {<<I(kind, <<>>, <<p[1], p[2], Lab(7)>>), d>> : kind \in {"BEQ", "BNE"}, p \in Pairs, d \in Delays}
    \cup {<<I(kind, <<>>, <<a0, Lab(7)>>), d>> : kind \in {"BLTZ", "BGEZ"}, d \in Delays}
Likely ==
    {<<I(kind, <<>>, <<p[1], p[2], Lab(7)>>)>> : kind \in {"BEQL", "BNEL"}, p \in Pairs}
    \cup {<<I(kind, <<>>, <<a0, Lab(7)>>)>> : kind \in {"BLTZL", "BGEZL", "BGTZL"}}
\* Comparisons into a temporary register, which may be one of the arguments.
Comparisons(t) ==
    {I(kind, <<t>>, <<x, y>>) : kind \in {"SLT", "SLTU"}, x \in {a0, zero}, y \in {a1, zero}}
    \cup {I(kind, <<t>>, <<a0, Imm(n)>>) : kind \in {"SLTI", "SLTIU"}, n \in {1, -2}}
Test(t, d, move) == <<I("DADDIU", <<d>>, <<P!s7, Imm(4)>>), I(move, <<d>>, <<P!s7, t>>)>>
Compared ==
    {<<c, I(kind, <<>>, <<v1, zero, Lab(7)>>), d>> : c \in Comparisons(v1), kind \in {"BEQ", "BNE"}, d \in Delays}
    \cup {<<c>> \o Test(v1, d, move) :
            c \in Comparisons(v1) \cup {I("DSUBU", <<v1>>, <<a0, y>>) : y \in {a1, P!s7, zero}}, d \in {v0, a0}, move \in {"MOVN", "MOVZ"}}
    \cup {Test(a1, d, move) : d \in {v1, a0}, move \in {"MOVN", "MOVZ"}}
    \cup {<<I(kind, <<v1>>, <<a0, a1>>), I(move, <<a0>>, <<a1, v1>>)>> : kind \in {"SLT", "SLTU"}, move \in {"MOVN", "MOVZ"}}
    \cup {<<I("DSLL32", <<v1>>, <<a0, Imm(6)>>), I("SLT", <<v1>>, <<v1, zero>>), I("BEQ", <<>>, <<v1, zero, Lab(7)>>), d>> : d \in Delays}
    \cup {<<I(kind, <<>>, <<f(0), f(1)>>), I(branch, <<>>, <<Lab(7)>>), d>> : kind \in {"CEQS", "CLTS", "CLES"}, branch \in {"BC1T", "BC1F"}, d \in Delays}
    \cup {<<I("CLTS", <<>>, <<f(0), f(1)>>), I(branch, <<>>, <<Lab(7)>>)>> : branch \in {"BC1TL", "BC1FL"}}
Longer ==
    {<<I(kind, <<>>, <<a0, y>>), I(move, <<v1>>, <<>>)>> : kind \in {"DIV", "DIVU"}, y \in {a1, zero}, move \in {"MFLO", "MFHI"}}
    \cup {<<I("JALR", <<ra>>, <<g(25)>>), I("SLL", <<v0>>, <<ra, Imm(0)>>)>>}
    \cup {<<I("LUI", <<t>>, <<Imm(n)>>), I("ORI", <<d>>, <<t, Imm(9)>>)>> : t \in {v1, a0}, d \in {v1, a0}, n \in {3, -2}}
    \cup {<<I("LUI", <<t>>, <<Lab(3)>>), I("ORI", <<d>>, <<t, Lab(3)>>)>> : t \in {v1, a0}, d \in {v1, a0}}
    \cup {<<I("LUI", <<t>>, <<Lab(3)>>), I("ORI", <<v1>>, <<t, Lab(3)>>), I("ADDU", <<v1>>, <<P!fp, v1>>)>> : t \in {v1, a0}}
    \cup {<<I("LUI", <<t>>, <<Lab(3)>>), I("ORI", <<t>>, <<t, Lab(3)>>), I("DADDU", <<v1>>, <<t, P!fp>>)>> : t \in {v1, a0}}
    \cup {<<I("LWU", <<g(22)>>, <<Imm(7), g(22)>>), I("MTLO1", <<>>, <<g(22)>>), I("LWU", <<g(22)>>, <<Imm(3), g(22)>>),
            I("JALR", <<ra>>, <<g(22)>>), I("MFLO1", <<g(22)>>, <<>>)>>}
    \cup {<<V("VMOVE", vf(6), <<vf(0)>>, 1, 255), I("LQC2", <<vf(4)>>, <<Imm(0), a0>>), I("LQC2", <<vf(5)>>, <<Imm(0), a1>>),
            V("VADD", vf(6), <<vf(4), vf(5)>>, 14, 255), I("SQC2", <<>>, <<vf(6), Imm(0), v1>>)>>,
          <<I("LQC2", <<vf(4)>>, <<Imm(0), a0>>), I("LQC2", <<vf(5)>>, <<Imm(0), a1>>), V("VMOVE", vf(6), <<vf(0)>>, 1, 255),
            V("VSUB", vf(6), <<vf(4), vf(5)>>, 14, 255), I("SQC2", <<>>, <<vf(6), Imm(0), v1>>)>>,
          <<I("LQC2", <<vf(1)>>, <<Imm(0), a0>>), I("MFC1", <<v1>>, <<f(0)>>), I("QMTC2", <<vf(2)>>, <<v1>>),
            V("VADD_BC", vf(1), <<vf(0), vf(0)>>, 1, 0), V("VMUL_BC", vf(1), <<vf(1), vf(2)>>, 14, 0), I("SQC2", <<>>, <<vf(1), Imm(0), a1>>)>>,
          [k \in 1 .. 6 |-> I("LWC1", <<f(k - 1)>>, <<Imm((k - 1) % 3), IF k <= 3 THEN a0 ELSE a1>>)]
            \o <<I("MULAS", <<>>, <<f(0), f(3)>>), I("MADDAS", <<>>, <<f(1), f(4)>>), I("MADDS", <<f(0)>>, <<f(2), f(5)>>)>>}
Trailing == {<<>>, <<I("DADDU", <<v0>>, <<a0, a1>>)>>}
Blocks == {<<i>> \o <<nop>> : i \in Singles} \cup Delayed \cup Likely \cup Compared \cup {b \o t : b \in Longer, t \in Trailing}

\* An operation with the registers it names.
Named(o) ==
    IF o.op = A!Failed THEN [at |-> o.at, n |-> o.n, op |-> o.op, reads |-> {}, writes |-> {}, clobber |-> {}]
    ELSE [at |-> o.at, n |-> o.n, op |-> o.op, reads |-> A!read_regs(o.op), writes |-> A!write_regs(o.op), clobber |-> A!clobber_regs(o.op)]
ConvertBlock ==
    /\ task = Asked("block")
    /\ \E b \in Blocks, asm \in BOOLEAN :
          /\ asm => b \in Likely
          /\ \E ops \in {A!convert_block_to_atomic_ops(b, FALSE, asm)} :
                task' = [kind |-> "block", block |-> b, ops |-> [k \in DOMAIN ops |-> Named(ops[k])],
                         function |-> A!convert_function_to_atomic_ops(<<<<>>, b, <<>>>>, FALSE, IF asm THEN {2} ELSE {})]

NamedBasic(o) ==
    IF o.op = A!Failed THEN [at |-> o.at, n |-> o.n, op |-> o.op, reads |-> {}, writes |-> {}, clobber |-> {}]
    ELSE [at |-> o.at, n |-> o.n, op |-> o.op, reads |-> o.op.reads, writes |-> o.op.writes, clobber |-> o.op.clobber]
ConvertBasic ==
    /\ task = Asked("basic")
    /\ \E b \in Blocks : \E ops \in {A!add_basic_ops_to_block(b)} :
          task' = [kind |-> "basic", block |-> b, ops |-> [k \in DOMAIN ops |-> NamedBasic(ops[k])]]
-----------------------------------------------------------------------------
(* Soundness.                                                                *)

Machines == {P!Machine(x, y) : x \in {0, 6, 20, 40000}, y \in {0, 5, 65530}}
FewMachines == {P!Machine(6, 65530), P!Machine(40000, 5)}
\* Labels are relative to fp when it is added to them.
Relative(b) == \E k \in DOMAIN b : b[k].kind \in {"ADDU", "DADDU"} /\ \E a \in {b[k].src[1], b[k].src[2]} : a = P!fp
Slice(o) == SubSeq(task.block, o.at, o.at + o.n - 1)

\* The patterns that stand for vector macros name neither the vector registers
\* they overwrite nor the registers that hold their intermediate results; a call
\* does not name ra, a suspend neither ra nor v0.  A basic call does not name at
\* either, and a basic suspend no register.
Unnamed(o) ==
    UNION {P!Hidden,
           IF o.op.op = "set" /\ o.op.src.kind \in {"VECTOR_PLUS", "VECTOR_MINUS", "VECTOR_FLOAT_PRODUCT", "VECTOR_3_DOT"}
           THEN P!Vfs \cup (P!Fprs \ {o.op.dst}) \cup (IF o.op.src.kind = "VECTOR_FLOAT_PRODUCT" THEN {v1} ELSE {}) ELSE {},
           IF o.op.op = "call" THEN {ra} ELSE IF o.op.op = "special" THEN {ra, v0} ELSE {},
           IF task.kind = "basic" THEN (IF o.op.op = "call" THEN {g(1)} ELSE IF o.op.op = "special" THEN P!Temps ELSE {}) ELSE {}}
Kept(o) == (P!Gprs \cup P!Fprs \cup P!Vfs) \ (o.clobber \cup Unnamed(o))

\* The operation does what its instructions do, and names what they overwrite.
SameEffect(o, m, n) ==
    /\ n.out = OpMeans(o.op, m, Relative(task.block)).out
    /\ \A r \in Kept(o) : n.reg[r] = OpMeans(o.op, m, Relative(task.block)).reg[r]
    /\ \A r \in Kept(o) : n.reg[r] # m.reg[r] => r \in o.writes
\* A register that it does not name as read does not matter.  The assembly of
\* a conditional move leaves out the register that it may leave alone, and so
\* does the basic one; the basic or with a constant names no register.
Constant == {zero, P!s7, P!fp, P!sp, g(22)}
Unread(o) ==
    IF task.kind = "basic" /\ o.op.op = "cmove" THEN {o.op.dst}
    ELSE IF task.kind = "basic" /\ task.block[o.at].kind = "ORI" THEN {task.block[o.at].src[1]} ELSE {}
Independent(o, m, n) ==
    \A r \in (P!Gprs \cup P!Fprs) \ (o.reads \cup Constant \cup Unread(o)) :
        \A k \in {P!Run(Slice(o), [m EXCEPT !.reg[r] = (@ + 77) % (IF r[1] = "FPR" THEN P!WordMod ELSE P!RegMod)], Relative(task.block))} :
            /\ k.out = n.out
            /\ \A q \in Kept(o) \ {r} : k.reg[q] = n.reg[q]
            /\ r \in o.writes /\ r \in Kept(o) => k.reg[r] = n.reg[r] \/ (o.op.op = "asm" /\ o.op.i.kind \in {"MOVN", "MOVZ"})

\* The blocks of a function share out its operations in order; the last one
\* has the operation that ends the function, which is read from v0.
Shared(done) ==
    /\ done.first[1] = 0 /\ done.end[Len(done.end)] = Len(done.ops)
    /\ \A k \in DOMAIN done.first : done.first[k] <= done.end[k] /\ (k > 1 => done.first[k] = done.end[k - 1])
    /\ done.end[2] - done.first[2] = Len(task.ops) /\ \A k \in DOMAIN task.ops : done.ops[done.first[2] + k] = task.ops[k].op
    /\ {k \in DOMAIN done.ops : done.ops[k].op = "end"} = {Len(done.ops)} /\ A!read_regs(done.ops[Len(done.ops)]) = {v0}

\* The basic operations do not say what an instruction they do not know does,
\* and take the offset of a label for its address when daddu adds fp to it.
Understood(o) ==
    /\ o.op # A!Failed /\ o.op.op # "unknown" /\ (o.op.op = "branch" => o.op.delay.kind # "UNKNOWN")
    /\ ~(task.kind = "basic" /\ o.n = 2 /\ Relative(task.block))

\* A block is covered by its operations without a gap; each has the effect of
\* the instructions it stands for, and the registers it names are those that
\* the instructions use; the blocks of a function have the operations in order.
OperationsFaithful ==
    task.kind \in {"block", "basic"} =>
        /\ task.kind = "block" => Shared(task.function)
        /\ \A k \in DOMAIN task.ops : task.ops[k].at = (IF k = 1 THEN 1 ELSE task.ops[k - 1].at + task.ops[k - 1].n)
        /\ \A k \in DOMAIN task.ops :
              LET o == task.ops[k] IN
              Understood(o) =>
                 /\ \A m \in Machines : \A n \in {P!Run(Slice(o), m, Relative(task.block))} : SameEffect(o, m, n)
                 /\ \A m \in FewMachines : \A n \in {P!Run(Slice(o), m, Relative(task.block))} : Independent(o, m, n)
=============================================================================
