------------------------------ MODULE AtomicOps -----------------------------
(* The atomic operations of the decompiler                                   *)
(* (decompiler/analysis/atomic_op_builder.cpp, decompiler/IR2/AtomicOp.cpp): *)
(* the instructions of a basic block are replaced, longest pattern first, by *)
(* operations on variables, each with the registers it reads, writes and     *)
(* clobbers.                                                                 *)
(*                                                                           *)
(* An instruction is one of MipsDecode, a register <<class, number>>, an     *)
(* atom <<kind, class, number>>.  The numbers of the machine are constants:  *)
(* half of a register has WordBits bits, an immediate ImmBits.               *)
EXTENDS Integers, Sequences, FiniteSets, Functions

CONSTANTS WordBits, ImmBits,
          FIX_SYM_TRUE, FIX_SYM_EMPTY_PAIR, SymbolTableStart,
          ThreadOffset, SuspendOffset, LaneBytes,
          BintegerSymbol, PairSymbol

Gpr(n) == <<"GPR", n>>
r0 == Gpr(0)
at == Gpr(1)
v0 == Gpr(2)
s6 == Gpr(22)
s7 == Gpr(23)
t9 == Gpr(25)
sp == Gpr(29)
fp == Gpr(30)
ra == Gpr(31)
Vf(n) == <<"VF", n>>

\* No conversion, and an assertion that failed or an exception.
Null == [op |-> "null"]
Failed == [op |-> "failed"]
-----------------------------------------------------------------------------
(* Atoms and expressions.                                                    *)

IntConstant(n) == <<"int", "", n>>
SymbolValue(name) == <<"sym_val", "", name>>
SymbolPointer(name) == <<"sym_ptr", "", name>>
EmptyList == <<"empty", "", 0>>
StaticAddress(label) == <<"static", "", label>>
\* The symbol #f is at s7 itself.
false_sym == SymbolValue(0)
\* A pseudo symbol: the start of the symbol table.
TableStart == <<"table", "", 0>>

make_src_atom(reg) == IF reg = r0 THEN IntConstant(0) ELSE IF reg = s7 THEN false_sym ELSE <<"var", reg[1], reg[2]>>

Expression(kind, args) == [kind |-> kind, args |-> args]
Atom(atom) == Expression("IDENTITY", <<atom>>)
make_2reg_expr(i, kind) == Expression(kind, <<make_src_atom(i.src[1]), make_src_atom(i.src[2])>>)
make_1reg_1imm_expr(i, kind, offset) == Expression(kind, <<make_src_atom(i.src[1]), IntConstant(i.src[2][2] + offset)>>)
make_1reg_expr(i, kind) == Expression(kind, <<make_src_atom(i.src[1])>>)
make_reg_plus_int(reg, n) == Expression("ADD", <<make_src_atom(reg), IntConstant(n)>>)

SetVarOp(dst, expr) == [op |-> "set", dst |-> dst, src |-> expr, clobber |-> {}]
AsmOp(i) == [op |-> "asm", i |-> i, clobber |-> {}]
SpecialOp(kind) == [op |-> "special", kind |-> kind, clobber |-> {}]
SetVarConditionOp(dst, condition) == [op |-> "setcond", dst |-> dst, condition |-> condition, clobber |-> {}]
BranchOp(likely, condition, label, delay) ==
    [op |-> "branch", likely |-> likely, condition |-> condition, label |-> label, delay |-> delay, clobber |-> {}]
\* The delay is an operation, or Null.
AsmBranchOp(likely, condition, label, delay) ==
    [op |-> "asmbranch", likely |-> likely, condition |-> condition, label |-> label, delay |-> delay, clobber |-> {}]

make_3reg_op(i, kind) == SetVarOp(i.dst[1], make_2reg_expr(i, kind))
make_2reg_1imm_op(i, kind, offset) == SetVarOp(i.dst[1], make_1reg_1imm_expr(i, kind, offset))
make_2reg_op(i, kind) == SetVarOp(i.dst[1], make_1reg_expr(i, kind))
-----------------------------------------------------------------------------
(* Conditions.                                                               *)

Condition(kind, args) == [kind |-> kind, args |-> args]

opposites ==
    {<<"NOT_EQUAL", "EQUAL">>, <<"LESS_THAN_SIGNED", "GEQ_SIGNED">>, <<"GREATER_THAN_SIGNED", "LEQ_SIGNED">>,
     <<"GREATER_THAN_ZERO_SIGNED", "LEQ_ZERO_SIGNED">>, <<"LESS_THAN_ZERO_SIGNED", "GEQ_ZERO_SIGNED">>,
     <<"LESS_THAN_UNSIGNED", "GEQ_UNSIGNED">>, <<"GREATER_THAN_UNSIGNED", "LEQ_UNSIGNED">>, <<"ZERO", "NONZERO">>, <<"FALSE", "TRUTHY">>,
     <<"ALWAYS", "NEVER">>, <<"FLOAT_EQUAL", "FLOAT_NOT_EQUAL">>, <<"FLOAT_LESS_THAN", "FLOAT_GEQ">>, <<"FLOAT_GREATER_THAN", "FLOAT_LEQ">>,
     <<"IS_NOT_PAIR", "IS_PAIR">>, <<"LEQ_ZERO_UNSIGNED", "GREATER_THAN_ZERO_UNSIGNED">>, <<"LESS_THAN_ZERO_UNSIGNED", "GEQ_ZERO_UNSIGNED">>}
get_condition_opposite(kind) ==
    LET pair == CHOOSE p \in opposites : kind \in Range(p) IN IF pair[1] = kind THEN pair[2] ELSE pair[1]
invert(condition) == [condition EXCEPT !.kind = get_condition_opposite(@)]
\* The condition, turned round when the other branch was taken.
InvertIf(turned, condition) == IF turned THEN invert(condition) ELSE condition

\* bne, bnel: the register compared with may be zero or false.
NotEqual(i) ==
    LET x == i.src[1]  y == i.src[2] IN
    CASE y = r0 -> Condition("NONZERO", <<make_src_atom(x)>>)
      [] y # r0 /\ x = s7 -> Condition("TRUTHY", <<make_src_atom(y)>>)
      [] OTHER -> Condition("NOT_EQUAL", <<make_src_atom(x), make_src_atom(y)>>)
\* beq, beql.
Equal(i) ==
    LET x == i.src[1]  y == i.src[2] IN
    CASE x = r0 /\ y = r0 -> Condition("ALWAYS", <<>>)
      [] x # r0 /\ y = r0 -> Condition("ZERO", <<make_src_atom(x)>>)
      [] y # r0 /\ x = s7 -> Condition("FALSE", <<make_src_atom(y)>>)
      [] OTHER -> Condition("EQUAL", <<make_src_atom(x), make_src_atom(y)>>)
-----------------------------------------------------------------------------
(* One instruction.                                                          *)

make_standard_load(i, size, kind) ==
    LET offset == i.src[1]  base == i.src[2]  dst == i.dst[1]
        LoadVarOp(src) == [op |-> "load", kind |-> kind, size |-> size, dst |-> dst, src |-> src, clobber |-> {}]
    IN CASE dst \in {ra, sp} -> AsmOp(i)
         [] dst \notin {ra, sp} /\ offset[1] = "label" -> IF base = fp THEN LoadVarOp(Atom(StaticAddress(offset[2]))) ELSE Null
         [] dst \notin {ra, sp} /\ offset[1] = "imm" /\ base = sp ->
              [op |-> "stackload", size |-> size, dst |-> dst, offset |-> offset[2], signed |-> kind = "SIGNED", clobber |-> {}]
         [] dst \notin {ra, sp} /\ offset[1] = "imm" /\ base # sp ->
              LoadVarOp(IF offset[2] = 0 THEN Atom(make_src_atom(base)) ELSE make_reg_plus_int(base, offset[2]))
         [] OTHER -> Null

StoreOp(size, kind, addr, value) == [op |-> "store", size |-> size, kind |-> kind, addr |-> addr, value |-> value, clobber |-> {}]
make_standard_store(i, size, kind) ==
    LET value == i.src[1]  offset == i.src[2]  base == i.src[3] IN
    CASE offset[1] # "imm" -> Failed
      [] base = sp /\ offset[1] = "imm" ->
           IF kind = "INTEGER" /\ size = 4 /\ offset[2] = 0 THEN AsmOp(i)
           ELSE [op |-> "stackstore", size |-> size, value |-> make_src_atom(value), offset |-> offset[2], clobber |-> {}]
      [] base # sp /\ value \in {r0, s7} /\ kind # "INTEGER" -> Failed
      [] OTHER -> StoreOp(size, kind, IF offset[2] = 0 THEN Atom(make_src_atom(base)) ELSE make_reg_plus_int(base, offset[2]), make_src_atom(value))

asm_instructions ==
    {"SLLV", "SLL", "PCPYUD", "LQ", "SQ", "MTC0", "MTDAB", "MTDABM", "SUBU", "JR", "SYSCALL", "ADDU", "SRL", "SRA", "ADDIU", "SLT", "MOVN", "SLTI",
     "VMOVE", "VFTOI0", "VFTOI4", "VFTOI12", "VITOF0", "VITOF12", "VITOF15", "VABS", "VADD", "VSUB", "VMUL", "VMINI", "VMAX", "VOPMSUB", "VMADD",
     "VMSUB", "VADD_BC", "VSUB_BC", "VMUL_BC", "VMULA_BC", "VMADD_BC", "VADDA_BC", "VMADDA_BC", "VMSUBA_BC", "VMSUB_BC", "VMINI_BC", "VMAX_BC",
     "VADDQ", "VSUBQ", "VMULQ", "VMSUBQ", "VMULA", "VADDA", "VMADDA", "VOPMULA", "VDIV", "VCLIP", "VMULAQ", "VMTIR", "VIAND", "VLQI", "VIADDI",
     "VSQI", "VRGET", "VSQRT", "VRSQRT", "VRXOR", "VRNEXT", "VNOP", "VWAITQ", "VCALLMS", "MULAS", "MADDAS", "MADDS", "MSUBAS", "MSUBS", "ADDAS",
     "CTC2", "CFC2", "LDR", "LDL", "QMTC2", "QMFC2", "MFC0", "SYNCL", "SYNCP", "CACHE_DXWBIN", "MTPC", "MFPC", "PSLLW", "PSRAW", "PSRAH", "PLZCW",
     "PMFHL_UW", "PMFHL_LW", "PMFHL_LH", "PSLLH", "PSRLH", "PEXTLW", "PPACH", "PSUBW", "PCGTW", "PEXTLH", "PEXTLB", "PMAXH", "PPACB", "PADDW",
     "PADDH", "PMAXW", "PPACW", "PCEQW", "PEXTUW", "PMINH", "PEXTUH", "PEXTUB", "PCEQB", "PMINW", "PABSW", "PCPYLD", "PROT3W", "PAND", "PMADDH",
     "PMULTH", "PEXEW", "PNOR", "PCPYH", "PINTEH"}
make_asm_op(i) == IF i.kind \in asm_instructions THEN AsmOp(i) ELSE Null

convert_or_1(i) ==
    CASE i.src[2] = ra -> AsmOp(i)
      [] i.src[2] = r0 -> SetVarOp(i.dst[1], Atom(make_src_atom(i.src[1])))
      [] OTHER -> make_3reg_op(i, "OR")
convert_por_1(i) == IF i.src[2] = r0 THEN SetVarOp(i.dst[1], Atom(make_src_atom(i.src[1]))) ELSE AsmOp(i)
convert_ori_1(i) ==
    CASE i.src[2][1] # "imm" -> Null
      [] i.src[2][1] = "imm" /\ i.src[1] = r0 -> SetVarOp(i.dst[1], Atom(IntConstant(i.src[2][2])))
      [] OTHER -> make_2reg_1imm_op(i, "OR", 0)
convert_mtc1_1(i) == IF i.src[1] = r0 THEN SetVarOp(i.dst[1], Atom(IntConstant(0))) ELSE make_2reg_op(i, "GPR_TO_FPR")
convert_mfc1_1(i) == IF i.dst[1] \in {r0, at, ra} THEN AsmOp(i) ELSE make_2reg_op(i, "FPR_TO_GPR")
\* lw r0, 2(r0) is a trap.
convert_lw_1(i) ==
    CASE i.dst[1] \in {ra, at} -> AsmOp(i)
      [] i.dst[1] = r0 /\ i.src = <<<<"imm", 2>>, r0>> -> SpecialOp("BREAK")
      [] i.dst[1] \notin {ra, at} /\ i.src[1][1] = "sym" /\ i.src[2] = s7 -> SetVarOp(i.dst[1], Atom(SymbolValue(i.src[1][2])))
      [] OTHER -> make_standard_load(i, 4, "SIGNED")
convert_daddiu_1(i) ==
    LET x == i.src[1]  y == i.src[2]
        Set(atom) == SetVarOp(i.dst[1], Atom(atom))
    IN CASE x = s7 /\ y[1] = "sym" -> Set(SymbolPointer(y[2]))
         [] x = s7 /\ y = <<"imm", FIX_SYM_EMPTY_PAIR>> -> Set(EmptyList)
         [] x = s7 /\ y = <<"imm", SymbolTableStart>> -> Set(TableStart)
         [] x = s7 /\ y = <<"imm", FIX_SYM_TRUE>> -> Set(SymbolPointer(FIX_SYM_TRUE))
         [] x = fp /\ y[1] = "label" -> Set(StaticAddress(y[2]))
         [] OTHER -> IF y[1] = "imm" THEN make_2reg_1imm_op(i, "ADD", 0) ELSE Failed
convert_daddu_1(i) ==
    CASE i.src[2] = s7 -> AsmOp(i)
      [] i.src[2] # s7 /\ i.src[1] = r0 -> SetVarOp(i.dst[1], Expression("ADD", <<make_src_atom(i.src[2]), IntConstant(0)>>))
      [] OTHER -> make_3reg_op(i, "ADD")
convert_dsubu_1(i) ==
    IF i.src[1] = r0 THEN SetVarOp(i.dst[1], Expression("NEG", <<make_src_atom(i.src[2])>>)) ELSE make_3reg_op(i, "SUB")
convert_nor_1(i) ==
    IF i.src[2] = r0 THEN SetVarOp(i.dst[1], Expression("LOGNOT", <<make_src_atom(i.src[1])>>)) ELSE make_3reg_op(i, "NOR")
convert_addiu_1(i) == IF i.src[1] = r0 THEN SetVarOp(i.dst[1], Atom(IntConstant(i.src[2][2]))) ELSE Null
convert_lui_1(i) ==
    CASE i.dst[1] = at -> AsmOp(i)
      [] i.dst[1] # at /\ i.src[1][1] = "imm" -> SetVarOp(i.dst[1], Atom(IntConstant(i.src[1][2] * 2 ^ ImmBits)))
      [] OTHER -> Null
is_nop(i) == i.kind = "SLL" /\ i.dst[1] = r0 /\ i.src = <<r0, <<"imm", 0>>>>
convert_sll_1(i) == IF is_nop(i) THEN SpecialOp("NOP") ELSE Null
convert_sw_1(i) ==
    IF i.src[2][1] = "sym" /\ i.src[3] = s7
    THEN StoreOp(4, "INTEGER", Atom(SymbolValue(i.src[2][2])), make_src_atom(i.src[1]))
    ELSE make_standard_store(i, 4, "INTEGER")
convert_sd_1(i) == IF i.src = <<r0, <<"imm", 2>>, r0>> THEN SpecialOp("CRASH") ELSE make_standard_store(i, 8, "INTEGER")
\* movn or movz of false.
convert_cmov_1(i) ==
    IF i.src[1] = s7 THEN [op |-> "cmove", dst |-> i.dst[1], src |-> i.src[2], on_zero |-> i.kind = "MOVZ", clobber |-> {}] ELSE Null
convert_dsll32_1(i) == IF i.dst[1] = ra THEN AsmOp(i) ELSE make_2reg_1imm_op(i, "LEFT_SHIFT", WordBits)
convert_dsrl32_1(i) == IF i.dst[1] = ra THEN AsmOp(i) ELSE make_2reg_1imm_op(i, "RIGHT_SHIFT_LOGIC", WordBits)
convert_subu_1(i) == IF i.src[2] = s7 THEN SetVarOp(i.dst[1], Expression("SUBU_L32_S7", <<make_src_atom(i.src[1])>>)) ELSE Null

make_asm_branch_no_delay(condition, label) == AsmBranchOp(TRUE, condition, label, Null)
make_branch_no_delay(condition, label, force_asm) ==
    IF force_asm THEN make_asm_branch_no_delay(condition, label)
    ELSE BranchOp(TRUE, condition, label, [kind |-> "NO_DELAY", vars |-> <<>>])
convert_likely_branch_1(i, kind, force_asm) ==
    make_branch_no_delay(Condition(kind, <<make_src_atom(i.src[1])>>), i.src[2][2], force_asm)
convert_beql_1(i, force_asm) == make_branch_no_delay(Equal(i), i.src[3][2], force_asm)
convert_bnel_1(i, force_asm) == make_branch_no_delay(NotEqual(i), i.src[3][2], force_asm)

three_registers ==
    [AND |-> "AND", XOR |-> "XOR", DIVS |-> "DIV_S", SUBS |-> "SUB_S", ADDS |-> "ADD_S", MULS |-> "MUL_S", MINS |-> "MIN_S", MAXS |-> "MAX_S",
     MULT3 |-> "MUL_SIGNED", MULTU3 |-> "MUL_UNSIGNED", DSRAV |-> "RIGHT_SHIFT_ARITH", DSRLV |-> "RIGHT_SHIFT_LOGIC", DSLLV |-> "LEFT_SHIFT"]
two_registers ==
    [CVTWS |-> "FLOAT_TO_INT", CVTSW |-> "INT_TO_FLOAT", ABSS |-> "ABS_S", NEGS |-> "NEG_S", SQRTS |-> "SQRT_S", MOVS |-> "IDENTITY"]
with_immediate ==
    [DSLL |-> <<"LEFT_SHIFT", 0>>, DSRA |-> <<"RIGHT_SHIFT_ARITH", 0>>, DSRA32 |-> <<"RIGHT_SHIFT_ARITH", WordBits>>,
     DSRL |-> <<"RIGHT_SHIFT_LOGIC", 0>>, ANDI |-> <<"AND", 0>>, XORI |-> <<"XOR", 0>>]
standard_loads ==
    [LWC1 |-> <<4, "FLOAT">>, LB |-> <<1, "SIGNED">>, LBU |-> <<1, "UNSIGNED">>, LHU |-> <<2, "UNSIGNED">>, LH |-> <<2, "SIGNED">>,
     LWU |-> <<4, "UNSIGNED">>, LD |-> <<8, "UNSIGNED">>, LQ |-> <<16, "UNSIGNED">>, LQC2 |-> <<16, "VECTOR_FLOAT">>]
standard_stores ==
    [SB |-> <<1, "INTEGER">>, SH |-> <<2, "INTEGER">>, SQ |-> <<16, "INTEGER">>, SQC2 |-> <<16, "VECTOR_FLOAT">>, SWC1 |-> <<4, "FLOAT">>]
likely_branches == [BGTZL |-> "GREATER_THAN_ZERO_SIGNED", BGEZL |-> "GEQ_ZERO_SIGNED", BLTZL |-> "LESS_THAN_ZERO_SIGNED"]

convert_1(i, hint_inline_asm, force_asm_branch) ==
    CASE i.kind \in DOMAIN three_registers -> make_3reg_op(i, three_registers[i.kind])
      [] i.kind \in DOMAIN two_registers -> make_2reg_op(i, two_registers[i.kind])
      [] i.kind \in DOMAIN with_immediate -> make_2reg_1imm_op(i, with_immediate[i.kind][1], with_immediate[i.kind][2])
      [] i.kind \in DOMAIN standard_loads -> make_standard_load(i, standard_loads[i.kind][1], standard_loads[i.kind][2])
      [] i.kind \in DOMAIN standard_stores -> make_standard_store(i, standard_stores[i.kind][1], standard_stores[i.kind][2])
      [] i.kind \in DOMAIN likely_branches -> convert_likely_branch_1(i, likely_branches[i.kind], force_asm_branch)
      [] i.kind = "OR" -> convert_or_1(i) [] i.kind = "POR" -> convert_por_1(i) [] i.kind = "ORI" -> convert_ori_1(i)
      [] i.kind = "PCPYLD" -> IF hint_inline_asm THEN Null ELSE make_3reg_op(i, "PCPYLD")
      [] i.kind = "MTC1" -> convert_mtc1_1(i) [] i.kind = "MFC1" -> convert_mfc1_1(i)
      [] i.kind = "LW" -> convert_lw_1(i) [] i.kind = "SW" -> convert_sw_1(i) [] i.kind = "SD" -> convert_sd_1(i)
      [] i.kind = "DSLL32" -> convert_dsll32_1(i) [] i.kind = "DSRL32" -> convert_dsrl32_1(i) [] i.kind = "SLL" -> convert_sll_1(i)
      [] i.kind = "DADDIU" -> convert_daddiu_1(i) [] i.kind = "DADDU" -> convert_daddu_1(i) [] i.kind = "DSUBU" -> convert_dsubu_1(i)
      [] i.kind = "NOR" -> convert_nor_1(i) [] i.kind = "ADDIU" -> convert_addiu_1(i) [] i.kind = "LUI" -> convert_lui_1(i)
      [] i.kind \in {"MOVN", "MOVZ"} -> convert_cmov_1(i) [] i.kind = "SUBU" -> convert_subu_1(i)
      [] i.kind = "BEQL" -> convert_beql_1(i, force_asm_branch) [] i.kind = "BNEL" -> convert_bnel_1(i, force_asm_branch)
      [] OTHER -> Null
-----------------------------------------------------------------------------
(* Branches with a delay slot.                                               *)

Delay(kind, vars) == [kind |-> kind, vars |-> vars]
get_branch_delay(i) ==
    CASE is_nop(i) -> Delay("NOP", <<>>)
      [] i.kind = "OR" /\ i.src = <<s7, r0>> -> Delay("SET_REG_FALSE", <<i.dst[1]>>)
      [] i.kind = "OR" /\ i.src[1] # s7 /\ i.src[2] = r0 -> Delay("SET_REG_REG", <<i.dst[1], i.src[1]>>)
      [] i.kind = "DADDIU" /\ i.src = <<s7, <<"imm", FIX_SYM_TRUE>>>> -> Delay("SET_REG_TRUE", <<i.dst[1]>>)
      [] i.kind = "LW" /\ i.src = <<<<"sym", BintegerSymbol>>, s7>> -> Delay("SET_BINTEGER", <<i.dst[1]>>)
      [] i.kind = "LW" /\ i.src = <<<<"sym", PairSymbol>>, s7>> -> Delay("SET_PAIR", <<i.dst[1]>>)
      [] i.kind = "DSLLV" -> Delay("DSLLV", <<i.dst[1], i.src[1], i.src[2]>>)
      [] i.kind = "DSUBU" /\ i.src[1] = r0 -> Delay("NEGATE", <<i.dst[1], i.src[2]>>)
      [] OTHER -> Delay("UNKNOWN", <<>>)

convert_1_allow_asm(i) ==
    LET OrAsm(op) == IF op # Null THEN op ELSE make_asm_op(i) IN OrAsm(convert_1(i, FALSE, FALSE))
make_asm_branch(condition, delay, label) ==
    LET With(op) == IF op \in {Null, Failed} THEN Failed ELSE AsmBranchOp(FALSE, condition, label, op) IN With(convert_1_allow_asm(delay))
make_branch(condition, delay, label) ==
    LET With(known) == IF known.kind # "UNKNOWN" THEN BranchOp(FALSE, condition, label, known) ELSE make_asm_branch(condition, delay, label)
    IN With(get_branch_delay(delay))
-----------------------------------------------------------------------------
(* Two instructions.                                                         *)

Clobbering(op, reg) == [op EXCEPT !.clobber = @ \cup {reg}]
ClobberIf(clobbers, op, reg) == IF clobbers THEN Clobbering(op, reg) ELSE op

\* likely branches of inline assembly
convert_fp_branch_asm(i0, i1, kind) ==
    IF i1.kind \notin {"BC1TL", "BC1FL"} THEN Null
    ELSE make_asm_branch_no_delay(InvertIf(i1.kind = "BC1FL", Condition(kind, <<make_src_atom(i0.src[1]), make_src_atom(i0.src[2])>>)), i1.src[1][2])

convert_division_2(i0, i1, division, modulo) ==
    CASE i1.kind = "MFLO" -> SetVarOp(i1.dst[1], make_2reg_expr(i0, division))
      [] i1.kind = "MFHI" -> SetVarOp(i1.dst[1], make_2reg_expr(i0, modulo))
      [] OTHER -> Null

\* jalr ra, t9 with sll v0, ra, 0 behind it is a call.
convert_jalr_2(i0, i1) ==
    IF i0.dst[1] = ra /\ i0.src[1] = t9 /\ i1.kind = "SLL" /\ i1.dst[1] = v0 /\ i1.src = <<ra, <<"imm", 0>>>>
    THEN [op |-> "call", clobber |-> {}] ELSE Null

convert_bne_2(i0, i1) == make_branch(NotEqual(i0), i1, i0.src[3][2])
convert_beq_2(i0, i1) == make_branch(Equal(i0), i1, i0.src[3][2])

IsCmov(i) == i.kind \in {"MOVN", "MOVZ"}
\* i sets dst to #t, j to #f when reg says so.
TrueOrFalse(i, j, dst) ==
    i.src = <<s7, <<"imm", FIX_SYM_TRUE>>>> /\ i.dst[1] = dst /\ j.dst[1] = dst /\ j.src[1] = s7
convert_daddiu_2(i0, i1) ==
    CASE ~IsCmov(i1) \/ i0.src[1] # s7 -> Null
      [] IsCmov(i1) /\ i0.src[1] = s7 /\ ~TrueOrFalse(i0, i1, i0.dst[1]) -> Failed
      [] OTHER -> SetVarConditionOp(i0.dst[1], Condition(IF i1.kind = "MOVN" THEN "ZERO" ELSE "NONZERO", <<make_src_atom(i1.src[2])>>))

convert_lui_2(i0, i1) ==
    LET temp == i0.dst[1]  high == i0.src[1]  low == i1.src[2]
        Set(atom) == ClobberIf(temp # i1.dst[1], SetVarOp(i1.dst[1], Atom(atom)), temp)
    IN CASE i1.kind # "ORI" \/ i1.src[1] # temp -> Null
         [] i1.kind = "ORI" /\ i1.src[1] = temp /\ high[1] = "imm" /\ low[1] = "imm" -> Set(IntConstant(low[2] + high[2] * 2 ^ ImmBits))
         [] i1.kind = "ORI" /\ i1.src[1] = temp /\ high[1] = "label" /\ high = low -> Set(StaticAddress(high[2]))
         [] OTHER -> Failed

\* slt temp, left, right; mov{n,z} left, right, temp
convert_slt_2(i0, i1, min, max) ==
    LET temp == i0.dst[1]  left == i0.src[1]  right == i0.src[2]
        Set(kind) == Clobbering(SetVarOp(left, Expression(kind, <<make_src_atom(left), make_src_atom(right)>>)), temp)
    IN CASE temp = left -> Null
         [] temp # left /\ (temp = right \/ left = right) -> Failed
         [] temp \notin {left, right} /\ left # right /\ IsCmov(i1) /\ i1.dst[1] = left /\ i1.src = <<right, temp>> ->
              Set(IF i1.kind = "MOVZ" THEN min ELSE max)
         [] OTHER -> Null

SignBranch(kind, i0, i1) == make_asm_branch(Condition(kind, <<make_src_atom(i0.src[1])>>), i1, i0.src[2][2])
convert_bltz_2(i0, i1) == SignBranch("LESS_THAN_ZERO_SIGNED", i0, i1)
convert_bgez_2(i0, i1) == SignBranch("GEQ_ZERO_SIGNED", i0, i1)

convert_2(i0, i1) ==
    CASE i0.kind = "DIV" -> convert_division_2(i0, i1, "DIV_SIGNED", "MOD_SIGNED")
      [] i0.kind = "DIVU" -> convert_division_2(i0, i1, "DIV_UNSIGNED", "MOD_UNSIGNED")
      [] i0.kind = "JALR" -> convert_jalr_2(i0, i1)
      [] i0.kind = "BNE" -> convert_bne_2(i0, i1)
      [] i0.kind = "BEQ" -> convert_beq_2(i0, i1)
      [] i0.kind = "DADDIU" -> convert_daddiu_2(i0, i1)
      [] i0.kind = "LUI" -> convert_lui_2(i0, i1)
      [] i0.kind = "SLT" -> convert_slt_2(i0, i1, "MIN_SIGNED", "MAX_SIGNED")
      [] i0.kind = "SLTU" -> convert_slt_2(i0, i1, "MIN_UNSIGNED", "MAX_UNSIGNED")
      [] i0.kind = "CLTS" -> convert_fp_branch_asm(i0, i1, "FLOAT_LESS_THAN")
      [] i0.kind = "BLTZ" -> convert_bltz_2(i0, i1)
      [] i0.kind = "BGEZ" -> convert_bgez_2(i0, i1)
      [] OTHER -> Null
-----------------------------------------------------------------------------
(* The registers of an operation.                                            *)

AtomRegisters(args) == {<<a[2], a[3]>> : a \in {b \in Range(args) : b[1] = "var"}}
clobber_temps == {Gpr(n) : n \in {3, 1} \cup 4 .. 15 \cup {24, 25}}

Tracked(regs) == {r \in Range(regs) : r[1] \in {"GPR", "FPR", "VF"}}
ReadsQ == {"VMSUBQ", "VMULAQ", "VADDQ", "VSUBQ", "VMULQ"}
WritesQ == {"VDIV", "VSQRT", "VRSQRT"}
ReadsAcc == {"VMSUBQ", "VMADD", "VMADD_BC", "VMSUB", "VMSUB_BC", "VOPMSUB", "VMADDA", "VMADDA_BC", "VMSUBA_BC"}
WritesAcc == {"VMULAQ", "VADDA", "VADDA_BC", "VMULA", "VMULA_BC", "VOPMULA", "VMADDA", "VMADDA_BC", "VMSUBA_BC"}
Macro(kind, q, acc) == (IF kind \in q THEN {<<"q", 0>>} ELSE {}) \cup (IF kind \in acc THEN {<<"acc", 0>>} ELSE {})

DelayWrites(delay) == IF delay.vars = <<>> THEN {} ELSE {delay.vars[1]}
DelayReads(delay) == {delay.vars[k] : k \in DOMAIN delay.vars \ {1}}

\* update_register_info of every operation.
PlainReads(op) ==
    CASE op.op = "set" -> AtomRegisters(op.src.args)
      [] op.op = "load" -> AtomRegisters(op.src.args)
      [] op.op = "store" -> AtomRegisters(op.addr.args \o <<op.value>>)
      [] op.op = "stackstore" -> AtomRegisters(<<op.value>>)
      [] op.op = "setcond" -> AtomRegisters(op.condition.args)
      [] op.op = "asm" -> Tracked(op.i.src) \cup Macro(op.i.kind, ReadsQ, ReadsAcc)
      [] op.op = "call" -> {t9}
      [] op.op = "cmove" -> {op.src, op.dst}
      [] op.op = "end" -> {v0}
      [] OTHER -> {}
PlainWrites(op) ==
    CASE op.op \in {"set", "load", "stackload", "setcond", "cmove"} -> {op.dst}
      [] op.op = "asm" -> Tracked(op.i.dst) \cup Macro(op.i.kind, WritesQ, WritesAcc)
      [] op.op = "call" -> {v0}
      [] OTHER -> {}
PlainClobbers(op) == op.clobber \cup (IF op.op = "call" \/ op = SpecialOp("SUSPEND") THEN clobber_temps ELSE {})

read_regs(op) ==
    CASE op.op = "branch" -> AtomRegisters(op.condition.args) \cup DelayReads(op.delay)
      [] op.op = "asmbranch" -> AtomRegisters(op.condition.args) \cup (IF op.delay = Null THEN {} ELSE PlainReads(op.delay))
      [] OTHER -> PlainReads(op)
write_regs(op) ==
    CASE op.op = "branch" -> DelayWrites(op.delay)
      [] op.op = "asmbranch" -> IF op.delay = Null THEN {} ELSE PlainWrites(op.delay)
      [] OTHER -> PlainWrites(op)
clobber_regs(op) ==
    IF op.op = "asmbranch" /\ op.delay # Null THEN op.clobber \cup PlainClobbers(op.delay) ELSE PlainClobbers(op)

\* Mutant: a register that is not written is not clobbered either.
add_clobber_if_unwritten_Not(op, reg) == op
add_clobber_if_unwritten(op, reg) ==
    IF op = Failed THEN Failed ELSE [op EXCEPT !.clobber = clobber_regs(op) \cup ({reg} \ write_regs(op))]
-----------------------------------------------------------------------------
(* Three and more instructions.                                              *)

\* The address of a label: lui, ori and an addition to fp.
convert_lui_3(i0, i1, i2) ==
    LET temp == i0.dst[1]  dst == i2.dst[1]
        Set == ClobberIf(dst # temp, SetVarOp(dst, Atom(StaticAddress(i0.src[1][2]))), temp)
        address == i1.kind = "ORI" /\ i1.src[2][1] = "label"
        into_dst == address /\ i0.src[1][1] = "label" /\ i2.kind = "ADDU" /\ i2.src[1] = fp
        from_temp == address /\ i2.kind = "DADDU" /\ i2.src[2] = fp
        same == i1.src = <<temp, i0.src[1]>>
    IN CASE into_dst -> IF same /\ i2.src[2] = dst /\ i1.dst[1] = dst THEN Set ELSE Failed
         [] from_temp -> IF same /\ i1.dst[1] = temp /\ i2.src[1] = temp THEN Set ELSE Failed
         [] OTHER -> Null

\* A test whose result is i0's register, stored as #t or #f by i1 and i2.
IsTest(i1, i2) == i1.kind = "DADDIU" /\ IsCmov(i2)
TestShape(i0, i1, i2) == TrueOrFalse(i1, i2, i1.dst[1]) /\ i2.src[2] = i0.dst[1] /\ i0.dst[1] # i1.dst[1]
convert_dsubu_3(i0, i1, i2) ==
    CASE ~IsTest(i1, i2) -> Null
      [] IsTest(i1, i2) /\ ~TestShape(i0, i1, i2) -> Failed
      [] OTHER ->
           Clobbering(SetVarConditionOp(i1.dst[1], Condition(IF i2.kind = "MOVN" THEN "EQUAL" ELSE "NOT_EQUAL",
                                                             <<make_src_atom(i0.src[1]), make_src_atom(i0.src[2])>>)), i0.dst[1])

\* slt and slti, followed by a branch on their result or a test of it.
Compare(i0, i1, i2, condition) ==
    CASE i1.kind \in {"BNE", "BEQ"} ->
           IF i1.src[1] # i0.dst[1] \/ i1.src[2] # r0 THEN Failed
           ELSE add_clobber_if_unwritten(make_branch(InvertIf(i1.kind = "BEQ", condition), i2, i1.src[3][2]), i0.dst[1])
      [] IsTest(i1, i2) ->
           IF ~TestShape(i0, i1, i2) THEN Failed
           ELSE add_clobber_if_unwritten(SetVarConditionOp(i1.dst[1], InvertIf(i2.kind = "MOVN", condition)), i0.dst[1])
      [] OTHER -> Null
LessThan(signed) == IF signed THEN "LESS_THAN_SIGNED" ELSE "LESS_THAN_UNSIGNED"
LessThanZero(signed) == IF signed THEN "LESS_THAN_ZERO_SIGNED" ELSE "LESS_THAN_ZERO_UNSIGNED"
GreaterThanZero(signed) == IF signed THEN "GREATER_THAN_ZERO_SIGNED" ELSE "GREATER_THAN_ZERO_UNSIGNED"
convert_slt_3(i0, i1, i2, signed) ==
    LET x == i0.src[1]  y == i0.src[2]
        condition ==
            CASE y = r0 -> Condition(LessThanZero(signed), <<make_src_atom(x)>>)
              [] y # r0 /\ x = r0 -> Condition(GreaterThanZero(signed), <<make_src_atom(y)>>)
              [] OTHER -> Condition(LessThan(signed), <<make_src_atom(x), make_src_atom(y)>>)
    IN Compare(i0, i1, i2, condition)
convert_slti_3(i0, i1, i2, signed) ==
    Compare(i0, i1, i2, Condition(LessThan(signed), <<make_src_atom(i0.src[1]), IntConstant(i0.src[2][2])>>))

convert_fp_branch(i0, i1, i2, kind) ==
    IF i1.kind \notin {"BC1T", "BC1F"} THEN Null
    ELSE make_branch(InvertIf(i1.kind = "BC1F", Condition(kind, <<make_src_atom(i0.src[1]), make_src_atom(i0.src[2])>>)), i2, i1.src[1][2])

convert_3(i0, i1, i2) ==
    CASE i0.kind = "LUI" -> convert_lui_3(i0, i1, i2)
      [] i0.kind = "DSUBU" -> convert_dsubu_3(i0, i1, i2)
      [] i0.kind \in {"SLT", "SLTU"} -> convert_slt_3(i0, i1, i2, i0.kind = "SLT")
      [] i0.kind \in {"SLTI", "SLTIU"} -> convert_slti_3(i0, i1, i2, i0.kind = "SLTI")
      [] i0.kind = "CEQS" -> convert_fp_branch(i0, i1, i2, "FLOAT_EQUAL")
      [] i0.kind = "CLTS" -> convert_fp_branch(i0, i1, i2, "FLOAT_LESS_THAN")
      [] i0.kind = "CLES" -> convert_fp_branch(i0, i1, i2, "FLOAT_LEQ")
      [] OTHER -> Null

\* The bit of a pair is shifted to the sign.
convert_dsll32_4(i0, i1, i2, i3) ==
    LET temp == i0.dst[1]
        Clobbered(op) == IF op = Failed THEN Failed ELSE Clobbering(op, temp)
    IN CASE i1.kind # "SLT" \/ i2.kind # "BEQ" \/ i0.src[2] # <<"imm", WordBits - 2>> -> Null
         [] i1.kind = "SLT" /\ i2.kind = "BEQ" /\ i0.src[2] = <<"imm", WordBits - 2>>
            /\ i1.dst[1] = temp /\ i1.src = <<temp, r0>> /\ i2.src[1] = temp /\ i2.src[2] = r0 ->
              Clobbered(make_branch(Condition("IS_NOT_PAIR", <<make_src_atom(i0.src[1])>>), i3, i2.src[3][2]))
         [] OTHER -> Failed
convert_4(i0, i1, i2, i3) == IF i0.kind = "DSLL32" THEN convert_dsll32_4(i0, i1, i2, i3) ELSE Null

\* lqc2 vf, 0(reg) and sqc2 vf, 0(reg)
LoadsVector(i, vf) == i.kind = "LQC2" /\ i.dst[1] = Vf(vf) /\ i.src[1] = <<"imm", 0>>
StoresVector(i, vf) == i.kind = "SQC2" /\ i.src[1] = Vf(vf) /\ i.src[2] = <<"imm", 0>>
MovesW(i) == i.kind = "VMOVE" /\ i.src[1] = Vf(0) /\ i.dst[1] = Vf(6) /\ i.dest = 1
CombinesXyz(i, kind) == i.kind = kind /\ i.dst[1] = Vf(6) /\ i.src = <<Vf(4), Vf(5)>> /\ i.dest = 14
VectorOp(kind, dst, x, y) == SetVarOp(dst, Expression(kind, <<make_src_atom(dst), make_src_atom(x), make_src_atom(y)>>))

convert_vector_plus(i0, i1, i2, i3, i4) ==
    IF MovesW(i0) /\ LoadsVector(i1, 4) /\ LoadsVector(i2, 5) /\ CombinesXyz(i3, "VADD") /\ StoresVector(i4, 6)
    THEN VectorOp("VECTOR_PLUS", i4.src[3], i1.src[2], i2.src[2]) ELSE Null
convert_vector_minus(i0, i1, i2, i3, i4) ==
    IF LoadsVector(i0, 4) /\ LoadsVector(i1, 5) /\ MovesW(i2) /\ CombinesXyz(i3, "VSUB") /\ StoresVector(i4, 6)
    THEN VectorOp("VECTOR_MINUS", i4.src[3], i0.src[2], i1.src[2]) ELSE Null
IsSuspend(i0, i1, i2, i3, i4) ==
    /\ i0.kind = "LWU" /\ i0.dst[1] = s6 /\ i0.src = <<<<"imm", ThreadOffset>>, s6>> /\ i1.kind = "MTLO1" /\ i1.src[1] = s6
    /\ i2.kind = "LWU" /\ i2.dst[1] = s6 /\ i2.src = <<<<"imm", SuspendOffset>>, s6>>
    /\ i3.kind = "JALR" /\ i3.dst[1] = ra /\ i3.src[1] = s6 /\ i4.kind = "MFLO1" /\ i4.dst[1] = s6
convert_5(i0, i1, i2, i3, i4) ==
    IF IsSuspend(i0, i1, i2, i3, i4) THEN SpecialOp("SUSPEND")
    ELSE LET OrMinus(op) == IF op # Null THEN op ELSE convert_vector_minus(i0, i1, i2, i3, i4) IN OrMinus(convert_vector_plus(i0, i1, i2, i3, i4))

convert_vector_float_product(i0, i1, i2, i3, i4, i5) ==
    IF /\ LoadsVector(i0, 1) /\ i1.kind = "MFC1"
       /\ i2.kind = "QMTC2" /\ i2.dst[1] = Vf(2) /\ i2.src[1] = i1.dst[1]
       /\ i3.kind = "VADD_BC" /\ i3.dst[1] = Vf(1) /\ i3.src = <<Vf(0), Vf(0)>> /\ i3.bc = 0 /\ i3.dest = 1
       /\ i4.kind = "VMUL_BC" /\ i4.dst[1] = Vf(1) /\ i4.src = <<Vf(1), Vf(2)>> /\ i4.bc = 0 /\ i4.dest = 14
       /\ StoresVector(i5, 1)
    THEN VectorOp("VECTOR_FLOAT_PRODUCT", i5.src[3], i0.src[2], i1.src[1]) ELSE Null

is_lwc(i, lane) == i.kind = "LWC1" /\ i.src[1] = <<"imm", lane * LaneBytes>>
convert_vector3_dot(s) ==
    IF /\ \A k \in 1 .. 6 : is_lwc(s[k], (k - 1) % 3) /\ s[k].src[2] = s[IF k <= 3 THEN 1 ELSE 4].src[2]
       /\ \A k \in 1 .. 3 : /\ s[k + 6].kind = (<<"MULAS", "MADDAS", "MADDS">>)[k]
                            /\ s[k + 6].src[1] = s[k].dst[1] /\ s[k + 6].src[2] = s[k + 3].dst[1]
    THEN SetVarOp(s[9].dst[1], Expression("VECTOR_3_DOT", <<make_src_atom(s[1].src[2]), make_src_atom(s[4].src[2])>>)) ELSE Null
-----------------------------------------------------------------------------
(* Blocks and functions.                                                     *)

\* The conversion of the first n instructions of s; of one as assembly if n is 0.
ConvertFirst(n, s, hint_inline_asm, ends_in_asm_branch) ==
    CASE n > Len(s) -> Null
      [] n = 9 /\ n <= Len(s) -> convert_vector3_dot(s)
      [] n = 6 /\ n <= Len(s) -> convert_vector_float_product(s[1], s[2], s[3], s[4], s[5], s[6])
      [] n = 5 /\ n <= Len(s) -> convert_5(s[1], s[2], s[3], s[4], s[5])
      [] n = 4 /\ n <= Len(s) -> convert_4(s[1], s[2], s[3], s[4])
      [] n = 3 /\ n <= Len(s) -> convert_3(s[1], s[2], s[3])
      [] n = 2 /\ n <= Len(s) -> convert_2(s[1], s[2])
      [] n = 1 /\ n <= Len(s) -> convert_1(s[1], hint_inline_asm, Len(s) = 1 /\ ends_in_asm_branch)
      [] n = 0 -> make_asm_op(s[1])
Lengths == {9, 6, 5, 4, 3, 2, 1, 0}

\* The longest pattern there is at the head of s, and the instructions it takes.
ConvertNext(s, hint_inline_asm, ends_in_asm_branch) ==
    LET Best(found) ==
            IF found = {} THEN [n |-> 1, op |-> Failed]
            ELSE LET best == CHOOSE f \in found : \A g \in found : g.n <= f.n IN [n |-> IF best.n = 0 THEN 1 ELSE best.n, op |-> best.op]
    IN Best({f \in {[n |-> n, op |-> ConvertFirst(n, s, hint_inline_asm, ends_in_asm_branch)] : n \in Lengths} : f.op # Null})

\* The operations of a block with the instruction each starts at; Failed ends it.
convert_block_to_atomic_ops(block, hint_inline_asm, ends_in_asm_branch) ==
    LET From[k \in 1 .. Len(block) + 1] ==
            IF k > Len(block) THEN <<>>
            ELSE LET Then(next) == <<[at |-> k, n |-> next.n, op |-> next.op]>> \o (IF next.op = Failed THEN <<>> ELSE From[k + next.n])
                 IN Then(ConvertNext(SubSeq(block, k, Len(block)), hint_inline_asm, ends_in_asm_branch))
    IN From[1]

FunctionEndOp == [op |-> "end", clobber |-> {}]
\* The operations of a function and those of each block, [first, end): the
\* operation that ends the function is in the last block, even if it is empty.
convert_function_to_atomic_ops(blocks, hint_inline_asm, asm_branches) ==
    LET Ops(b) == [k \in 1 .. Len(b) |-> b[k].op]
        After[k \in 0 .. Len(blocks)] ==
            IF k = 0 THEN [ops |-> <<>>, first |-> <<>>, end |-> <<>>]
            ELSE LET Add(r, new) == [ops |-> r.ops \o new, first |-> Append(r.first, Len(r.ops)), end |-> Append(r.end, Len(r.ops) + Len(new))]
                     Converted == Ops(convert_block_to_atomic_ops(blocks[k], hint_inline_asm, k \in asm_branches))
                 IN Add(After[k - 1], Converted \o (IF k = Len(blocks) THEN <<FunctionEndOp>> ELSE <<>>))
    IN After[Len(blocks)]

-----------------------------------------------------------------------------
(* The first representation of the decompiler                                *)
(* (decompiler/IR/BasicOpBuilder.cpp, decompiler/IR/IR.cpp): an older        *)
(* conversion of the instructions of a block than AtomicOps, whose           *)
(* instructions, atoms and expressions it has; every operation states the    *)
(* registers it reads, writes and clobbers itself.                           *)

\* An instruction that could not be converted; Failed is an assertion.
IR_Failed_Atomic == [op |-> "unknown", reads |-> {}, writes |-> {}, clobber |-> {}]

make_reg(reg) == <<"var", reg[1], reg[2]>>
make_sym(name) == SymbolPointer(name)
make_sym_value(name) == SymbolValue(name)
make_int(n) == IntConstant(n)

\* update_reginfo_self: the registers among the arguments are read.
make_set_atomic(dst, expr) ==
    [op |-> "set", dst |-> dst, src |-> expr, reads |-> AtomRegisters(expr.args), writes |-> {dst}, clobber |-> {}]
IntMath2(i, kind) == make_set_atomic(i.dst[1], Expression(kind, <<make_reg(i.src[1]), make_reg(i.src[2])>>))
IntMathImm(i, kind, offset) == make_set_atomic(i.dst[1], Expression(kind, <<make_reg(i.src[1]), make_int(i.src[2][2] + offset)>>))
Math1(i, kind) == make_set_atomic(i.dst[1], Expression(kind, <<make_reg(i.src[1])>>))
Constant(i, atom) == make_set_atomic(i.dst[1], Atom(atom))
UsesS7(i) == i.src[1] = s7 \/ i.src[2] = s7
\* Three registers, none of the sources s7.
Plain(i, kind) == IF UsesS7(i) THEN Null ELSE IntMath2(i, kind)
-----------------------------------------------------------------------------
(* Assembly.                                                                 *)

IR_AsmOp_Atomic(i) == [op |-> "asm", i |-> i, reads |-> Tracked(i.src), writes |-> Tracked(i.dst), clobber |-> {}]
to_asm_automatic(i) ==
    CASE Len(i.src) >= 4 -> IR_Failed_Atomic
      [] \E a \in Range(i.src) : a[1] \in {"sym", "label"} -> Failed
      [] OTHER -> IR_AsmOp_Atomic(i)
OrAsm(op, i) == IF op = Null THEN to_asm_automatic(i) ELSE op
try_subu(i) == IR_AsmOp_Atomic(i)
try_sllv(i) == IF i.src[2] = r0 THEN IR_AsmOp_Atomic(i) ELSE Null
-----------------------------------------------------------------------------
(* One instruction.                                                          *)

try_or(i) ==
    CASE i.src = <<s7, r0>> -> Constant(i, make_sym(0))
      [] i.src = <<r0, r0>> -> Constant(i, make_int(0))
      [] i.src[1] \notin {s7, r0} /\ i.src[2] = r0 -> Constant(i, make_reg(i.src[1]))
      [] OTHER -> IntMath2(i, "OR")
\* With a register it names nothing that it reads.
try_ori(i) ==
    CASE i.src[2][1] # "imm" -> Null
      [] i.src[2][1] = "imm" /\ i.src[1] = r0 -> Constant(i, make_int(i.src[2][2]))
      [] OTHER -> [IntMathImm(i, "OR", 0) EXCEPT !.reads = {}]
try_por(i) == IF i.src[2] = r0 THEN Constant(i, make_reg(i.src[1])) ELSE Null
try_mtc1(i) == Math1(i, "GPR_TO_FPR")
try_mfc1(i) == Math1(i, "FPR_TO_GPR")

IR_Load(i, size, kind, location) ==
    [op |-> "load", size |-> size, kind |-> kind, dst |-> i.dst[1], src |-> location, reads |-> AtomRegisters(location.args), writes |-> {i.dst[1]},
     clobber |-> {}]
Load(i, size, kind) ==
    LET offset == i.src[1]  base == i.src[2] IN
    CASE offset[1] = "label" /\ base = fp -> IR_Load(i, size, kind, Atom(StaticAddress(offset[2])))
      [] offset[1] = "imm" -> IR_Load(i, size, kind, IF offset[2] = 0 THEN Atom(make_reg(base)) ELSE Expression("ADD", <<make_reg(base), make_int(offset[2])>>))
      [] OTHER -> Null
try_lwc1(i) == Load(i, 4, "FLOAT")
try_lhu(i) == Load(i, 2, "UNSIGNED")
try_lh(i) == Load(i, 2, "SIGNED")
try_lb(i) == Load(i, 1, "SIGNED")
try_lbu(i) == Load(i, 1, "UNSIGNED")
try_ld(i) == Load(i, 8, "UNSIGNED")
IR_Special(kind) == [op |-> "special", kind |-> kind, reads |-> {}, writes |-> {}, clobber |-> {}]
try_lw(i) ==
    CASE i.dst[1] = r0 /\ i.src = <<<<"imm", 2>>, r0>> -> IR_Special("BREAK")
      [] i.src[1][1] = "sym" /\ i.src[2] = s7 -> Constant(i, make_sym_value(i.src[1][2]))
      [] OTHER -> Load(i, 4, "SIGNED")
try_lwu(i) == Load(i, 4, "UNSIGNED")
try_lq(i) == IF i.src[1][1] = "sym" /\ i.src[2] = s7 THEN Failed ELSE Load(i, 16, "UNSIGNED")

try_dsll(i) == IntMathImm(i, "LEFT_SHIFT", 0)
try_dsll32(i) == IntMathImm(i, "LEFT_SHIFT", WordBits)
try_dsra(i) == IntMathImm(i, "RIGHT_SHIFT_ARITH", 0)
try_dsra32(i) == IntMathImm(i, "RIGHT_SHIFT_ARITH", WordBits)
try_dsrl(i) == IntMathImm(i, "RIGHT_SHIFT_LOGIC", 0)
try_dsrl32(i) == IntMathImm(i, "RIGHT_SHIFT_LOGIC", WordBits)
try_float_math_2(i, kind) == IntMath2(i, kind)
try_daddiu(i) ==
    LET x == i.src[1]  y == i.src[2] IN
    CASE x = s7 /\ y[1] = "sym" -> Constant(i, make_sym(y[2]))
      [] x = s7 /\ y = <<"imm", FIX_SYM_EMPTY_PAIR>> -> Constant(i, EmptyList)
      [] x = s7 /\ y = <<"imm", SymbolTableStart>> -> Constant(i, TableStart)
      [] x = s7 /\ y = <<"imm", FIX_SYM_TRUE>> -> Constant(i, make_sym(FIX_SYM_TRUE))
      [] x = fp /\ y[1] = "label" -> Constant(i, StaticAddress(y[2]))
      [] OTHER -> IF y[1] = "imm" THEN IntMathImm(i, "ADD", 0) ELSE Failed
try_daddu(i) ==
    CASE i.src[1] = r0 -> make_set_atomic(i.dst[1], Expression("ADD", <<make_reg(i.src[2]), make_int(0)>>))
      [] i.src[1] # r0 /\ ~UsesS7(i) -> IntMath2(i, "ADD")
      [] OTHER -> IR_AsmOp_Atomic(i)
try_dsubu(i) ==
    CASE UsesS7(i) -> Null
      [] ~UsesS7(i) /\ i.src[1] = r0 -> make_set_atomic(i.dst[1], Expression("NEG", <<make_reg(i.src[2])>>))
      [] OTHER -> IntMath2(i, "SUB")
try_mult3(i) == Plain(i, "MUL_SIGNED")
try_multu3(i) == Plain(i, "MUL_UNSIGNED")
try_and(i) == Plain(i, "AND")
try_andi(i) == IntMathImm(i, "AND", 0)
try_xori(i) == IntMathImm(i, "XOR", 0)
try_nor(i) == IF i.src[1] # s7 /\ i.src[2] = r0 THEN Math1(i, "LOGNOT") ELSE Plain(i, "NOR")
try_xor(i) == Plain(i, "XOR")
try_addiu(i) == IF i.src[1] = r0 THEN Constant(i, make_int(i.src[2][2])) ELSE Null
try_lui(i) == IF i.src[1][1] = "imm" THEN Constant(i, make_int(i.src[1][2] * 2 ^ ImmBits)) ELSE Null
try_sll(i) == IF is_nop(i) THEN IR_Special("NOP") ELSE Null
try_dsrav(i) == Plain(i, "RIGHT_SHIFT_ARITH")
try_dsrlv(i) == Plain(i, "RIGHT_SHIFT_LOGIC")
try_dsllv(i) == Plain(i, "LEFT_SHIFT")

IR_Store_Atomic(kind, addr, value, size) ==
    [op |-> "store", size |-> size, kind |-> kind, addr |-> addr, value |-> value, reads |-> AtomRegisters(addr.args \o <<value>>), writes |-> {}, clobber |-> {}]
BasePlus(i) == Expression("ADD", <<make_reg(i.src[3]), make_int(i.src[2][2])>>)
\* An offset of zero is left out.
BaseOrPlus(i) == IF i.src[2][2] = 0 THEN Atom(make_reg(i.src[3])) ELSE BasePlus(i)
Store(i, kind, size) == IF i.src[2][1] = "imm" THEN IR_Store_Atomic(kind, BasePlus(i), make_reg(i.src[1]), size) ELSE Null
try_sw(i) ==
    CASE i.src[2][1] = "sym" /\ i.src[3] = s7 -> IR_Store_Atomic("INTEGER", Atom(make_sym_value(i.src[2][2])), make_reg(i.src[1]), 4)
      [] i.src[2][1] = "imm" ->
           IR_Store_Atomic("INTEGER", BaseOrPlus(i), IF i.src[2][2] # 0 /\ i.src[1] = s7 THEN make_sym(0) ELSE make_reg(i.src[1]), 4)
      [] OTHER -> Null
try_sb(i) ==
    IF i.src[2][1] # "imm" THEN Null ELSE IR_Store_Atomic("INTEGER", BaseOrPlus(i), IF i.src[1] = r0 THEN make_int(0) ELSE make_reg(i.src[1]), 1)
try_sh(i) == Store(i, "INTEGER", 2)
try_sd(i) == Store(i, "INTEGER", 8)
try_sq(i) == Store(i, "INTEGER", 16)
try_swc1(i) == Store(i, "FLOAT", 4)
try_cvtws(i) == Math1(i, "FLOAT_TO_INT")
try_cvtsw(i) == Math1(i, "INT_TO_FLOAT")
try_float_math_1(i, kind) == Math1(i, kind)
try_movs(i) == Math1(i, "IDENTITY")
\* A conditional move of #f; the value it may leave is not among what it reads.
IR_CMoveF(i, on_zero) ==
    IF i.src[1] # s7 THEN Null
    ELSE [op |-> "cmove", dst |-> i.dst[1], src |-> i.src[2], on_zero |-> on_zero, reads |-> {i.src[2]}, writes |-> {i.dst[1]}, clobber |-> {}]
try_movn(i) == IR_CMoveF(i, FALSE)
try_movz(i) == IR_CMoveF(i, TRUE)
-----------------------------------------------------------------------------
(* Branches.                                                                 *)

\* The delay slot; Failed where a symbol is loaded that it does not know.
branch_delay(i) ==
    IF i.kind = "LW" /\ i.src[1][1] = "sym" /\ i.src[1][2] \notin {BintegerSymbol, PairSymbol} /\ i.src[2] = s7 THEN Failed ELSE get_branch_delay(i)
IR_Branch_Atomic(condition, clobber, label, i, likely) ==
    LET With(delay) ==
            IF delay = Failed THEN Failed
            ELSE [op |-> "branch", condition |-> condition, label |-> label, delay |-> delay, likely |-> likely, clobber |-> clobber,
                  reads |-> AtomRegisters(condition.args) \cup DelayReads(delay), writes |-> DelayWrites(delay)]
    IN With(branch_delay(i))
Branch(kind, regs, i, delay, likely) ==
    IR_Branch_Atomic(Condition(kind, [k \in DOMAIN regs |-> make_reg(regs[k])]), {}, i.src[Len(i.src)][2], delay, likely)
try_bne(i, next) ==
    CASE i.src[2] = r0 -> Branch("NONZERO", <<i.src[1]>>, i, next, FALSE)
      [] i.src[2] # r0 /\ i.src[1] = s7 -> Branch("TRUTHY", <<i.src[2]>>, i, next, FALSE)
      [] OTHER -> Branch("NOT_EQUAL", <<i.src[1], i.src[2]>>, i, next, FALSE)
try_bnel(i, next) ==
    CASE i.src[1] = s7 -> Branch("TRUTHY", <<i.src[2]>>, i, next, TRUE)
      [] i.src[1] # s7 /\ i.src[2] = r0 -> Branch("NONZERO", <<i.src[1]>>, i, next, TRUE)
      [] OTHER -> Null
try_beql(i, next) ==
    CASE i.src[1] = s7 -> Branch("FALSE", <<i.src[2]>>, i, next, TRUE)
      [] i.src[1] # s7 /\ i.src[2] = r0 -> Branch("ZERO", <<i.src[1]>>, i, next, TRUE)
      [] OTHER -> Branch("EQUAL", <<i.src[1], i.src[2]>>, i, next, TRUE)
try_beq(i, next) ==
    CASE i.src[1] = r0 /\ i.src[2] = r0 -> Branch("ALWAYS", <<>>, i, next, FALSE)
      [] i.src[1] = s7 -> Branch("FALSE", <<i.src[2]>>, i, next, FALSE)
      [] i.src[1] \notin {s7, r0} /\ i.src[2] = r0 -> Branch("ZERO", <<i.src[1]>>, i, next, FALSE)
      [] OTHER -> Branch("EQUAL", <<i.src[1], i.src[2]>>, i, next, FALSE)
try_bgtzl(i, next) == Branch("GREATER_THAN_ZERO_SIGNED", <<i.src[1]>>, i, next, TRUE)
try_bgezl(i, next) == Branch("GEQ_ZERO_SIGNED", <<i.src[1]>>, i, next, TRUE)
try_bltzl(i, next) == Branch("LESS_THAN_ZERO_SIGNED", <<i.src[1]>>, i, next, TRUE)
-----------------------------------------------------------------------------
(* Two instructions.                                                         *)

Divided(i, next, division, modulo) ==
    CASE next.kind = "MFLO" -> make_set_atomic(next.dst[1], Expression(division, <<make_reg(i.src[1]), make_reg(i.src[2])>>))
      [] next.kind = "MFHI" -> make_set_atomic(next.dst[1], Expression(modulo, <<make_reg(i.src[1]), make_reg(i.src[2])>>))
      [] OTHER -> Null
try_div(i, next) == Divided(i, next, "DIV_SIGNED", "MOD_SIGNED")
try_divu(i, next) == Divided(i, next, "DIV_UNSIGNED", "MOD_UNSIGNED")
try_jalr(i, next) ==
    IF i.dst[1] = ra /\ i.src[1] = t9 /\ next.kind = "SLL" /\ next.dst[1] = v0 /\ next.src = <<ra, <<"imm", 0>>>>
    THEN [op |-> "call", reads |-> {t9}, writes |-> {v0}, clobber |-> clobber_temps \ {at}] ELSE Null
IR_Compare(dst, kind, args, clobber) ==
    [op |-> "setcond", dst |-> dst, condition |-> Condition(kind, args), reads |-> AtomRegisters(args), writes |-> {dst}, clobber |-> clobber]
try_daddiu_2(i0, i1) ==
    CASE ~IsCmov(i1) \/ i0.src[1] # s7 -> Null
      [] IsCmov(i1) /\ i0.src[1] = s7 /\ ~TrueOrFalse(i0, i1, i0.dst[1]) -> Failed
      [] OTHER -> IR_Compare(i0.dst[1], IF i1.kind = "MOVN" THEN "ZERO" ELSE "NONZERO", <<make_reg(i1.src[2])>>, {})
try_lui_2(i0, i1) ==
    LET temp == i0.dst[1]  high == i0.src[1]  low == i1.src[2]
        Set(atom) == ClobberIf(temp # i1.dst[1], Constant(i1, atom), temp)
    IN CASE i1.kind = "ORI" /\ high[1] = "label" /\ low[1] = "label" -> IF temp = i1.src[1] /\ high = low THEN Set(StaticAddress(high[2])) ELSE Failed
         [] i1.kind = "ORI" /\ high[1] = "imm" /\ low[1] = "imm" /\ temp = i1.src[1] -> Set(make_int(low[2] + high[2] * 2 ^ ImmBits))
         [] OTHER -> Null
\* slt temp, left, right; mov{n,z} left, right, temp
try_slt_2(i0, i1) ==
    LET temp == i0.dst[1]  left == i0.src[1]  right == i0.src[2] IN
    IF IsCmov(i1) /\ i1.dst[1] = left /\ i1.src = <<right, temp>>
    THEN Clobbering(make_set_atomic(left, Expression(IF i1.kind = "MOVZ" THEN "MIN_SIGNED" ELSE "MAX_SIGNED", <<make_reg(left), make_reg(right)>>)), temp)
    ELSE Null
-----------------------------------------------------------------------------
(* Three and five instructions.                                              *)

try_lui_3(i0, i1, i2) ==
    LET temp == i0.dst[1]  dst == i1.dst[1] IN
    CASE ~(i1.kind = "ORI" /\ i0.src[1][1] = "label" /\ i1.src[2][1] = "label" /\ i2.kind = "ADDU" /\ i2.src[1] = fp) -> Null
      [] i1.kind = "ORI" /\ i1.src = <<temp, i0.src[1]>> /\ i2.kind = "ADDU" /\ i2.src = <<fp, dst>> /\ i2.dst[1] = dst ->
           ClobberIf(temp # dst, Constant(i1, StaticAddress(i0.src[1][2])), temp)
      [] OTHER -> Failed
\* The result of i0 is made #t or #f by i1 and i2: movz keeps #t when it is not zero.
MadeBoolean(i0, i1, i2, kind, args) ==
    CASE ~TrueOrFalse(i1, i2, i1.dst[1]) -> Failed
      [] TrueOrFalse(i1, i2, i1.dst[1]) /\ i2.src[2] # i0.dst[1] -> Null
      [] OTHER -> IR_Compare(i1.dst[1], kind, args, {i0.dst[1]})
try_dsubu_3(i0, i1, i2) ==
    LET args == <<make_reg(i0.src[1]), make_reg(i0.src[2])>> IN
    CASE ~IsTest(i1, i2) -> Null
      [] IsTest(i1, i2) /\ i2.kind = "MOVN" ->
           IF i2.src[2] # i0.dst[1] THEN Failed ELSE MadeBoolean(i0, i1, i2, "EQUAL", args)
      [] OTHER -> MadeBoolean(i0, i1, i2, "NOT_EQUAL", args)
Compared(i0, i1, i2, less, geq, args) ==
    CASE i1.kind \in {"BNE", "BEQ"} ->
           IF i1.src[1] # i0.dst[1] \/ i1.src[2] # r0 THEN Failed
           ELSE IR_Branch_Atomic(Condition(IF i1.kind = "BNE" THEN less ELSE geq, args), {i0.dst[1]}, i1.src[3][2], i2, FALSE)
      [] IsTest(i1, i2) -> MadeBoolean(i0, i1, i2, IF i2.kind = "MOVZ" THEN less ELSE geq, args)
      [] OTHER -> Null
try_slt_3(i0, i1, i2) ==
    IF i0.src[2] = r0 /\ IsTest(i1, i2) THEN Compared(i0, i1, i2, "LESS_THAN_ZERO_SIGNED", "GEQ_ZERO_SIGNED", <<make_reg(i0.src[1])>>)
    ELSE Compared(i0, i1, i2, "LESS_THAN_SIGNED", "GEQ_SIGNED", <<make_reg(i0.src[1]), make_reg(i0.src[2])>>)
try_slti(i0, i1, i2) == Compared(i0, i1, i2, "LESS_THAN_SIGNED", "GEQ_SIGNED", <<make_reg(i0.src[1]), make_int(i0.src[2][2])>>)
try_sltiu(i0, i1, i2) == Compared(i0, i1, i2, "LESS_THAN_UNSIGNED", "GEQ_UNSIGNED", <<make_reg(i0.src[1]), make_int(i0.src[2][2])>>)
FloatBranch(i0, i1, i2, then, else) ==
    IF i1.kind \notin {"BC1T", "BC1F"} THEN Null
    ELSE IR_Branch_Atomic(Condition(IF i1.kind = "BC1T" THEN then ELSE else, <<make_reg(i0.src[1]), make_reg(i0.src[2])>>), {}, i1.src[1][2], i2, FALSE)
try_ceqs(i0, i1, i2) == FloatBranch(i0, i1, i2, "FLOAT_EQUAL", "FLOAT_NOT_EQUAL")
try_clts(i0, i1, i2) == FloatBranch(i0, i1, i2, "FLOAT_LESS_THAN", "FLOAT_GEQ")
try_cles(i0, i1, i2) == FloatBranch(i0, i1, i2, "FLOAT_LEQ", "FLOAT_GREATER_THAN")
try_sltu(i0, i1, i2) == Compared(i0, i1, i2, "LESS_THAN_UNSIGNED", "GEQ_UNSIGNED", <<make_reg(i0.src[1]), make_reg(i0.src[2])>>)
try_lwu_5(i0, i1, i2, i3, i4) == IF IsSuspend(i0, i1, i2, i3, i4) THEN IR_Special("SUSPEND") ELSE Null
-----------------------------------------------------------------------------
(* Blocks.                                                                   *)

Three(i0, i1, i2) ==
    CASE i0.kind = "DSUBU" -> try_dsubu_3(i0, i1, i2) [] i0.kind = "SLT" -> try_slt_3(i0, i1, i2) [] i0.kind = "SLTI" -> try_slti(i0, i1, i2)
      [] i0.kind = "SLTU" -> try_sltu(i0, i1, i2) [] i0.kind = "SLTIU" -> try_sltiu(i0, i1, i2) [] i0.kind = "CEQS" -> try_ceqs(i0, i1, i2)
      [] i0.kind = "CLTS" -> try_clts(i0, i1, i2) [] i0.kind = "CLES" -> try_cles(i0, i1, i2) [] i0.kind = "LUI" -> try_lui_3(i0, i1, i2)
      [] OTHER -> Null
Two(i, next) ==
    CASE i.kind = "DIV" -> try_div(i, next) [] i.kind = "DIVU" -> try_divu(i, next) [] i.kind = "JALR" -> try_jalr(i, next)
      [] i.kind = "BNE" -> try_bne(i, next) [] i.kind = "BNEL" -> try_bnel(i, next) [] i.kind = "BEQ" -> try_beq(i, next)
      [] i.kind = "BEQL" -> try_beql(i, next) [] i.kind = "BGTZL" -> try_bgtzl(i, next) [] i.kind = "BGEZL" -> try_bgezl(i, next)
      [] i.kind = "BLTZL" -> try_bltzl(i, next) [] i.kind = "DADDIU" -> try_daddiu_2(i, next) [] i.kind = "LUI" -> try_lui_2(i, next)
      [] i.kind = "SLT" -> try_slt_2(i, next)
      [] OTHER -> Null
\* Instructions that are passed through, besides those of inline assembly.
passed_through == (asm_instructions \ {"SLL", "SLLV", "SQ", "LQ", "SUBU", "JR", "ADDIU", "MOVN", "MSUBAS", "MSUBS"}) \cup {"SQC2", "LQC2"}
float_math_2 == [DIVS |-> "DIV_S", SUBS |-> "SUB_S", ADDS |-> "ADD_S", MULS |-> "MUL_S", MINS |-> "MIN_S", MAXS |-> "MAX_S"]
float_math_1 == [ABSS |-> "ABS_S", NEGS |-> "NEG_S", SQRTS |-> "SQRT_S"]
One(i) ==
    CASE i.kind = "OR" -> try_or(i) [] i.kind = "ORI" -> try_ori(i) [] i.kind = "DADDIU" -> try_daddiu(i) [] i.kind = "AND" -> try_and(i)
      [] i.kind = "ANDI" -> try_andi(i) [] i.kind = "XORI" -> try_xori(i) [] i.kind = "NOR" -> try_nor(i) [] i.kind = "XOR" -> try_xor(i)
      [] i.kind = "LWC1" -> try_lwc1(i) [] i.kind = "MTC1" -> try_mtc1(i) [] i.kind = "MFC1" -> try_mfc1(i) [] i.kind = "MOVS" -> try_movs(i)
      [] i.kind \in DOMAIN float_math_2 -> try_float_math_2(i, float_math_2[i.kind])
      [] i.kind \in DOMAIN float_math_1 -> try_float_math_1(i, float_math_1[i.kind])
      [] i.kind = "DADDU" -> try_daddu(i) [] i.kind = "DSUBU" -> OrAsm(try_dsubu(i), i)
      [] i.kind = "MULT3" -> try_mult3(i) [] i.kind = "MULTU3" -> try_multu3(i) [] i.kind = "POR" -> OrAsm(try_por(i), i)
      [] i.kind = "LBU" -> try_lbu(i) [] i.kind = "LHU" -> try_lhu(i) [] i.kind = "LB" -> try_lb(i) [] i.kind = "LH" -> try_lh(i)
      [] i.kind = "LW" -> try_lw(i) [] i.kind = "LWU" -> try_lwu(i) [] i.kind = "LD" -> try_ld(i) [] i.kind = "LQ" -> try_lq(i)
      [] i.kind = "DSRA" -> try_dsra(i) [] i.kind = "DSRA32" -> try_dsra32(i) [] i.kind = "DSRL" -> try_dsrl(i) [] i.kind = "DSRL32" -> try_dsrl32(i)
      [] i.kind = "DSLL" -> try_dsll(i) [] i.kind = "DSLL32" -> try_dsll32(i) [] i.kind = "ADDIU" -> OrAsm(try_addiu(i), i)
      [] i.kind = "LUI" -> try_lui(i) [] i.kind = "SLL" -> OrAsm(try_sll(i), i)
      [] i.kind = "SB" -> try_sb(i) [] i.kind = "SH" -> try_sh(i) [] i.kind = "SW" -> try_sw(i) [] i.kind = "SD" -> try_sd(i)
      [] i.kind = "SQ" -> try_sq(i) [] i.kind = "SWC1" -> try_swc1(i) [] i.kind = "CVTWS" -> try_cvtws(i) [] i.kind = "CVTSW" -> try_cvtsw(i)
      [] i.kind = "DSRAV" -> try_dsrav(i) [] i.kind = "DSRLV" -> try_dsrlv(i) [] i.kind = "DSLLV" -> try_dsllv(i)
      [] i.kind = "SUBU" -> try_subu(i) [] i.kind = "SLLV" -> try_sllv(i) [] i.kind = "MOVN" -> OrAsm(try_movn(i), i)
      [] i.kind = "MOVZ" -> OrAsm(try_movz(i), i) [] i.kind \in {"JR", "QMFC2"} -> IR_AsmOp_Atomic(i)
      [] i.kind \in passed_through \ {"QMFC2"} -> to_asm_automatic(i)
      [] OTHER -> Null
TryFirst(n, s) ==
    CASE n > Len(s) -> Null
      [] n = 5 /\ n <= Len(s) -> IF s[1].kind = "LWU" THEN try_lwu_5(s[1], s[2], s[3], s[4], s[5]) ELSE Null
      [] n = 3 /\ n <= Len(s) -> Three(s[1], s[2], s[3])
      [] n = 2 /\ n <= Len(s) -> Two(s[1], s[2])
      [] n = 1 -> One(s[1])
\* The operations of a block with the instruction each starts at, and how many it takes.
add_basic_ops_to_block(block) ==
    LET Best(found) == IF found = {} THEN [n |-> 1, op |-> IR_Failed_Atomic] ELSE CHOOSE f \in found : \A g \in found : g.n <= f.n
        From[k \in 1 .. Len(block) + 1] ==
            IF k > Len(block) THEN <<>>
            ELSE LET Then(next) == <<[at |-> k, n |-> next.n, op |-> next.op]>> \o (IF next.op = Failed THEN <<>> ELSE From[k + next.n])
                 IN Then(Best({f \in {[n |-> n, op |-> TryFirst(n, SubSeq(block, k, Len(block)))] : n \in {5, 3, 2, 1}} : f.op # Null}))
    IN From[1]
=============================================================================
