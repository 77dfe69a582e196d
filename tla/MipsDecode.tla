----------------------------- MODULE MipsDecode -----------------------------
(* The disassembler (decompiler/Disasm): a word of an object file is decoded *)
(* to an instruction, which is printed; the parser of the tests reads what   *)
(* was printed.                                                              *)
(*                                                                           *)
(* A word is [op, rs, rt, rd, sa, fn], its bits from the top.  An atom is    *)
(* <<class, number>>.  An instruction is [kind, dst, src, dest, bc, il]; the *)
(* last three are None unless its opcode has them.                           *)
EXTENDS Integers, Sequences, FiniteSets, Functions, Bitwise

Bits == [op |-> 6, rs |-> 5, rt |-> 5, rd |-> 5, sa |-> 5, fn |-> 6]
None == 255

OpcodeFields(w) ==
    LET low16 == w.rd * 2048 + w.sa * 64 + w.fn IN
    [op |-> w.op, rs |-> w.rs, rt |-> w.rt, rd |-> w.rd, sa |-> w.sa, function |-> w.fn,
     simm16 |-> IF low16 < 32768 THEN low16 ELSE low16 - 65536, zimm16 |-> low16,
     imm5 |-> w.sa, imm15 |-> w.rt * 1024 + w.rd * 32 + w.sa,
     cop_func |-> w.rs, ft |-> w.rt, fs |-> w.rd, fd |-> w.sa,
     pcreg |-> (w.fn \div 2) % 32, syscall |-> ((w.rs * 32 + w.rt) * 32 + w.rd) * 32 + w.sa,
     MMI_func |-> w.sa, lower11 |-> w.sa * 64 + w.fn, lower6 |-> w.fn,
     dest |-> w.rs % 16, fs_f |-> w.rs % 4, ft_f |-> (w.rs \div 4) % 4,
     bit25 |-> w.rs \div 16, bits10to1 |-> (w.sa * 64 + w.fn) \div 2, bit0 |-> w.fn % 2, low2 |-> w.fn % 4]
-----------------------------------------------------------------------------
(* Opcode decode.  A row of a table is the codes of a case, the kind, and    *)
(* the fields that are asserted to have a value.                             *)

Unknown == "UNKNOWN"
\* An assertion of the decoder failed.
Aborted == "abort"

Row(codes, kind, asserted) == <<codes, kind, asserted>>
Is(code, kind) == Row({code}, kind, {})
Zero(fields) == {<<f, 0>> : f \in fields}
Sure(code, kind, zeros) == Row({code}, kind, Zero(zeros))

Decoded(rows, fields) ==
    IF rows = {} THEN Unknown
    ELSE LET row == CHOOSE r \in rows : TRUE IN
         IF \A a \in row[3] : fields[a[1]] = a[2] THEN row[2] ELSE Aborted
Decode(table, code, fields) == Decoded({r \in table : code \in r[1]}, fields)

\* The instructions of the vector unit: bit 25 is set.
Vector(code, kind, asserted) == Row({code}, kind, {<<"bit25", 1>>} \cup asserted)
Broadcast(code, kind) == Row(code .. code + 3, kind, {<<"bit25", 1>>})

cop2_moves == {Is(\b00001, "QMFC2"), Sure(\b00101, "QMTC2", {"bits10to1"}), Is(\b00010, "CFC2"), Is(\b00110, "CTC2")}

cop2_lower11 ==
    {Broadcast(\b00010111100, "VMADDA_BC"), Broadcast(\b00000111100, "VADDA_BC"), Broadcast(\b00110111100, "VMULA_BC"),
     Vector(\b01010111110, "VMULA", {}), Vector(\b01010111100, "VADDA", {}), Vector(\b01010111101, "VMADDA", {}),
     Broadcast(\b00011111100, "VMSUBA_BC"), Vector(\b00101111100, "VFTOI0", {}), Vector(\b00101111101, "VFTOI4", {}),
     Vector(\b00101111110, "VFTOI12", {}), Vector(\b00100111100, "VITOF0", {}), Vector(\b00100111110, "VITOF12", {}),
     Vector(\b00100111111, "VITOF15", {}), Vector(\b00111111100, "VMULAQ", Zero({"ft"})), Vector(\b00111111101, "VABS", {}),
     Vector(\b00111111111, "VCLIP", {<<"dest", 14>>}), Sure(\b01011111111, "VNOP", {"dest", "ft", "fs"}),
     Vector(\b01101111101, "VSQI", {}), Vector(\b01101111100, "VLQI", {}), Sure(\b01110111111, "VWAITQ", {"dest", "ft", "fs"}),
     Vector(\b01011111110, "VOPMULA", {<<"dest", 14>>}), Vector(\b01100111100, "VMOVE", {}), Vector(\b01110111100, "VDIV", {}),
     Vector(\b01110111101, "VSQRT", Zero({"fs", "fs_f"})), Vector(\b01111111100, "VMTIR", Zero({"ft_f"})),
     Vector(\b01110111110, "VRSQRT", {}), Vector(\b10000111100, "VRNEXT", Zero({"fs"})), Vector(\b10000111101, "VRGET", Zero({"fs"})),
     Vector(\b10000111111, "VRXOR", Zero({"ft", "ft_f"}))}

cop2_lower6 ==
    {Broadcast(\b000000, "VADD_BC"), Broadcast(\b000100, "VSUB_BC"), Broadcast(\b001000, "VMADD_BC"), Broadcast(\b001100, "VMSUB_BC"),
     Broadcast(\b010000, "VMAX_BC"), Broadcast(\b010100, "VMINI_BC"), Broadcast(\b011000, "VMUL_BC"),
     Vector(\b011100, "VMULQ", Zero({"ft"})), Vector(\b100000, "VADDQ", {}), Vector(\b100100, "VSUBQ", {}),
     Vector(\b100101, "VMSUBQ", Zero({"ft"})), Vector(\b101000, "VADD", {}), Vector(\b101001, "VMADD", {}), Vector(\b101010, "VMUL", {}),
     Vector(\b101011, "VMAX", {}), Vector(\b101100, "VSUB", {}), Vector(\b101101, "VMSUB", {}), Vector(\b101110, "VOPMSUB", {<<"dest", 14>>}),
     Vector(\b101111, "VMINI", {}), Vector(\b110010, "VIADDI", Zero({"dest"})), Vector(\b110100, "VIAND", Zero({"dest"})),
     Vector(\b111000, "VCALLMS", Zero({"dest"}))}

\* The lower 11 bits select, and only when no case has them the lower 6.
decode_cop2(f) ==
    IF f.lower11 \in {0, 1} THEN Decode(cop2_moves, f.cop_func, f)
    ELSE LET rows == {r \in cop2_lower11 : f.lower11 \in r[1]} IN
         Decoded(IF rows # {} THEN rows ELSE {r \in cop2_lower6 : f.lower6 \in r[1]}, f)

decode_W == {Sure(\b100000, "CVTSW", {"ft"})}
decode_S ==
    {Is(\b000000, "ADDS"), Is(\b000001, "SUBS"), Is(\b000010, "MULS"), Is(\b000011, "DIVS"), Is(\b000101, "ABSS"),
     Sure(\b000110, "MOVS", {"ft"}), Sure(\b000111, "NEGS", {"ft"}), Sure(\b000100, "SQRTS", {"fs"}), Is(\b010110, "RSQRTS"),
     Sure(\b011000, "ADDAS", {"fd"}), Sure(\b011010, "MULAS", {"fd"}), Is(\b011100, "MADDS"), Is(\b011101, "MSUBS"),
     Sure(\b011110, "MADDAS", {"fd"}), Sure(\b011111, "MSUBAS", {"fd"}), Sure(\b100100, "CVTWS", {"ft"}), Is(\b101000, "MAXS"),
     Is(\b101001, "MINS"), Sure(\b110010, "CEQS", {"fd"}), Sure(\b110100, "CLTS", {"fd"}), Sure(\b110110, "CLES", {"fd"})}
decode_BC1 == {Is(\b00000, "BC1F"), Is(\b00001, "BC1T"), Is(\b00010, "BC1FL"), Is(\b00011, "BC1TL")}
cop1_moves == {Sure(\b00000, "MFC1", {"sa", "function"}), Sure(\b00100, "MTC1", {"sa", "function"})}
decode_cop1(f) ==
    CASE f.cop_func = \b01000 -> Decode(decode_BC1, f.ft, f)
      [] f.cop_func = \b10000 -> Decode(decode_S, f.function, f)
      [] f.cop_func = \b10100 -> Decode(decode_W, f.function, f)
      [] OTHER -> Decode(cop1_moves, f.cop_func, f)

decode_c0 == {Is(\b011000, "ERET"), Sure(\b111000, "EI", {"sa", "rd", "rt"})}
PerformanceCounter(f) == f.rd = \b11001 /\ f.sa = 0 /\ f.bit0 = 1
mt0 == {Is(0, "MTC0"), Row({\b100}, "MTDAB", {<<"rd", \b11000>>}), Row({\b101}, "MTDABM", {<<"rd", \b11000>>})}
decode_mt0(f) ==
    IF f.lower11 \notin {0, \b100, \b101} /\ PerformanceCounter(f) THEN "MTPC" ELSE Decode(mt0, f.lower11, f)
decode_mf0(f) == IF f.lower11 = 0 THEN "MFC0" ELSE IF PerformanceCounter(f) THEN "MFPC" ELSE Unknown
decode_cop0(f) ==
    CASE f.cop_func = \b00000 -> decode_mf0(f)
      [] f.cop_func = \b00100 -> decode_mt0(f)
      [] f.cop_func = \b10000 -> Decode(decode_c0, f.function, f)
      [] OTHER -> Unknown

decode_mmi3 == {Is(\b01010, "PINTEH"), Is(\b01110, "PCPYUD"), Is(\b10010, "POR"), Is(\b10011, "PNOR"), Sure(\b11011, "PCPYH", {"rs"})}
decode_mmi2 ==
    {Is(\b01110, "PCPYLD"), Is(\b10000, "PMADDH"), Is(\b10010, "PAND"), Is(\b11100, "PMULTH"), Is(\b11110, "PEXEW"), Is(\b11111, "PROT3W")}
decode_mmi1 ==
    {Is(\b00001, "PABSW"), Is(\b00010, "PCEQW"), Is(\b00011, "PMINW"), Is(\b00111, "PMINH"), Is(\b01010, "PCEQB"),
     Is(\b10010, "PEXTUW"), Is(\b10110, "PEXTUH"), Is(\b11010, "PEXTUB")}
decode_mmi0 ==
    {Is(\b00000, "PADDW"), Is(\b00001, "PSUBW"), Is(\b00010, "PCGTW"), Is(\b00011, "PMAXW"), Is(\b00100, "PADDH"), Is(\b00111, "PMAXH"),
     Is(\b10010, "PEXTLW"), Is(\b10011, "PPACW"), Is(\b10111, "PPACH"), Is(\b10110, "PEXTLH"), Is(\b11010, "PEXTLB"), Is(\b11011, "PPACB")}
decode_pmfhl ==
    {Sure(\b00001, "PMFHL_UW", {"rs", "rt"}), Sure(\b00000, "PMFHL_LW", {"rs", "rt"}), Sure(\b00011, "PMFHL_LH", {"rs", "rt"})}
mmi ==
    {Sure(\b000100, "PLZCW", {"sa", "rt"}), Sure(\b010011, "MTLO1", {"sa", "rd", "rt"}), Sure(\b010010, "MFLO1", {"sa", "rs", "rt"}),
     Is(\b110100, "PSLLH"), Is(\b110110, "PSRLH"), Is(\b110111, "PSRAH"), Is(\b111100, "PSLLW"), Is(\b111111, "PSRAW")}
decode_mmi(f) ==
    CASE f.function = \b001000 -> Decode(decode_mmi0, f.MMI_func, f)
      [] f.function = \b001001 -> Decode(decode_mmi2, f.MMI_func, f)
      [] f.function = \b101000 -> Decode(decode_mmi1, f.MMI_func, f)
      [] f.function = \b101001 -> Decode(decode_mmi3, f.MMI_func, f)
      [] f.function = \b110000 -> Decode(decode_pmfhl, f.sa, f)
      [] OTHER -> Decode(mmi, f.function, f)

decode_regimm == {Is(\b00000, "BLTZ"), Is(\b00001, "BGEZ"), Is(\b00010, "BLTZL"), Is(\b00011, "BGEZL"), Is(\b10001, "BGEZAL")}
\* The assertions come before the type of the sync is looked at.
decode_sync(f) == IF f.rt = 0 /\ f.rs = 0 /\ f.rd = 0 THEN Decode({Is(0, "SYNCL"), Is(\b10000, "SYNCP")}, f.sa, f) ELSE Aborted

special ==
    {Sure(\b000000, "SLL", {"rs"}), Sure(\b000010, "SRL", {"rs"}), Sure(\b000011, "SRA", {"rs"}), Sure(\b000100, "SLLV", {"sa"}),
     Sure(\b001000, "JR", {"sa", "rd", "rt"}), Sure(\b001001, "JALR", {"rt", "sa"}), Sure(\b001010, "MOVZ", {"sa"}),
     Sure(\b001011, "MOVN", {"sa"}), Is(\b001100, "SYSCALL"), Sure(\b010000, "MFHI", {"rs", "rt", "sa"}),
     Sure(\b010010, "MFLO", {"rs", "rt", "sa"}), Sure(\b010100, "DSLLV", {"sa"}), Sure(\b010110, "DSRLV", {"sa"}),
     Sure(\b010111, "DSRAV", {"sa"}), Sure(\b011000, "MULT3", {"sa"}), Sure(\b011001, "MULTU3", {"sa"}),
     Sure(\b011010, "DIV", {"sa", "rd"}), Sure(\b011011, "DIVU", {"sa", "rd"}), Sure(\b100001, "ADDU", {"sa"}),
     Sure(\b100011, "SUBU", {"sa"}), Sure(\b100100, "AND", {"sa"}), Sure(\b100101, "OR", {"sa"}), Sure(\b100110, "XOR", {"sa"}),
     Sure(\b100111, "NOR", {"sa"}), Sure(\b101010, "SLT", {"sa"}), Sure(\b101011, "SLTU", {"sa"}), Is(\b101101, "DADDU"),
     Is(\b101111, "DSUBU"), Sure(\b111000, "DSLL", {"rs"}), Sure(\b111010, "DSRL", {"rs"}), Sure(\b111011, "DSRA", {"rs"}),
     Sure(\b111100, "DSLL32", {"rs"}), Sure(\b111110, "DSRL32", {"rs"}), Sure(\b111111, "DSRA32", {"rs"})}
decode_special(f) == IF f.function = \b001111 THEN decode_sync(f) ELSE Decode(special, f.function, f)
decode_cache == {Is(\b10100, "CACHE_DXWBIN")}

opcodes ==
    {Is(\b000100, "BEQ"), Is(\b000101, "BNE"), Is(\b000110, "BLEZ"), Is(\b000111, "BGTZ"), Is(\b001001, "ADDIU"), Is(\b001010, "SLTI"),
     Is(\b001011, "SLTIU"), Is(\b001100, "ANDI"), Is(\b001101, "ORI"), Is(\b001110, "XORI"), Sure(\b001111, "LUI", {"rs"}),
     Is(\b010100, "BEQL"), Is(\b010101, "BNEL"), Sure(\b010111, "BGTZL", {"rt"}), Is(\b011001, "DADDIU"), Is(\b011010, "LDL"),
     Is(\b011011, "LDR"), Is(\b011110, "LQ"), Is(\b011111, "SQ"), Is(\b100000, "LB"), Is(\b100001, "LH"), Is(\b100010, "LWL"),
     Is(\b100011, "LW"), Is(\b100100, "LBU"), Is(\b100101, "LHU"), Is(\b100110, "LWR"), Is(\b100111, "LWU"), Is(\b101000, "SB"),
     Is(\b101001, "SH"), Is(\b101011, "SW"), Is(\b110001, "LWC1"), Is(\b110011, "PREF"), Is(\b110110, "LQC2"), Is(\b110111, "LD"),
     Is(\b111001, "SWC1"), Is(\b111110, "SQC2"), Is(\b111111, "SD")}
decode_opcode(f) ==
    CASE f.op = \b000000 -> decode_special(f)
      [] f.op = \b000001 -> Decode(decode_regimm, f.rt, f)
      [] f.op = \b010000 -> decode_cop0(f)
      [] f.op = \b010001 -> decode_cop1(f)
      [] f.op = \b010010 -> decode_cop2(f)
      [] f.op = \b011100 -> decode_mmi(f)
      [] f.op = \b101111 -> Decode(decode_cache, f.rt, f)
      [] OTHER -> Decode(opcodes, f.op, f)
-----------------------------------------------------------------------------
(* What the operands of an opcode are: its steps, <<which list, field, how   *)
(* it is decoded>>.                                                          *)

Src(field, decode) == <<"src", field, decode>>
Dst(field, decode) == <<"dst", field, decode>>
DestMask == Src("dest", "DEST")
BroadcastField == Src("low2", "BC")
Interlock == Src("bit0", "IL")

drt_srs_ssimm16 == <<Dst("rt", "GPR"), Src("rs", "GPR"), Src("simm16", "IMM")>>
srt_ssimm16_srs == <<Src("rt", "GPR"), Src("simm16", "IMM"), Src("rs", "GPR")>>
drt_ssimm16_srs == <<Dst("rt", "GPR"), Src("simm16", "IMM"), Src("rs", "GPR")>>
drd_srs_srt == <<Dst("rd", "GPR"), Src("rs", "GPR"), Src("rt", "GPR")>>
drd_srt_srs == <<Dst("rd", "GPR"), Src("rt", "GPR"), Src("rs", "GPR")>>
drd_srt_ssa == <<Dst("rd", "GPR"), Src("rt", "GPR"), Src("sa", "IMM")>>
\* Mutant: the first register is read for both.
srs_srt_bt_Twice == <<Src("rs", "GPR"), Src("rs", "GPR"), Src("simm16", "BRANCH_TARGET")>>
srs_srt_bt == <<Src("rs", "GPR"), Src("rt", "GPR"), Src("simm16", "BRANCH_TARGET")>>
srs_bt == <<Src("rs", "GPR"), Src("simm16", "BRANCH_TARGET")>>
bt == <<Src("simm16", "BRANCH_TARGET")>>
dfd_sfs_sft == <<Dst("fd", "FPR"), Src("fs", "FPR"), Src("ft", "FPR")>>
sfs_sft == <<Src("fs", "FPR"), Src("ft", "FPR")>>
dfd_sfs == <<Dst("fd", "FPR"), Src("fs", "FPR")>>
dfd_sft == <<Dst("fd", "FPR"), Src("ft", "FPR")>>
drd == <<Dst("rd", "GPR")>>
cd_dvft_svfs == <<DestMask, Dst("ft", "VF"), Src("fs", "VF")>>
cd_dvfd_svfs_svft == <<DestMask, Dst("fd", "VF"), Src("fs", "VF"), Src("ft", "VF")>>
cb_cd_dvfd_svfs_svft == <<BroadcastField>> \o cd_dvfd_svfs_svft
cd_dacc_svfs_svft == <<DestMask, Dst("zero", "VU_ACC"), Src("fs", "VF"), Src("ft", "VF")>>
cb_cd_dacc_svfs_svft == <<BroadcastField>> \o cd_dacc_svfs_svft
cd_dvfd_svfs_sq == <<DestMask, Dst("fd", "VF"), Src("fs", "VF"), Src("zero", "VU_Q")>>

stores == {"SB", "SH", "SW", "SD", "SQ", "SWC1", "SQC2"}
loads == {"LB", "LBU", "LH", "LHU", "LW", "LWU", "LD", "LQ", "LDR", "LDL", "LWL", "LWR", "LWC1", "LQC2"}
branches_likely == {"BEQL", "BNEL", "BLTZL", "BGTZL", "BGEZL", "BC1FL", "BC1TL"}
branches == branches_likely \cup {"BEQ", "BNE", "BLTZ", "BGEZ", "BLEZ", "BGTZ", "BGEZAL", "BC1F", "BC1T"}

integer_opcodes ==
    {<<{"DADDIU", "ADDIU", "SLTI", "SLTIU"}, drt_srs_ssimm16>>,
     <<stores \ {"SWC1", "SQC2"}, srt_ssimm16_srs>>,
     <<loads \ {"LWC1", "LQC2"}, drt_ssimm16_srs>>,
     <<{"DADDU", "SUBU", "ADDU", "DSUBU", "MULT3", "MULTU3", "AND", "OR", "NOR", "XOR", "MOVN", "MOVZ", "SLT", "SLTU"}, drd_srs_srt>>,
     <<{"SLL", "SRA", "SRL", "DSLL", "DSLL32", "DSRA", "DSRA32", "DSRL", "DSRL32"}, drd_srt_ssa>>,
     <<{"DSRAV", "SLLV", "DSLLV", "DSRLV"}, drd_srt_srs>>,
     <<{"BEQ", "BNE", "BEQL", "BNEL"}, srs_srt_bt>>,
     <<{"BLTZ", "BGEZ", "BLEZ", "BGTZ", "BGEZAL", "BLTZL", "BGTZL", "BGEZL"}, srs_bt>>,
     <<{"DIV", "DIVU"}, <<Src("rs", "GPR"), Src("rt", "GPR")>>>>,
     <<{"ORI", "XORI", "ANDI"}, <<Dst("rt", "GPR"), Src("rs", "GPR"), Src("zimm16", "IMM")>>>>,
     <<{"LUI"}, <<Dst("rt", "GPR"), Src("simm16", "IMM")>>>>,
     <<{"JALR"}, <<Dst("rd", "GPR"), Src("rs", "GPR")>>>>,
     <<{"JR", "MTLO1"}, <<Src("rs", "GPR")>>>>,
     <<{"LWC1"}, <<Dst("ft", "FPR"), Src("simm16", "IMM"), Src("rs", "GPR")>>>>,
     <<{"SWC1"}, <<Src("ft", "FPR"), Src("simm16", "IMM"), Src("rs", "GPR")>>>>,
     <<{"MFC1"}, <<Dst("rt", "GPR"), Src("fs", "FPR")>>>>,
     <<{"MTC1"}, <<Dst("fs", "FPR"), Src("rt", "GPR")>>>>,
     <<{"MTC0"}, <<Src("rt", "GPR"), Dst("rd", "COP0")>>>>,
     <<{"MFC0"}, <<Dst("rt", "GPR"), Src("rd", "COP0")>>>>,
     <<{"MTDAB", "MTDABM"}, <<Src("rt", "GPR")>>>>,
     <<{"MFHI", "MFLO", "MFLO1", "PMFHL_UW", "PMFHL_LW", "PMFHL_LH"}, drd>>,
     <<{"MFPC"}, <<Dst("rt", "GPR"), Src("pcreg", "PCR")>>>>,
     <<{"MTPC"}, <<Src("rt", "GPR"), Dst("pcreg", "PCR")>>>>,
     <<{"SYSCALL"}, <<Src("syscall", "IMM")>>>>,
     <<{"CACHE_DXWBIN"}, <<Src("rs", "GPR"), Src("simm16", "IMM")>>>>,
     <<{"PREF"}, <<Src("rt", "GPR"), Src("simm16", "IMM"), Src("rs", "GPR")>>>>,
     <<{"SYNCP", "SYNCL", "ERET", "EI", "VNOP", "VWAITQ"}, <<>>>>}

parallel_opcodes ==
    {<<{"PPACB", "PPACH", "PPACW", "PADDH", "PADDW", "PSUBW", "PMINH", "PMINW", "PMAXH", "PMAXW", "PEXTLB", "PEXTLH", "PEXTLW", "PCGTW",
        "PCEQB", "PCEQW", "PEXTUB", "PEXTUH", "PEXTUW", "PCPYUD", "PCPYLD", "PMADDH", "PMULTH", "PEXEW", "PINTEH", "PAND", "POR", "PNOR"},
       drd_srs_srt>>,
     <<{"PSLLW", "PSLLH", "PSRAW", "PSRAH", "PSRLH"}, drd_srt_ssa>>,
     <<{"PLZCW"}, <<Dst("rd", "GPR"), Src("rs", "GPR")>>>>,
     <<{"PABSW", "PROT3W", "PCPYH"}, <<Dst("rd", "GPR"), Src("rt", "GPR")>>>>}

float_opcodes ==
    {<<{"BC1F", "BC1T", "BC1FL", "BC1TL"}, bt>>,
     <<{"ADDS", "SUBS", "MULS", "DIVS", "MINS", "MAXS", "MADDS", "MSUBS", "RSQRTS"}, dfd_sfs_sft>>,
     <<{"ABSS", "NEGS", "CVTSW", "CVTWS", "MOVS"}, dfd_sfs>>,
     <<{"SQRTS"}, dfd_sft>>,
     <<{"CLTS", "CLES", "CEQS", "MULAS", "MADDAS", "ADDAS", "MSUBAS"}, sfs_sft>>}

vector_opcodes ==
    {<<{"SQC2"}, <<Src("ft", "VF"), Src("simm16", "IMM"), Src("rs", "GPR")>>>>,
     <<{"LQC2"}, <<Dst("ft", "VF"), Src("simm16", "IMM"), Src("rs", "GPR")>>>>,
     <<{"VMOVE", "VFTOI0", "VFTOI4", "VFTOI12", "VITOF0", "VITOF12", "VITOF15", "VABS"}, cd_dvft_svfs>>,
     <<{"VADD", "VSUB", "VMUL", "VMINI", "VMAX", "VOPMSUB", "VMADD", "VMSUB"}, cd_dvfd_svfs_svft>>,
     <<{"VSUB_BC", "VADD_BC", "VMADD_BC", "VMSUB_BC", "VMUL_BC", "VMINI_BC", "VMAX_BC"}, cb_cd_dvfd_svfs_svft>>,
     <<{"VADDA_BC", "VMADDA_BC", "VMULA_BC", "VMSUBA_BC"}, cb_cd_dacc_svfs_svft>>,
     <<{"VADDQ", "VSUBQ", "VMULQ", "VMSUBQ"}, cd_dvfd_svfs_sq>>,
     <<{"VMULA", "VADDA", "VMADDA", "VOPMULA"}, cd_dacc_svfs_svft>>,
     <<{"VDIV", "VRSQRT"}, <<Dst("zero", "VU_Q"), Src("fs", "VF"), Src("fs_f", "VF_F"), Src("ft", "VF"), Src("ft_f", "VF_F")>>>>,
     <<{"VCLIP"}, <<DestMask, Src("fs", "VF"), Src("ft", "VF")>>>>,
     <<{"VMULAQ"}, <<DestMask, Dst("zero", "VU_ACC"), Src("fs", "VF"), Src("zero", "VU_Q")>>>>,
     <<{"VRGET", "VRNEXT"}, <<DestMask, Dst("ft", "VF")>>>>,
     <<{"VMTIR"}, <<Dst("rt", "VI"), Src("fs", "VF"), BroadcastField>>>>,
     <<{"VIAND"}, <<Dst("fd", "VI"), Src("fs", "VI"), Src("ft", "VI")>>>>,
     <<{"VLQI"}, <<DestMask, Dst("ft", "VF"), Src("fs", "VI")>>>>,
     <<{"VSQI"}, <<DestMask, Src("fs", "VF"), Src("ft", "VI")>>>>,
     <<{"VIADDI"}, <<Dst("ft", "VI"), Src("fs", "VI"), Src("imm5", "IMM")>>>>,
     <<{"QMFC2"}, <<Interlock, Dst("rt", "GPR"), Src("fs", "VF")>>>>,
     <<{"QMTC2"}, <<Interlock, Src("rt", "GPR"), Dst("fs", "VF")>>>>,
     <<{"VSQRT"}, <<Dst("zero", "VU_Q"), Src("ft", "VF"), Src("ft_f", "VF_F")>>>>,
     <<{"VRXOR"}, <<BroadcastField, Src("fs", "VF")>>>>,
     <<{"CTC2"}, <<Interlock, Src("rt", "GPR"), Dst("rd", "VI")>>>>,
     <<{"CFC2"}, <<Interlock, Dst("rt", "GPR"), Src("rd", "VI")>>>>,
     <<{"VCALLMS"}, <<Src("imm15", "VCALLMS_TARGET")>>>>}

\* Kinds that only differ in a broadcast field have one name.
opcode_name(kind) ==
    CASE kind = "VADD_BC" -> "VADD" [] kind = "VSUB_BC" -> "VSUB" [] kind = "VMADD_BC" -> "VMADD" [] kind = "VMSUB_BC" -> "VMSUB"
      [] kind = "VMUL_BC" -> "VMUL" [] kind = "VMINI_BC" -> "VMINI" [] kind = "VMAX_BC" -> "VMAX" [] kind = "VADDA_BC" -> "VADDA"
      [] kind = "VMADDA_BC" -> "VMADDA" [] kind = "VMULA_BC" -> "VMULA" [] kind = "VMSUBA_BC" -> "VMSUBA" [] OTHER -> kind

opcode_rows == integer_opcodes \cup parallel_opcodes \cup float_opcodes \cup vector_opcodes
opcode_steps == [kind \in UNION {r[1] : r \in opcode_rows} |-> (CHOOSE r \in opcode_rows : kind \in r[1])[2]]
-----------------------------------------------------------------------------
(* Instructions.                                                             *)

Instruction(kind) == [kind |-> kind, dst |-> <<>>, src |-> <<>>, dest |-> None, bc |-> None, il |-> None]

\* decode_instruction: what a step takes from the word.
StepValue(field, f) == IF field = "zero" THEN 0 ELSE f[field]

\* The four special registers: two performance counters, Q and ACC.
MAX_SPECIAL == 4
\* The atom of a value.  A label is the word it is at.
StepAtom(decode, value, word_id) ==
    CASE decode \in {"GPR", "FPR", "COP0", "VF", "VI"} -> <<decode, value>>
      [] decode = "PCR" -> <<IF value < MAX_SPECIAL THEN "SPECIAL" ELSE Aborted, value>>
      [] decode \in {"IMM", "VCALLMS_TARGET"} -> <<"imm", value>>
      [] decode = "VU_ACC" -> <<"acc", 0>>
      [] decode = "VU_Q" -> <<"q", 0>>
      [] decode = "BRANCH_TARGET" -> <<"label", word_id + value + 1>>
      [] decode = "VF_F" -> <<"field", value>>

Properties == {"DEST", "BC", "IL"}
\* The operands of an opcode in the list `which'.
Operands(steps, which, f, word_id) ==
    LET Here(step) == step[1] = which /\ step[3] \notin Properties
        mine == SelectSeq(steps, Here)
    IN [i \in DOMAIN mine |-> StepAtom(mine[i][3], StepValue(mine[i][2], f), word_id)]
Property(steps, which, f) ==
    IF \E i \in DOMAIN steps : steps[i][3] = which
    THEN f[(CHOOSE step \in Range(steps) : step[3] = which)[2]] ELSE None

\* A word the linker patches holds no number: its immediate is a symbol or a label.
Linked(i, link) ==
    LET imms == {k \in DOMAIN i.src : i.src[k][1] = "imm"}
        target == <<IF link.kind = "SYM_OFFSET" THEN "sym" ELSE "label", link.to>>
    IN CASE link.kind = "plain" -> i
         [] imms = {} \/ (link.kind = "HI_PTR" /\ i.kind # "LUI") \/ (link.kind = "LO_PTR" /\ i.kind # "ORI") -> Instruction(Aborted)
         [] OTHER -> [i EXCEPT !.src = [k \in DOMAIN i.src |-> IF k \in imms THEN target ELSE i.src[k]]]

decode_instruction(w, link, word_id) ==
    LET Operate(kind, steps, f) ==
            [kind |-> kind, dst |-> Operands(steps, "dst", f, word_id), src |-> Operands(steps, "src", f, word_id),
             dest |-> Property(steps, "DEST", f), bc |-> Property(steps, "BC", f), il |-> Property(steps, "IL", f)]
        Known(kind, f) ==
            IF kind \in {Unknown, Aborted} THEN Instruction(kind) ELSE Linked(Operate(kind, opcode_steps[kind], f), link)
        OfFields(f) == Known(decode_opcode(f), f)
    IN OfFields(OpcodeFields(w))

Decodes(i) == i.kind \notin {Unknown, Aborted} /\ \A a \in Range(i.src) \cup Range(i.dst) : a[1] # Aborted
-----------------------------------------------------------------------------
(* Text.  An operand is what stands between commas, before a parenthesis or  *)
(* in it; a field of a vector register is written behind the register.       *)

Commas(atoms) ==
    LET starts == {k \in DOMAIN atoms : atoms[k][1] # "field"}
        \* the atoms up to this one that start an operand
        Nth(k) == CHOOSE s \in starts : Cardinality({q \in starts : q <= s}) = k
    IN [k \in 1 .. Cardinality(starts) |->
            [shape |-> "comma", atom |-> atoms[Nth(k)],
             field |-> IF Nth(k) < Len(atoms) /\ atoms[Nth(k) + 1][1] = "field" THEN atoms[Nth(k) + 1][2] ELSE None]]
Operand(shape, atom) == [shape |-> shape, atom |-> atom, field |-> None]

to_string(i) ==
    [name |-> <<opcode_name(i.kind), i.il, i.bc>>, dest |-> i.dest,
     operands |->
        IF i.kind \in stores \cup loads
        THEN LET a == i.dst \o i.src IN <<Operand("comma", a[1]), Operand("before", a[2]), Operand("paren", a[3])>>
        ELSE Commas(i.dst \o i.src)]

\* The opcodes of the parser.
parser_opcodes ==
    UNION {{"DADDIU", "ADDIU", "SLTI", "SLTIU", "DADDU", "SUBU", "ADDU", "DSUBU", "MULT3", "MULTU3", "AND", "OR", "NOR", "XOR", "MOVN", "MOVZ",
            "SLT", "SLTU", "SLL", "SRA", "SRL", "DSLL", "DSLL32", "DSRA", "DSRA32", "DSRL", "DSRL32", "DSRAV", "SLLV", "DSLLV", "DSRLV", "DIV",
            "DIVU", "ORI", "XORI", "ANDI", "LUI", "JALR", "JR", "ADDS", "SUBS", "MULS", "DIVS", "MINS", "MAXS", "MADDS", "MSUBS", "RSQRTS",
            "ABSS", "NEGS", "CVTSW", "CVTWS", "MOVS", "SQRTS", "CLTS", "CLES", "CEQS", "MTC1", "MFC1", "MFLO", "MFHI", "MTLO1", "MFLO1",
            "SYNCL", "PCPYUD", "PEXTUW", "POR", "VMOVE", "VSUB", "MULAS", "MADDAS"},
           stores, loads, branches \ {"BGEZAL"}}

\* The atom that a step reads from an operand, if it can.
ParsedAtom(step, shape, operand) ==
    CASE operand.shape # shape -> <<Aborted, 0>>
      [] step[3] \in {"GPR", "FPR", "VF"} -> IF operand.atom[1] = step[3] THEN operand.atom ELSE <<Aborted, 0>>
      [] step[3] = "IMM" -> operand.atom
      [] step[3] = "BRANCH_TARGET" -> IF operand.atom[1] = "label" THEN operand.atom ELSE <<Aborted, 0>>

parse_single_instruction(text) ==
    LET kind == text.name[1]
        steps == opcode_steps[kind]
        memory == kind \in stores \cup loads
        Kept(step) == step[3] # "DEST"
        read == SelectSeq(steps, Kept)
        shape(k) == IF memory /\ k = 3 THEN "paren" ELSE IF memory /\ k = 2 THEN "before" ELSE "comma"
        atoms == [k \in DOMAIN read |-> ParsedAtom(read[k], shape(k), text.operands[k])]
        From(which) == LET mine == {k \in DOMAIN read : read[k][1] = which}
                           first == Cardinality(DOMAIN read \ mine)
                       IN IF which = "dst" THEN SubSeq(atoms, 1, Cardinality(mine)) ELSE SubSeq(atoms, first + 1, Len(atoms))
    IN IF text.name \notin {<<k, None, None>> : k \in parser_opcodes} THEN Instruction(Unknown)
       ELSE IF Len(text.operands) # Len(read) THEN Instruction(Aborted)
       ELSE [Instruction(kind) EXCEPT !.dst = From("dst"), !.src = From("src"), !.dest = text.dest]
-----------------------------------------------------------------------------
(* A processor for these instructions, as far as the decompiler gives them a *)
(* meaning: what an operation of the decompiler is compared with.  Numbers   *)
(* are scaled: a register has 16 bits for 64, a word 8 for 32, an immediate  *)
(* 4 for 16; a float is a word.  Float arithmetic and memory are not         *)
(* interpreted.                                                              *)

WordBits == 8
ImmBits == 4
WordMod == 2 ^ WordBits
RegMod == WordMod * WordMod

Signed(x, mod) == IF x % mod < mod \div 2 THEN x % mod ELSE (x % mod) - mod
Sext(x) == Signed(x, WordMod) % RegMod
Complement(x) == RegMod - 1 - x
Shl(x, n) == (x % 2 ^ (16 - n)) * 2 ^ n
Shr(x, n) == x \div 2 ^ n
Sar(x, n) == (Signed(x, RegMod) \div 2 ^ n) % RegMod
Abs(a) == IF a < 0 THEN -a ELSE a
Quotient(a, b) == IF b = 0 THEN 0 ELSE IF (a < 0) = (b < 0) THEN Abs(a) \div Abs(b) ELSE -(Abs(a) \div Abs(b))
Remainder(a, b) == a - b * Quotient(a, b)
Lesser(a, b) == IF a < b THEN a ELSE b
Greater(a, b) == IF a < b THEN b ELSE a
SignedReg(x) == Signed(x, RegMod)
SignedWord(x) == Signed(x, WordMod)

\* Float operations: a different number for every operation.
Float2 == [DIV_S |-> 3, SUB_S |-> 5, ADD_S |-> 7, MUL_S |-> 11, MIN_S |-> 13, MAX_S |-> 17]
Float1 == [FLOAT_TO_INT |-> 19, INT_TO_FLOAT |-> 23, ABS_S |-> 29, NEG_S |-> 31, SQRT_S |-> 37]
FloatOp(code, a, b) == (code * a + 41 * b + 3 * code) % WordMod
Mul(a, b) == FloatOp(Float2["MUL_S"], a, b)
Add(a, b) == FloatOp(Float2["ADD_S"], a, b)

\* What a load of `size' bytes finds.
Memory(size, address) == (37 * (address % RegMod) + 11 * size + 5) % (IF size <= 4 THEN 4 ^ size ELSE RegMod)
Loaded(size, kind, address) ==
    CASE kind = "SIGNED" -> Signed(Memory(size, address), 4 ^ size) % RegMod
      [] kind = "VECTOR_FLOAT" -> Memory(size, address) % WordMod
      [] OTHER -> Memory(size, address)
Stored(size, address, value) == <<"store", size, address % RegMod, value % (IF size <= 4 THEN 4 ^ size ELSE RegMod)>>

\* A vector register is the number of its x, y and z, and its w.
Xyz(v) == v \div 16
W(v) == v % 16
Lanes(xyz, w) == (xyz % 16) * 16 + w
-----------------------------------------------------------------------------
(* A machine is its registers and what it did elsewhere.                     *)

Gpr(n) == <<"GPR", n>>
s7 == Gpr(23)
fp == Gpr(30)
sp == Gpr(29)
Static(label) == 40 + label
Temps == {Gpr(n) : n \in {1, 3} \cup 4 .. 15 \cup {24, 25}}

Gprs == {Gpr(n) : n \in {0, 1, 2, 3, 4, 5, 22, 23, 25, 29, 30, 31}}
Fprs == {<<"FPR", n>> : n \in 0 .. 5}
Vfs == {<<"VF", n>> : n \in {0, 1, 2, 4, 5, 6}}
Hidden == {<<c, 0>> : c \in {"HI", "LO", "LO1", "FCC", "ACC"}}
Process == 90

Machine(a0, a1) ==
    [reg |-> [r \in Gprs \cup Fprs \cup Vfs \cup Hidden |->
                CASE r \in {Gpr(0), <<"FCC", 0>>} -> 0 [] r = Gpr(4) -> a0 [] r = Gpr(5) -> a1 [] r = Gpr(3) -> 1234 [] r = s7 -> 20 [] r = fp -> 16
                  [] r = sp -> 300 [] r = Gpr(22) -> Process [] r = <<"VF", 0>> -> 1
                  [] r[1] = "FPR" -> (a0 + 3 * r[2]) % WordMod [] OTHER -> 50 + 7 * r[2]],
     out |-> <<>>, call |-> <<>>]

Set(m, r, x) == IF r = Gpr(0) THEN m ELSE [m EXCEPT !.reg[r] = x]
Out(m, event) == [m EXCEPT !.out = Append(@, event)]
\* The function called sets v0 and overwrites temporary registers; one that is
\* called through s6 suspends the process and restores s6.
Called(m, target) ==
    [m EXCEPT !.out = Append(@, <<"call", target>>), !.call = <<>>,
              !.reg = [r \in DOMAIN @ |-> IF r = Gpr(2) THEN (target + 9) % RegMod ELSE IF r \in Temps THEN 999 ELSE IF r = Gpr(22) THEN Process ELSE @[r]]]
-----------------------------------------------------------------------------
(* Instructions.  relative: the labels that lui and ori load are offsets     *)
(* from fp.                                                                  *)

Label(n, relative) == IF relative THEN Static(n) - 16 ELSE Static(n)

\* A load or store of symbol n, of a label or at an offset from a register.
Address(m, offset, base) ==
    CASE offset[1] = "sym" -> m.reg[s7] + offset[2]
      [] offset[1] = "label" -> Static(offset[2])
      [] OTHER -> m.reg[base] + offset[2]

Arith(kind, x, y) ==
    CASE kind \in {"OR", "POR", "ORI"} -> x | y [] kind \in {"AND", "ANDI"} -> x & y [] kind \in {"XOR", "XORI"} -> x ^^ y
      [] kind = "NOR" -> Complement(x | y) [] kind \in {"DADDU", "DADDIU"} -> (x + y) % RegMod [] kind = "DSUBU" -> (x - y) % RegMod
      [] kind \in {"ADDU", "ADDIU"} -> Sext(x + y) [] kind = "SUBU" -> Sext(x - y)
      [] kind \in {"SLT", "SLTI"} -> IF SignedReg(x) < SignedReg(y) THEN 1 ELSE 0
      [] kind \in {"SLTU", "SLTIU"} -> IF x < y THEN 1 ELSE 0
      [] kind \in {"MULT3", "MULTU3"} -> Sext(SignedWord(x) * SignedWord(y)) [] kind = "PCPYLD" -> y
      [] kind = "DSLL" -> Shl(x, y % 16) [] kind = "DSRL" -> Shr(x, y % 16) [] kind = "DSRA" -> Sar(x, y % 16)
      [] kind = "DSLLV" -> Shl(x, y % 16) [] kind = "DSRLV" -> Shr(x, y % 16) [] kind = "DSRAV" -> Sar(x, y % 16)
      [] kind = "DSLL32" -> Shl(x, (y + WordBits) % 16) [] kind = "DSRL32" -> Shr(x, (y + WordBits) % 16) [] kind = "DSRA32" -> Sar(x, (y + WordBits) % 16)
      [] kind = "SLL" -> Sext(Shl(x, y % WordBits)) [] kind = "SRA" -> (SignedWord(x) \div 2 ^ y) % RegMod
Integer == {"OR", "POR", "ORI", "AND", "ANDI", "XOR", "XORI", "NOR", "DADDU", "DADDIU", "DSUBU", "ADDU", "ADDIU", "SUBU", "SLT", "SLTI", "SLTU",
            "SLTIU", "MULT3", "MULTU3", "PCPYLD", "DSLL", "DSRL", "DSRA", "DSLLV", "DSRLV", "DSRAV", "DSLL32", "DSRL32", "DSRA32", "SLL", "SRA"}
Loads == [LWC1 |-> <<4, "FLOAT">>, LB |-> <<1, "SIGNED">>, LBU |-> <<1, "UNSIGNED">>, LHU |-> <<2, "UNSIGNED">>, LH |-> <<2, "SIGNED">>,
          LW |-> <<4, "SIGNED">>, LWU |-> <<4, "UNSIGNED">>, LD |-> <<8, "UNSIGNED">>, LQ |-> <<16, "UNSIGNED">>, LQC2 |-> <<16, "VECTOR_FLOAT">>]
Stores == [SB |-> 1, SH |-> 2, SW |-> 4, SD |-> 8, SQ |-> 16, SQC2 |-> 16, SWC1 |-> 4]
FloatKind == [DIVS |-> "DIV_S", SUBS |-> "SUB_S", ADDS |-> "ADD_S", MULS |-> "MUL_S", MINS |-> "MIN_S", MAXS |-> "MAX_S"]
FloatKind1 == [CVTWS |-> "FLOAT_TO_INT", CVTSW |-> "INT_TO_FLOAT", ABSS |-> "ABS_S", NEGS |-> "NEG_S", SQRTS |-> "SQRT_S"]
Taken(kind, x, y) ==
    CASE kind \in {"BEQ", "BEQL"} -> x = y [] kind \in {"BNE", "BNEL"} -> x # y [] kind \in {"BLTZ", "BLTZL"} -> SignedReg(x) < 0
      [] kind \in {"BGEZ", "BGEZL"} -> SignedReg(x) >= 0 [] kind \in {"BGTZ", "BGTZL"} -> SignedReg(x) > 0 [] kind = "BLEZ" -> SignedReg(x) <= 0
Branches == {"BEQ", "BEQL", "BNE", "BNEL", "BLTZ", "BLTZL", "BGEZ", "BGEZL", "BGTZ", "BGTZL", "BLEZ"}

Execute(i, m, relative) ==
    LET x == m.reg[i.src[1]]
        y == m.reg[i.src[2]]
        \* the second operand of an integer instruction
        SecondOperand(a) ==
            CASE a[1] = "imm" -> a[2] % RegMod [] a[1] = "sym" -> a[2]
              [] a[1] = "label" -> IF i.kind = "ORI" THEN Label(a[2], relative) % 16 ELSE Static(a[2]) - 16
              [] OTHER -> m.reg[a]
        To(value) == Set(m, i.dst[1], value)
        Hide(name, value) == [m EXCEPT !.reg[<<name, 0>>] = value]
    IN CASE i.kind = "LW" /\ i.src = <<<<"imm", 2>>, Gpr(0)>> -> Out(m, <<"trap", i.kind>>)
         \* not aligned
         [] i.kind = "SD" /\ Address(m, i.src[2], i.src[3]) = 2 -> Out(m, <<"trap", i.kind>>)
         [] i.kind \in Integer -> To(Arith(i.kind, x, SecondOperand(i.src[2])))
         [] i.kind = "LUI" -> To(Sext(16 * (IF i.src[1][1] = "imm" THEN i.src[1][2] ELSE Label(i.src[1][2], relative) \div 16)))
         [] i.kind = "MOVN" -> IF y # 0 THEN To(x) ELSE m
         [] i.kind = "MOVZ" -> IF y = 0 THEN To(x) ELSE m
         [] i.kind \in {"MTC1", "QMTC2"} -> To(x % WordMod)
         [] i.kind = "MFC1" -> To(Sext(x))
         [] i.kind = "MOVS" -> To(x)
         [] i.kind \in DOMAIN Loads -> To(Loaded(Loads[i.kind][1], Loads[i.kind][2], Address(m, i.src[1], i.src[2])))
         [] i.kind \in DOMAIN Stores -> Out(m, Stored(Stores[i.kind], Address(m, i.src[2], i.src[3]), x))
         [] i.kind \in DOMAIN FloatKind -> To(FloatOp(Float2[FloatKind[i.kind]], x, y))
         [] i.kind \in DOMAIN FloatKind1 -> To(FloatOp(Float1[FloatKind1[i.kind]], x, 0))
         [] i.kind = "CEQS" -> Hide("FCC", IF x = y THEN 1 ELSE 0)
         [] i.kind = "CLTS" -> Hide("FCC", IF SignedWord(x) < SignedWord(y) THEN 1 ELSE 0)
         [] i.kind = "CLES" -> Hide("FCC", IF SignedWord(x) <= SignedWord(y) THEN 1 ELSE 0)
         [] i.kind \in {"BC1T", "BC1TL"} -> Out(m, <<"branch", m.reg[<<"FCC", 0>>] = 1, i.src[1][2]>>)
         [] i.kind \in {"BC1F", "BC1FL"} -> Out(m, <<"branch", m.reg[<<"FCC", 0>>] = 0, i.src[1][2]>>)
         [] i.kind \in Branches -> Out(m, <<"branch", Taken(i.kind, x, IF Len(i.src) = 3 THEN y ELSE 0), i.src[Len(i.src)][2]>>)
         [] i.kind = "DIV" -> [m EXCEPT !.reg[<<"LO", 0>>] = Sext(Quotient(SignedWord(x), SignedWord(y))),
                                        !.reg[<<"HI", 0>>] = Sext(Remainder(SignedWord(x), SignedWord(y)))]
         [] i.kind = "DIVU" -> [m EXCEPT !.reg[<<"LO", 0>>] = Sext(Quotient(x % WordMod, y % WordMod)),
                                         !.reg[<<"HI", 0>>] = Sext(Remainder(x % WordMod, y % WordMod))]
         [] i.kind = "MFLO" -> To(m.reg[<<"LO", 0>>]) [] i.kind = "MFHI" -> To(m.reg[<<"HI", 0>>])
         [] i.kind = "MFLO1" -> To(m.reg[<<"LO1", 0>>]) [] i.kind = "MTLO1" -> Hide("LO1", x)
         [] i.kind = "JALR" -> [To(777) EXCEPT !.call = <<x>>]
         [] i.kind = "MULAS" -> Hide("ACC", Mul(x, y)) [] i.kind = "MADDAS" -> Hide("ACC", Add(m.reg[<<"ACC", 0>>], Mul(x, y)))
         [] i.kind = "MADDS" -> To(Add(m.reg[<<"ACC", 0>>], Mul(x, y)))
         [] i.kind = "VMOVE" -> To(Lanes(Xyz(m.reg[i.dst[1]]), W(x)))
         [] i.kind = "VADD_BC" -> To(Lanes(Xyz(m.reg[i.dst[1]]), W(x) + Xyz(y)))
         [] i.kind = "VADD" -> To(Lanes(Add(Xyz(x), Xyz(y)), W(m.reg[i.dst[1]])))
         [] i.kind = "VSUB" -> To(Lanes(FloatOp(Float2["SUB_S"], Xyz(x), Xyz(y)), W(m.reg[i.dst[1]])))
         [] i.kind = "VMUL_BC" -> To(Lanes(Mul(Xyz(x), Xyz(y)), W(m.reg[i.dst[1]])))

\* The instruction behind a call runs before it.
Step(i, m, relative) ==
    LET Then(n) == IF m.call # <<>> THEN Called(n, m.call[1]) ELSE n IN Then(Execute(i, m, relative))
Run(s, m, relative) ==
    LET After[k \in 0 .. Len(s)] == IF k = 0 THEN m ELSE Step(s[k], After[k - 1], relative) IN After[Len(s)]
=============================================================================
