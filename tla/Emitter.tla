------------------------------ MODULE Emitter ------------------------------
(***************************************************************************)
(* The x86-64 instructions that the GOAL compiler emits: how Instruction   *)
(* lays out prefixes, opcode, ModRM, SIB, displacement and immediate       *)
(* (goalc/emitter/Instruction.h), and which instruction each function of   *)
(* IGen asks for (IGen.h).  The processor that reads the bytes is last.    *)
(***************************************************************************)
EXTENDS Integers, Sequences, FiniteSets, Task

CONSTANTS
    Registers,      \* registers in the order of their encodings
    Displacements   \* offsets, of 32 bits

ASSUME EmitterAssumption ==
    /\ Registers \subseteq 0 .. 15
    /\ \A offset \in Displacements : offset \in Int /\ -2147483647 - 1 <= offset /\ offset <= 2147483647

RSP == 4
RBX == 3
None == -1

\* Register::hw_id is 0 .. 15; an encoding has three bits for it here, and
\* the fourth in a prefix.
Low3(r) == r % 8
Ext(r) == r \div 8

Flag(b) == IF b THEN 1 ELSE 0

\* ModRM, SIB and REX bytes.
ModRM(mod, reg, rm) == mod * 64 + reg * 8 + rm
SIB(index, base) == index * 8 + base
REX(w, r, x, b) == 64 + w * 8 + r * 4 + x * 2 + b

\* VEX3::emit and VEX2::emit.
VEX3(w, r, x, b, map, vvvv, pp) ==
    <<196, (1 - r) * 128 + (1 - x) * 64 + (1 - b) * 32 + map, w * 128 + (15 - vvvv) * 8 + pp>>
VEX2(r, vvvv, pp) == <<197, (1 - r) * 128 + (15 - vvvv) * 8 + pp>>

\* A new Instruction with its opcode bytes.
Instruction(op) ==
    [op |-> op, rex |-> None, vex |-> <<>>, modrm |-> None, sib |-> None,
     disp |-> <<>>, imm |-> <<>>, valid |-> TRUE]

\* Imm: the low bytes of a value of 32 bits, least significant first.
Imm(size, value) ==
    [i \in 1 .. size |-> IF i > 4 THEN 255 * Flag(value < 0) ELSE (value \div <<1, 256, 65536, 16777216>>[i]) % 256]

\* A REX byte is set when one of its bits is.
WithRex(instr, w, r, x, b) ==
    IF w + r + x + b = 0 THEN instr ELSE [instr EXCEPT !.rex = REX(w, r, x, b)]

\* The VEX prefix takes two bytes where they can say it.
WithVex(instr, v, w, r, x, b) ==
    [instr EXCEPT !.vex = IF b + w + x > 0 \/ v.map # 1 THEN VEX3(w, r, x, b, v.map, v.reg, v.pp)
                                                        ELSE VEX2(r, v.reg, v.pp)]

NoVex == [map |-> 0, reg |-> 0, pp |-> 0]

\* The variants of set_modrm_and_rex differ in the prefix only.
WithPrefix(instr, v, w, r, x, b) ==
    IF v = NoVex THEN WithRex(instr, w, r, x, b) ELSE WithVex(instr, v, w, r, x, b)

-----------------------------------------------------------------------------
\* set_modrm_and_rex, set_vex_modrm_and_rex: two registers.
set_modrm_and_rex(instr, v, reg, rm, w) ==
    WithPrefix([instr EXCEPT !.modrm = ModRM(3, Low3(reg), Low3(rm))], v, w, Ext(reg), 0, Ext(rm))

\* Which of two address registers becomes the base; index 4 means no index.
WithIndex(instr, v, reg, mod, index, base, w) ==
    WithPrefix([instr EXCEPT !.modrm = ModRM(mod, Low3(reg), 4), !.sib = SIB(Low3(index), Low3(base)),
                             !.valid = Low3(index) # 4],
               v, w, Ext(reg), Ext(index), Ext(base))

\* set_(vex_)modrm_and_rex_for_reg_plus_reg_plus_s8 and _s32.
reg_plus_reg_plus_disp(instr, v, reg, addr1, addr2, size, offset, w) ==
    [ (IF Low3(addr1) = 4 THEN WithIndex(instr, v, reg, IF size = 1 THEN 1 ELSE 2, addr2, addr1, w)
                         ELSE WithIndex(instr, v, reg, IF size = 1 THEN 1 ELSE 2, addr1, addr2, w))
      EXCEPT !.disp = Imm(size, offset) ]

\* Mutant: rbp is taken for a base without a displacement.
reg_plus_reg_addr_NoFlip(instr, v, reg, addr1, addr2, w) ==
    IF Low3(addr1) = 4 THEN WithIndex(instr, v, reg, 0, addr2, addr1, w)
    ELSE WithIndex(instr, v, reg, 0, addr1, addr2, w)

\* set_(vex_)modrm_and_rex_for_reg_plus_reg_addr: rbp and r13 cannot be a base
\* without a displacement.
reg_plus_reg_addr(instr, v, reg, addr1, addr2, w) ==
    IF Low3(addr1) = 5 /\ Low3(addr2) = 5
    THEN [WithIndex(instr, v, reg, 1, addr1, addr2, w) EXCEPT !.disp = Imm(1, 0)]
    ELSE IF Low3(addr1) = 4 \/ Low3(addr2) = 5 THEN WithIndex(instr, v, reg, 0, addr2, addr1, w)
    ELSE WithIndex(instr, v, reg, 0, addr1, addr2, w)

\* set_modrm_and_rex_for_reg_addr.
reg_addr(instr, reg, rm, w) ==
    LET plain == [instr EXCEPT !.modrm = ModRM(IF Low3(rm) = 5 THEN 1 ELSE 0, Low3(reg), Low3(rm)),
                               !.sib = IF Low3(rm) = 4 THEN SIB(4, 4) ELSE None,
                               !.disp = IF Low3(rm) = 5 THEN Imm(1, 0) ELSE <<>>]
    IN WithRex(plain, w, Ext(reg), 0, Ext(rm))

\* set_modrm_and_rex_for_rip_plus_s32, and with VEX.
rip_plus_s32(instr, v, reg, offset, w) ==
    WithPrefix([instr EXCEPT !.modrm = ModRM(0, Low3(reg), 5), !.disp = Imm(4, offset)], v, w, Ext(reg), 0, 0)

\* set_modrm_rex_sib_for_reg_reg_disp, followed by set or set_disp.
reg_reg_disp(instr, reg, rm, size, offset, w) ==
    WithRex([instr EXCEPT !.modrm = ModRM(IF size = 1 THEN 1 ELSE 2, Low3(reg), 4),
                          !.sib = SIB(4, Low3(rm)), !.disp = Imm(size, offset)],
            w, Ext(reg), 0, Ext(rm))

\* swap_op0_rex: a prefix that is the first opcode byte goes before REX.
swap_op0_rex(instr) ==
    IF instr.rex = None THEN instr
    ELSE [instr EXCEPT !.rex = instr.op[1], !.op = <<instr.rex>> \o Tail(instr.op)]

add_rex(instr) == IF instr.rex = None THEN [instr EXCEPT !.rex = REX(0, 0, 0, 0)] ELSE instr

Byte(b) == IF b = None THEN <<>> ELSE <<b>>

\* emit and length.
emit(instr) ==
    instr.vex \o Byte(instr.rex) \o instr.op \o Byte(instr.modrm) \o Byte(instr.sib) \o instr.disp \o instr.imm

\* offset_of_disp: where the linker patches a displacement.
offset_of_disp(instr) ==
    Len(instr.vex) + Flag(instr.rex # None) + Len(instr.op) + Flag(instr.modrm # None) + Flag(instr.sib # None)

-----------------------------------------------------------------------------
(* IGen.  A function is a row: the opcode bytes, REX.W, and what it sets    *)
(* besides; "how" names the operands that it takes.                         *)

Row(name, how, op, w) == [name |-> name, how |-> how, op |-> op, w |-> w, ext |-> 0, imm |-> 0,
                          v |-> NoVex, byte |-> FALSE]
Swapped(row) == row.op[1] \in {102, 243} /\ Len(row.op) > 1
Slash(name, op, ext, imm, w) == [Row(name, "digit", op, w) EXCEPT !.ext = ext, !.imm = imm]
Avx(name, how, op, pp) == [Row(name, how, <<op>>, 0) EXCEPT !.v = [map |-> 1, reg |-> 0, pp |-> pp]]

Moves == {
    Row("mov_gpr64_gpr64", "rm,reg", <<137>>, 1),
    [Row("mov_gpr64_u64", "opcode", <<184>>, 1) EXCEPT !.imm = 8],
    [Row("mov_gpr64_u32", "opcode", <<184>>, 0) EXCEPT !.imm = 4],
    Slash("mov_gpr64_s32", <<199>>, 0, 4, 1),
    Row("movd_gpr32_xmm32", "rm,reg", <<102, 15, 126>>, 0), Row("movd_xmm32_gpr32", "reg,rm", <<102, 15, 110>>, 0),
    Row("movq_gpr64_xmm64", "rm,reg", <<102, 15, 126>>, 1), Row("movq_xmm64_gpr64", "reg,rm", <<102, 15, 110>>, 1),
    Row("mov_xmm32_xmm32", "reg,rm", <<243, 15, 16>>, 0) }

\* Accesses to GOAL memory, at addr1 + addr2 + offset.
load8s  == Row("load8s", "reg,mem", <<15, 190>>, 1)
store8  == [Row("store8", "mem,reg", <<136>>, 0) EXCEPT !.byte = TRUE]
load8u  == Row("load8u", "reg,mem", <<15, 182>>, 1)
load16s == Row("load16s", "reg,mem", <<15, 191>>, 1)
store16 == Row("store16", "mem,reg", <<102, 137>>, 0)
load16u == Row("load16u", "reg,mem", <<15, 183>>, 1)
load32s == Row("load32s", "reg,mem", <<99>>, 1)
store32 == Row("store32", "mem,reg", <<137>>, 0)
load32u == Row("load32u", "reg,mem", <<139>>, 0)
load64  == Row("load64", "reg,mem", <<139>>, 1)
store64 == Row("store64", "mem,reg", <<137>>, 1)
store32_xmm32 == Row("store32_xmm32", "mem,reg", <<243, 15, 17>>, 0)
load32_xmm32  == Row("load32_xmm32", "reg,mem", <<243, 15, 16>>, 0)
store128_xmm128 == Row("store128", "mem,reg", <<102, 15, 127>>, 0)
load128_xmm128  == Row("load128", "reg,mem", <<102, 15, 111>>, 0)
loadvf  == Avx("loadvf", "reg,mem", 40, 0)
storevf == Avx("storevf", "mem,reg", 41, 0)
lea     == Row("lea", "reg,mem", <<141>>, 1)

\* load_goal_gpr, static_load; store_goal_gpr, static_store.
load_goal_gpr(size, sign_extend) ==
    CASE size = 1 -> IF sign_extend THEN load8s ELSE load8u
      [] size = 2 -> IF sign_extend THEN load16s ELSE load16u
      [] size = 4 -> IF sign_extend THEN load32s ELSE load32u
      [] OTHER -> load64
store_goal_gpr(size) == CASE size = 1 -> store8 [] size = 2 -> store16 [] size = 4 -> store32 [] OTHER -> store64

Stack == {
    Row("push_gpr64", "opcode", <<80>>, 0), Row("pop_gpr64", "opcode", <<88>>, 0),
    Slash("call_r64", <<255>>, 2, 0, 0), Slash("jmp_r64", <<255>>, 4, 0, 0) }

IntegerMath == {
    Slash("sub_gpr64_imm8s", <<131>>, 5, 1, 1), Slash("sub_gpr64_imm32s", <<129>>, 5, 4, 1),
    Slash("add_gpr64_imm8s", <<131>>, 0, 1, 1), Slash("add_gpr64_imm32s", <<129>>, 0, 4, 1),
    Row("add_gpr64_gpr64", "rm,reg", <<1>>, 1), Row("sub_gpr64_gpr64", "rm,reg", <<41>>, 1),
    Row("imul_gpr32_gpr32", "reg,rm", <<15, 175>>, 0), Row("imul_gpr64_gpr64", "reg,rm", <<15, 175>>, 1),
    Slash("idiv_gpr32", <<247>>, 7, 0, 0), Slash("unsigned_div_gpr32", <<247>>, 6, 0, 0),
    Row("movsx_r64_r32", "reg,rm", <<99>>, 1), Row("cmp_gpr64_gpr64", "reg,rm", <<59>>, 1) }

Logic == {
    Row("or_gpr64_gpr64", "reg,rm", <<11>>, 1), Row("and_gpr64_gpr64", "reg,rm", <<35>>, 1),
    Row("xor_gpr64_gpr64", "reg,rm", <<51>>, 1), Slash("not_gpr64", <<247>>, 2, 0, 1),
    Slash("shl_gpr64_cl", <<211>>, 4, 0, 1), Slash("shr_gpr64_cl", <<211>>, 5, 0, 1),
    Slash("sar_gpr64_cl", <<211>>, 7, 0, 1), Slash("shl_gpr64_u8", <<193>>, 4, 1, 1),
    Slash("shr_gpr64_u8", <<193>>, 5, 1, 1), Slash("sar_gpr64_u8", <<193>>, 7, 1, 1) }

FloatMath == {
    Row("cmp_flt_flt", "reg,rm", <<15, 46>>, 0), Row("sqrts_xmm", "reg,rm", <<243, 15, 81>>, 0),
    Row("mulss_xmm_xmm", "reg,rm", <<243, 15, 89>>, 0), Row("divss_xmm_xmm", "reg,rm", <<243, 15, 94>>, 0),
    Row("subss_xmm_xmm", "reg,rm", <<243, 15, 92>>, 0), Row("addss_xmm_xmm", "reg,rm", <<243, 15, 88>>, 0),
    Row("minss_xmm_xmm", "reg,rm", <<243, 15, 93>>, 0), Row("maxss_xmm_xmm", "reg,rm", <<243, 15, 95>>, 0),
    Row("int32_to_float", "reg,rm", <<243, 15, 42>>, 0), Row("float_to_int32", "reg,rm", <<243, 15, 44>>, 1) }

VectorMath == {
    [Avx("blend_vf", "reg,vex,rm", 12, 1) EXCEPT !.v.map = 3, !.imm = 1],
    [Avx("swizzle_vf", "reg,vex,rm", 198, 0) EXCEPT !.imm = 1],
    Avx("xor_vf", "reg,vex,rm", 87, 0), Avx("sub_vf", "reg,vex,rm", 92, 0), Avx("add_vf", "reg,vex,rm", 88, 0),
    Avx("mul_vf", "reg,vex,rm", 89, 0), Avx("max_vf", "reg,vex,rm", 95, 0), Avx("min_vf", "reg,vex,rm", 93, 0),
    Avx("div_vf", "reg,vex,rm", 94, 0), Avx("sqrt_vf", "reg,rm", 81, 0),
    Avx("itof_vf", "reg,rm", 91, 0), Avx("ftoi_vf", "reg,rm", 91, 2) }

Integer128 == {
    [Avx("pw_sra", "vex,rm", 114, 1) EXCEPT !.ext = 4, !.imm = 1],
    [Avx("pw_srl", "vex,rm", 114, 1) EXCEPT !.ext = 2, !.imm = 1],
    [Avx("pw_sll", "vex,rm", 114, 1) EXCEPT !.ext = 6, !.imm = 1],
    Avx("pextlw_swapped", "reg,vex,rm", 98, 1), Avx("pextuw_swapped", "reg,vex,rm", 106, 1),
    Avx("vpunpcklqdq", "reg,vex,rm", 108, 1), Avx("pcpyud", "reg,vex,rm", 109, 1),
    Avx("pceqw", "reg,vex,rm", 118, 1), Avx("vpsubd", "reg,vex,rm", 250, 1),
    [Avx("vpsrldq", "vex,rm", 115, 1) EXCEPT !.ext = 3, !.imm = 1],
    [Avx("vpslldq", "vex,rm", 115, 1) EXCEPT !.ext = 7, !.imm = 1],
    [Avx("vpshuflw", "reg,rm", 112, 3) EXCEPT !.imm = 1], [Avx("vpshufhw", "reg,rm", 112, 2) EXCEPT !.imm = 1] }

\* Conditional jumps, patched once their target is known; and the ones without operands.
JumpForms == {[Row("j", "none", <<15, cc>>, 0) EXCEPT !.imm = 4] : cc \in 130 .. 135 \cup 140 .. 143}
         \cup {[Row("jmp_32", "none", <<233>>, 0) EXCEPT !.imm = 4]}
Plain == { Row("ret", "none", <<195>>, 0), Row("cdq", "none", <<153>>, 0), Row("nop", "none", <<144>>, 0),
           Row("nop_vf", "none", <<217, 208>>, 0), Row("wait_vf", "none", <<155>>, 0) }

RegisterForms == Moves \cup Stack \cup IntegerMath \cup Logic \cup FloatMath \cup VectorMath
                 \cup Integer128 \cup JumpForms \cup Plain

\* What a function of IGen builds from a destination and two sources; the
\* value of an immediate does not matter to its layout.
OnRegisters(row, dst, src1, src2) ==
    LET i == [Instruction(row.op) EXCEPT !.imm = Imm(row.imm, 7)]
        v == IF row.v = NoVex THEN NoVex
             ELSE [row.v EXCEPT !.reg = CASE row.how = "reg,vex,rm" -> src1
                                          [] row.how = "vex,rm" -> dst
                                          [] OTHER -> 0]
        built == CASE row.how = "rm,reg"     -> set_modrm_and_rex(i, v, src1, dst, row.w)
                   [] row.how = "reg,rm"     -> set_modrm_and_rex(i, v, dst, src1, row.w)
                   [] row.how = "reg,vex,rm" -> set_modrm_and_rex(i, v, dst, src2, row.w)
                   [] row.how = "vex,rm"     -> set_modrm_and_rex(i, v, row.ext, src1, row.w)
                   [] row.how = "digit"      -> set_modrm_and_rex(i, v, row.ext, dst, row.w)
                   [] row.how = "none"       -> i
                   [] OTHER                  -> WithRex([i EXCEPT !.op = <<row.op[1] + Low3(dst)>>], row.w, 0, 0, Ext(dst))
    IN IF Swapped(row) THEN swap_op0_rex(built) ELSE built

\* mov_vf_vf: the encoding that needs the shorter prefix.
mov_vf_vf(dst, src) ==
    LET v == [map |-> 1, reg |-> 0, pp |-> 0] IN
    IF src >= 8 /\ dst < 8 THEN set_modrm_and_rex(Instruction(<<41>>), v, src, dst, 0)
                           ELSE set_modrm_and_rex(Instruction(<<40>>), v, dst, src, 0)

\* The choice that load_goal_gpr, store_goal_gpr and the others make.
OffsetSize(offset) == IF offset = 0 THEN 0 ELSE IF offset \in -128 .. 127 THEN 1 ELSE 4

Finish(row, value, instr) ==
    LET swapped == IF Swapped(row) THEN swap_op0_rex(instr) ELSE instr
    IN IF row.byte /\ value > RBX THEN add_rex(swapped) ELSE swapped

\* addr1 + addr2 + offset; the functions assert that neither register is RSP
\* and that they differ.
OnGoalMemory(row, value, addr1, addr2, offset) ==
    Finish(row, value,
           IF OffsetSize(offset) = 0 THEN reg_plus_reg_addr(Instruction(row.op), row.v, value, addr1, addr2, row.w)
           ELSE reg_plus_reg_plus_disp(Instruction(row.op), row.v, value, addr1, addr2, OffsetSize(offset),
                                       offset, row.w))

\* base + offset: load128_xmm128_reg_offset and its like have a form without
\* an offset, lea and the floats do not.
OnBase(row, value, base, offset) ==
    Finish(row, value,
           IF offset = 0 /\ row \in {load128_xmm128, store128_xmm128}
           THEN reg_addr(Instruction(row.op), value, base, row.w)
           ELSE reg_reg_disp(Instruction(row.op), value, base, IF OffsetSize(offset) = 4 THEN 4 ELSE 1, offset, row.w))

\* load64_gpr64_plus_s32 and store64_gpr64_plus_s32, of the stack.
OnStackOffset(row, value, base, offset) == reg_reg_disp(Instruction(row.op), value, base, 4, offset, row.w)

\* rip + offset.
OnStatic(row, value, offset) ==
    Finish(row, value, rip_plus_s32(Instruction(row.op), row.v, value, offset, row.w))

-----------------------------------------------------------------------------
(* How an x86-64 processor reads these instructions: the part of the         *)
(* architecture that the GOAL compiler relies on.  External to the           *)
(* repository.                                                               *)

\* The legacy prefixes, as a VEX prefix numbers them.
PrefixOf(b) == CASE b = 102 -> 1 [] b = 243 -> 2 [] b = 242 -> 3 [] OTHER -> 0

\* The bit of a byte that has this weight.
BitOf(n, weight) == (n \div weight) % 2

\* Little endian, two's complement.
Signed(bytes) ==
    LET n == Len(bytes)
        low == [i \in 1 .. n |-> IF i = n /\ bytes[i] >= 128 THEN bytes[i] - 256 ELSE bytes[i]]
    IN IF n = 4 THEN low[1] + low[2] * 256 + low[3] * 65536 + low[4] * 16777216
       ELSE IF n = 1 THEN low[1] ELSE 0

\* The prefix bytes: where the opcode begins, and the bits they hold.
PrefixBytes(b) ==
    LET p == PrefixOf(b[1])
        at == IF p = 0 THEN 1 ELSE 2
    IN IF b[1] = 196
       THEN [at |-> 4, vex |-> TRUE, rex |-> TRUE, pp |-> b[3] % 4, map |-> b[2] % 32, W |-> BitOf(b[3], 128),
             R |-> 1 - BitOf(b[2], 128), X |-> 1 - BitOf(b[2], 64), B |-> 1 - BitOf(b[2], 32), vvvv |-> 15 - ((b[3] \div 8) % 16)]
       ELSE IF b[1] = 197
       THEN [at |-> 3, vex |-> TRUE, rex |-> TRUE, pp |-> b[2] % 4, map |-> 1, W |-> 0,
             R |-> 1 - BitOf(b[2], 128), X |-> 0, B |-> 0, vvvv |-> 15 - ((b[2] \div 8) % 16)]
       ELSE LET rex == b[at] \in 64 .. 79
                op == IF rex THEN at + 1 ELSE at
                map == IF b[op] = 15 THEN 1 ELSE 0
            IN [at |-> op + map, vex |-> FALSE, rex |-> rex, pp |-> p, map |-> map,
                W |-> IF rex THEN BitOf(b[at], 8) ELSE 0, R |-> IF rex THEN BitOf(b[at], 4) ELSE 0,
                X |-> IF rex THEN BitOf(b[at], 2) ELSE 0, B |-> IF rex THEN BitOf(b[at], 1) ELSE 0, vvvv |-> 0]

OpcodeRegister(map, op) == map = 0 /\ op \in 80 .. 95 \cup 184 .. 191
HasModRM(map, op) ==
    /\ ~OpcodeRegister(map, op)
    /\ ~(map = 0 /\ op \in {195, 153, 144, 155, 233}) /\ ~(map = 1 /\ op \in 128 .. 143)

ImmediateSize(map, op, W) ==
    CASE map = 0 /\ op \in 184 .. 191 -> IF W = 1 THEN 8 ELSE 4
      [] map = 0 /\ op \in {199, 129, 233} -> 4
      [] map = 0 /\ op \in {131, 193} -> 1
      [] map = 1 /\ op \in 128 .. 143 -> 4
      [] map = 1 /\ op \in {198, 112, 114, 115} -> 1
      [] map = 3 -> 1
      [] OTHER -> 0

NoRegister == -1

\* The bytes of displacement that follow; without one, base 5 means rip or none.
DispSize(mod, base) == IF mod = 1 THEN 1 ELSE IF mod = 2 \/ (mod = 0 /\ base = 5) THEN 4 ELSE 0

\* The operand of a ModRM byte at position m: a register, or an address.
Operand(b, m, pre) ==
    LET mod == b[m] \div 64
        rm == b[m] % 8
        sib == mod # 3 /\ rm = 4
        index == ((b[m + 1] \div 8) % 8) + 8 * pre.X
        base == IF sib THEN b[m + 1] % 8 ELSE rm
        noBase == mod = 0 /\ base = 5
        size == DispSize(mod, base)
        at == IF sib THEN m + 2 ELSE m + 1
    IN IF mod = 3 THEN [kind |-> "register", register |-> rm + 8 * pre.B, next |-> m + 1]
       ELSE IF at + size - 1 > Len(b) THEN [kind |-> "truncated", next |-> at + size]
       ELSE [kind |-> IF noBase /\ ~sib THEN "rip" ELSE "memory",
             base |-> IF noBase THEN NoRegister ELSE base + 8 * pre.B,
             index |-> IF ~sib \/ index = 4 THEN NoRegister ELSE index,
             disp |-> Signed(SubSeq(b, at, at + size - 1)), dispAt |-> at - 1, next |-> at + size]

\* What the processor makes of a sequence of bytes.
Decode(b) ==
    LET pre == PrefixBytes(b)
        op == b[pre.at]
        has == HasModRM(pre.map, op)
        rm == IF has THEN Operand(b, pre.at + 1, pre)
              ELSE [kind |-> "register", register |-> (op % 8) + 8 * pre.B, next |-> pre.at + 1]
    IN [pp |-> pre.pp, map |-> pre.map, W |-> pre.W, vex |-> pre.vex, vvvv |-> pre.vvvv, rex |-> pre.rex,
        op |-> IF OpcodeRegister(pre.map, op) THEN op - (op % 8) ELSE op,
        reg |-> IF has THEN ((b[pre.at + 1] \div 8) % 8) + 8 * pre.R ELSE 0,
        rm |-> rm, length |-> rm.next - 1 + ImmediateSize(pre.map, op, pre.W)]

\* What a move between a general register and memory does: bytes, extension
\* to 64 bits, direction.
Access(d) ==
    CASE d.map = 1 /\ d.op = 190 /\ d.W = 1 -> <<1, "signed", "load">>
      [] d.map = 1 /\ d.op = 182 /\ d.W = 1 -> <<1, "zero", "load">>
      [] d.map = 1 /\ d.op = 191 /\ d.W = 1 -> <<2, "signed", "load">>
      [] d.map = 1 /\ d.op = 183 /\ d.W = 1 -> <<2, "zero", "load">>
      [] d.map = 0 /\ d.op = 99 /\ d.W = 1 -> <<4, "signed", "load">>
      [] d.map = 0 /\ d.op = 139 /\ d.W = 0 /\ d.pp = 0 -> <<4, "zero", "load">>
      [] d.map = 0 /\ d.op = 139 /\ d.W = 1 -> <<8, "all", "load">>
      [] d.map = 0 /\ d.op = 136 -> <<1, "low", "store">>
      [] d.map = 0 /\ d.op = 137 /\ d.W = 0 -> <<IF d.pp = 1 THEN 2 ELSE 4, "low", "store">>
      [] d.map = 0 /\ d.op = 137 /\ d.W = 1 -> <<8, "low", "store">>
      [] OTHER -> <<0, "other", "other">>

-----------------------------------------------------------------------------
(* Instructions of the emitter, each decoded by the processor.               *)

\* The registers that the functions of IGen take as an address.
Pairs == {p \in Registers \X Registers : p[1] # p[2] /\ p[1] # RSP /\ p[2] # RSP}

Goal(row, size, ext, v, p, off) ==
    [kind |-> "memory", row |-> row, size |-> size, ext |-> ext, reg |-> v, regs |-> {p[1], p[2]}, disp |-> off,
     instr |-> OnGoalMemory(row, v, p[1], p[2], off)]

EmitGoalAccess ==
    /\ task = Asked("access")
    /\ \E v \in Registers, p \in Pairs, off \in Displacements, size \in {1, 2, 4, 8} :
          \/ \E sign \in BOOLEAN :
                task' = Goal(load_goal_gpr(size, sign), size,
                             IF size = 8 THEN "all" ELSE IF sign THEN "signed" ELSE "zero", v, p, off)
          \/ task' = Goal(store_goal_gpr(size), size, "low", v, p, off)

EmitVectorAccess ==
    /\ task = Asked("access")
    /\ \E v \in Registers, p \in Pairs, off \in Displacements :
          \E row \in {load32_xmm32, store32_xmm32, loadvf, storevf} :
              task' = Goal(row, 0, "other", v, p, off)

EmitBaseAccess ==
    /\ task = Asked("access")
    /\ \E v, base \in Registers, off \in Displacements :
          \/ \E row \in {lea, load32_xmm32, store32_xmm32, load128_xmm128, store128_xmm128} :
                task' = [kind |-> "memory", row |-> row, size |-> 0, ext |-> "other", reg |-> v, regs |-> {base},
                         disp |-> off, instr |-> OnBase(row, v, base, off)]
          \/ \E row \in {load64, store64} :
                task' = [kind |-> "memory", row |-> row, size |-> 8, ext |-> IF row = load64 THEN "all" ELSE "low",
                         reg |-> v, regs |-> {base}, disp |-> off, instr |-> OnStackOffset(row, v, base, off)]

EmitStaticAccess ==
    /\ task = Asked("access")
    /\ \E v \in Registers, off \in Displacements :
          \E row \in {load_goal_gpr(size, sign) : size \in {1, 2, 4, 8}, sign \in BOOLEAN}
                     \cup {store_goal_gpr(size) : size \in {1, 2, 4, 8}}
                     \cup {lea, load32_xmm32, store32_xmm32, loadvf} :
              task' = [kind |-> "static", row |-> row, reg |-> v, disp |-> off, instr |-> OnStatic(row, v, off)]

EmitOnRegisters ==
    /\ task = Asked("registers")
    /\ \E dst, src1, src2 \in Registers :
          \/ \E row \in RegisterForms :
                task' = [kind |-> "registers", row |-> row, dst |-> dst, src1 |-> src1, src2 |-> src2,
                         instr |-> OnRegisters(row, dst, src1, src2)]
          \/ task' = [kind |-> "move", dst |-> dst, src |-> src1, instr |-> mov_vf_vf(dst, src1)]

\* One instruction, of any function of IGen, in any registers.
Emit == EmitGoalAccess \/ EmitVectorAccess \/ EmitBaseAccess \/ EmitStaticAccess \/ EmitOnRegisters

EmitterSpec == TaskInit /\ [][Emit]_task

Decoded == Decode(emit(task.instr))
RegistersOf(rm) == {rm.base, rm.index} \ {NoRegister}

\* Every access that IGen emits reads or writes the address it was asked for,
\* rsp, rbp, r12 and r13 included, whose encodings mean something else.
AddressesAsAsked ==
    task.kind = "memory" =>
        /\ task.instr.valid
        /\ Decoded.rm.kind = "memory" /\ Decoded.reg = task.reg
        /\ RegistersOf(Decoded.rm) = task.regs /\ Decoded.rm.disp = task.disp

\* load_goal_gpr and store_goal_gpr move as many bytes as they should, with
\* the extension they should, and a byte store stores the low byte of its
\* register (never ah, ch, dh or bh).
SizesAsAsked ==
    task.kind = "memory" /\ task.size > 0 =>
        /\ Access(Decoded)[1] = task.size /\ Access(Decoded)[2] = task.ext
        /\ task.size = 1 /\ task.ext = "low" /\ task.reg \in 4 .. 7 => Decoded.rex

\* A static's displacement is where offset_of_disp says, for the linker to patch.
StaticsPatchable ==
    task.kind = "static" =>
        /\ Decoded.rm.kind = "rip" /\ Decoded.reg = task.reg /\ Decoded.rm.disp = task.disp
        /\ Decoded.rm.dispAt = offset_of_disp(task.instr)

\* Arithmetic works on the registers it was asked for, in their roles, and
\* the processor sees as many bytes as were emitted.
OperandsAsAsked ==
    /\ task.kind = "registers" =>
          LET d == Decoded
              how == task.row.how IN
          /\ d.length = Len(emit(task.instr)) /\ d.W = task.row.w
          /\ how \in {"rm,reg", "opcode", "digit"} => d.rm.register = task.dst
          /\ how = "rm,reg" => d.reg = task.src1
          /\ how \in {"reg,rm", "reg,vex,rm"} => d.reg = task.dst
          /\ how \in {"reg,rm", "vex,rm"} => d.rm.register = task.src1
          /\ how = "reg,vex,rm" => d.vvvv = task.src1 /\ d.rm.register = task.src2
          /\ how = "vex,rm" => d.vvvv = task.dst /\ d.reg = task.row.ext
          /\ how = "digit" => d.reg = task.row.ext
    /\ task.kind = "move" =>
          LET d == Decoded IN
          IF d.op = 40 THEN d.reg = task.dst /\ d.rm.register = task.src
                       ELSE d.reg = task.src /\ d.rm.register = task.dst

\* The processor reads the instruction that the compiler meant.
InstructionsAsAsked == AddressesAsAsked /\ SizesAsAsked /\ StaticsPatchable /\ OperandsAsAsked
=============================================================================
