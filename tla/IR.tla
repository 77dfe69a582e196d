--------------------------------- MODULE IR ---------------------------------
(* The operations between the front end of the compiler and its emitter      *)
(* (goalc/compiler/IR.cpp): what each tells the register allocator, and the  *)
(* instructions it becomes.  A variable is a number, class[v] its register   *)
(* class; an instruction is Op(its name, destination, source, number).       *)
EXTENDS Integers, Sequences, FiniteSets

Ir(name, kind, dst, src, n) == [name |-> name, kind |-> kind, dst |-> dst, src |-> src, n |-> n, color |-> TRUE]
Unused == 0

Op(op, d, s, n) == [op |-> op, d |-> d, s |-> s, n |-> n]
\* A vector instruction: two sources, and a set or sequence of lanes.
VOp(op, d, a, b, lanes) == [op |-> op, d |-> d, s |-> a, b |-> b, lanes |-> lanes]

\* Registers with a role.
RAX == "rax"
RCX == "rcx"
RDX == "rdx"
RSP == "rsp"
offset_reg == "r15"
st_reg == "r14"
TempRegisters == {RAX, RCX, RDX, "xmm0", "xmm1"}

Wide == {"vector", "int128"}

\* A number is 64 bits wide, half of it 32.
Full == 256
Half32 == 16
Signed(x, width) == IF x >= width \div 2 THEN x - width ELSE x
INT32_MIN == -(Half32 \div 2)
UINT32_MAX == Half32 - 1
-----------------------------------------------------------------------------
(* What the allocator is told.                                               *)

Divides == {"IDIV_32", "IMOD_32", "UDIV_32"}
NoArgument == {"NOT_64", "SHL_64", "SAR_64", "SHR_64"}

\* Forms of assembly with :color #f are not shown to the allocator, loads and
\* stores excepted.
Shown(x) == x.color \/ x.name \in {"LoadConstOffset", "StoreConstOffset"}

ReadBy(x) ==
    CASE ~Shown(x) -> <<>>
      [] x.name = "IntegerMath" -> <<x.dst>> \o (IF x.kind \in NoArgument THEN <<>> ELSE x.src)
      [] x.name = "FloatMath" -> IF x.kind = "SQRT_SS" THEN x.src ELSE <<x.dst>> \o x.src
      [] x.name \in {"AsmSub", "AsmAdd"} -> <<x.dst>> \o x.src
      [] x.name \in {"RegValAddr", "ValueReset"} -> <<>>
      [] OTHER -> x.src

WrittenBy(x) ==
    CASE ~Shown(x) -> <<>>
      [] x.name = "FunctionCall" -> <<Head(x.src), x.dst>>
      [] x.name = "ValueReset" -> x.src
      [] OTHER -> IF x.dst = Unused THEN <<>> ELSE <<x.dst>>

\* Mutant: the allocator is not told which registers are excluded.
to_rai_NoExclude(x, class) ==
    [read |-> ReadBy(x), write |-> WrittenBy(x),
     clobber |-> IF x.name = "FunctionCall" THEN TempRegisters ELSE {}, exclude |-> {},
     move |-> x.name \in {"RegSet", "Return"} /\ class[x.dst] = class[x.src[1]]]
to_rai(x, class) ==
    [read |-> ReadBy(x), write |-> WrittenBy(x),
     clobber |-> IF x.name = "FunctionCall" THEN TempRegisters ELSE {},
     exclude |-> IF x.name = "IntegerMath" /\ x.kind \in Divides THEN {RDX} ELSE {},
     move |-> x.name \in {"RegSet", "Return"} /\ class[x.dst] = class[x.src[1]]]

\* Where a variable has to be: the value returned and the arguments and result
\* of a call (add_constraints), the operands of a division or of a shift by a
\* variable (compile_fixed_shift's and compile_div's constrain).
ArgumentRegister == <<RCX, RDX>>
add_constraints(x) ==
    CASE x.name = "Return" -> {<<x.dst, RAX>>}
      [] x.name = "FunctionCall" -> {<<x.dst, RAX>>} \cup {<<x.src[k], ArgumentRegister[k - 1]>> : k \in 2 .. Len(x.src)}
      [] x.name = "IntegerMath" /\ x.kind \in Divides -> {<<x.dst, RAX>>}
      [] x.name = "IntegerMath" /\ x.kind \in {"SHLV_64", "SHRV_64", "SARV_64"} -> {<<x.src[1], RCX>>}
      [] OTHER -> {}
-----------------------------------------------------------------------------
(* The instructions.                                                         *)

load_constant(value, d) ==
    LET svalue == Signed(value, Full) IN
    IF svalue = 0 THEN <<Op("xor", d, d, 0)>>
    ELSE IF svalue > 0
         THEN IF svalue < UINT32_MAX THEN <<Op("mov u32", d, d, value)>> ELSE <<Op("mov u64", d, d, value)>>
         ELSE IF svalue >= INT32_MIN THEN <<Op("mov s32", d, d, svalue)>> ELSE <<Op("mov u64", d, d, value)>>

regset_common(d, s, dclass, sclass) ==
    CASE dclass = sclass \/ {dclass, sclass} \subseteq Wide ->
            IF d = s THEN <<>>
            ELSE <<Op(IF dclass = "gpr" THEN "mov" ELSE IF dclass = "float" THEN "mov ss" ELSE "mov vf", d, s, 0)>>
      [] sclass = "float" /\ dclass = "gpr" -> <<Op("movd to gpr", d, s, 0)>>
      [] sclass = "gpr" /\ dclass = "float" -> <<Op("movd to xmm", d, s, 0)>>
      [] (sclass \in Wide /\ dclass = "float") \/ (sclass = "float" /\ dclass \in Wide) -> <<Op("mov ss", d, s, 0)>>
      [] sclass = "gpr" /\ dclass \in Wide -> <<Op("movq to xmm", d, s, 0)>>
      [] sclass \in Wide /\ dclass = "gpr" -> <<Op("movq to gpr", d, s, 0)>>

\* The address of something at an x86 address, as a GOAL pointer.
GoalPointer(op, d, base, n) == <<Op(op, d, base, n), Op("sub", d, offset_reg, 0)>>

IntegerMath(kind, d, s, n) ==
    CASE kind = "ADD_64" -> <<Op("add", d, s, 0)>>
      [] kind = "SUB_64" -> <<Op("sub", d, s, 0)>>
      [] kind = "AND_64" -> <<Op("and", d, s, 0)>>
      [] kind = "OR_64" -> <<Op("or", d, s, 0)>>
      [] kind = "XOR_64" -> <<Op("xor", d, s, 0)>>
      [] kind = "NOT_64" -> <<Op("not", d, d, 0)>>
      [] kind \in {"SHLV_64", "SHRV_64", "SARV_64"} ->
            <<Op(CASE kind = "SHLV_64" -> "shl cl" [] kind = "SHRV_64" -> "shr cl" [] kind = "SARV_64" -> "sar cl", d, RCX, 0)>>
      [] kind = "SHL_64" -> <<Op("shl", d, d, n)>>
      [] kind = "SHR_64" -> <<Op("shr", d, d, n)>>
      [] kind = "SAR_64" -> <<Op("sar", d, d, n)>>
      [] kind = "IMUL_32" -> <<Op("imul32", d, s, 0), Op("movsx", d, d, 0)>>
      [] kind = "IMUL_64" -> <<Op("imul64", d, s, 0)>>
      [] kind = "IDIV_32" -> <<Op("cdq", RDX, RAX, 0), Op("idiv", RAX, s, 0), Op("movsx", d, RAX, 0)>>
      [] kind = "UDIV_32" -> <<Op("xor", RDX, RDX, 0), Op("div", RAX, s, 0), Op("movsx", d, RAX, 0)>>
      [] kind = "IMOD_32" -> <<Op("cdq", RDX, RAX, 0), Op("idiv", RAX, s, 0), Op("movsx", d, RDX, 0)>>

\* A conditional branch: the jump taken for a kind of condition, signed or not.
\* Floats are compared by an instruction that sets the flags of an unsigned
\* comparison.
JumpOf(kind, signed) ==
    CASE kind = "EQUAL" -> "je" [] kind = "NOT_EQUAL" -> "jne"
      [] kind = "LEQ" -> IF signed THEN "jle" ELSE "jbe"
      [] kind = "GEQ" -> IF signed THEN "jge" ELSE "jae"
      [] kind = "LT" -> IF signed THEN "jl" ELSE "jb"
      [] kind = "GT" -> IF signed THEN "jg" ELSE "ja"

\* The PS2 and x86 interleave in opposite orders.
Int128Math3(kind, d, a, b) ==
    CASE kind \in {"PEXTLW", "PEXTUW", "PCPYLD"} -> <<VOp(kind, d, b, a, {})>>
      [] kind \in {"PCPYUD", "PCEQW", "PSUBW"} -> <<VOp(kind, d, a, b, {})>>

\* The instructions of each operation; d, s and b are registers, the last for a
\* second source.
IR_Return(d, s, dclass, sclass) == IF d = s THEN <<>> ELSE regset_common(d, s, dclass, sclass)
IR_RegSet(d, s, dclass, sclass) == regset_common(d, s, dclass, sclass)
IR_LoadConstant64(d, n) == load_constant(n, d)
IR_LoadSymbolPointer(kind, d, n) == IF kind = "#f" THEN <<Op("mov", d, st_reg, 0)>> ELSE <<Op("lea", d, st_reg, n)>>
IR_SetSymbolValue(s, n) == <<Op("store symbol", s, st_reg, n)>>
IR_GetSymbolValue(kind, d, n) == <<Op(kind, d, st_reg, n)>>
IR_FunctionCall(s) == <<Op("add", s, offset_reg, 0), Op("call", RAX, s, 0)>>
IR_RegValAddr(d, n) == GoalPointer("lea", d, RSP, n)
IR_GetStackAddr(d, n) == GoalPointer(IF n = 0 THEN "mov" ELSE "lea", d, RSP, n)
IR_StaticVarAddr(d, n) == GoalPointer("lea rip", d, d, n)
IR_FunctionAddr(d, n) == GoalPointer("lea rip", d, d, n)
IR_FloatMath(kind, d, s) == <<Op(kind, d, s, 0)>>
IR_ConditionalBranch(kind, signed, s, b, class) ==
    <<Op(IF class = "float" THEN "cmp flt" ELSE "cmp", s, b, 0), Op(JumpOf(kind, signed), s, b, 0)>>
IR_LoadConstOffset(d, s, n) == <<Op("load", d, s, n)>>
IR_StoreConstOffset(s, b, n) == <<Op("store", s, b, n)>>
IR_FloatToInt(name, d, s) == <<Op(name, d, s, 0)>>
IR_AsmPush(s) == <<Op("push", s, s, 0)>>
IR_AsmPop(d) == <<Op("pop", d, d, 0)>>
IR_AsmSub(d, s) == <<Op("sub", d, s, 0)>>
IR_AsmAdd(d, s) == <<Op("add", d, s, 0)>>
IR_JumpReg(s) == <<Op("jmp", s, s, 0)>>
IR_VFMath3Asm(kind, d, s, b) == <<VOp(kind, d, s, b, {})>>
IR_VFMath2Asm(kind, d, s, n) == <<VOp(kind, d, s, s, n)>>
IR_Int128Math2Asm(kind, d, s, n) == <<VOp(kind, d, s, s, n)>>
IR_BlendVF(d, s, b, mask) == <<VOp("BLEND", d, s, b, mask)>>
IR_SplatVF(kind, d, s, n) == <<VOp(kind, d, s, s, n)>>

\* R gives the register of a variable.
do_codegen(x, class, R) ==
    LET d == R[x.dst]
        S(k) == R[x.src[k]]
        Class(k) == class[x.src[k]]
    IN CASE x.name = "Return" -> IR_Return(d, S(1), class[x.dst], Class(1))
         [] x.name \in {"RegSet", "RegSetAsm"} -> IR_RegSet(d, S(1), class[x.dst], Class(1))
         [] x.name = "LoadConstant64" -> IR_LoadConstant64(d, x.n)
         [] x.name = "LoadSymbolPointer" -> IR_LoadSymbolPointer(x.kind, d, x.n)
         [] x.name = "SetSymbolValue" -> IR_SetSymbolValue(S(1), x.n)
         [] x.name \in {"GetSymbolValue", "GetSymbolValueAsm"} -> IR_GetSymbolValue(x.kind, d, x.n)
         [] x.name = "FunctionCall" -> IR_FunctionCall(S(1))
         [] x.name = "RegValAddr" -> IR_RegValAddr(d, x.n)
         [] x.name = "GetStackAddr" -> IR_GetStackAddr(d, x.n)
         [] x.name = "StaticVarAddr" -> IR_StaticVarAddr(d, x.n)
         [] x.name = "FunctionAddr" -> IR_FunctionAddr(d, x.n)
         [] x.name = "IntegerMath" -> IntegerMath(x.kind, d, IF x.src = <<>> THEN d ELSE S(1), x.n)
         [] x.name = "FloatMath" -> IR_FloatMath(x.kind, d, S(1))
         [] x.name = "ConditionalBranch" -> IR_ConditionalBranch(x.kind, x.n = 1, S(1), S(2), Class(1))
         [] x.name = "LoadConstOffset" -> IR_LoadConstOffset(d, S(1), x.n)
         [] x.name = "StoreConstOffset" -> IR_StoreConstOffset(S(1), S(2), x.n)
         [] x.name \in {"FloatToInt", "IntToFloat"} -> IR_FloatToInt(x.name, d, S(1))
         [] x.name = "AsmPush" -> IR_AsmPush(S(1))
         [] x.name = "AsmPop" -> IR_AsmPop(d)
         [] x.name = "AsmSub" -> IR_AsmSub(d, S(1))
         [] x.name = "AsmAdd" -> IR_AsmAdd(d, S(1))
         [] x.name = "JumpReg" -> IR_JumpReg(S(1))
         [] x.name = "VFMath3Asm" -> IR_VFMath3Asm(x.kind, d, S(1), S(2))
         [] x.name = "Int128Math3Asm" -> Int128Math3(x.kind, d, S(1), S(2))
         [] x.name = "VFMath2Asm" -> IR_VFMath2Asm(x.kind, d, S(1), x.n)
         [] x.name = "Int128Math2Asm" -> IR_Int128Math2Asm(x.kind, d, S(1), x.n)
         [] x.name \in {"SplatVF", "SwizzleVF", "SqrtVF"} -> IR_SplatVF(x.kind, d, S(1), x.n)
         [] x.name = "BlendVF" -> IR_BlendVF(d, S(1), S(2), x.n)
         [] x.name \in {"Null", "ValueReset", "Nop"} -> <<>>

-----------------------------------------------------------------------------
(* The forms of the PS2's vector and 128-bit instructions                    *)
(* (goalc/compiler/compilation/Asm.cpp), as the operations that emulate      *)
(* them.  Lanes are 1 (x) to 4 (w).  A form is a record of its operands.     *)

Form(form, kind, dst, srcs) ==
    [form |-> form, kind |-> kind, then |-> "ADD", dst |-> dst, src |-> srcs, broadcast |-> 0, mask |-> 1 .. 4, fsf |-> 1, ftf |-> 1]

\* The temporaries of a form (make_vfr).
temp1 == 11
temp2 == 12
temp_dst == 13

Splat(dst, src, element) == Ir("SplatVF", "SPLAT", dst, <<src>>, <<element>>)
Swizzle(dst, src, lanes) == Ir("SwizzleVF", "SWIZZLE", dst, <<src>>, lanes)
Blend(dst, a, b, mask) == Ir("BlendVF", "BLEND", dst, <<a, b>>, mask)
Math3(kind, dst, a, b) == Ir("VFMath3Asm", kind, dst, <<a, b>>, {})
Int128(kind, dst, src, n) == Ir("Int128Math2Asm", kind, dst, <<src>>, n)
Sqrt(dst, src) == Ir("SqrtVF", "SQRT", dst, <<src>>, {})

\* The last operation goes to the destination, or through a temporary when it
\* is masked.
Masked(last, f) ==
    IF f.mask = 1 .. 4 THEN <<last>> ELSE <<[last EXCEPT !.dst = temp1], Blend(f.dst, f.dst, temp1, f.mask)>>

compile_asm_mov_vf(f) == <<Blend(f.dst, f.dst, f.src[1], f.mask)>>
compile_asm_blend_vf(f) == <<Blend(f.dst, f.src[1], f.src[2], f.mask)>>

compile_asm_vf_math3(f) ==
    (IF f.broadcast = 0 THEN <<>> ELSE <<Splat(temp1, f.src[2], f.broadcast)>>)
    \o Masked(Math3(f.kind, f.dst, f.src[1], IF f.broadcast = 0 THEN f.src[2] ELSE temp1), f)

compile_asm_vf_math2(f) == Masked(Ir("VFMath2Asm", f.kind, f.dst, <<f.src[1]>>, {}), f)
compile_asm_int128_math2_imm_u8(f) == Masked(Int128(f.kind, f.dst, f.src[1], {1}), f)
compile_asm_int128_math3(f) == <<Ir("Int128Math3Asm", f.kind, f.dst, f.src, {})>>

\* The third source is the accumulator.
compile_asm_vf_math4_two_operation(f) ==
    (IF f.broadcast = 0 THEN <<Math3(f.kind, temp1, f.src[1], f.src[2])>>
     ELSE <<Splat(temp1, f.src[2], f.broadcast), Math3(f.kind, temp1, f.src[1], temp1)>>)
    \o Masked(Math3(f.then, f.dst, f.src[3], temp1), f)

compile_asm_abs_vf(f) ==
    <<Math3("XOR", temp1, temp1, temp1), Math3("SUB", temp1, temp1, f.src[1])>>
    \o Masked(Math3("MAX", f.dst, f.src[1], temp1), f)

compile_asm_div_vf(f) ==
    <<Splat(f.dst, f.src[1], f.fsf), Splat(temp1, f.src[2], f.ftf), Math3("DIV", f.dst, f.dst, temp1)>>
compile_asm_sqrt_vf(f) == <<Splat(f.dst, f.src[1], f.ftf), Sqrt(f.dst, f.dst)>>
compile_asm_inv_sqrt_vf(f) ==
    <<Splat(f.dst, f.src[1], f.fsf), Splat(temp1, f.src[2], f.ftf), Sqrt(temp1, temp1), Math3("DIV", f.dst, f.dst, temp1)>>

\* Control bytes 0b00001001 and 0b00010010.
yzx == <<2, 3, 1, 1>>
zxy == <<3, 1, 2, 1>>
compile_asm_outer_product_vf(f) ==
    <<Swizzle(temp1, f.src[1], yzx), Blend(temp_dst, temp_dst, temp1, 1 .. 3), Swizzle(temp1, f.src[2], zxy),
      Math3("MUL", temp1, temp_dst, temp1), Blend(temp_dst, temp_dst, temp1, 1 .. 3),
      Swizzle(temp1, f.src[2], yzx), Swizzle(temp2, f.src[1], zxy), Math3("MUL", temp1, temp1, temp2),
      Math3("SUB", temp2, temp_dst, temp1), Blend(f.dst, f.dst, temp2, 1 .. 3)>>

\* On lanes of 16 bits.
compile_asm_ppach(f) ==
    <<Int128("VPSHUFLW", temp1, f.src[1], <<1, 3, 1, 3>>), Int128("VPSHUFLW", f.dst, f.src[2], <<1, 3, 1, 3>>),
      Int128("VPSHUFHW", temp1, temp1, <<1, 3, 1, 3>>), Int128("VPSHUFHW", f.dst, f.dst, <<1, 3, 1, 3>>),
      Int128("VPSRLDQ", temp1, temp1, {1, 2}), Int128("VPSRLDQ", f.dst, f.dst, {1, 2}),
      Ir("Int128Math3Asm", "PCPYLD", f.dst, <<temp1, f.dst>>, {})>>

Compiled(f) ==
    CASE f.form = "mov" -> compile_asm_mov_vf(f)
      [] f.form = "blend" -> compile_asm_blend_vf(f)
      [] f.form = "math3" -> compile_asm_vf_math3(f)
      [] f.form = "math2" -> compile_asm_vf_math2(f)
      [] f.form = "shift" -> compile_asm_int128_math2_imm_u8(f)
      [] f.form = "int128" -> compile_asm_int128_math3(f)
      [] f.form = "two" -> compile_asm_vf_math4_two_operation(f)
      [] f.form = "abs" -> compile_asm_abs_vf(f)
      [] f.form = "div" -> compile_asm_div_vf(f)
      [] f.form = "sqrt" -> compile_asm_sqrt_vf(f)
      [] f.form = "inv-sqrt" -> compile_asm_inv_sqrt_vf(f)
      [] f.form = "outer" -> compile_asm_outer_product_vf(f)
      [] f.form = "ppach" -> compile_asm_ppach(f)
=============================================================================
