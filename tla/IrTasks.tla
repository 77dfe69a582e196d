------------------------------- MODULE IrTasks ------------------------------
(* Single operations in every allocation the register allocator may make of  *)
(* them, and forms of vector assembly, run on the processor.                 *)
EXTENDS Integers, Sequences, FiniteSets, Bitwise, Task

I == INSTANCE IR
-----------------------------------------------------------------------------
(* The processor.  A general register is a number below I!Full, a vector     *)
(* register a sequence of lanes; `out' is what an operation did elsewhere.   *)
(* Float operations are not interpreted unless a form depends on what they   *)
(* compute.                                                                  *)

Magnitude(a) == IF a < 0 THEN -a ELSE a
Quotient(a, b) == IF (a < 0) = (b < 0) THEN Magnitude(a) \div Magnitude(b) ELSE -(Magnitude(a) \div Magnitude(b))
Low(x) == x % I!Half32
Sext(x) == I!Signed(Low(x), I!Half32) % I!Full
Shift(op, x, n) ==
    CASE op = "shl" -> (x * 2 ^ n) % I!Full
      [] op = "shr" -> x \div 2 ^ n
      [] op = "sar" -> (I!Signed(x, I!Full) \div 2 ^ n) % I!Full
Memory(address) == (5 * address + 3) % I!Half32
Static(n) == 100 + n
Result == 55

Gprs == {I!RAX, I!RCX, I!RDX, "rbx"}
Vectors == {"xmm0", "xmm1", "xmm8"}
Junk(r) == IF r \in Vectors THEN <<9, 9, 9, 9>> ELSE 66

\* What an operation on lanes computes of one or two of them.
Lane(op, a, b) ==
    CASE op = "ADD" -> a + b [] op = "SUB" -> a - b [] op = "MUL" -> a * b
      [] op = "PSUBW" -> a - b [] op = "PCEQW" -> IF a = b THEN -1 ELSE 0
      [] op = "MAX" -> IF a > b THEN a ELSE b [] op = "MIN" -> IF a < b THEN a ELSE b
      [] op = "XOR" -> IF a = b THEN 0 ELSE 10000 + 31 * a + b
      [] op = "DIV" -> 20000 + 31 * a + b
      [] op = "SQRT" -> 30000 + a [] op = "ITOF" -> 31000 + a [] op = "FTOI" -> 32000 + a
      [] op = "PW_SLL" -> 33000 + a [] op = "PW_SRL" -> 34000 + a [] op = "PW_SRA" -> 35000 + a

Lanes(o, d, a, b) ==
    LET h == Len(a) \div 2 IN
    CASE o.op = "SPLAT" -> [k \in 1 .. 4 |-> a[o.lanes[1]]]
      [] o.op = "SWIZZLE" -> [k \in 1 .. 4 |-> a[o.lanes[k]]]
      [] o.op = "BLEND" -> [k \in 1 .. 4 |-> IF k \in o.lanes THEN b[k] ELSE a[k]]
      [] o.op = "PEXTLW" -> <<a[1], b[1], a[2], b[2]>>
      [] o.op = "PEXTUW" -> <<a[3], b[3], a[4], b[4]>>
      [] o.op = "PCPYLD" -> SubSeq(a, 1, h) \o SubSeq(b, 1, h)
      [] o.op = "PCPYUD" -> SubSeq(a, h + 1, 2 * h) \o SubSeq(b, h + 1, 2 * h)
      [] o.op = "VPSHUFLW" -> [k \in 1 .. 8 |-> IF k <= 4 THEN a[o.lanes[k]] ELSE a[k]]
      [] o.op = "VPSHUFHW" -> [k \in 1 .. 8 |-> IF k <= 4 THEN a[k] ELSE a[4 + o.lanes[k - 4]]]
      [] o.op = "VPSRLDQ" -> [k \in 1 .. 8 |-> IF k + 2 <= 8 THEN a[k + 2] ELSE 0]
      [] OTHER -> [k \in 1 .. 4 |-> Lane(o.op, a[k], b[k])]

Jumps(op, m) ==
    LET a == m.flags[1]
        b == m.flags[2]
        sa == I!Signed(a, I!Full)
        sb == I!Signed(b, I!Full)
    IN CASE op = "je" -> a = b [] op = "jne" -> a # b
         [] op = "jbe" -> a <= b [] op = "jae" -> a >= b [] op = "jb" -> a < b [] op = "ja" -> a > b
         [] op = "jle" -> sa <= sb [] op = "jge" -> sa >= sb [] op = "jl" -> sa < sb [] op = "jg" -> sa > sb

Divide32(m, dividend, divisor, range) ==
    IF divisor = 0 \/ Quotient(dividend, divisor) \notin range THEN [m EXCEPT !.fault = TRUE]
    ELSE LET q == Quotient(dividend, divisor) IN
         [m EXCEPT !.reg[I!RAX] = Low(q), !.reg[I!RDX] = Low(dividend - q * divisor)]

Exec1(m, o) ==
    LET d == m.reg[o.d]
        s == m.reg[o.s]
        Set(v) == [m EXCEPT !.reg[o.d] = v]
        Address(n) == (s + m.reg[I!offset_reg] + n) % I!Full
        pair == Low(m.reg[I!RDX]) * I!Half32 + Low(m.reg[I!RAX])
    IN CASE o.op \in {"mov", "mov vf"} -> Set(s)
         [] o.op \in {"mov u32", "mov u64"} -> Set(IF o.op = "mov u32" THEN Low(o.n) ELSE o.n)
         [] o.op = "mov s32" -> Set(Sext(o.n % I!Full))
         [] o.op = "mov ss" -> Set([d EXCEPT ![1] = s[1]])
         [] o.op = "movd to gpr" -> Set(s[1])
         [] o.op = "movd to xmm" -> Set(<<Low(s), 0, 0, 0>>)
         [] o.op = "movq to gpr" -> Set(s[1] + I!Half32 * s[2])
         [] o.op = "movq to xmm" -> Set(<<Low(s), s \div I!Half32, 0, 0>>)
         [] o.op = "add" -> Set((d + s) % I!Full) [] o.op = "sub" -> Set((d - s) % I!Full)
         [] o.op = "and" -> Set(d & s) [] o.op = "or" -> Set(d | s) [] o.op = "xor" -> Set(d ^^ s)
         [] o.op = "not" -> Set(I!Full - 1 - d)
         [] o.op = "lea" -> Set((s + o.n) % I!Full)
         [] o.op = "lea rip" -> Set(Static(o.n))
         [] o.op \in {"shl", "shr", "sar"} -> Set(Shift(o.op, d, o.n))
         [] o.op = "shl cl" -> Set(Shift("shl", d, s % 8)) [] o.op = "shr cl" -> Set(Shift("shr", d, s % 8))
         [] o.op = "sar cl" -> Set(Shift("sar", d, s % 8))
         [] o.op = "imul32" -> Set(Low(d * s)) [] o.op = "imul64" -> Set((d * s) % I!Full)
         [] o.op = "movsx" -> Set(Sext(s))
         [] o.op = "cdq" -> [m EXCEPT !.reg[I!RDX] = IF Low(m.reg[I!RAX]) >= I!Half32 \div 2 THEN I!Half32 - 1 ELSE 0]
         [] o.op = "idiv" -> Divide32(m, I!Signed(pair, I!Full), I!Signed(Low(s), I!Half32), I!INT32_MIN .. -I!INT32_MIN - 1)
         [] o.op = "div" -> Divide32(m, pair, Low(s), 0 .. I!UINT32_MAX)
         [] o.op \in {"load32s", "load32u"} -> Set(IF o.op = "load32s" THEN Sext(Memory(Address(o.n))) ELSE Memory(Address(o.n)))
         [] o.op = "load" -> Set(Memory(Address(o.n)))
         [] o.op \in {"store symbol", "store"} -> [m EXCEPT !.out = <<Address(o.n), IF o.op = "store" THEN d ELSE Low(d)>>]
         [] o.op \in {"push", "jmp"} -> [m EXCEPT !.out = <<d>>]
         [] o.op = "pop" -> Set(Result)
         [] o.op = "call" ->
               [m EXCEPT !.out = <<s, m.reg[I!RCX], m.reg[I!RDX]>>,
                         !.reg = [r \in DOMAIN m.reg |-> IF r = I!RAX THEN Result
                                                         ELSE IF r \in I!TempRegisters THEN Junk(r) ELSE m.reg[r]]]
         [] o.op \in {"cmp", "cmp flt"} -> [m EXCEPT !.flags = IF o.op = "cmp" THEN <<d, s>> ELSE <<d[1], s[1]>>]
         [] o.op \in {"je", "jne", "jle", "jge", "jl", "jg", "jbe", "jae", "jb", "ja"} ->
               [m EXCEPT !.out = <<IF Jumps(o.op, m) THEN 1 ELSE 0>>]
         [] o.op \in {"DIV_SS", "MUL_SS", "ADD_SS", "SUB_SS", "MAX_SS", "MIN_SS"} -> Set([d EXCEPT ![1] = (3 * d[1] + s[1]) % I!Half32])
         [] o.op = "SQRT_SS" -> Set([d EXCEPT ![1] = (s[1] + 1) % I!Half32])
         [] o.op = "FloatToInt" -> Set((s[1] + 2) % I!Half32)
         [] o.op = "IntToFloat" -> Set([d EXCEPT ![1] = (s + 2) % I!Half32])
         [] OTHER -> Set(Lanes(o, d, s, m.reg[o.b]))

RECURSIVE ExecAll(_, _)
ExecAll(m, ops) == IF ops = <<>> THEN m ELSE ExecAll(Exec1(m, Head(ops)), Tail(ops))
-----------------------------------------------------------------------------
(* Single operations: variable 1 is written, 1 to 3 are read.                *)

Numbers == {0, 1, 3, 7, 8, 9, 15, 16, 127, 128, 200, 248, 255}
VectorValue(k) == <<k, k + 1, k + 2, k + 3>>

\* An operation with the classes of its variables.
Case(x, classes) == [x |-> x, class |-> classes]
gprs == <<"gpr", "gpr", "gpr">>
floats == <<"float", "float", "float">>
IntegerKinds == {"ADD_64", "SUB_64", "AND_64", "OR_64", "XOR_64", "NOT_64", "SHLV_64", "SHRV_64", "SARV_64", "SHL_64", "SHR_64",
                 "SAR_64", "IMUL_32", "IMUL_64", "IDIV_32", "UDIV_32", "IMOD_32"}
Conditions == {"EQUAL", "NOT_EQUAL", "LEQ", "GEQ", "LT", "GT"}

IntegerCases ==
    {Case(I!Ir("IntegerMath", k, 1, IF k \in I!NoArgument THEN <<>> ELSE <<v>>, 3), gprs) : k \in IntegerKinds, v \in {1, 2}}
    \cup {Case(I!Ir("ConditionalBranch", k, 0, <<2, 3>>, n), gprs) : k \in Conditions, n \in {0, 1}}
    \cup {Case(I!Ir(name, "", 1, <<2>>, 0), gprs) : name \in {"AsmSub", "AsmAdd"}}
ConstantCases == {Case(I!Ir("LoadConstant64", "", 1, <<>>, n), gprs) : n \in Numbers}
MoveCases ==
    {Case(I!Ir(name, "", 1, <<2>>, 0), <<c1, c2, "gpr">>) :
        name \in {"RegSet", "Return"}, c1, c2 \in {"gpr", "float", "vector", "int128"}}
OtherCases ==
    {Case(I!Ir("LoadSymbolPointer", k, 1, <<>>, IF k = "#f" THEN 0 ELSE 8), gprs) : k \in {"#f", "#t", "other"}}
    \cup {Case(I!Ir("SetSymbolValue", "", 0, <<2>>, 12), gprs), Case(I!Ir("FunctionCall", "", 1, <<2, 3>>, 0), gprs),
          Case(I!Ir("AsmPush", "", 0, <<2>>, 0), gprs), Case(I!Ir("AsmPop", "", 1, <<>>, 0), gprs),
          Case(I!Ir("JumpReg", "", 0, <<2>>, 0), gprs), Case(I!Ir("Null", "", 0, <<>>, 0), gprs),
          Case(I!Ir("LoadConstOffset", "", 1, <<2>>, 5), gprs), Case(I!Ir("StoreConstOffset", "", 0, <<2, 3>>, 5), gprs),
          Case(I!Ir("FloatToInt", "", 1, <<2>>, 0), <<"gpr", "float", "gpr">>), Case(I!Ir("IntToFloat", "", 1, <<2>>, 0), <<"float", "gpr", "gpr">>)}
    \cup {Case(I!Ir(name, k, 1, <<>>, 12), gprs) : name \in {"GetSymbolValue", "GetSymbolValueAsm"}, k \in {"load32s", "load32u"}}
    \cup {Case(I!Ir(name, "", 1, <<>>, n), gprs) : name \in {"RegValAddr", "GetStackAddr", "StaticVarAddr", "FunctionAddr"}, n \in {0, 8}}
    \cup {Case(I!Ir("FloatMath", k, 1, <<v>>, 0), floats) : k \in {"ADD_SS", "SQRT_SS"}, v \in {1, 2}}
    \cup {Case(I!Ir("ConditionalBranch", k, 0, <<2, 3>>, 0), floats) : k \in Conditions}

\* What the allocator ensures: variables that are read are in registers of
\* their own, and so are those that are written, which may take one of a variable
\* that is read; none is in an excluded register; and the constraints are met.
Allocated(c, R) ==
    LET rai == I!to_rai(c.x, c.class)
        Apart(vars) == \A i, j \in DOMAIN vars : vars[i] # vars[j] => R[vars[i]] # R[vars[j]]
        used == {rai.read[i] : i \in DOMAIN rai.read} \cup {rai.write[i] : i \in DOMAIN rai.write}
    IN /\ Apart(rai.read) /\ Apart(rai.write)
       /\ \A v \in used : R[v] \in (IF c.class[v] = "gpr" THEN Gprs ELSE Vectors) \ rai.exclude
       /\ \A v \in {1, 2, 3} \ used : R[v] = IF c.class[v] = "gpr" THEN "rbx" ELSE "xmm8"
       /\ \A con \in I!add_constraints(c.x) : c.class[con[1]] = "gpr" => R[con[1]] = con[2]
Allocations == {[v \in 0 .. 3 |-> IF v = 0 THEN "rbx" ELSE r[v]] : r \in [1 .. 3 -> Gprs \cup Vectors]}

Fixed == [r \in {I!RSP, I!offset_reg, I!st_reg} |-> CASE r = I!RSP -> 200 [] r = I!offset_reg -> 30 [] r = I!st_reg -> 20]
Before(c, R, val) ==
    LET rai == I!to_rai(c.x, c.class)
        Holds(r) == {v \in 1 .. 3 : R[v] = r /\ \E i \in DOMAIN rai.read : rai.read[i] = v}
    IN [reg |-> [r \in Gprs \cup Vectors \cup DOMAIN Fixed |->
                   IF r \in DOMAIN Fixed THEN Fixed[r]
                   ELSE IF Holds(r) # {} THEN val[CHOOSE v \in Holds(r) : TRUE] ELSE Junk(r)],
        flags |-> <<0, 0>>, out |-> <<>>, fault |-> FALSE]

Values(c) ==
    IF c.x.name \in {"IntegerMath", "ConditionalBranch"} /\ c.class[1] = "gpr" THEN {<<a, b, d>> : a, b \in Numbers, d \in {8, 200}}
    ELSE {[v \in 1 .. 3 |-> IF c.class[v] = "gpr" THEN 16 * (k + v) + 3 ELSE VectorValue(k + 2 * v)] : k \in {1, 5}}

TryIr(cases) ==
    \E c \in cases : \E R \in Allocations : Allocated(c, R) /\ \E val \in Values(c) :
        task' = [kind |-> "ir", case |-> c, R |-> R, val |-> val, before |-> Before(c, R, val),
                 after |-> ExecAll(Before(c, R, val), I!do_codegen(c.x, c.class, R))]
CompileIr == task = Asked("ir") /\ (TryIr(IntegerCases) \/ TryIr(ConstantCases) \/ TryIr(MoveCases) \/ TryIr(OtherCases))

\* What an operation is for, in terms of the values of its variables.
Mathematics(kind, a, b) ==
    LET sa == I!Signed(Low(a), I!Half32)
        sb == I!Signed(Low(b), I!Half32)
    IN CASE kind = "ADD_64" -> (a + b) % I!Full
         [] kind = "SUB_64" -> (a - b) % I!Full
         [] kind = "AND_64" -> a & b [] kind = "OR_64" -> a | b [] kind = "XOR_64" -> a ^^ b
         [] kind = "NOT_64" -> -a - 1 + I!Full
         [] kind = "SHL_64" -> (8 * a) % I!Full [] kind = "SHR_64" -> a \div 8
         [] kind = "SAR_64" -> (I!Signed(a, I!Full) \div 8) % I!Full
         [] kind = "SHLV_64" -> Shift("shl", a, b % 8) [] kind = "SHRV_64" -> Shift("shr", a, b % 8)
         [] kind = "SARV_64" -> Shift("sar", a, b % 8)
         [] kind = "IMUL_32" -> Sext((sa * sb) % I!Full) [] kind = "IMUL_64" -> (a * b) % I!Full
         [] kind = "IDIV_32" -> Quotient(sa, sb) % I!Full
         [] kind = "IMOD_32" -> (sa - sb * Quotient(sa, sb)) % I!Full
         [] kind = "UDIV_32" -> Sext(Low(a) \div Low(b))
Holds(kind, signed, a, b) ==
    LET x == IF signed THEN I!Signed(a, I!Full) ELSE a
        y == IF signed THEN I!Signed(b, I!Full) ELSE b
    IN CASE kind = "EQUAL" -> x = y [] kind = "NOT_EQUAL" -> x # y [] kind = "LEQ" -> x <= y
         [] kind = "GEQ" -> x >= y [] kind = "LT" -> x < y [] kind = "GT" -> x > y
\* The bits that a variable of the class has of a value.
Words(class, v) ==
    CASE class = "gpr" -> <<Low(v), v \div I!Half32>> [] class = "float" -> <<v[1]>> [] OTHER -> v
FirstWords(n, words) == SubSeq(words, 1, n)
Common(c1, c2) == IF "float" \in {c1, c2} THEN 1 ELSE IF "gpr" \in {c1, c2} THEN 2 ELSE 4
GoalAddress(a) == (a - Fixed[I!offset_reg]) % I!Full

\* The variable it writes has the value meant.
WritesMeant(x, class, val, new) ==
    CASE x.name = "IntegerMath" -> new = Mathematics(x.kind, val[1], IF x.src = <<>> THEN 0 ELSE val[x.src[1]])
      [] x.name = "AsmAdd" -> new = (val[1] + val[2]) % I!Full
      [] x.name = "AsmSub" -> new = (val[1] - val[2]) % I!Full
      [] x.name = "LoadConstant64" -> new = x.n
      [] x.name \in {"RegSet", "Return"} ->
            LET n == Common(class[1], class[2]) IN FirstWords(n, Words(class[1], new)) = FirstWords(n, Words(class[2], val[2]))
      [] x.name = "LoadSymbolPointer" -> new = Fixed[I!st_reg] + x.n
      [] x.name \in {"GetSymbolValue", "GetSymbolValueAsm"} ->
            LET word == Memory(Fixed[I!st_reg] + Fixed[I!offset_reg] + x.n) IN new = IF x.kind = "load32s" THEN Sext(word) ELSE word
      [] x.name = "LoadConstOffset" -> new = Memory((val[2] + Fixed[I!offset_reg] + x.n) % I!Full)
      [] x.name \in {"FunctionCall", "AsmPop"} -> new = Result
      [] x.name \in {"RegValAddr", "GetStackAddr"} -> new = GoalAddress(Fixed[I!RSP] + x.n)
      [] x.name \in {"StaticVarAddr", "FunctionAddr"} -> new = GoalAddress(Static(x.n))
      [] x.name = "FloatMath" -> new[1] = IF x.kind = "SQRT_SS" THEN (val[x.src[1]][1] + 1) % I!Half32 ELSE (3 * val[1][1] + val[x.src[1]][1]) % I!Half32
      [] x.name = "FloatToInt" -> new = (val[2][1] + 2) % I!Half32
      [] x.name = "IntToFloat" -> new[1] = (val[2] + 2) % I!Half32
Divisible(x, val) ==
    x.name = "IntegerMath" /\ x.kind \in I!Divides =>
        Low(val[x.src[1]]) # 0 /\ (x.kind # "UDIV_32" => ~(Low(val[1]) = 8 /\ Low(val[x.src[1]]) = 15))

\* Whatever registers the allocator chose, an operation leaves in the variable
\* it writes the value it is for, branches, stores and calls as it should, and
\* never traps but for a division by zero or of INT32_MIN by -1.
OperationsMean ==
    task.kind = "ir" /\ Divisible(task.case.x, task.val) =>
        LET x == task.case.x
            val == task.val
            after == task.after
            base == Fixed[I!offset_reg]
        IN /\ ~after.fault
           /\ x.dst # I!Unused => WritesMeant(x, task.case.class, val, after.reg[task.R[x.dst]])
           /\ x.name = "ConditionalBranch" =>
                 LET Number(v) == Words(task.case.class[v], val[v])[1] IN
                 after.out = <<IF (IF task.case.class[2] = "gpr" THEN Holds(x.kind, x.n = 1, val[2], val[3])
                                   ELSE Holds(x.kind, FALSE, Number(2), Number(3))) THEN 1 ELSE 0>>
           /\ x.name = "SetSymbolValue" => after.out = <<Fixed[I!st_reg] + base + x.n, Low(val[2])>>
           /\ x.name = "StoreConstOffset" => after.out = <<(val[3] + base + x.n) % I!Full, val[2]>>
           /\ x.name = "FunctionCall" => after.out[1] = (val[2] + base) % I!Full /\ after.out[2] = val[3]
           /\ x.name \in {"AsmPush", "JumpReg"} => after.out = <<val[2]>>

\* It changes no register but those the allocator was told of, so that the
\* variables that live on keep their values.
OthersUntouched ==
    task.kind = "ir" =>
        LET rai == I!to_rai(task.case.x, task.case.class)
            told == {task.R[rai.write[i]] : i \in DOMAIN rai.write} \cup rai.clobber \cup rai.exclude
        IN \A r \in DOMAIN task.after.reg : task.after.reg[r] # task.before.reg[r] => r \in told
-----------------------------------------------------------------------------
(* Forms of vector assembly: variables 1 to 3, which may be the same one.    *)

Start == [v \in {1, 2, 3, I!temp1, I!temp2, I!temp_dst} |->
            CASE v = 1 -> <<2, -3, 5, 7>> [] v = 2 -> <<-11, 13, -17, 19>> [] v = 3 -> <<23, 29, -31, -37>> [] OTHER -> <<-1000, -1001, -1002, -1003>>]
Start8 == [v \in {1, 2, 3, I!temp1} |-> [k \in 1 .. 8 |-> 10 * v + k]]

Vars3 == {1, 2, 3}
Masks == {1 .. 4, {1, 2, 3}, {4}, {2, 4}, {}}
Forms ==
    {[I!Form("math3", k, d, <<a, b>>) EXCEPT !.broadcast = bc, !.mask = m] :
        k \in {"ADD", "SUB", "MUL", "MAX", "MIN", "XOR"}, d, a, b \in Vars3, bc \in {0, 1, 4}, m \in Masks}
    \cup {[I!Form("two", "MUL", d, <<a, b, e>>) EXCEPT !.then = k, !.broadcast = bc, !.mask = m] :
        k \in {"ADD", "SUB"}, d, a, b, e \in Vars3, bc \in {0, 3}, m \in Masks}
    \cup {[I!Form(form, "", d, <<a, b>>) EXCEPT !.mask = m] : form \in {"mov", "blend", "abs"}, d, a, b \in Vars3, m \in Masks}
    \cup {[I!Form(p[1], p[2], d, <<a>>) EXCEPT !.mask = m] :
        p \in {<<"math2", "ITOF">>, <<"math2", "FTOI">>, <<"shift", "PW_SLL">>, <<"shift", "PW_SRL">>, <<"shift", "PW_SRA">>}, d, a \in Vars3, m \in Masks}
    \cup {I!Form("int128", k, d, <<a, b>>) : k \in {"PEXTLW", "PEXTUW", "PCPYLD", "PCPYUD", "PCEQW", "PSUBW"}, d, a, b \in Vars3}
    \cup {[I!Form(form, "", d, <<a, b>>) EXCEPT !.fsf = m, !.ftf = n] :
        form \in {"div", "sqrt", "inv-sqrt"}, d, a, b \in Vars3, m, n \in {1, 3}}
    \cup {I!Form("outer", "", d, <<a, b>>) : d, a, b \in Vars3}
    \cup {I!Form("ppach", "", d, <<a, b>>) : d, a, b \in Vars3}

\* Run one operation of the form after the other.
RECURSIVE RunForm(_, _)
RunForm(m, irs) ==
    IF irs = <<>> THEN m
    ELSE RunForm(ExecAll(m, I!do_codegen(Head(irs), [v \in DOMAIN m.reg |-> "vector"], [v \in DOMAIN m.reg |-> v])), Tail(irs))
CompileForm ==
    /\ task = Asked("form")
    /\ \E f \in Forms :
          LET start == IF f.form = "ppach" THEN Start8 ELSE Start IN
          task' = [kind |-> "form", f |-> f, start |-> start,
                   end |-> RunForm([reg |-> start, flags |-> <<0, 0>>, out |-> <<>>, fault |-> FALSE], I!Compiled(f)).reg]

\* What the vector units, and the 128-bit instructions, of the PS2 do.
Vu(f, v) ==
    LET d == v[f.dst]
        a == v[f.src[1]]
        b == v[f.src[2]]
        B(k) == IF f.broadcast = 0 THEN b[k] ELSE b[f.broadcast]
        In(lane(_)) == [k \in 1 .. 4 |-> IF k \in f.mask THEN lane(k) ELSE d[k]]
        All(x) == [k \in 1 .. 4 |-> x]
    IN CASE f.form = "math3" -> LET L(k) == Lane(f.kind, a[k], B(k)) IN In(L)
         [] f.form = "two" -> LET L(k) == Lane(f.then, v[f.src[3]][k], Lane(f.kind, a[k], B(k))) IN In(L)
         [] f.form = "mov" -> LET L(k) == a[k] IN In(L)
         [] f.form = "blend" -> [k \in 1 .. 4 |-> IF k \in f.mask THEN b[k] ELSE a[k]]
         [] f.form = "abs" -> LET L(k) == Magnitude(a[k]) IN In(L)
         [] f.form \in {"math2", "shift"} -> LET L(k) == Lane(f.kind, a[k], 0) IN In(L)
         [] f.form = "int128" ->
               CASE f.kind = "PEXTLW" -> <<b[1], a[1], b[2], a[2]>> [] f.kind = "PEXTUW" -> <<b[3], a[3], b[4], a[4]>>
                 [] f.kind = "PCPYLD" -> <<b[1], b[2], a[1], a[2]>> [] f.kind = "PCPYUD" -> <<a[3], a[4], b[3], b[4]>>
                 [] OTHER -> [k \in 1 .. 4 |-> Lane(f.kind, a[k], b[k])]
         [] f.form = "div" -> All(Lane("DIV", a[f.fsf], b[f.ftf]))
         [] f.form = "sqrt" -> All(Lane("SQRT", a[f.ftf], 0))
         [] f.form = "inv-sqrt" -> All(Lane("DIV", a[f.fsf], Lane("SQRT", b[f.ftf], 0)))
         [] f.form = "outer" -> <<a[2] * b[3] - b[2] * a[3], a[3] * b[1] - b[3] * a[1], a[1] * b[2] - b[1] * a[2], d[4]>>
         [] f.form = "ppach" -> <<b[1], b[3], b[5], b[7], a[1], a[3], a[5], a[7]>>

\* A form leaves in its destination what the PS2's instruction would, and the
\* other registers as they were, also when operands are the same register; but
\* a division whose destination is its divisor overwrites it before it is read.
FormsEmulate ==
    task.kind = "form" /\ ~(task.f.form \in {"div", "inv-sqrt"} /\ task.f.dst = task.f.src[2]) =>
        \A v \in Vars3 : task.end[v] = IF v = task.f.dst THEN Vu(task.f, task.start) ELSE task.start[v]

\* An operation, or a form made of several, does what it is for and no more.
OperationsSound == OperationsMean /\ OthersUntouched /\ FormsEmulate
=============================================================================
