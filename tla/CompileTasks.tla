----------------------------- MODULE CompileTasks ----------------------------
(* Integer expressions and what they compile to, run next to an interpreter  *)
(* that evaluates every operand once, from left to right.                    *)
EXTENDS IrTasks, TLC

C == INSTANCE Compile

CallForm(n, args) == C!Form("call", args, "", n)
Set(name, value) == C!Form("set!", <<value>>, name, 0)
Apply(op, args) == C!Form(op, args, "", 0)
Number(n) == C!Form("const", <<>>, "", n)
Name(name) == C!Form("var", <<>>, name, 0)
Compare == DOMAIN C!conditions_normal

Env == [vars |-> ("x" :> 1) @@ ("u" :> 2), types |-> ("x" :> "int") @@ ("u" :> "uint"), blocks |-> <<>>]
\* Two labels are for the forms that name them.
Compiled(f) == C!CompileToGpr(f, Env, [C!Begin(2) EXCEPT !.labels = <<0, 0>>])
-----------------------------------------------------------------------------
(* The operations, run.  A symbol is a number above all others.  A call logs *)
(* its arguments and counts in the global g how many there were.             *)

SymbolValue(n) == I!Full + n
False == SymbolValue(C!FALSE_)
True == SymbolValue(C!TRUE_)

Computed(x, reg) ==
    IF x.src = <<>> /\ x.n >= 0 /\ x.kind # "NOT_64"
    THEN Shift(CASE x.kind = "SHL_64" -> "shl" [] x.kind = "SHR_64" -> "shr" [] x.kind = "SAR_64" -> "sar", reg[x.dst], x.n % C!WordBits)
    ELSE Mathematics(x.kind, reg[x.dst], IF x.src = <<>> THEN 0 ELSE reg[x.src[1]])
Traps(x, reg) ==
    x.name = "IntegerMath" /\ x.kind \in I!Divides /\ (Low(reg[x.src[1]]) = 0 \/ (Low(reg[x.dst]) = 8 /\ Low(reg[x.src[1]]) = 15))

RECURSIVE Run(_, _)
Run(s, m) ==
    IF m.pc > Len(s.code) \/ m.fuel = 0 \/ Traps(s.code[m.pc], m.reg) THEN m
    ELSE LET x == s.code[m.pc]
             next == [m EXCEPT !.pc = @ + 1, !.fuel = @ - 1]
             Goes(label) == [next EXCEPT !.pc = s.labels[label]]
             Sets(v) == [next EXCEPT !.reg[x.dst] = v]
         IN Run(s, CASE x.name = "IntegerMath" -> Sets(Computed(x, m.reg))
                     [] x.name = "RegSet" -> Sets(m.reg[x.src[1]])
                     [] x.name = "LoadConstant64" -> Sets(x.n % I!Full)
                     [] x.name = "LoadSymbolPointer" -> Sets(SymbolValue(x.n))
                     [] x.name = "GetSymbolValue" -> Sets(m.g)
                     [] x.name = "SetSymbolValue" -> [next EXCEPT !.g = m.reg[x.src[1]]]
                     [] x.name = "GotoLabel" -> Goes(x.dst)
                     [] x.name = "ConditionalBranch" ->
                           IF Holds(x.kind, x.n = 1, m.reg[x.src[1]], m.reg[x.src[2]]) THEN Goes(x.dst) ELSE next
                     [] x.name = "FunctionCall" ->
                           [Sets((5 * Len(m.log) + 3) % I!Full)
                            EXCEPT !.log = Append(@, [i \in 1 .. Len(x.src) - 1 |-> m.reg[x.src[i + 1]]]), !.g = (@ + 1) % I!Full]
                     [] x.name = "Null" -> next)
-----------------------------------------------------------------------------
(* The interpreter: m is [vars, log, val, exit, odd].  `exit' is the block   *)
(* being left; `odd' says that the result is not defined by the language:    *)
(* more than 32 bits multiplied or divided, division by zero.  `types' are   *)
(* the types of the forms that choose an operation.                          *)

Small(n) == n \in -8 .. 7
S(n) == I!Signed(n, I!Full)
Odd(m) == [m EXCEPT !.odd = TRUE]
Value(m, v) == [m EXCEPT !.val = v]
Bool(b) == IF b THEN True ELSE False
PowerOfTwo(f) == f.op = "const" /\ f.n \in {1, 2, 4, 8, 16, 32, 64}

\* A negative number is divided by a power of two by a shift, which rounds down.
RoundedDown(f, a) == PowerOfTwo(f.args[2]) /\ a < 0 /\ a % f.args[2].n # 0

Binary(f, type, a, b, m) ==
    LET Fits(n) == Small(S(n)) /\ (n < 8 \/ type = "int")
        quotient == Quotient(S(a), S(b))
        defined == Fits(a) /\ Fits(b) /\ b # 0 /\ ~(S(a) = -8 /\ S(b) = -1)
    IN
    CASE f.op \in {"+", "-"} -> Value(m, (IF f.op = "+" THEN a + b ELSE a - b) % I!Full)
      [] f.op = "*" -> IF Fits(a) /\ Fits(b) /\ Fits((S(a) * S(b)) % I!Full) THEN Value(m, (S(a) * S(b)) % I!Full) ELSE Odd(m)
      [] f.op = "/" -> IF defined /\ ~RoundedDown(f, S(a)) THEN Value(m, quotient % I!Full) ELSE Odd(m)
      [] f.op = "mod" -> IF defined THEN Value(m, (S(a) - S(b) * quotient) % I!Full) ELSE Odd(m)
      [] f.op = "logand" -> Value(m, a & b) [] f.op = "logior" -> Value(m, a | b) [] f.op = "logxor" -> Value(m, a ^^ b)
      [] f.op \in {"shl", "shr", "sar"} -> IF b < C!WordBits THEN Value(m, Shift(f.op, a, b)) ELSE Odd(m)

RECURSIVE Eval(_, _, _), Fold(_, _, _, _, _), Sequence(_, _, _), EvalCases(_, _, _), EvalArgs(_, _, _, _), Loop(_, _, _, _)

Fold(f, fs, types, type, m) ==
    LET Combined(second) == IF second.exit # "" THEN second ELSE Binary(f, type, m.val, second.val, second) IN
    IF fs = <<>> \/ m.exit # "" THEN m ELSE Fold(f, Tail(fs), types, type, Combined(Eval(Head(fs), types, m)))
Sequence(fs, types, m) ==
    IF fs = <<>> \/ m.exit # "" THEN m ELSE Sequence(Tail(fs), types, Eval(Head(fs), types, m))
EvalCases(cases, types, m) ==
    IF cases = <<>> THEN Value(m, False)
    ELSE IF Head(cases).op = "else" THEN Sequence(Head(cases).args, types, m)
    ELSE LET Tested(test) ==
                 IF test.exit # "" THEN test
                 ELSE IF test.val # False THEN Sequence(Tail(Head(cases).args), types, test) ELSE EvalCases(Tail(cases), types, test)
         IN Tested(Eval(Head(cases).args[1], types, m))
EvalArgs(fs, types, m, vals) ==
    LET Rest(a) == EvalArgs(Tail(fs), types, a, Append(vals, a.val)) IN
    IF fs = <<>> \/ m.exit # "" THEN [m |-> m, vals |-> vals] ELSE Rest(Eval(Head(fs), types, m))
Loop(f, types, m, fuel) ==
    LET Again(body) == IF body.exit # "" THEN body ELSE Loop(f, types, body, fuel - 1)
        Tested(test) ==
            IF test.exit # "" THEN test ELSE IF test.val = False THEN Value(test, False) ELSE Again(Eval(f.args[2], types, test))
    IN IF fuel = 0 THEN Odd(m) ELSE Tested(Eval(f.args[1], types, m))

Left(m, name) == IF m.exit = name THEN [m EXCEPT !.exit = ""] ELSE m
Eval(f, types, m) ==
    LET Negated(a) == IF a.exit # "" THEN a ELSE Value(a, (-a.val) % I!Full)
        Inverted(a) == IF a.exit # "" THEN a ELSE Value(a, I!Full - 1 - a.val)
        Opposite(a) == IF a.exit # "" THEN a ELSE Value(a, Bool(a.val = False))
        Compared(args) ==
            IF args.m.exit # "" THEN args.m
            ELSE Value(args.m, Bool(Holds(C!conditions_normal[f.op], types[f.args[1]] = "int", args.vals[1], args.vals[2])))
        Further(a) ==
            IF a.exit # "" \/ Len(f.args) = 1 \/ (f.op = "and") = (a.val = False) THEN a ELSE Eval([f EXCEPT !.args = Tail(@)], types, a)
        Exit(a) == IF a.exit # "" THEN a ELSE [a EXCEPT !.exit = f.name]
        Assign(a) == IF a.exit # "" THEN a ELSE [a EXCEPT !.vars[f.name] = a.val]
        Called(args) ==
            IF args.m.exit # "" THEN args.m
            ELSE [args.m EXCEPT !.val = (5 * Len(args.m.log) + 3) % I!Full, !.log = Append(@, args.vals), !.vars["g"] = (@ + 1) % I!Full]
        Outside(inner) == [inner EXCEPT !.vars = [v \in DOMAIN m.vars |-> IF v = f.name THEN m.vars[v] ELSE inner.vars[v]]]
        Bound(a) ==
            IF a.exit # "" THEN a
            ELSE Left(Outside(Sequence(Tail(f.args), types, [a EXCEPT !.vars = (f.name :> a.val) @@ @])),
                      IF f.op = "inline" THEN "#f" ELSE "")
    IN CASE f.op = "const" -> Value(m, f.n % I!Full)
         [] f.op = "var" -> Value(m, m.vars[f.name])
         [] f.op = "symbol" -> Value(m, SymbolValue(f.n))
         [] f.op = "-" /\ Len(f.args) = 1 -> Negated(Eval(f.args[1], types, m))
         [] f.op \in {"+", "-", "*", "/", "mod", "logand", "logior", "logxor", "shl", "shr", "sar"} ->
               Fold(f, Tail(f.args), types, types[f.args[1]], Eval(f.args[1], types, m))
         [] f.op = "lognot" -> Inverted(Eval(f.args[1], types, m))
         [] f.op \in Compare -> Compared(EvalArgs(f.args, types, m, <<>>))
         [] f.op = "not" -> Opposite(Eval(f.args[1], types, m))
         [] f.op = "begin" -> Sequence(f.args, types, m)
         [] f.op = "cond" -> EvalCases(f.args, types, m)
         [] f.op \in {"and", "or"} -> Further(Eval(f.args[1], types, m))
         [] f.op = "block" -> Left(Sequence(f.args, types, m), f.name)
         [] f.op = "return-from" -> Exit(Eval(f.args[1], types, m))
         [] f.op = "set!" -> Assign(Eval(f.args[1], types, m))
         [] f.op = "call" -> Called(EvalArgs(f.args, types, m, <<>>))
         [] f.op \in {"let", "inline"} -> Bound(Eval(f.args[1], types, m))
         [] f.op = "while" -> Loop(f, types, m, 12)
-----------------------------------------------------------------------------
(* The expressions.                                                          *)

RECURSIVE Within(_)
Within(f) == {f} \cup UNION {Within(f.args[i]) : i \in DOMAIN f.args}

Leaves == {Number(2), Number(3), Name("x"), Name("u"), Name("g"), CallForm(2, <<Name("x")>>), Set("x", Number(3))}
Operators == {"+", "-", "*", "/", "mod", "logand", "logior", "logxor", "shl", "shr", "sar", "and", "or"} \cup Compare
Simple == {Apply(op, <<a, b>>) : op \in Operators, a, b \in Leaves}
Operands ==
    {Apply(op, <<a, b>>) : op \in {"+", "*", "logxor", "<", "or"},
                           a, b \in {Number(2), Name("x"), CallForm(2, <<Number(1)>>), Set("x", Number(3))}}
    \cup {Apply("lognot", <<Name("u")>>), Apply("-", <<Name("x")>>), Apply("not", <<Name("g")>>), CallForm(2, <<Name("x"), Set("x", Number(1))>>),
          Apply("begin", <<CallForm(2, <<>>), Name("x")>>), Set("g", Name("x")), Set("x", Apply("+", <<Name("x"), Name("g")>>))}
Nested ==
    {Apply(op, <<a, b>>) : op \in Operators, a \in Operands, b \in {Number(3), Name("x"), CallForm(2, <<Name("x")>>)}}
    \cup {Apply(op, <<b, a>>) : op \in Operators, a \in Operands, b \in {Number(3), Name("x"), Name("g"), CallForm(2, <<Name("x")>>)}}
    \cup {Apply("+", <<a, b, c>>) : a, b, c \in Leaves} \cup {Apply("-", <<a, b, c>>) : a, b, c \in Leaves}

If(test, then, else) == Apply("cond", <<Apply("case", <<test, then>>), Apply("else", <<else>>)>>)
ReturnFrom(name, value) == C!Form("return-from", <<value>>, name, 0)
Tests == {Apply(op, <<a, b>>) : op \in Compare \cup {"and"}, a \in {Name("x"), Name("u"), CallForm(2, <<>>)}, b \in {Name("u"), Number(-1), Set("x", Number(0))}}
         \cup {Name("g"), C!Form("symbol", <<>>, "", C!FALSE_)}
Exits == {Number(4), CallForm(2, <<Name("x")>>), ReturnFrom("b", Name("x")), ReturnFrom("b", CallForm(2, <<Number(6)>>))}
Structured ==
    {If(Apply("not", <<t>>), a, b) : t \in Tests, a, b \in {Name("u"), Set("x", Number(2))}}
    \cup {Apply("cond", <<Apply("case", <<t, CallForm(2, <<Number(7)>>), Number(2)>>), Apply("case", <<t2, Name("x")>>)>>) : t, t2 \in Tests}
    \cup {C!Form("block", <<If(t, a, b), c>>, "b", 0) : t \in Tests, a, b \in Exits, c \in {Name("x"), CallForm(2, <<Name("u")>>)}}
    \cup {Apply("+", <<Name("x"), C!Form("block", <<Apply("+", <<CallForm(2, <<>>), If(t, a, b)>>)>>, "b", 0)>>) : t \in Tests, a, b \in Exits}
    \cup {Apply("+", <<C!Form(how, <<a, Set("y", Apply("+", <<Name("y"), Number(1)>>)), If(t, b, Name("y"))>>, "y", 0), Name("x")>>) :
             how \in {"let", "inline"}, a \in {Name("x"), CallForm(2, <<>>)}, t \in Tests, b \in {Number(1), Set("x", Name("y"))}}
    \cup {Apply("logior", <<Name("x"), C!Form("inline", <<Name("x"), If(t, ReturnFrom("#f", Name("y")), Set("y", Number(5))), Set("x", Number(1))>>, "y", 0)>>) :
             t \in Tests}
Loops ==
    {C!Form("while", <<t, Apply("begin", <<Set("x", Apply("+", <<Name("x"), Number(-1)>>)), a>>)>>, "", 0) :
        t \in {Apply(op, <<Name("x"), b>>) : op \in {">", "!=", ">="}, b \in {Number(0), Number(3), CallForm(2, <<>>)}}, a \in {CallForm(2, <<Name("x")>>), Set("g", Name("x"))}}

\* (defmacro while ...) of goal-lib.gc.
Expanded(f) ==
    IF f.op # "while" THEN f
    ELSE Apply("begin", <<C!Form("goto", <<>>, "", 1), C!Form("label", <<>>, "", 2), f.args[2], C!Form("label", <<>>, "", 1),
                          C!Form("when-goto", <<f.args[1]>>, "", 2), C!Form("symbol", <<>>, "", C!FALSE_)>>)

\* The types of the first operands.  A variable that a form binds is an int.
Types(f) ==
    [h \in {k.args[1] : k \in {q \in Within(f) : q.op \in Operators}} |->
        C!CompiledType(h, [Env EXCEPT !.vars = ("y" :> 3) @@ @, !.types = ("y" :> "int") @@ @])]

CompileExpression ==
    /\ task = Asked("expression")
    /\ \E f \in Simple \cup Nested \cup Structured \cup Loops :
          \E s \in {Compiled(Expanded(f))} : s.ok /\ task' = [kind |-> "compiled", f |-> f, s |-> s, types |-> Types(f)]
RunExpression ==
    /\ task.kind = "compiled"
    /\ \E x \in {5, 253}, u \in {2, 250} :
          \E m \in {Run(task.s, [pc |-> 1, reg |-> [r \in 1 .. task.s.regs |-> IF r = 1 THEN x ELSE IF r = 2 THEN u ELSE 77],
                              g |-> 4, log |-> <<>>, fuel |-> 300])} :
             task' = [kind |-> "evaluated", f |-> task.f,
                      got |-> [val |-> m.reg[task.s.val.r], x |-> m.reg[1], u |-> m.reg[2], g |-> m.g, log |-> m.log],
                      ended |-> m.pc > Len(task.s.code),
                      want |-> Eval(task.f, task.types, [vars |-> ("x" :> x) @@ ("u" :> u) @@ ("g" :> 4), log |-> <<>>, val |-> False, exit |-> "", odd |-> FALSE])]
-----------------------------------------------------------------------------
(* Properties.                                                               *)

RECURSIVE Assigned(_), SharesRegister(_)
\* The variables that a form may set; the variables whose register it returns.
Assigned(f) == {h.name : h \in {k \in Within(f) : k.op = "set!"}} \cup (IF \E h \in Within(f) : h.op = "call" THEN {"g"} ELSE {})
SharesRegister(f) ==
    CASE f.op = "var" /\ f.name # "g" -> {f.name}
      [] f.op = "set!" -> SharesRegister(f.args[1])
      [] f.op \in {"begin", "block", "let", "inline"} -> SharesRegister(f.args[Len(f.args)])
      [] OTHER -> {}
\* The operands of these are in registers, or not read yet, when the next one
\* is compiled: an operand that is a variable is read after it.
ReadLate(f) ==
    \E i, j \in DOMAIN f.args :
        /\ i < j /\ f.op \in {"logand", "logior", "logxor", "mod", "shl", "shr", "sar", "call"} \cup Compare
        /\ (SharesRegister(f.args[i]) \cup (IF f.op \in Compare /\ f.args[i] = Name("g") THEN {"g"} ELSE {})) \cap Assigned(f.args[j]) # {}
TwiceEvaluated(f) == f.op = "-" /\ Assigned(f.args[1]) # {}
Same(got, want) ==
    /\ got.val = want.val /\ got.log = want.log
    /\ got.x = want.vars["x"] /\ got.u = want.vars["u"] /\ got.g = want.vars["g"]

\* What an expression compiles to computes its value, and calls and sets what
\* it says in the order it says, whatever jumps, blocks and inlined functions
\* it is made of; but for an operand that is a variable and that a later one
\* sets, the first operand of -, and products and quotients beyond 32 bits.
CompiledAsWritten ==
    task.kind = "evaluated" /\ ~task.want.odd /\ (\A h \in Within(task.f) : ~ReadLate(h) /\ ~TwiceEvaluated(h)) =>
        task.ended /\ Same(task.got, task.want)
-----------------------------------------------------------------------------
(* Bitfields.  A 128-bit register is <<low, high>>.                          *)

RECURSIVE RunWide(_, _, _)
RunWide(code, wide, reg) ==
    IF code = <<>> THEN reg
    ELSE LET x == Head(code)
             a == reg[x.src[1]]
             b == reg[x.src[2]]
         IN RunWide(Tail(code), wide, [reg EXCEPT ![x.dst] =
                CASE x.name = "LoadConstant64" -> x.n
                  [] x.name = "IntegerMath" -> Computed(x, reg)
                  [] x.name = "RegSet" -> IF (x.dst \in wide) = (x.src[1] \in wide) THEN a
                                          ELSE IF x.dst \in wide THEN <<a, 0>> ELSE a[1]
                  [] x.name = "Int128Math3Asm" -> IF x.kind = "PCPYUD" THEN <<a[2], b[2]>> ELSE <<b[1], a[1]>>])

SetBitfield ==
    /\ task = Asked("bitfield")
    /\ \E size \in 1 .. C!WordBits, offset \in 0 .. 2 * C!WordBits - 1, wide \in BOOLEAN, src \in {0, 1, 90, 165, 255}, low, high \in {0, 60, 195, 255}, sign \in BOOLEAN :
          LET start == IF wide THEN <<low, high>> ELSE low
              \* xmm registers: the value and its copy
              regs == IF wide THEN {1, 2} ELSE {}
              after == RunWide(IF wide THEN C!set_bitfield_128(size, offset) ELSE C!set_bitfield(size, offset), regs, <<start, start, 0, src, 0>>)
          IN /\ (offset % C!WordBits) + size <= C!WordBits /\ (wide \/ (offset < C!WordBits /\ high = 0))
             /\ task' = [kind |-> "bitfield", size |-> size, offset |-> offset, sign |-> sign, src |-> src,
                         before |-> <<low, high>>, after |-> IF wide THEN after[1] ELSE <<after[1], 0>>,
                         read |-> RunWide(C!get_bitfield(size, offset, sign), regs, after)[5]]

\* Bit k of a value of two words.
Bit(v, k) == (IF k < C!WordBits THEN v[1] \div 2 ^ k ELSE v[2] \div 2 ^ (k - C!WordBits)) % 2

\* A field reads back as the bits that were written to it, sign extended if its
\* type is signed, and the write leaves all other bits of the value alone.
BitfieldsApart ==
    task.kind = "bitfield" =>
        /\ \A k \in 0 .. 2 * C!WordBits - 1 :
              Bit(task.after, k) = IF k \in task.offset .. task.offset + task.size - 1 THEN (task.src \div 2 ^ (k - task.offset)) % 2
                                   ELSE Bit(task.before, k)
        /\ LET written == task.src % 2 ^ task.size IN
           task.read = (IF task.sign THEN I!Signed(written, 2 ^ task.size) ELSE written) % I!Full

\* Expressions and bitfields mean after compilation what they mean in GOAL.
CompilationSound == CompiledAsWritten /\ BitfieldsApart
==============================================================================
