-------------------------- MODULE Compiler_proofs --------------------------
(***************************************************************************)
(* The processor reads the instruction that the compiler meant, for every  *)
(* function of IGen, every register and every displacement of 32 bits; and *)
(* the allocator keeps variables apart, for every function.                *)
(***************************************************************************)
EXTENDS Emitter, CompilerTasks, SequenceTheorems, FiniteSetTheorems, WellFoundedInduction, TLAPS

-----------------------------------------------------------------------------
(* Sequences of bytes.                                                       *)

\* What follows does not change what came before.
LEMMA Appended ==
    ASSUME NEW s \in Seq(Int), NEW t \in Seq(Int)
    PROVE  /\ s \o t \in Seq(Int) /\ Len(s \o t) = Len(s) + Len(t)
           /\ \A k \in 1 .. Len(s) : (s \o t)[k] = s[k]
           /\ \A k \in 1 .. Len(t) : (s \o t)[Len(s) + k] = t[k]
OBVIOUS

\* b begins with the bytes of h.
Starts(b, h) == b \in Seq(Int) /\ Len(b) >= Len(h) /\ \A k \in 1 .. Len(h) : b[k] = h[k]

\* b has the bytes of t after the first n.
Holds(b, n, t) == Len(b) >= n + Len(t) /\ \A k \in 1 .. Len(t) : b[n + k] = t[k]

LEMMA HoldsAppended ==
    ASSUME NEW s \in Seq(Int), NEW t \in Seq(Int)
    PROVE  Starts(s \o t, s) /\ Holds(s \o t, Len(s), t)
BY Appended DEF Starts, Holds

LEMMA StartsOn ==
    ASSUME NEW s \in Seq(Int), NEW t \in Seq(Int), NEW h \in Seq(Int), Starts(s, h)
    PROVE  Starts(s \o t, h)
<1>1. \A k \in 1 .. Len(h) : (s \o t)[k] = h[k]
    BY Appended DEF Starts
<1> QED BY <1>1, Appended DEF Starts

LEMMA HoldsOn ==
    ASSUME NEW s \in Seq(Int), NEW t \in Seq(Int), NEW u \in Seq(Int), NEW n \in Nat, Holds(s, n, u)
    PROVE  Holds(s \o t, n, u)
<1>1. \A k \in 1 .. Len(u) : (s \o t)[n + k] = u[k]
    <2> TAKE k \in 1 .. Len(u)
    <2>1. Len(s) >= n + Len(u) /\ s[n + k] = u[k]
        BY DEF Holds
    <2>2. n + k \in 1 .. Len(s) /\ k \in Nat
        BY <2>1
    <2> QED BY <2>1, <2>2, Appended
<1>2. Len(s) >= n + Len(u) /\ Len(s \o t) = Len(s) + Len(t) /\ Len(t) \in Nat /\ Len(s) \in Nat /\ Len(u) \in Nat
    BY Appended DEF Holds
<1>3. Len(s \o t) >= n + Len(u)
    BY <1>2
<1> QED BY <1>1, <1>3, Zenon DEF Holds

LEMMA ByteSeq == ASSUME NEW x \in Int PROVE Byte(x) \in Seq(Int) /\ Len(Byte(x)) = Flag(x # None)
BY DEF Byte, Flag, None

LEMMA ByteFirst == ASSUME NEW x \in Int, x # None PROVE Byte(x)[1] = x
BY DEF Byte

-----------------------------------------------------------------------------
(* Instructions.                                                             *)

InstrRec == [op : Seq(Int), rex : Int, vex : Seq(Int), modrm : Int, sib : Int,
             disp : Seq(Int), imm : Seq(Int), valid : BOOLEAN]

\* Prefixes and opcode, as they are emitted.
Head_(i) == i.vex \o Byte(i.rex) \o i.op

\* Where the displacement begins.
Before(i) == Len(Head_(i)) + Flag(i.modrm # None) + Flag(i.sib # None)

LEMMA HeadSeq == ASSUME NEW i \in InstrRec PROVE Head_(i) \in Seq(Int)
BY ByteSeq, Appended DEF InstrRec, Head_

\* What emit puts where.
LEMMA Layout ==
    ASSUME NEW i \in InstrRec
    PROVE  /\ Starts(emit(i), Head_(i))
           /\ i.modrm # None => emit(i)[Len(Head_(i)) + 1] = i.modrm
           /\ i.modrm # None /\ i.sib # None => emit(i)[Len(Head_(i)) + 2] = i.sib
           /\ Holds(emit(i), Before(i), i.disp)
           /\ Len(emit(i)) = Before(i) + Len(i.disp) + Len(i.imm)
<1> DEFINE h == Head_(i)
           m == h \o Byte(i.modrm)
           s == m \o Byte(i.sib)
           d == s \o i.disp
           e == d \o i.imm
<1>1. emit(i) = e
    BY DEF emit, Head_
<1>2. h \in Seq(Int) /\ i.disp \in Seq(Int) /\ i.imm \in Seq(Int)
    BY HeadSeq DEF InstrRec
<1>3. /\ Byte(i.modrm) \in Seq(Int) /\ Len(Byte(i.modrm)) = Flag(i.modrm # None)
      /\ Byte(i.sib) \in Seq(Int) /\ Len(Byte(i.sib)) = Flag(i.sib # None)
    BY ByteSeq DEF InstrRec
<1>4. m \in Seq(Int) /\ s \in Seq(Int) /\ d \in Seq(Int) /\ e \in Seq(Int)
    BY <1>2, <1>3, Appended
<1>5. /\ Len(m) = Len(h) + Flag(i.modrm # None) /\ Len(s) = Before(i)
      /\ Len(d) = Before(i) + Len(i.disp) /\ Len(e) = Before(i) + Len(i.disp) + Len(i.imm)
    <2>1. Len(m) = Len(h) + Flag(i.modrm # None)
        <3>1. Len(h \o Byte(i.modrm)) = Len(h) + Len(Byte(i.modrm))
            BY <1>2, <1>3, Appended
        <3> QED BY <3>1, <1>3
    <2>2. Len(s) = Len(m) + Flag(i.sib # None)
        <3>1. Len(m \o Byte(i.sib)) = Len(m) + Len(Byte(i.sib))
            BY <1>3, <1>4, Appended
        <3> QED BY <3>1, <1>3
    <2>3. Len(d) = Len(s) + Len(i.disp)
        BY <1>2, <1>4, Appended
    <2>4. Len(e) = Len(d) + Len(i.imm)
        BY <1>2, <1>4, Appended
    <2> QED BY <2>1, <2>2, <2>3, <2>4 DEF Before
<1>6. Starts(e, h)
    BY <1>2, <1>3, <1>4, HoldsAppended, StartsOn
<1>7. Holds(e, Len(h), Byte(i.modrm)) /\ Holds(e, Len(m), Byte(i.sib)) /\ Holds(e, Len(s), i.disp)
    <2>1. Len(h) \in Nat /\ Len(m) \in Nat /\ Len(s) \in Nat
        BY <1>2, <1>4
    <2>2. Holds(m, Len(h), Byte(i.modrm)) /\ Holds(s, Len(m), Byte(i.sib)) /\ Holds(d, Len(s), i.disp)
        BY <1>2, <1>3, <1>4, HoldsAppended
    <2> HIDE DEF h, m, s, d, e
    <2>3. Holds(e, Len(s), i.disp)
        BY <2>1, <2>2, <1>2, <1>4, HoldsOn DEF e
    <2>4. Holds(d, Len(m), Byte(i.sib)) /\ Holds(s, Len(h), Byte(i.modrm))
        BY <2>1, <2>2, <1>2, <1>3, <1>4, HoldsOn DEF d, s
    <2>5. Holds(e, Len(m), Byte(i.sib)) /\ Holds(d, Len(h), Byte(i.modrm))
        BY <2>1, <2>4, <1>2, <1>3, <1>4, HoldsOn DEF e, d
    <2>6. Holds(e, Len(h), Byte(i.modrm))
        BY <2>1, <2>5, <1>2, <1>3, <1>4, HoldsOn DEF e
    <2> QED BY <2>3, <2>5, <2>6
<1>8. i.modrm # None => e[Len(h) + 1] = i.modrm
    <2> SUFFICES ASSUME i.modrm # None PROVE e[Len(h) + 1] = i.modrm
        OBVIOUS
    <2>1. Len(Byte(i.modrm)) = 1 /\ Byte(i.modrm)[1] = i.modrm
        BY <1>3, ByteFirst DEF Flag, InstrRec
    <2> HIDE DEF h, e
    <2> QED BY <1>7, <2>1 DEF Holds
<1>9. i.modrm # None /\ i.sib # None => e[Len(h) + 2] = i.sib
    <2> SUFFICES ASSUME i.modrm # None, i.sib # None PROVE e[Len(h) + 2] = i.sib
        OBVIOUS
    <2>1. Len(Byte(i.sib)) = 1 /\ Byte(i.sib)[1] = i.sib /\ Len(m) = Len(h) + 1
        BY <1>3, <1>5, ByteFirst DEF Flag, InstrRec
    <2>2. e[Len(m) + 1] = i.sib
        <3> HIDE DEF h, m, e
        <3> QED BY <1>7, <2>1 DEF Holds
    <2>3. Len(h) + 1 + 1 = Len(h) + 2
        BY <1>2
    <2> QED BY <2>1, <2>2, <2>3
<1> QED BY <1>1, <1>5, <1>6, <1>7, <1>8, <1>9

-----------------------------------------------------------------------------
(* Prefixes.                                                                 *)

\* The opcodes of one byte are no prefix and no escape.
OpByte == 0 .. 255 \ ({15, 102, 242, 243, 196, 197} \cup 64 .. 79)

Escaped(e, o) == IF e = 0 THEN <<o>> ELSE <<15, o>>
LegacyHead(p, r, e, o) == (IF p = 0 THEN <<>> ELSE <<p>>) \o Byte(r) \o Escaped(e, o)

\* What the processor takes from a legacy prefix, a REX byte and an escape.
LegacyPrefix(pre, at, p, r, e) ==
    /\ pre.at = at /\ pre.pp = PrefixOf(p) /\ pre.map = e
    /\ pre.W = (IF r # None THEN BitOf(r, 8) ELSE 0) /\ pre.R = (IF r # None THEN BitOf(r, 4) ELSE 0)
    /\ pre.X = (IF r # None THEN BitOf(r, 2) ELSE 0) /\ pre.B = (IF r # None THEN BitOf(r, 1) ELSE 0)

\* b begins with these prefixes and this opcode.
LegacyStart(b, p, r, e, o) ==
    /\ p \in {0, 102, 243} /\ r \in {None} \cup 64 .. 79 /\ e \in {0, 1} /\ o \in OpByte
    /\ Starts(b, LegacyHead(p, r, e, o))

LEMMA LegacyReads ==
    ASSUME NEW b, NEW p, NEW r, NEW e, NEW o, LegacyStart(b, p, r, e, o)
    PROVE  LET at == Len(LegacyHead(p, r, e, o))
           IN /\ at \in Nat \ {0} /\ b[at] = o
              /\ LegacyPrefix(PrefixBytes(b), at, p, r, e) /\ (PrefixBytes(b).rex <=> r # None)
<1> DEFINE h == LegacyHead(p, r, e, o)
<1>0. /\ p \in Int /\ r \in Int /\ o \in 0 .. 255 /\ o \notin {15, 102, 242, 243, 196, 197} /\ o \notin 64 .. 79
      /\ r # None => r \in 64 .. 79
      /\ p \in {0, 102, 243} /\ e \in {0, 1} /\ Starts(b, h)
    BY DEF OpByte, None, LegacyStart
<1>1. CASE p = 0 /\ r = None /\ e = 0
    <2>1. h = <<>> \o <<>> \o <<o>>
        BY <1>1 DEF LegacyHead, Escaped, Byte
    <2>2. Len(h) = 1 /\ h[1] = o
        BY <1>0, <2>1
    <2>3. b[1] = o
        BY <1>0, <2>2 DEF Starts
    <2>4. PrefixOf(b[1]) = PrefixOf(p) /\ PrefixOf(p) = 0 /\ b[1] # 196 /\ b[1] # 197
        BY <1>0, <1>1, <2>3 DEF PrefixOf
    <2>5. PrefixBytes(b).rex = (b[1] \in 64 .. 79)
        BY <2>4, Zenon DEF PrefixBytes
    <2>6. (b[1] \in 64 .. 79) = (r # None)
        BY <1>0, <1>1, <2>3
    <2>7. PrefixBytes(b).rex <=> r # None
        BY <2>5, <2>6, Zenon
    <2> HIDE DEF h
    <2>8. PrefixBytes(b).at = Len(h) /\ PrefixBytes(b).pp = PrefixOf(p) /\ PrefixBytes(b).map = e
        BY <1>0, <1>1, <2>2, <2>3, <2>4 DEF PrefixBytes
    <2>9. /\ PrefixBytes(b).W = 0 /\ PrefixBytes(b).R = 0
          /\ PrefixBytes(b).X = 0 /\ PrefixBytes(b).B = 0
        BY <1>0, <1>1, <2>3, <2>4 DEF PrefixBytes
    <2>10. LegacyPrefix(PrefixBytes(b), Len(h), p, r, e)
        BY <1>1, <2>8, <2>9 DEF LegacyPrefix
    <2>11. Len(h) \in Nat \ {0} /\ b[Len(h)] = o
        BY <2>2, <2>3
    <2> QED BY <2>7, <2>10, <2>11, Zenon DEF h
<1>2. CASE p = 0 /\ r = None /\ e = 1
    <2>1. h = <<>> \o <<>> \o <<15, o>>
        BY <1>2 DEF LegacyHead, Escaped, Byte
    <2>2. Len(h) = 2 /\ h[1] = 15 /\ h[2] = o
        BY <1>0, <2>1
    <2>3. b[1] = 15 /\ b[2] = o
        BY <1>0, <2>2 DEF Starts
    <2>4. PrefixOf(b[1]) = PrefixOf(p) /\ PrefixOf(p) = 0 /\ b[1] # 196 /\ b[1] # 197
        BY <1>0, <1>2, <2>3 DEF PrefixOf
    <2>5. PrefixBytes(b).rex = (b[1] \in 64 .. 79)
        BY <2>4, Zenon DEF PrefixBytes
    <2>6. (b[1] \in 64 .. 79) = (r # None)
        BY <1>0, <1>2, <2>3
    <2>7. PrefixBytes(b).rex <=> r # None
        BY <2>5, <2>6, Zenon
    <2> HIDE DEF h
    <2>8. PrefixBytes(b).at = Len(h) /\ PrefixBytes(b).pp = PrefixOf(p) /\ PrefixBytes(b).map = e
        BY <1>0, <1>2, <2>2, <2>3, <2>4 DEF PrefixBytes
    <2>9. /\ PrefixBytes(b).W = 0 /\ PrefixBytes(b).R = 0
          /\ PrefixBytes(b).X = 0 /\ PrefixBytes(b).B = 0
        BY <1>0, <1>2, <2>3, <2>4 DEF PrefixBytes
    <2>10. LegacyPrefix(PrefixBytes(b), Len(h), p, r, e)
        BY <1>2, <2>8, <2>9 DEF LegacyPrefix
    <2>11. Len(h) \in Nat \ {0} /\ b[Len(h)] = o
        BY <2>2, <2>3
    <2> QED BY <2>7, <2>10, <2>11, Zenon DEF h
<1>3. CASE p = 0 /\ r # None /\ e = 0
    <2>1. h = <<>> \o <<r>> \o <<o>>
        BY <1>3 DEF LegacyHead, Escaped, Byte
    <2>2. Len(h) = 2 /\ h[1] = r /\ h[2] = o
        BY <1>0, <2>1
    <2>3. b[1] = r /\ b[2] = o
        BY <1>0, <2>2 DEF Starts
    <2>4. PrefixOf(b[1]) = PrefixOf(p) /\ PrefixOf(p) = 0 /\ b[1] # 196 /\ b[1] # 197
        BY <1>0, <1>3, <2>3 DEF PrefixOf
    <2>5. PrefixBytes(b).rex = (b[1] \in 64 .. 79)
        BY <2>4, Zenon DEF PrefixBytes
    <2>6. (b[1] \in 64 .. 79) = (r # None)
        BY <1>0, <1>3, <2>3
    <2>7. PrefixBytes(b).rex <=> r # None
        BY <2>5, <2>6, Zenon
    <2> HIDE DEF h
    <2>8. PrefixBytes(b).at = Len(h) /\ PrefixBytes(b).pp = PrefixOf(p) /\ PrefixBytes(b).map = e
        BY <1>0, <1>3, <2>2, <2>3, <2>4 DEF PrefixBytes
    <2>9. /\ PrefixBytes(b).W = BitOf(r, 8) /\ PrefixBytes(b).R = BitOf(r, 4)
          /\ PrefixBytes(b).X = BitOf(r, 2) /\ PrefixBytes(b).B = BitOf(r, 1)
        BY <1>0, <1>3, <2>3, <2>4 DEF PrefixBytes
    <2>10. LegacyPrefix(PrefixBytes(b), Len(h), p, r, e)
        BY <1>3, <2>8, <2>9 DEF LegacyPrefix
    <2>11. Len(h) \in Nat \ {0} /\ b[Len(h)] = o
        BY <2>2, <2>3
    <2> QED BY <2>7, <2>10, <2>11, Zenon DEF h
<1>4. CASE p = 0 /\ r # None /\ e = 1
    <2>1. h = <<>> \o <<r>> \o <<15, o>>
        BY <1>4 DEF LegacyHead, Escaped, Byte
    <2>2. Len(h) = 3 /\ h[1] = r /\ h[2] = 15 /\ h[3] = o
        BY <1>0, <2>1
    <2>3. b[1] = r /\ b[2] = 15 /\ b[3] = o
        BY <1>0, <2>2 DEF Starts
    <2>4. PrefixOf(b[1]) = PrefixOf(p) /\ PrefixOf(p) = 0 /\ b[1] # 196 /\ b[1] # 197
        BY <1>0, <1>4, <2>3 DEF PrefixOf
    <2>5. PrefixBytes(b).rex = (b[1] \in 64 .. 79)
        BY <2>4, Zenon DEF PrefixBytes
    <2>6. (b[1] \in 64 .. 79) = (r # None)
        BY <1>0, <1>4, <2>3
    <2>7. PrefixBytes(b).rex <=> r # None
        BY <2>5, <2>6, Zenon
    <2> HIDE DEF h
    <2>8. PrefixBytes(b).at = Len(h) /\ PrefixBytes(b).pp = PrefixOf(p) /\ PrefixBytes(b).map = e
        BY <1>0, <1>4, <2>2, <2>3, <2>4 DEF PrefixBytes
    <2>9. /\ PrefixBytes(b).W = BitOf(r, 8) /\ PrefixBytes(b).R = BitOf(r, 4)
          /\ PrefixBytes(b).X = BitOf(r, 2) /\ PrefixBytes(b).B = BitOf(r, 1)
        BY <1>0, <1>4, <2>3, <2>4 DEF PrefixBytes
    <2>10. LegacyPrefix(PrefixBytes(b), Len(h), p, r, e)
        BY <1>4, <2>8, <2>9 DEF LegacyPrefix
    <2>11. Len(h) \in Nat \ {0} /\ b[Len(h)] = o
        BY <2>2, <2>3
    <2> QED BY <2>7, <2>10, <2>11, Zenon DEF h
<1>5. CASE p # 0 /\ r = None /\ e = 0
    <2>1. h = <<p>> \o <<>> \o <<o>>
        BY <1>5 DEF LegacyHead, Escaped, Byte
    <2>2. Len(h) = 2 /\ h[1] = p /\ h[2] = o
        BY <1>0, <2>1
    <2>3. b[1] = p /\ b[2] = o
        BY <1>0, <2>2 DEF Starts
    <2>4. PrefixOf(b[1]) = PrefixOf(p) /\ PrefixOf(p) # 0 /\ b[1] # 196 /\ b[1] # 197
        BY <1>0, <1>5, <2>3 DEF PrefixOf
    <2>5. PrefixBytes(b).rex = (b[2] \in 64 .. 79)
        BY <2>4, Zenon DEF PrefixBytes
    <2>6. (b[2] \in 64 .. 79) = (r # None)
        BY <1>0, <1>5, <2>3
    <2>7. PrefixBytes(b).rex <=> r # None
        BY <2>5, <2>6, Zenon
    <2> HIDE DEF h
    <2>8. PrefixBytes(b).at = Len(h) /\ PrefixBytes(b).pp = PrefixOf(p) /\ PrefixBytes(b).map = e
        BY <1>0, <1>5, <2>2, <2>3, <2>4 DEF PrefixBytes
    <2>9. /\ PrefixBytes(b).W = 0 /\ PrefixBytes(b).R = 0
          /\ PrefixBytes(b).X = 0 /\ PrefixBytes(b).B = 0
        BY <1>0, <1>5, <2>3, <2>4 DEF PrefixBytes
    <2>10. LegacyPrefix(PrefixBytes(b), Len(h), p, r, e)
        BY <1>5, <2>8, <2>9 DEF LegacyPrefix
    <2>11. Len(h) \in Nat \ {0} /\ b[Len(h)] = o
        BY <2>2, <2>3
    <2> QED BY <2>7, <2>10, <2>11, Zenon DEF h
<1>6. CASE p # 0 /\ r = None /\ e = 1
    <2>1. h = <<p>> \o <<>> \o <<15, o>>
        BY <1>6 DEF LegacyHead, Escaped, Byte
    <2>2. Len(h) = 3 /\ h[1] = p /\ h[2] = 15 /\ h[3] = o
        BY <1>0, <2>1
    <2>3. b[1] = p /\ b[2] = 15 /\ b[3] = o
        BY <1>0, <2>2 DEF Starts
    <2>4. PrefixOf(b[1]) = PrefixOf(p) /\ PrefixOf(p) # 0 /\ b[1] # 196 /\ b[1] # 197
        BY <1>0, <1>6, <2>3 DEF PrefixOf
    <2>5. PrefixBytes(b).rex = (b[2] \in 64 .. 79)
        BY <2>4, Zenon DEF PrefixBytes
    <2>6. (b[2] \in 64 .. 79) = (r # None)
        BY <1>0, <1>6, <2>3
    <2>7. PrefixBytes(b).rex <=> r # None
        BY <2>5, <2>6, Zenon
    <2> HIDE DEF h
    <2>8. PrefixBytes(b).at = Len(h) /\ PrefixBytes(b).pp = PrefixOf(p) /\ PrefixBytes(b).map = e
        BY <1>0, <1>6, <2>2, <2>3, <2>4 DEF PrefixBytes
    <2>9. /\ PrefixBytes(b).W = 0 /\ PrefixBytes(b).R = 0
          /\ PrefixBytes(b).X = 0 /\ PrefixBytes(b).B = 0
        BY <1>0, <1>6, <2>3, <2>4 DEF PrefixBytes
    <2>10. LegacyPrefix(PrefixBytes(b), Len(h), p, r, e)
        BY <1>6, <2>8, <2>9 DEF LegacyPrefix
    <2>11. Len(h) \in Nat \ {0} /\ b[Len(h)] = o
        BY <2>2, <2>3
    <2> QED BY <2>7, <2>10, <2>11, Zenon DEF h
<1>7. CASE p # 0 /\ r # None /\ e = 0
    <2>1. h = <<p>> \o <<r>> \o <<o>>
        BY <1>7 DEF LegacyHead, Escaped, Byte
    <2>2. Len(h) = 3 /\ h[1] = p /\ h[2] = r /\ h[3] = o
        BY <1>0, <2>1
    <2>3. b[1] = p /\ b[2] = r /\ b[3] = o
        BY <1>0, <2>2 DEF Starts
    <2>4. PrefixOf(b[1]) = PrefixOf(p) /\ PrefixOf(p) # 0 /\ b[1] # 196 /\ b[1] # 197
        BY <1>0, <1>7, <2>3 DEF PrefixOf
    <2>5. PrefixBytes(b).rex = (b[2] \in 64 .. 79)
        BY <2>4, Zenon DEF PrefixBytes
    <2>6. (b[2] \in 64 .. 79) = (r # None)
        BY <1>0, <1>7, <2>3
    <2>7. PrefixBytes(b).rex <=> r # None
        BY <2>5, <2>6, Zenon
    <2> HIDE DEF h
    <2>8. PrefixBytes(b).at = Len(h) /\ PrefixBytes(b).pp = PrefixOf(p) /\ PrefixBytes(b).map = e
        BY <1>0, <1>7, <2>2, <2>3, <2>4 DEF PrefixBytes
    <2>9. /\ PrefixBytes(b).W = BitOf(r, 8) /\ PrefixBytes(b).R = BitOf(r, 4)
          /\ PrefixBytes(b).X = BitOf(r, 2) /\ PrefixBytes(b).B = BitOf(r, 1)
        BY <1>0, <1>7, <2>3, <2>4 DEF PrefixBytes
    <2>10. LegacyPrefix(PrefixBytes(b), Len(h), p, r, e)
        BY <1>7, <2>8, <2>9 DEF LegacyPrefix
    <2>11. Len(h) \in Nat \ {0} /\ b[Len(h)] = o
        BY <2>2, <2>3
    <2> QED BY <2>7, <2>10, <2>11, Zenon DEF h
<1>8. CASE p # 0 /\ r # None /\ e = 1
    <2>1. h = <<p>> \o <<r>> \o <<15, o>>
        BY <1>8 DEF LegacyHead, Escaped, Byte
    <2>2. Len(h) = 4 /\ h[1] = p /\ h[2] = r /\ h[3] = 15 /\ h[4] = o
        BY <1>0, <2>1
    <2>3. b[1] = p /\ b[2] = r /\ b[3] = 15 /\ b[4] = o
        BY <1>0, <2>2 DEF Starts
    <2>4. PrefixOf(b[1]) = PrefixOf(p) /\ PrefixOf(p) # 0 /\ b[1] # 196 /\ b[1] # 197
        BY <1>0, <1>8, <2>3 DEF PrefixOf
    <2>5. PrefixBytes(b).rex = (b[2] \in 64 .. 79)
        BY <2>4, Zenon DEF PrefixBytes
    <2>6. (b[2] \in 64 .. 79) = (r # None)
        BY <1>0, <1>8, <2>3
    <2>7. PrefixBytes(b).rex <=> r # None
        BY <2>5, <2>6, Zenon
    <2> HIDE DEF h
    <2>8. PrefixBytes(b).at = Len(h) /\ PrefixBytes(b).pp = PrefixOf(p) /\ PrefixBytes(b).map = e
        BY <1>0, <1>8, <2>2, <2>3, <2>4 DEF PrefixBytes
    <2>9. /\ PrefixBytes(b).W = BitOf(r, 8) /\ PrefixBytes(b).R = BitOf(r, 4)
          /\ PrefixBytes(b).X = BitOf(r, 2) /\ PrefixBytes(b).B = BitOf(r, 1)
        BY <1>0, <1>8, <2>3, <2>4 DEF PrefixBytes
    <2>10. LegacyPrefix(PrefixBytes(b), Len(h), p, r, e)
        BY <1>8, <2>8, <2>9 DEF LegacyPrefix
    <2>11. Len(h) \in Nat \ {0} /\ b[Len(h)] = o
        BY <2>2, <2>3
    <2> QED BY <2>7, <2>10, <2>11, Zenon DEF h
<1> QED BY <1>0, <1>1, <1>2, <1>3, <1>4, <1>5, <1>6, <1>7, <1>8

LEMMA RexBits ==
    ASSUME NEW w \in {0, 1}, NEW r \in {0, 1}, NEW x \in {0, 1}, NEW b \in {0, 1}
    PROVE  /\ REX(w, r, x, b) \in 64 .. 79
           /\ BitOf(REX(w, r, x, b), 8) = w /\ BitOf(REX(w, r, x, b), 4) = r
           /\ BitOf(REX(w, r, x, b), 2) = x /\ BitOf(REX(w, r, x, b), 1) = b
BY DEF REX, BitOf

VexHead(v, w, r, x, b, o) ==
    (IF b + w + x > 0 \/ v.map # 1 THEN VEX3(w, r, x, b, v.map, v.reg, v.pp) ELSE VEX2(r, v.reg, v.pp))
    \o Byte(None) \o <<o>>

VexRec == [map : {1, 3}, reg : 0 .. 15, pp : 0 .. 3]

\* What the processor takes from a VEX prefix.
VexPrefix(pre, at, v, w, r, x, b) ==
    /\ pre.at = at /\ pre.pp = v.pp /\ pre.map = v.map
    /\ pre.W = w /\ pre.R = r /\ pre.X = x /\ pre.B = b /\ pre.vvvv = v.reg

LEMMA VexReads ==
    ASSUME NEW c, NEW v \in VexRec, NEW w \in {0, 1}, NEW r \in {0, 1}, NEW x \in {0, 1}, NEW b \in {0, 1},
           NEW o \in Int, Starts(c, VexHead(v, w, r, x, b, o))
    PROVE  LET at == Len(VexHead(v, w, r, x, b, o))
           IN at \in Nat \ {0} /\ c[at] = o /\ VexPrefix(PrefixBytes(c), at, v, w, r, x, b)
<1> DEFINE h == VexHead(v, w, r, x, b, o)
<1>1. v.map \in {1, 3} /\ v.reg \in 0 .. 15 /\ v.pp \in 0 .. 3
    BY DEF VexRec
<1>2. CASE b + w + x > 0 \/ v.map # 1
    <2> DEFINE y == (1 - r) * 128 + (1 - x) * 64 + (1 - b) * 32 + v.map
               z == w * 128 + (15 - v.reg) * 8 + v.pp
    <2>0. y \in Int /\ z \in Int
        BY <1>1
    <2>1. h = <<196, y, z>> \o <<>> \o <<o>>
        BY <1>2 DEF VexHead, VEX3, Byte
    <2>3. y % 32 = v.map /\ 1 - BitOf(y, 128) = r
        BY <1>1 DEF BitOf
    <2>6. 1 - BitOf(y, 64) = x
        BY <1>1 DEF BitOf
    <2>7. 1 - BitOf(y, 32) = b
        BY <1>1 DEF BitOf
    <2>4. z % 4 = v.pp /\ BitOf(z, 128) = w /\ 15 - ((z \div 8) % 16) = v.reg
        BY <1>1 DEF BitOf
    <2> HIDE DEF y, z
    <2>2. Len(h) = 4 /\ h[1] = 196 /\ h[2] = y /\ h[3] = z /\ h[4] = o
        BY <2>0, <2>1
    <2>5. c[1] = 196 /\ c[2] = y /\ c[3] = z /\ c[4] = o
        BY <2>2 DEF Starts
    <2> HIDE DEF h
    <2> QED BY <2>2, <2>3, <2>4, <2>5, <2>6, <2>7 DEF PrefixBytes, VexPrefix, h
<1>3. CASE ~(b + w + x > 0 \/ v.map # 1)
    <2>0. b = 0 /\ w = 0 /\ x = 0 /\ v.map = 1
        BY <1>3
    <2> DEFINE y == (1 - r) * 128 + (15 - v.reg) * 8 + v.pp
    <2>1. y \in Int
        BY <1>1
    <2>2. h = <<197, y>> \o <<>> \o <<o>>
        BY <1>3 DEF VexHead, VEX2, Byte
    <2>3. y % 4 = v.pp /\ 1 - BitOf(y, 128) = r /\ 15 - ((y \div 8) % 16) = v.reg
        BY <1>1 DEF BitOf
    <2> HIDE DEF y
    <2>4. Len(h) = 3 /\ h[1] = 197 /\ h[2] = y /\ h[3] = o
        BY <2>1, <2>2
    <2>5. c[1] = 197 /\ c[2] = y /\ c[3] = o
        BY <2>4 DEF Starts
    <2> HIDE DEF h
    <2>6. /\ PrefixBytes(c).at = 3 /\ PrefixBytes(c).pp = v.pp /\ PrefixBytes(c).map = 1 /\ PrefixBytes(c).W = 0
          /\ PrefixBytes(c).R = r /\ PrefixBytes(c).X = 0 /\ PrefixBytes(c).B = 0 /\ PrefixBytes(c).vvvv = v.reg
        BY <2>3, <2>5 DEF PrefixBytes
    <2>7. VexPrefix(PrefixBytes(c), Len(h), v, w, r, x, b)
        BY <2>0, <2>4, <2>6 DEF VexPrefix
    <2>8. Len(h) \in Nat \ {0} /\ c[Len(h)] = o
        BY <2>4, <2>5
    <2> QED BY <2>7, <2>8, Zenon DEF h
<1> QED BY <1>2, <1>3

-----------------------------------------------------------------------------
(* Displacements and operands.                                               *)

\* A displacement of 32 bits.
Disp32(offset) == offset \in Int /\ -2147483647 <= offset + 1 /\ offset <= 2147483647

\* The offset fits in this many bytes.
Fits(size, offset) ==
    \/ size = 0 /\ offset = 0
    \/ size = 1 /\ offset \in -128 .. 127
    \/ size = 4 /\ Disp32(offset)

LEMMA ImmSeq == ASSUME NEW size \in Nat, NEW value \in Int PROVE Imm(size, value) \in Seq(Int) /\ Len(Imm(size, value)) = size
<1> DEFINE Low(j) == IF j > 4 THEN 255 * Flag(value < 0) ELSE (value \div <<1, 256, 65536, 16777216>>[j]) % 256
<1>1. \A j \in 1 .. size : Low(j) \in Int
    <2> TAKE j \in 1 .. size
    <2>1. CASE j > 4
        BY <2>1 DEF Flag
    <2>2. CASE j \in 1 .. 4
        <3> DEFINE d == <<1, 256, 65536, 16777216>>[j]
        <3>1. d \in {1, 256, 65536, 16777216}
            BY <2>2
        <3> HIDE DEF d
        <3>2. (value \div d) % 256 \in Int
            BY <3>1
        <3> QED BY <2>2, <3>2 DEF d
    <2> QED BY <2>1, <2>2
<1> HIDE DEF Low
<1>2. [j \in 1 .. size |-> Low(j)] \in Seq(Int) /\ Len([j \in 1 .. size |-> Low(j)]) = size
    BY <1>1
<1> QED BY <1>2 DEF Low, Imm

\* The processor reads back the offset that Imm writes.
LEMMA SignedImm ==
    ASSUME NEW size \in {0, 1, 4}, NEW offset \in Int, Fits(size, offset), NEW s \in Seq(Int), Len(s) = size,
           \A k \in 1 .. size : s[k] = Imm(size, offset)[k]
    PROVE  Signed(s) = offset
<1>1. CASE size = 0
    BY <1>1 DEF Fits, Signed
<1>2. CASE size = 1
    <2>1. s[1] = (offset \div 1) % 256
        BY <1>2 DEF Imm
    <2>2. offset \in -128 .. 127
        BY <1>2 DEF Fits
    <2>3. (IF s[1] >= 128 THEN s[1] - 256 ELSE s[1]) = offset
        BY <2>1, <2>2
    <2>4. Signed(s) = IF s[1] >= 128 THEN s[1] - 256 ELSE s[1]
        BY <1>2 DEF Signed
    <2> QED BY <2>3, <2>4
<1>3. CASE size = 4
    <2>1. s[1] = (offset \div 1) % 256 /\ s[2] = (offset \div 256) % 256
        BY <1>3, SMT DEF Imm
    <2>2. s[3] = (offset \div 65536) % 256 /\ s[4] = (offset \div 16777216) % 256
        BY <1>3, SMT DEF Imm
    <2>3. offset \in Int /\ -2147483647 <= offset + 1 /\ offset <= 2147483647
        BY <1>3 DEF Fits, Disp32
    <2>4. Signed(s) = s[1] + s[2] * 256 + s[3] * 65536 + (IF s[4] >= 128 THEN s[4] - 256 ELSE s[4]) * 16777216
        BY <1>3, SMT DEF Signed
    <2> DEFINE a == offset \div 256
               b == offset \div 65536
               c == offset \div 16777216
    <2>5. a \in Int /\ b \in Int /\ c \in Int
        BY <2>3, SMT
    <2>6. offset = 256 * a + (offset % 256) /\ offset % 256 \in Int
        BY <2>3, SMT
    <2>7. a = 256 * b + (a % 256) /\ a % 256 \in Int
        <3>1. a \div 256 = b
            BY <2>3, SMT
        <3> HIDE DEF a, b
        <3> QED BY <2>5, <3>1, SMT
    <2>8. b = 256 * c + (b % 256) /\ b % 256 \in Int
        <3>1. b \div 256 = c
            BY <2>3, SMT
        <3> HIDE DEF b, c
        <3> QED BY <2>5, <3>1, SMT
    <2>9. c >= -128 /\ c <= 127
        BY <2>3, SMT
    <2>10. s[1] = offset % 256 /\ s[2] = a % 256 /\ s[3] = b % 256 /\ s[4] = c % 256
        <3>1. offset \div 1 = offset
            BY <2>3, SMT
        <3> QED BY <2>1, <2>2, <3>1, SMT
    <2> HIDE DEF a, b, c
    <2>11. (IF c % 256 >= 128 THEN (c % 256) - 256 ELSE c % 256) = c
        BY <2>5, <2>9, SMT
    <2> DEFINE p == offset % 256
               q == a % 256
               r == b % 256
    <2> HIDE DEF p, q, r
    <2>12. p \in Int /\ q \in Int /\ r \in Int
        BY <2>6, <2>7, <2>8 DEF p, q, r
    <2>13. offset = 256 * a + p /\ a = 256 * b + q /\ b = 256 * c + r
        BY <2>6, <2>7, <2>8 DEF p, q, r
    <2>14. Signed(s) = p + q * 256 + r * 65536 + c * 16777216
        <3>1. s[1] = p /\ s[2] = q /\ s[3] = r
            BY <2>10, SMT DEF p, q, r
        <3>2. (IF s[4] >= 128 THEN s[4] - 256 ELSE s[4]) = c
            BY <2>10, <2>11, SMT
        <3> QED BY <2>4, <3>1, <3>2, SMT
    <2>15. p + q * 256 + r * 65536 + c * 16777216 = offset
        BY <2>3, <2>5, <2>12, <2>13, SMT
    <2> QED BY <2>14, <2>15
<1> QED BY <1>1, <1>2, <1>3

\* The displacement that the processor reads after the first n bytes.
LEMMA ReadsDisp ==
    ASSUME NEW b \in Seq(Int), NEW n \in Nat, NEW size \in {0, 1, 4}, NEW offset \in Int, Fits(size, offset),
           Holds(b, n, Imm(size, offset))
    PROVE  n + size <= Len(b) /\ Signed(SubSeq(b, n + 1, n + size)) = offset
<1> DEFINE s == SubSeq(b, n + 1, n + size)
<1>1. Len(Imm(size, offset)) = size
    BY ImmSeq
<1>2. n + size <= Len(b) /\ \A k \in 1 .. size : b[n + k] = Imm(size, offset)[k]
    BY <1>1 DEF Holds
<1>3. s \in Seq(Int) /\ Len(s) = size /\ \A k \in 1 .. size : s[k] = b[n + k]
    BY <1>2
<1> HIDE DEF s
<1>4. Signed(s) = offset
    <2>1. \A k \in 1 .. size : s[k] = Imm(size, offset)[k]
        BY <1>2, <1>3
    <2> QED BY <1>3, <2>1, SignedImm
<1> QED BY <1>2, <1>4 DEF s

LEMMA ModRMFields ==
    ASSUME NEW md \in 0 .. 3, NEW g \in 0 .. 7, NEW l \in 0 .. 7
    PROVE  /\ ModRM(md, g, l) \in 0 .. 255 /\ ModRM(md, g, l) \div 64 = md
           /\ ModRM(md, g, l) % 8 = l /\ (ModRM(md, g, l) \div 8) % 8 = g
BY SMT DEF ModRM

LEMMA SIBFields ==
    ASSUME NEW ix \in 0 .. 7, NEW bs \in 0 .. 7
    PROVE  SIB(ix, bs) \in 0 .. 63 /\ (SIB(ix, bs) \div 8) % 8 = ix /\ SIB(ix, bs) % 8 = bs
BY SMT DEF SIB

\* A ModRM byte at m that names a register.
NamesRegister(b, m, g, l) == m \in Nat /\ g \in 0 .. 7 /\ l \in 0 .. 7 /\ b[m] = ModRM(3, g, l)

LEMMA OperandRegister ==
    ASSUME NEW b, NEW m, NEW pre, NEW g, NEW l, NamesRegister(b, m, g, l)
    PROVE  /\ Operand(b, m, pre).kind = "register" /\ Operand(b, m, pre).next = m + 1
           /\ Operand(b, m, pre).register = l + 8 * pre.B
<1> USE DEF NamesRegister
<1>1. b[m] \div 64 = 3 /\ b[m] % 8 = l
    <2>1. 3 \in 0 .. 3
        OBVIOUS
    <2> QED BY <2>1, SMT DEF ModRM
<1>2. Operand(b, m, pre) = [kind |-> "register", register |-> (b[m] % 8) + 8 * pre.B, next |-> m + 1]
    BY <1>1, Zenon DEF Operand
<1> QED BY <1>1, <1>2

\* A ModRM byte at m, with a SIB byte after it.
SibAt(b, m, pre, md, ix, bs) ==
    /\ m \in Nat /\ md \in {0, 1, 2} /\ ix \in 0 .. 7 /\ bs \in 0 .. 7
    /\ b[m] \div 64 = md /\ b[m] % 8 = 4 /\ (b[m + 1] \div 8) % 8 = ix /\ b[m + 1] % 8 = bs
    /\ (md = 0 => bs # 5) /\ pre.X \in {0, 1} /\ pre.B \in {0, 1}
    /\ ~(m + 2 + DispSize(md, bs) - 1 > Len(b))

LEMMA WithSib ==
    ASSUME NEW b, NEW m, NEW pre, NEW md, NEW ix, NEW bs, SibAt(b, m, pre, md, ix, bs)
    PROVE  LET rm == Operand(b, m, pre)
               z == DispSize(md, bs)
           IN /\ rm.kind = "memory" /\ rm.base = bs + 8 * pre.B
              /\ rm.index = (IF ix + 8 * pre.X = 4 THEN NoRegister ELSE ix + 8 * pre.X)
              /\ rm.disp = Signed(SubSeq(b, m + 2, m + 2 + z - 1))
              /\ rm.dispAt = m + 2 - 1 /\ rm.next = m + 2 + z
<1>1. Operand(b, m, pre).kind = "memory"
    BY SMT DEF Operand, SibAt
<1>2. Operand(b, m, pre).base = bs + 8 * pre.B
    BY SMT DEF Operand, SibAt
<1>3. Operand(b, m, pre).index = IF ix + 8 * pre.X = 4 THEN NoRegister ELSE ix + 8 * pre.X
    BY SMT DEF Operand, SibAt
<1>4. Operand(b, m, pre).disp = Signed(SubSeq(b, m + 2, m + 2 + DispSize(md, bs) - 1))
    BY SMT DEF Operand, SibAt
<1>5. Operand(b, m, pre).dispAt = m + 2 - 1
    BY SMT DEF Operand, SibAt
<1>6. Operand(b, m, pre).next = m + 2 + DispSize(md, bs)
    BY SMT DEF Operand, SibAt
<1> QED BY <1>1, <1>2, <1>3, <1>4, <1>5, <1>6

\* The bytes of a ModRM byte at m, a SIB byte and a displacement.
SibBytes(b, m, pre, md, g, ix, bs, offset) ==
    /\ b \in Seq(Int) /\ m \in Nat /\ md \in {0, 1, 2} /\ g \in 0 .. 7 /\ ix \in 0 .. 7 /\ bs \in 0 .. 7
    /\ offset \in Int /\ (md = 0 => bs # 5) /\ pre.X \in {0, 1} /\ pre.B \in {0, 1}
    /\ b[m] = ModRM(md, g, 4) /\ b[m + 1] = SIB(ix, bs)
    /\ Fits(DispSize(md, bs), offset) /\ Holds(b, m + 1, Imm(DispSize(md, bs), offset))

LEMMA OperandSib ==
    ASSUME NEW b, NEW m, NEW pre, NEW md, NEW g, NEW ix, NEW bs, NEW offset,
           SibBytes(b, m, pre, md, g, ix, bs, offset)
    PROVE  LET rm == Operand(b, m, pre)
           IN /\ rm.kind = "memory" /\ rm.base = bs + 8 * pre.B
              /\ rm.index = (IF ix + 8 * pre.X = 4 THEN NoRegister ELSE ix + 8 * pre.X)
              /\ rm.disp = offset /\ rm.dispAt = m + 1 /\ rm.next = m + 2 + DispSize(md, bs)
<1> USE DEF SibBytes
<1> DEFINE z == DispSize(md, bs)
<1>1. z \in {0, 1, 4}
    BY DEF DispSize
<1>2. m + 1 + z <= Len(b) /\ Signed(SubSeq(b, m + 1 + 1, m + 1 + z)) = offset
    <2>1. m + 1 \in Nat
        OBVIOUS
    <2> HIDE DEF z
    <2> QED BY <1>1, <2>1, ReadsDisp DEF z
<1>3. b[m] \div 64 = md /\ b[m] % 8 = 4
    <2>1. 4 \in 0 .. 7 /\ md \in 0 .. 3
        OBVIOUS
    <2> QED BY <2>1, SMT DEF ModRM
<1>4. (b[m + 1] \div 8) % 8 = ix /\ b[m + 1] % 8 = bs
    <2>1. (SIB(ix, bs) \div 8) % 8 = ix /\ SIB(ix, bs) % 8 = bs
        BY SIBFields
    <2> QED BY <2>1, Zenon
<1> HIDE DEF z
<1>5. z \in Nat /\ m + 2 + z - 1 = m + 1 + z /\ m + 2 = m + 1 + 1 /\ m + 2 - 1 = m + 1
    BY <1>1
<1>6. ~(m + 2 + z - 1 > Len(b))
    BY <1>2, <1>5
<1>7. SibAt(b, m, pre, md, ix, bs)
    BY <1>3, <1>4, <1>6, Zenon DEF SibAt, z
<1>8. LET rm == Operand(b, m, pre)
      IN /\ rm.kind = "memory" /\ rm.base = bs + 8 * pre.B
         /\ rm.index = (IF ix + 8 * pre.X = 4 THEN NoRegister ELSE ix + 8 * pre.X)
         /\ rm.disp = Signed(SubSeq(b, m + 2, m + 2 + z - 1)) /\ rm.dispAt = m + 2 - 1 /\ rm.next = m + 2 + z
    BY <1>7, WithSib, SMT DEF z
<1> QED BY <1>2, <1>5, <1>8 DEF z

\* A ModRM byte at m, without a SIB byte.
NoSibAt(b, m, md, l) ==
    /\ m \in Nat /\ md \in {0, 1} /\ l \in 0 .. 7 /\ l # 4
    /\ b[m] \div 64 = md /\ b[m] % 8 = l /\ ~(m + 1 + DispSize(md, l) - 1 > Len(b))

LEMMA WithoutSib ==
    ASSUME NEW b, NEW m, NEW pre, NEW md, NEW l, NoSibAt(b, m, md, l)
    PROVE  LET rm == Operand(b, m, pre)
               rip == md = 0 /\ l = 5
               z == DispSize(md, l)
           IN /\ rm.kind = (IF rip THEN "rip" ELSE "memory")
              /\ rm.base = (IF rip THEN NoRegister ELSE l + 8 * pre.B) /\ rm.index = NoRegister
              /\ rm.disp = Signed(SubSeq(b, m + 1, m + 1 + z - 1))
              /\ rm.dispAt = m + 1 - 1 /\ rm.next = m + 1 + z
<1>1. Operand(b, m, pre).kind = IF md = 0 /\ l = 5 THEN "rip" ELSE "memory"
    BY SMT DEF Operand, NoSibAt
<1>2. Operand(b, m, pre).base = IF md = 0 /\ l = 5 THEN NoRegister ELSE l + 8 * pre.B
    BY SMT DEF Operand, NoSibAt
<1>3. Operand(b, m, pre).index = NoRegister
    BY SMT DEF Operand, NoSibAt
<1>4. Operand(b, m, pre).disp = Signed(SubSeq(b, m + 1, m + 1 + DispSize(md, l) - 1))
    BY SMT DEF Operand, NoSibAt
<1>5. Operand(b, m, pre).dispAt = m + 1 - 1
    BY SMT DEF Operand, NoSibAt
<1>6. Operand(b, m, pre).next = m + 1 + DispSize(md, l)
    BY SMT DEF Operand, NoSibAt
<1> QED BY <1>1, <1>2, <1>3, <1>4, <1>5, <1>6

\* The bytes of a ModRM byte at m and a displacement.
PlainBytes(b, m, md, g, l, offset) ==
    /\ b \in Seq(Int) /\ m \in Nat /\ md \in {0, 1} /\ g \in 0 .. 7 /\ l \in 0 .. 7 /\ l # 4
    /\ offset \in Int /\ b[m] = ModRM(md, g, l)
    /\ Fits(DispSize(md, l), offset) /\ Holds(b, m, Imm(DispSize(md, l), offset))

LEMMA OperandPlain ==
    ASSUME NEW b, NEW m, NEW pre, NEW md, NEW g, NEW l, NEW offset, PlainBytes(b, m, md, g, l, offset)
    PROVE  LET rm == Operand(b, m, pre)
               rip == md = 0 /\ l = 5
           IN /\ rm.kind = (IF rip THEN "rip" ELSE "memory")
              /\ rm.base = (IF rip THEN NoRegister ELSE l + 8 * pre.B) /\ rm.index = NoRegister
              /\ rm.disp = offset /\ rm.dispAt = m /\ rm.next = m + 1 + DispSize(md, l)
<1> USE DEF PlainBytes
<1> DEFINE z == DispSize(md, l)
<1>1. z \in {0, 1, 4}
    BY DEF DispSize
<1>2. m + z <= Len(b) /\ Signed(SubSeq(b, m + 1, m + z)) = offset
    <2> HIDE DEF z
    <2> QED BY <1>1, ReadsDisp DEF z
<1>3. b[m] \div 64 = md /\ b[m] % 8 = l
    BY SMT DEF ModRM
<1> HIDE DEF z
<1>4. z \in Nat /\ m + 1 + z - 1 = m + z /\ m + 1 - 1 = m
    BY <1>1
<1>5. ~(m + 1 + z - 1 > Len(b))
    BY <1>2, <1>4
<1>6. NoSibAt(b, m, md, l)
    BY <1>3, <1>5, Zenon DEF NoSibAt, z
<1>7. LET rm == Operand(b, m, pre)
          rip == md = 0 /\ l = 5
      IN /\ rm.kind = (IF rip THEN "rip" ELSE "memory")
         /\ rm.base = (IF rip THEN NoRegister ELSE l + 8 * pre.B) /\ rm.index = NoRegister
         /\ rm.disp = Signed(SubSeq(b, m + 1, m + 1 + z - 1)) /\ rm.dispAt = m + 1 - 1 /\ rm.next = m + 1 + z
    BY <1>6, WithoutSib, SMT DEF z
<1> QED BY <1>2, <1>4, <1>7 DEF z

-----------------------------------------------------------------------------
(* What IGen builds.                                                         *)

Bit == {0, 1}
LegalV(v) == v = NoVex \/ v \in VexRec

\* The prefixes of an instruction for these bits, not yet in their order.
RexOf(w, r, x, b) == IF w + r + x + b = 0 THEN None ELSE REX(w, r, x, b)
Made(n, op, v, w, r, x, b) ==
    /\ n \in InstrRec /\ n.op = op
    /\ v = NoVex => n.rex = RexOf(w, r, x, b) /\ n.vex = <<>>
    /\ v # NoVex => /\ n.rex = None
                    /\ n.vex = IF b + w + x > 0 \/ v.map # 1 THEN VEX3(w, r, x, b, v.map, v.reg, v.pp)
                                                              ELSE VEX2(r, v.reg, v.pp)

\* Two instructions that differ in prefixes and opcode only.
SameBody(n, i) == n.modrm = i.modrm /\ n.sib = i.sib /\ n.disp = i.disp /\ n.imm = i.imm /\ n.valid = i.valid

LEMMA InstructionRec ==
    ASSUME NEW op \in Seq(Int)
    PROVE  LET i == Instruction(op)
           IN /\ i \in InstrRec /\ i.op = op /\ i.rex = None /\ i.vex = <<>> /\ i.modrm = None /\ i.sib = None
              /\ i.disp = <<>> /\ i.imm = <<>> /\ i.valid = TRUE
<1>1. <<>> \in Seq(Int) /\ None \in Int
    BY DEF None
<1> QED BY <1>1 DEF Instruction, InstrRec

LEMMA Prefixed ==
    ASSUME NEW i \in InstrRec, i.rex = None, i.vex = <<>>, NEW v, LegalV(v),
           NEW w \in Bit, NEW r \in Bit, NEW x \in Bit, NEW b \in Bit
    PROVE  /\ Made(WithPrefix(i, v, w, r, x, b), i.op, v, w, r, x, b)
           /\ SameBody(WithPrefix(i, v, w, r, x, b), i)
<1>1. CASE v = NoVex
    <2>1. WithPrefix(i, v, w, r, x, b) = WithRex(i, w, r, x, b)
        BY <1>1 DEF WithPrefix
    <2>2. CASE w + r + x + b = 0
        BY <1>1, <2>1, <2>2 DEF WithRex, Made, SameBody, RexOf
    <2>3. CASE w + r + x + b # 0
        <3> DEFINE q == REX(w, r, x, b)
        <3>1. q \in Int
            BY DEF REX, Bit
        <3> HIDE DEF q
        <3> PICK n : n = [i EXCEPT !.rex = q]
            OBVIOUS
        <3>2. n \in InstrRec
            BY <3>1 DEF InstrRec
        <3>3. n.rex = q /\ n.op = i.op /\ n.vex = i.vex /\ SameBody(n, i)
            BY DEF InstrRec, SameBody
        <3>4. WithPrefix(i, v, w, r, x, b) = n /\ RexOf(w, r, x, b) = q
            BY <2>1, <2>3 DEF WithRex, RexOf, q
        <3> QED BY <1>1, <3>2, <3>3, <3>4 DEF Made
    <2> QED BY <2>2, <2>3
<1>2. CASE v # NoVex
    <2>1. v.map \in Int /\ v.reg \in Int /\ v.pp \in Int
        BY <1>2 DEF LegalV, VexRec
    <2> DEFINE q == IF b + w + x > 0 \/ v.map # 1 THEN VEX3(w, r, x, b, v.map, v.reg, v.pp) ELSE VEX2(r, v.reg, v.pp)
    <2>2. q \in Seq(Int)
        <3>1. VEX3(w, r, x, b, v.map, v.reg, v.pp) \in Seq(Int)
            BY <2>1 DEF VEX3, Bit
        <3>2. VEX2(r, v.reg, v.pp) \in Seq(Int)
            BY <2>1 DEF VEX2, Bit
        <3> QED BY <3>1, <3>2
    <2> PICK n : n = [i EXCEPT !.vex = q]
        OBVIOUS
    <2>3. WithPrefix(i, v, w, r, x, b) = n
        BY <1>2, Zenon DEF WithPrefix, WithVex
    <2> HIDE DEF q
    <2>4. n \in InstrRec
        BY <2>2 DEF InstrRec
    <2>5. n.vex = q /\ n.op = i.op /\ n.rex = i.rex /\ SameBody(n, i)
        BY DEF InstrRec, SameBody
    <2>6. Made(n, i.op, v, w, r, x, b)
        BY <1>2, <2>4, <2>5, Zenon DEF Made, q
    <2> QED BY <2>3, <2>5, <2>6
<1> QED BY <1>1, <1>2

\* The displacement and the immediate are set without a change of the prefixes.
LEMMA MadeDisp ==
    ASSUME NEW n, NEW op, NEW v, NEW w, NEW r, NEW x, NEW b, Made(n, op, v, w, r, x, b), NEW d \in Seq(Int)
    PROVE  LET m == [n EXCEPT !.disp = d]
           IN /\ Made(m, op, v, w, r, x, b) /\ m.disp = d
              /\ m.modrm = n.modrm /\ m.sib = n.sib /\ m.imm = n.imm /\ m.valid = n.valid
<1>1. n \in InstrRec
    BY DEF Made
<1> PICK m : m = [n EXCEPT !.disp = d]
    OBVIOUS
<1>2. m \in InstrRec
    BY <1>1 DEF InstrRec
<1>3. m.op = n.op /\ m.rex = n.rex /\ m.vex = n.vex
    BY <1>1 DEF InstrRec
<1>4. m.disp = d /\ m.modrm = n.modrm /\ m.sib = n.sib /\ m.imm = n.imm /\ m.valid = n.valid
    BY <1>1 DEF InstrRec
<1>5. Made(m, op, v, w, r, x, b)
    BY <1>2, <1>3, Zenon DEF Made
<1> QED BY <1>4, <1>5

-----------------------------------------------------------------------------
(* The prefixes in their order.                                              *)

OpOf(p, e, o) == (IF p = 0 THEN <<>> ELSE <<p>>) \o Escaped(e, o)
Prefix == {0, 102, 243}

LEMMA OpOfSeq == ASSUME NEW p \in Prefix, NEW e \in Bit, NEW o \in OpByte
    PROVE /\ OpOf(p, e, o) \in Seq(Int) /\ OpOf(p, e, o)[1] \in Int /\ Len(OpOf(p, e, o)) >= 1
          /\ p # 0 => OpOf(p, e, o)[1] = p /\ Len(OpOf(p, e, o)) > 1
                      /\ Tail(OpOf(p, e, o)) = Escaped(e, o)
          /\ p = 0 => OpOf(p, e, o) = Escaped(e, o) /\ OpOf(p, e, o)[1] \notin {102, 243}
          /\ Escaped(e, o) \in Seq(Int)
<1>1. p \in Int /\ o \in Int /\ o \notin {102, 243}
    BY DEF Prefix, OpByte
<1>2. Escaped(e, o) \in Seq(Int) /\ Len(Escaped(e, o)) >= 1
    BY <1>1 DEF Escaped
<1>3. CASE p = 0
    <2>1. OpOf(p, e, o) = Escaped(e, o)
        BY <1>2, <1>3 DEF OpOf
    <2>2. Escaped(e, o)[1] \in Int /\ Escaped(e, o)[1] \notin {102, 243}
        BY <1>1 DEF Escaped
    <2> QED BY <1>2, <1>3, <2>1, <2>2
<1>4. CASE p # 0
    <2>1. OpOf(p, e, o) = <<p>> \o Escaped(e, o)
        BY <1>4 DEF OpOf
    <2> DEFINE t == Escaped(e, o)
    <2> HIDE DEF t
    <2>2. /\ <<p>> \o t \in Seq(Int) /\ (<<p>> \o t)[1] = p /\ Len(<<p>> \o t) = 1 + Len(t)
          /\ Tail(<<p>> \o t) = t
        BY <1>1, <1>2 DEF t
    <2>3. Len(<<p>> \o t) > 1 /\ Len(<<p>> \o t) >= 1
        BY <1>2, <2>2 DEF t
    <2>4. OpOf(p, e, o) = <<p>> \o t
        BY <2>1 DEF t
    <2> QED BY <1>1, <1>2, <1>4, <2>2, <2>3, <2>4, Zenon DEF t
<1> QED BY <1>3, <1>4

\* swap_op0_rex puts a mandatory prefix before REX.
\* An instruction with a prefix among its opcode bytes, if p is one.
Unordered(n, p, e, o, w, r, x, b) ==
    /\ p \in Prefix /\ e \in Bit /\ o \in OpByte /\ w \in Bit /\ r \in Bit /\ x \in Bit /\ b \in Bit
    /\ Made(n, OpOf(p, e, o), NoVex, w, r, x, b)

LEMMA SwapHead ==
    ASSUME NEW n, NEW p, NEW e, NEW o, NEW w, NEW r, NEW x, NEW b, Unordered(n, p, e, o, w, r, x, b)
    PROVE  LET m == IF p # 0 THEN swap_op0_rex(n) ELSE n
           IN m \in InstrRec /\ SameBody(m, n) /\ Head_(m) = LegacyHead(p, RexOf(w, r, x, b), e, o)
<1> DEFINE q == RexOf(w, r, x, b)
           t == Escaped(e, o)
<1> USE DEF Unordered
<1>1. n \in InstrRec /\ n.op = OpOf(p, e, o) /\ n.rex = q /\ n.vex = <<>>
    BY DEF Made
<1>2. q \in Int /\ t \in Seq(Int) /\ p \in Int
    <2>1. q \in Int
        BY DEF RexOf, REX, Bit, None
    <2>2. t \in Seq(Int)
        BY OpOfSeq
    <2>3. p \in Int
        BY DEF Prefix
    <2> QED BY <2>1, <2>2, <2>3
<1>3. SameBody(n, n)
    BY DEF SameBody
<1> HIDE DEF q, t
<1>4. CASE p = 0
    <2>1. n.op = t
        BY <1>1, <1>4, OpOfSeq DEF t
    <2>2. Head_(n) = <<>> \o Byte(q) \o t
        BY <1>1, <2>1 DEF Head_
    <2>3. LegacyHead(p, q, e, o) = <<>> \o Byte(q) \o t
        BY <1>4 DEF LegacyHead, t
    <2> QED BY <1>1, <1>3, <1>4, <2>2, <2>3 DEF q
<1>5. CASE p # 0 /\ q = None
    <2>1. swap_op0_rex(n) = n
        BY <1>1, <1>5 DEF swap_op0_rex
    <2>2. n.op = <<p>> \o t
        BY <1>1, <1>5 DEF OpOf, t
    <2>3. Head_(n) = <<>> \o <<>> \o (<<p>> \o t)
        BY <1>1, <1>5, <2>2 DEF Head_, Byte
    <2>4. LegacyHead(p, q, e, o) = <<p>> \o <<>> \o t
        BY <1>5 DEF LegacyHead, Byte, t
    <2>5. <<>> \o <<>> \o (<<p>> \o t) = <<p>> \o <<>> \o t
        BY <1>2
    <2> QED BY <1>1, <1>3, <1>5, <2>1, <2>3, <2>4, <2>5 DEF q
<1>6. CASE p # 0 /\ q # None
    <2>1. n.op[1] = p /\ Tail(n.op) = t
        BY <1>1, <1>6, OpOfSeq DEF t
    <2> PICK m : m = [n EXCEPT !.rex = p, !.op = <<q>> \o t]
        OBVIOUS
    <2>2. swap_op0_rex(n) = m
        BY <1>1, <1>6, <2>1, Zenon DEF swap_op0_rex
    <2>3. <<q>> \o t \in Seq(Int)
        BY <1>2
    <2>4. m \in InstrRec
        BY <1>1, <1>2, <2>3 DEF InstrRec
    <2>5. m.rex = p /\ m.op = <<q>> \o t /\ m.vex = n.vex /\ SameBody(m, n)
        BY <1>1 DEF InstrRec, SameBody
    <2>6. Byte(p) = <<p>> /\ Byte(q) = <<q>>
        BY <1>2, <1>6 DEF Byte, None, Prefix
    <2>7. Head_(m) = <<>> \o <<p>> \o (<<q>> \o t)
        BY <1>1, <2>5, <2>6 DEF Head_
    <2>8. LegacyHead(p, q, e, o) = <<p>> \o <<q>> \o t
        BY <1>6, <2>6 DEF LegacyHead, t
    <2>9. <<>> \o <<p>> \o (<<q>> \o t) = <<p>> \o <<q>> \o t
        BY <1>2
    <2> QED BY <1>6, <2>2, <2>4, <2>5, <2>7, <2>8, <2>9 DEF q
<1> QED BY <1>4, <1>5, <1>6

\* With a VEX prefix nothing is swapped.
LEMMA VexHeadOf ==
    ASSUME NEW n, NEW v \in VexRec, NEW o \in Int,
           NEW w, NEW r, NEW x, NEW b, Made(n, <<o>>, v, w, r, x, b)
    PROVE  Head_(n) = VexHead(v, w, r, x, b, o)
<1>1. v # NoVex
    <2>1. NoVex.map = 0 /\ v.map # 0
        BY DEF NoVex, VexRec
    <2> QED BY <2>1
<1>2. n.rex = None /\ n.op = <<o>>
    BY <1>1, Zenon DEF Made
<1>3. n.vex = IF b + w + x > 0 \/ v.map # 1 THEN VEX3(w, r, x, b, v.map, v.reg, v.pp) ELSE VEX2(r, v.reg, v.pp)
    BY <1>1, Zenon DEF Made
<1> QED BY <1>2, <1>3, Zenon DEF Head_, VexHead

-----------------------------------------------------------------------------
(* What the processor understands.                                           *)

\* The prefixes and the opcode, as the processor reads them.
Understood(m, pp, map, o, w, r, x, b) ==
    LET pre == PrefixBytes(emit(m))
        at == Len(Head_(m))
    IN /\ pre.at = at /\ at \in Nat \ {0} /\ emit(m)[at] = o /\ pre.pp = pp /\ pre.map = map
       /\ pre.W = w /\ pre.R = r /\ pre.X = x /\ pre.B = b

\* No REX byte stands for one whose bits are clear.
RexFor(q, w, r, x, b) == q = REX(w, r, x, b) \/ (q = None /\ w = 0 /\ r = 0 /\ x = 0 /\ b = 0)

LEMMA LegacyUnderstood ==
    ASSUME NEW m \in InstrRec, NEW p \in Prefix, NEW q, NEW e \in Bit, NEW o \in OpByte,
           NEW w \in Bit, NEW r \in Bit, NEW x \in Bit, NEW b \in Bit,
           RexFor(q, w, r, x, b), Head_(m) = LegacyHead(p, q, e, o)
    PROVE  Understood(m, PrefixOf(p), e, o, w, r, x, b) /\ (PrefixBytes(emit(m)).rex <=> q # None)
<1> DEFINE c == emit(m)
           pre == PrefixBytes(c)
           at == Len(LegacyHead(p, q, e, o))
<1>1. REX(w, r, x, b) \in 64 .. 79
    BY RexBits DEF Bit
<1>2. q \in {None} \cup 64 .. 79
    BY <1>1 DEF RexFor
<1>3. Starts(c, LegacyHead(p, q, e, o))
    BY Layout
<1>4. p \in {0, 102, 243} /\ e \in {0, 1}
    BY DEF Prefix, Bit
<1>5. at \in Nat \ {0} /\ c[at] = o /\ LegacyPrefix(pre, at, p, q, e) /\ (pre.rex <=> q # None)
    <2> HIDE DEF c
    <2>0. LegacyStart(c, p, q, e, o)
        BY <1>2, <1>3, <1>4 DEF LegacyStart
    <2>1. at \in Nat \ {0} /\ c[at] = o /\ LegacyPrefix(pre, at, p, q, e)
        BY <2>0, LegacyReads, SMT
    <2>2. (pre.rex <=> q # None)
        BY <2>0, LegacyReads, Zenon
    <2> QED BY <2>1, <2>2, Zenon
<1> HIDE DEF c, pre, at
<1>6. pre.at = at /\ pre.pp = PrefixOf(p) /\ pre.map = e
    BY <1>5 DEF LegacyPrefix
<1>7. pre.W = w /\ pre.R = r /\ pre.X = x /\ pre.B = b
    <2>1. CASE q = None
        <3>1. REX(w, r, x, b) # None
            BY <1>1 DEF None
        <3>2. w = 0 /\ r = 0 /\ x = 0 /\ b = 0
            BY <2>1, <3>1 DEF RexFor
        <3> QED BY <1>5, <2>1, <3>2 DEF LegacyPrefix
    <2>2. CASE q # None
        <3>1. q = REX(w, r, x, b)
            BY <2>2 DEF RexFor
        <3>2. BitOf(q, 8) = w /\ BitOf(q, 4) = r /\ BitOf(q, 2) = x /\ BitOf(q, 1) = b
            BY <3>1, RexBits DEF Bit
        <3> QED BY <1>5, <2>2, <3>2 DEF LegacyPrefix
    <2> QED BY <2>1, <2>2
<1>8. Understood(m, PrefixOf(p), e, o, w, r, x, b)
    BY <1>5, <1>6, <1>7 DEF Understood, c, pre, at
<1> QED BY <1>5, <1>8, Zenon DEF pre, c

LEMMA VexUnderstood ==
    ASSUME NEW m \in InstrRec, NEW v \in VexRec, NEW o \in Int,
           NEW w \in Bit, NEW r \in Bit, NEW x \in Bit, NEW b \in Bit,
           Head_(m) = VexHead(v, w, r, x, b, o)
    PROVE  Understood(m, v.pp, v.map, o, w, r, x, b) /\ PrefixBytes(emit(m)).vvvv = v.reg
<1> DEFINE c == emit(m)
           pre == PrefixBytes(c)
           at == Len(VexHead(v, w, r, x, b, o))
<1>1. Starts(c, VexHead(v, w, r, x, b, o))
    BY Layout
<1>2. at \in Nat \ {0} /\ c[at] = o /\ VexPrefix(pre, at, v, w, r, x, b)
    BY <1>1, VexReads DEF Bit
<1> HIDE DEF c, pre, at
<1>3. Understood(m, v.pp, v.map, o, w, r, x, b)
    BY <1>2 DEF Understood, VexPrefix, c, pre, at
<1> QED BY <1>2, <1>3 DEF VexPrefix, pre, c

\* An instruction with a ModRM byte.
ModRMForm(m, pp, map, o, w, r, x, b, md, g, l) ==
    /\ m \in InstrRec /\ o \in Int /\ r \in Bit /\ Understood(m, pp, map, o, w, r, x, b) /\ HasModRM(map, o)
    /\ md \in 0 .. 3 /\ g \in 0 .. 7 /\ l \in 0 .. 7 /\ m.modrm = ModRM(md, g, l)

LEMMA DecodeModRM ==
    ASSUME NEW m, NEW pp, NEW map, NEW o, NEW w, NEW r, NEW x, NEW b, NEW md, NEW g, NEW l,
           ModRMForm(m, pp, map, o, w, r, x, b, md, g, l)
    PROVE  LET d == Decode(emit(m))
               rm == Operand(emit(m), Len(Head_(m)) + 1, PrefixBytes(emit(m)))
           IN /\ emit(m)[Len(Head_(m)) + 1] = ModRM(md, g, l) /\ Len(Head_(m)) \in Nat
              /\ d.pp = pp /\ d.map = map /\ d.W = w /\ d.op = o /\ d.reg = g + 8 * r /\ d.rm = rm
              /\ d.vvvv = PrefixBytes(emit(m)).vvvv /\ d.rex = PrefixBytes(emit(m)).rex
              /\ d.length = rm.next - 1 + ImmediateSize(map, o, w)
<1> USE DEF ModRMForm
<1> DEFINE c == emit(m)
           pre == PrefixBytes(c)
           at == Len(Head_(m))
           rm == Operand(c, at + 1, pre)
           d == Decode(c)
<1>1. ModRM(md, g, l) \in 0 .. 255 /\ (ModRM(md, g, l) \div 8) % 8 = g
    BY SMT DEF ModRM
<1>2. c[at + 1] = ModRM(md, g, l)
    <2>1. m.modrm # None
        BY <1>1 DEF None
    <2> QED BY <2>1, Layout
<1>3. /\ pre.at = at /\ at \in Nat \ {0} /\ c[at] = o /\ pre.pp = pp /\ pre.map = map
      /\ pre.W = w /\ pre.R = r /\ pre.X = x /\ pre.B = b
    BY Zenon DEF Understood
<1>4. ~OpcodeRegister(map, o)
    BY DEF HasModRM
<1>5. (c[at + 1] \div 8) % 8 = g
    BY <1>1, <1>2, Zenon
<1> HIDE DEF c, pre, at
<1>6. d = [pp |-> pre.pp, map |-> pre.map, W |-> pre.W, vex |-> pre.vex, vvvv |-> pre.vvvv, rex |-> pre.rex,
           op |-> c[pre.at], reg |-> ((c[pre.at + 1] \div 8) % 8) + 8 * pre.R,
           rm |-> Operand(c, pre.at + 1, pre), length |-> Operand(c, pre.at + 1, pre).next - 1
                                                         + ImmediateSize(pre.map, c[pre.at], pre.W)]
    <2>1. HasModRM(pre.map, c[pre.at]) /\ ~OpcodeRegister(pre.map, c[pre.at])
        BY <1>3, <1>4, Zenon
    <2> QED BY <2>1, Zenon DEF Decode, pre
<1> HIDE DEF d
<1>7. /\ d.pp = pp /\ d.map = map /\ d.W = w /\ d.op = o /\ d.reg = g + 8 * r /\ d.rm = rm
      /\ d.vvvv = pre.vvvv
    BY <1>3, <1>5, <1>6
<1>8. d.rex = pre.rex
    BY <1>6
<1>9. d.length = rm.next - 1 + ImmediateSize(map, o, w)
    BY <1>3, <1>6
<1>10. at \in Nat
    BY <1>3
<1> QED BY <1>2, <1>7, <1>8, <1>9, <1>10, Zenon DEF c, pre, at, d

\* Fields that do not depend on the operand.
Named(d, m, pp, map, o, w) ==
    /\ d.pp = pp /\ d.map = map /\ d.op = o /\ d.W = w
    /\ d.vvvv = PrefixBytes(emit(m)).vvvv /\ d.rex = PrefixBytes(emit(m)).rex

RegisterForm(m, pp, map, o, w, r, x, b, g, l) ==
    /\ ModRMForm(m, pp, map, o, w, r, x, b, 3, g, l)
    /\ b \in Bit /\ m.sib = None /\ m.disp = <<>> /\ ImmediateSize(map, o, w) = Len(m.imm)

LEMMA ReadsRegister ==
    ASSUME NEW m, NEW pp, NEW map, NEW o, NEW w, NEW r, NEW x, NEW b, NEW g, NEW l,
           RegisterForm(m, pp, map, o, w, r, x, b, g, l)
    PROVE  LET d == Decode(emit(m))
           IN /\ Named(d, m, pp, map, o, w) /\ d.reg = g + 8 * r /\ d.rm.kind = "register"
              /\ d.rm.register = l + 8 * b /\ d.length = Len(emit(m))
<1>0. ModRMForm(m, pp, map, o, w, r, x, b, 3, g, l)
    BY DEF RegisterForm
<1> DEFINE c == emit(m)
           pre == PrefixBytes(c)
           at == Len(Head_(m))
           rm == Operand(c, at + 1, pre)
           d == Decode(c)
<1>2. /\ c[at + 1] = ModRM(3, g, l) /\ at \in Nat
      /\ d.pp = pp /\ d.map = map /\ d.W = w /\ d.op = o /\ d.reg = g + 8 * r /\ d.rm = rm
      /\ d.vvvv = pre.vvvv /\ d.rex = pre.rex /\ d.length = rm.next - 1 + ImmediateSize(map, o, w)
    BY <1>0, DecodeModRM, SMT
<1> USE DEF RegisterForm, ModRMForm
<1>3. pre.B = b
    BY Zenon DEF Understood
<1>4. Len(c) = at + 1 + Len(m.imm) /\ Len(m.imm) \in Nat
    <2>1. m.modrm # None
        BY SMT DEF ModRM, None
    <2>2. Flag(m.modrm # None) = 1 /\ Flag(m.sib # None) = 0
        BY <2>1, Zenon DEF Flag
    <2>3. m.imm \in Seq(Int)
        BY DEF InstrRec
    <2>4. Len(c) = Before(m) + Len(m.disp) + Len(m.imm) /\ Len(m.disp) = 0
        BY Layout
    <2>5. Before(m) = at + 1 + 0
        BY <2>2, Zenon DEF Before
    <2> HIDE DEF c, at
    <2> QED BY <1>2, <2>3, <2>4, <2>5
<1> HIDE DEF c, pre, at
<1>5. rm.kind = "register" /\ rm.next = at + 1 + 1 /\ rm.register = l + 8 * pre.B
    <2>1. at + 1 \in Nat
        BY <1>2
    <2>2. NamesRegister(c, at + 1, g, l)
        BY <1>2, <2>1 DEF NamesRegister
    <2> QED BY <1>2, <2>2, OperandRegister
<1> HIDE DEF rm, d
<1>6. d.length = Len(c)
    BY <1>2, <1>4, <1>5
<1>7. Named(d, m, pp, map, o, w)
    BY <1>2, Zenon DEF Named, pre, c
<1>8. d.reg = g + 8 * r /\ d.rm.kind = "register" /\ d.rm.register = l + 8 * b
    BY <1>2, <1>3, <1>5
<1> QED BY <1>6, <1>7, <1>8, Zenon DEF d, c

SibForm(m, pp, map, o, w, r, x, b, md, g, ix, bs, offset) ==
    /\ ModRMForm(m, pp, map, o, w, r, x, b, md, g, 4)
    /\ x \in Bit /\ b \in Bit /\ md \in {0, 1, 2} /\ ix \in 0 .. 7 /\ bs \in 0 .. 7 /\ offset \in Int
    /\ (md = 0 => bs # 5) /\ m.sib = SIB(ix, bs)
    /\ Fits(DispSize(md, bs), offset) /\ m.disp = Imm(DispSize(md, bs), offset)

LEMMA ReadsSib ==
    ASSUME NEW m, NEW pp, NEW map, NEW o, NEW w, NEW r, NEW x, NEW b, NEW md, NEW g, NEW ix, NEW bs, NEW offset,
           SibForm(m, pp, map, o, w, r, x, b, md, g, ix, bs, offset)
    PROVE  LET d == Decode(emit(m))
           IN /\ Named(d, m, pp, map, o, w) /\ d.reg = g + 8 * r /\ d.rm.kind = "memory"
              /\ d.rm.base = bs + 8 * b /\ d.rm.disp = offset
              /\ d.rm.index = IF ix + 8 * x = 4 THEN NoRegister ELSE ix + 8 * x
<1>0. ModRMForm(m, pp, map, o, w, r, x, b, md, g, 4)
    BY DEF SibForm
<1> DEFINE c == emit(m)
           pre == PrefixBytes(c)
           at == Len(Head_(m))
           rm == Operand(c, at + 1, pre)
           d == Decode(c)
<1>2. /\ c[at + 1] = ModRM(md, g, 4) /\ at \in Nat
      /\ d.pp = pp /\ d.map = map /\ d.W = w /\ d.op = o /\ d.reg = g + 8 * r /\ d.rm = rm
      /\ d.vvvv = pre.vvvv /\ d.rex = pre.rex
    BY <1>0, DecodeModRM, SMT
<1> USE DEF SibForm, ModRMForm
<1>3. pre.B = b /\ pre.X = x
    BY Zenon DEF Understood
<1>4. m.modrm # None /\ m.sib # None
    <2>1. ModRM(md, g, 4) # None
        BY SMT DEF ModRM, None
    <2>2. SIB(ix, bs) # None
        BY SMT DEF SIB, None
    <2> QED BY <2>1, <2>2
<1>5. c[at + 2] = SIB(ix, bs)
    BY <1>4, Layout
<1>6. Holds(c, at + 2, Imm(DispSize(md, bs), offset))
    <2>1. Flag(m.modrm # None) = 1 /\ Flag(m.sib # None) = 1
        BY <1>4, Zenon DEF Flag
    <2>2. Before(m) = at + 1 + 1
        BY <2>1, Zenon DEF Before
    <2>3. Holds(c, Before(m), m.disp)
        BY Layout
    <2>4. at + 1 + 1 = at + 2
        BY <1>2
    <2> QED BY <2>2, <2>3, <2>4, Zenon
<1>7. c \in Seq(Int)
    BY Layout DEF Starts
<1> HIDE DEF c, pre, at
<1>8. /\ rm.kind = "memory" /\ rm.base = bs + 8 * pre.B /\ rm.disp = offset
      /\ rm.index = IF ix + 8 * pre.X = 4 THEN NoRegister ELSE ix + 8 * pre.X
    <2>1. at + 1 \in Nat /\ at + 1 + 1 = at + 2 /\ pre.X \in {0, 1} /\ pre.B \in {0, 1}
        BY <1>2, <1>3 DEF Bit
    <2>2. c[at + 1 + 1] = SIB(ix, bs) /\ Holds(c, at + 1 + 1, Imm(DispSize(md, bs), offset))
        BY <1>5, <1>6, <2>1
    <2>3. SibBytes(c, at + 1, pre, md, g, ix, bs, offset)
        BY <1>2, <1>7, <2>1, <2>2 DEF SibBytes
    <2> DEFINE k == at + 1
    <2>4. SibBytes(c, k, pre, md, g, ix, bs, offset) /\ rm = Operand(c, k, pre)
        BY <2>3
    <2> HIDE DEF k, rm
    <2> QED BY <2>4, OperandSib
<1> HIDE DEF rm, d
<1>9. Named(d, m, pp, map, o, w)
    BY <1>2, Zenon DEF Named, pre, c
<1>10. /\ d.reg = g + 8 * r /\ d.rm.kind = "memory" /\ d.rm.base = bs + 8 * b /\ d.rm.disp = offset
       /\ d.rm.index = IF ix + 8 * x = 4 THEN NoRegister ELSE ix + 8 * x
    BY <1>2, <1>3, <1>8
<1> QED BY <1>9, <1>10, Zenon DEF d, c

PlainForm(m, pp, map, o, w, r, x, b, md, g, l, offset) ==
    /\ ModRMForm(m, pp, map, o, w, r, x, b, md, g, l)
    /\ b \in Bit /\ md \in {0, 1} /\ l # 4 /\ offset \in Int /\ m.sib = None
    /\ Fits(DispSize(md, l), offset) /\ m.disp = Imm(DispSize(md, l), offset)

LEMMA ReadsPlain ==
    ASSUME NEW m, NEW pp, NEW map, NEW o, NEW w, NEW r, NEW x, NEW b, NEW md, NEW g, NEW l, NEW offset,
           PlainForm(m, pp, map, o, w, r, x, b, md, g, l, offset)
    PROVE  LET d == Decode(emit(m))
               rip == md = 0 /\ l = 5
           IN /\ Named(d, m, pp, map, o, w) /\ d.reg = g + 8 * r
              /\ d.rm.kind = (IF rip THEN "rip" ELSE "memory")
              /\ d.rm.base = (IF rip THEN NoRegister ELSE l + 8 * b) /\ d.rm.index = NoRegister
              /\ d.rm.disp = offset /\ d.rm.dispAt = Len(Head_(m)) + 1
<1>0. ModRMForm(m, pp, map, o, w, r, x, b, md, g, l)
    BY DEF PlainForm
<1> DEFINE c == emit(m)
           pre == PrefixBytes(c)
           at == Len(Head_(m))
           rm == Operand(c, at + 1, pre)
           d == Decode(c)
           rip == md = 0 /\ l = 5
<1>2. /\ c[at + 1] = ModRM(md, g, l) /\ at \in Nat
      /\ d.pp = pp /\ d.map = map /\ d.W = w /\ d.op = o /\ d.reg = g + 8 * r /\ d.rm = rm
      /\ d.vvvv = pre.vvvv /\ d.rex = pre.rex
    BY <1>0, DecodeModRM, SMT
<1> USE DEF PlainForm, ModRMForm
<1>3. pre.B = b
    BY Zenon DEF Understood
<1>4. Holds(c, at + 1, Imm(DispSize(md, l), offset))
    <2>1. m.modrm # None
        BY SMT DEF ModRM, None
    <2>2. Flag(m.modrm # None) = 1 /\ Flag(m.sib # None) = 0
        BY <2>1, Zenon DEF Flag
    <2>3. Before(m) = at + 1 + 0
        BY <2>2, Zenon DEF Before
    <2>4. Holds(c, Before(m), m.disp)
        BY Layout
    <2>5. at + 1 + 0 = at + 1
        BY <1>2
    <2> QED BY <2>3, <2>4, <2>5, Zenon
<1>5. c \in Seq(Int)
    BY Layout DEF Starts
<1> HIDE DEF c, pre, at
<1>6. /\ rm.kind = (IF rip THEN "rip" ELSE "memory")
      /\ rm.base = (IF rip THEN NoRegister ELSE l + 8 * pre.B) /\ rm.index = NoRegister
      /\ rm.disp = offset /\ rm.dispAt = at + 1
    <2>1. at + 1 \in Nat
        BY <1>2
    <2>2. PlainBytes(c, at + 1, md, g, l, offset)
        BY <1>2, <1>4, <1>5, <2>1 DEF PlainBytes
    <2> DEFINE k == at + 1
    <2>3. PlainBytes(c, k, md, g, l, offset) /\ rm = Operand(c, k, pre)
        BY <2>2
    <2> HIDE DEF rm
    <2>4. /\ rm.kind = (IF rip THEN "rip" ELSE "memory")
          /\ rm.base = (IF rip THEN NoRegister ELSE l + 8 * pre.B) /\ rm.index = NoRegister
          /\ rm.disp = offset /\ rm.dispAt = k
        <3> HIDE DEF k
        <3> QED BY <2>3, OperandPlain
    <2> QED BY <2>4
<1> HIDE DEF rm, d
<1>7. Named(d, m, pp, map, o, w)
    BY <1>2, Zenon DEF Named, pre, c
<1>8. /\ d.reg = g + 8 * r /\ d.rm.kind = (IF rip THEN "rip" ELSE "memory")
      /\ d.rm.base = (IF rip THEN NoRegister ELSE l + 8 * b) /\ d.rm.index = NoRegister
      /\ d.rm.disp = offset /\ d.rm.dispAt = at + 1
    BY <1>2, <1>3, <1>6
<1> QED BY <1>7, <1>8, Zenon DEF d, c, at

-----------------------------------------------------------------------------
(* ModRM, SIB and displacement, as the functions of Instruction set them.    *)

LEMMA RegisterBits ==
    ASSUME NEW g \in 0 .. 15
    PROVE  Low3(g) \in 0 .. 7 /\ Ext(g) \in Bit /\ Low3(g) + 8 * Ext(g) = g
BY SMT DEF Low3, Ext, Bit

\* A new instruction: an opcode, perhaps an immediate.
Fresh(i) == i \in InstrRec /\ i.rex = None /\ i.vex = <<>> /\ i.modrm = None /\ i.sib = None /\ i.disp = <<>>

LEMMA SetBody ==
    ASSUME NEW i, Fresh(i), NEW mm \in Int, NEW ss \in Int,
           NEW v, LegalV(v), NEW w \in Bit, NEW r \in Bit, NEW x \in Bit, NEW b \in Bit
    PROVE  LET n == WithPrefix([i EXCEPT !.modrm = mm, !.sib = ss, !.valid = TRUE], v, w, r, x, b)
           IN /\ Made(n, i.op, v, w, r, x, b) /\ n.modrm = mm /\ n.sib = ss /\ n.disp = <<>>
              /\ n.imm = i.imm /\ n.valid = TRUE
<1> PICK j : j = [i EXCEPT !.modrm = mm, !.sib = ss, !.valid = TRUE]
    OBVIOUS
<1>1. i \in InstrRec /\ i.rex = None /\ i.vex = <<>> /\ i.disp = <<>>
    BY DEF Fresh
<1>2. j \in InstrRec
    BY <1>1 DEF InstrRec
<1>3. j.op = i.op /\ j.rex = i.rex /\ j.vex = i.vex /\ j.modrm = mm /\ j.sib = ss /\ j.valid = TRUE
    BY <1>1 DEF InstrRec
<1>4. j.disp = i.disp /\ j.imm = i.imm
    BY <1>1 DEF InstrRec
<1> DEFINE n == WithPrefix(j, v, w, r, x, b)
<1>5. Made(n, j.op, v, w, r, x, b) /\ SameBody(n, j)
    BY <1>1, <1>2, <1>3, Prefixed
<1> HIDE DEF n
<1>6. n.modrm = mm /\ n.sib = ss /\ n.disp = <<>> /\ n.imm = i.imm /\ n.valid = TRUE /\ Made(n, i.op, v, w, r, x, b)
    BY <1>1, <1>3, <1>4, <1>5 DEF SameBody
<1> QED BY <1>6, Zenon DEF n

\* What the functions without a SIB byte set, and what they make of it.
WithModRM(i, mm, d, v, w, r, x, b) ==
    /\ Fresh(i) /\ mm \in Int /\ d \in Seq(Int) /\ LegalV(v)
    /\ w \in Bit /\ r \in Bit /\ x \in Bit /\ b \in Bit
HasModRMOnly(n, i, mm, d, v, w, r, x, b) ==
    /\ Made(n, i.op, v, w, r, x, b) /\ n.modrm = mm /\ n.sib = None /\ n.disp = d
    /\ n.imm = i.imm /\ n.valid = i.valid

LEMMA SetModRM ==
    ASSUME NEW i, NEW mm, NEW d, NEW v, NEW w, NEW r, NEW x, NEW b, WithModRM(i, mm, d, v, w, r, x, b)
    PROVE  HasModRMOnly(WithPrefix([i EXCEPT !.modrm = mm, !.disp = d], v, w, r, x, b), i, mm, d, v, w, r, x, b)
<1> PICK j : j = [i EXCEPT !.modrm = mm, !.disp = d]
    OBVIOUS
<1>1. i \in InstrRec /\ i.rex = None /\ i.vex = <<>> /\ i.sib = None
    BY DEF Fresh, WithModRM
<1>2. j \in InstrRec
    BY <1>1 DEF InstrRec, WithModRM
<1>3. j.op = i.op /\ j.rex = i.rex /\ j.vex = i.vex /\ j.modrm = mm /\ j.disp = d
    BY <1>1 DEF InstrRec
<1>4. j.sib = i.sib /\ j.imm = i.imm /\ j.valid = i.valid
    BY <1>1 DEF InstrRec
<1> DEFINE n == WithPrefix(j, v, w, r, x, b)
<1>5. Made(n, j.op, v, w, r, x, b) /\ SameBody(n, j)
    BY <1>1, <1>2, <1>3, Prefixed DEF WithModRM
<1> HIDE DEF n
<1>6. n.modrm = mm /\ n.sib = None /\ n.disp = d /\ n.imm = i.imm /\ n.valid = i.valid /\ Made(n, i.op, v, w, r, x, b)
    BY <1>1, <1>3, <1>4, <1>5 DEF SameBody
<1> QED BY <1>6, Zenon DEF n, HasModRMOnly

\* Two registers.
TwoRegisters(i, v, reg, rm, w) == Fresh(i) /\ LegalV(v) /\ reg \in 0 .. 15 /\ rm \in 0 .. 15 /\ w \in Bit
OnTwo(n, i, v, reg, rm, w) ==
    /\ Made(n, i.op, v, w, Ext(reg), 0, Ext(rm)) /\ n.modrm = ModRM(3, Low3(reg), Low3(rm))
    /\ n.sib = None /\ n.disp = <<>> /\ n.imm = i.imm

LEMMA SetRegisters ==
    ASSUME NEW i, NEW v, NEW reg, NEW rm, NEW w, TwoRegisters(i, v, reg, rm, w)
    PROVE  OnTwo(set_modrm_and_rex(i, v, reg, rm, w), i, v, reg, rm, w)
<1> DEFINE mm == ModRM(3, Low3(reg), Low3(rm))
<1>1. i \in InstrRec /\ i.rex = None /\ i.vex = <<>> /\ i.sib = None /\ i.disp = <<>>
    BY DEF Fresh, TwoRegisters
<1>2. mm \in Int
    BY RegisterBits DEF ModRM, TwoRegisters
<1>3. Ext(reg) \in Bit /\ Ext(rm) \in Bit /\ 0 \in Bit
    BY RegisterBits DEF Bit, TwoRegisters
<1> HIDE DEF mm
<1> PICK j : j = [i EXCEPT !.modrm = mm]
    OBVIOUS
<1>4. j \in InstrRec
    BY <1>1, <1>2 DEF InstrRec
<1>5. j.op = i.op /\ j.rex = i.rex /\ j.vex = i.vex /\ j.modrm = mm
    BY <1>1 DEF InstrRec
<1>6. j.sib = i.sib /\ j.imm = i.imm /\ j.disp = i.disp
    BY <1>1 DEF InstrRec
<1> DEFINE n == WithPrefix(j, v, w, Ext(reg), 0, Ext(rm))
<1>7. set_modrm_and_rex(i, v, reg, rm, w) = n
    BY Zenon DEF set_modrm_and_rex, mm
<1>8. Made(n, j.op, v, w, Ext(reg), 0, Ext(rm)) /\ SameBody(n, j)
    BY <1>1, <1>3, <1>4, <1>5, Prefixed DEF TwoRegisters
<1> HIDE DEF n
<1>9. n.modrm = mm /\ n.sib = None /\ n.disp = <<>> /\ n.imm = i.imm /\ Made(n, i.op, v, w, Ext(reg), 0, Ext(rm))
    BY <1>1, <1>5, <1>6, <1>8 DEF SameBody
<1> QED BY <1>7, <1>9, Zenon DEF mm, OnTwo

\* An access to base + index + offset, ready but for the order of its prefixes.
Indexed(n, i, v, w, value, index, base, md, offset) ==
    /\ Made(n, i.op, v, w, Ext(value), Ext(index), Ext(base))
    /\ md \in {0, 1, 2} /\ Low3(index) # 4 /\ (md = 0 => Low3(base) # 5)
    /\ n.modrm = ModRM(md, Low3(value), 4) /\ n.sib = SIB(Low3(index), Low3(base))
    /\ Fits(DispSize(md, Low3(base)), offset) /\ n.disp = Imm(DispSize(md, Low3(base)), offset)
    /\ n.imm = i.imm /\ n.valid = TRUE

\* What the index and the base may be.
Addressed(i, v, reg, md, index, base, w) ==
    /\ Fresh(i) /\ LegalV(v) /\ reg \in 0 .. 15 /\ md \in {0, 1, 2}
    /\ index \in 0 .. 15 /\ base \in 0 .. 15 /\ w \in Bit /\ Low3(index) # 4

\* What WithIndex makes of i.
WithIndexed(n, i, v, reg, md, index, base, w) ==
    /\ Made(n, i.op, v, w, Ext(reg), Ext(index), Ext(base)) /\ n.modrm = ModRM(md, Low3(reg), 4)
    /\ n.sib = SIB(Low3(index), Low3(base)) /\ n.disp = <<>> /\ n.imm = i.imm /\ n.valid = TRUE

LEMMA WithIndexBody ==
    ASSUME NEW i, NEW v, NEW reg, NEW md, NEW index, NEW base, NEW w, Addressed(i, v, reg, md, index, base, w)
    PROVE  WithIndexed(WithIndex(i, v, reg, md, index, base, w), i, v, reg, md, index, base, w)
<1> DEFINE mm == ModRM(md, Low3(reg), 4)
           ss == SIB(Low3(index), Low3(base))
           n == WithPrefix([i EXCEPT !.modrm = mm, !.sib = ss, !.valid = TRUE], v, w, Ext(reg), Ext(index), Ext(base))
<1> USE DEF Addressed
<1>1. WithIndex(i, v, reg, md, index, base, w) = n
    <2>1. (Low3(index) # 4) = TRUE
        BY Zenon
    <2> QED BY <2>1, Zenon DEF WithIndex
<1>2. mm \in Int /\ ss \in Int
    BY RegisterBits DEF ModRM, SIB
<1>3. Ext(reg) \in Bit /\ Ext(index) \in Bit /\ Ext(base) \in Bit
    BY RegisterBits
<1> HIDE DEF mm, ss
<1>4. /\ Made(n, i.op, v, w, Ext(reg), Ext(index), Ext(base)) /\ n.modrm = mm /\ n.sib = ss /\ n.disp = <<>>
      /\ n.imm = i.imm /\ n.valid = TRUE
    BY <1>2, <1>3, SetBody
<1> HIDE DEF n
<1> QED BY <1>1, <1>4, Zenon DEF mm, ss, WithIndexed

\* set_modrm_and_rex_for_reg_plus_reg_plus_s8 and _s32.
LEMMA DispBody ==
    ASSUME NEW i, NEW v, NEW reg, NEW md, NEW index, NEW base, NEW w,
           Addressed(i, v, reg, md, index, base, w), md # 0,
           NEW size \in {1, 4}, size = DispSize(md, Low3(base)), NEW offset \in Int, Fits(size, offset)
    PROVE  Indexed([WithIndex(i, v, reg, md, index, base, w) EXCEPT !.disp = Imm(size, offset)],
                   i, v, w, reg, index, base, md, offset)
<1> DEFINE n == WithIndex(i, v, reg, md, index, base, w)
           d == Imm(size, offset)
           k == [n EXCEPT !.disp = d]
<1>1. /\ Made(n, i.op, v, w, Ext(reg), Ext(index), Ext(base)) /\ n.modrm = ModRM(md, Low3(reg), 4)
      /\ n.sib = SIB(Low3(index), Low3(base)) /\ n.imm = i.imm /\ n.valid = TRUE
    <2>1. WithIndexed(n, i, v, reg, md, index, base, w)
        BY WithIndexBody
    <2> QED BY <2>1, Zenon DEF WithIndexed
<1>2. d \in Seq(Int)
    BY ImmSeq
<1>3. DispSize(md, Low3(base)) = size /\ md # 0 /\ md \in {0, 1, 2} /\ Low3(index) # 4
    BY DEF Addressed
<1> HIDE DEF n, d
<1>4. /\ Made(k, i.op, v, w, Ext(reg), Ext(index), Ext(base)) /\ k.disp = d
      /\ k.modrm = n.modrm /\ k.sib = n.sib /\ k.imm = n.imm /\ k.valid = n.valid
    BY <1>1, <1>2, MadeDisp
<1> HIDE DEF k
<1>5. Indexed(k, i, v, w, reg, index, base, md, offset)
    BY <1>1, <1>3, <1>4, Zenon DEF Indexed, d
<1> QED BY <1>5 DEF k, n, d

\* A base that needs no displacement.
LEMMA NoDispBody ==
    ASSUME NEW i, NEW v, NEW reg, NEW index, NEW base, NEW w,
           Addressed(i, v, reg, 0, index, base, w), Low3(base) # 5
    PROVE  Indexed(WithIndex(i, v, reg, 0, index, base, w), i, v, w, reg, index, base, 0, 0)
<1> DEFINE n == WithIndex(i, v, reg, 0, index, base, w)
<1>1. /\ Made(n, i.op, v, w, Ext(reg), Ext(index), Ext(base)) /\ n.modrm = ModRM(0, Low3(reg), 4)
      /\ n.sib = SIB(Low3(index), Low3(base)) /\ n.disp = <<>> /\ n.imm = i.imm /\ n.valid = TRUE
    <2>1. WithIndexed(n, i, v, reg, 0, index, base, w)
        BY WithIndexBody
    <2> QED BY <2>1, Zenon DEF WithIndexed
<1>2. Low3(index) # 4 /\ DispSize(0, Low3(base)) = 0 /\ Fits(0, 0) /\ 0 \in {0, 1, 2}
    BY DEF DispSize, Fits, Addressed
<1>3. Imm(0, 0) = <<>>
    <2>1. 0 \in Nat /\ 0 \in Int
        OBVIOUS
    <2>2. Imm(0, 0) \in Seq(Int) /\ Len(Imm(0, 0)) = 0
        BY <2>1, ImmSeq
    <2> QED BY <2>2
<1> HIDE DEF n
<1>4. Indexed(n, i, v, w, reg, index, base, 0, 0)
    BY <1>1, <1>2, <1>3, Zenon DEF Indexed
<1> QED BY <1>4 DEF n

\* What the functions of IGen take as an address: neither register is RSP.
Address(i, v, value, addr1, addr2, offset, w) ==
    /\ Fresh(i) /\ LegalV(v) /\ value \in 0 .. 15 /\ addr1 \in 0 .. 15 /\ addr2 \in 0 .. 15
    /\ addr1 # RSP /\ addr2 # RSP /\ addr1 # addr2 /\ Disp32(offset) /\ w \in Bit

\* An access to the sum of two registers and an offset, either as the base.
AtSum(n, i, v, w, value, addr1, addr2, offset) ==
    \E index \in {addr1, addr2}, base \in {addr1, addr2}, md \in {0, 1, 2} :
        index # base /\ Indexed(n, i, v, w, value, index, base, md, offset)

LEMMA OffsetSizes ==
    ASSUME NEW offset, Disp32(offset)
    PROVE  /\ OffsetSize(offset) = 0 => offset = 0
           /\ OffsetSize(offset) # 0 => OffsetSize(offset) \in {1, 4}
           /\ OffsetSize(offset) \in {0, 1, 4} /\ Fits(OffsetSize(offset), offset)
BY DEF OffsetSize, Disp32, Fits

\* set_modrm_and_rex_for_reg_plus_reg_plus_s8 and _s32.
LEMMA SumWithDisp ==
    ASSUME NEW i, NEW v, NEW value, NEW addr1, NEW addr2, NEW offset, NEW w,
           Address(i, v, value, addr1, addr2, offset, w), NEW size \in {1, 4}, Fits(size, offset)
    PROVE  AtSum(reg_plus_reg_plus_disp(i, v, value, addr1, addr2, size, offset, w), i, v, w, value, addr1, addr2, offset)
<1> DEFINE md == IF size = 1 THEN 1 ELSE 2
           index == IF Low3(addr1) = 4 THEN addr2 ELSE addr1
           base == IF Low3(addr1) = 4 THEN addr1 ELSE addr2
           n == [WithIndex(i, v, value, md, index, base, w) EXCEPT !.disp = Imm(size, offset)]
<1>1. index \in {addr1, addr2} /\ base \in {addr1, addr2} /\ index # base /\ md \in {0, 1, 2} /\ md # 0
    BY DEF Address
<1>2. Low3(index) # 4
    BY SMT DEF Address, Low3, RSP
<1>3. size = DispSize(md, Low3(base))
    BY DEF DispSize
<1>4. reg_plus_reg_plus_disp(i, v, value, addr1, addr2, size, offset, w) = n
    <2>1. CASE Low3(addr1) = 4
        BY <2>1, Zenon DEF reg_plus_reg_plus_disp
    <2>2. CASE Low3(addr1) # 4
        BY <2>2, Zenon DEF reg_plus_reg_plus_disp
    <2> QED BY <2>1, <2>2
<1>5. Addressed(i, v, value, md, index, base, w)
    BY <1>1, <1>2 DEF Address, Addressed
<1>6. offset \in Int
    BY DEF Address, Disp32
<1> HIDE DEF md, index, base
<1>7. Indexed(n, i, v, w, value, index, base, md, offset)
    BY <1>1, <1>3, <1>5, <1>6, DispBody
<1> HIDE DEF n
<1> QED BY <1>1, <1>4, <1>7, Zenon DEF AtSum

\* set_modrm_and_rex_for_reg_plus_reg_addr.
LEMMA SumWithoutDisp ==
    ASSUME NEW i, NEW v, NEW value, NEW addr1, NEW addr2, NEW w,
           Address(i, v, value, addr1, addr2, 0, w)
    PROVE  AtSum(reg_plus_reg_addr(i, v, value, addr1, addr2, w), i, v, w, value, addr1, addr2, 0)
<1> DEFINE m == reg_plus_reg_addr(i, v, value, addr1, addr2, w)
<1>1. CASE Low3(addr1) = 5 /\ Low3(addr2) = 5
    <2> DEFINE n == [WithIndex(i, v, value, 1, addr1, addr2, w) EXCEPT !.disp = Imm(1, 0)]
    <2>1. m = n
        BY <1>1, Zenon DEF reg_plus_reg_addr
    <2>2. Addressed(i, v, value, 1, addr1, addr2, w) /\ addr1 # addr2
        BY <1>1 DEF Address, Addressed
    <2>3. 1 = DispSize(1, Low3(addr2)) /\ Fits(1, 0) /\ 0 \in Int /\ 1 # 0 /\ 1 \in {1, 4} /\ 1 \in {0, 1, 2}
        BY DEF DispSize, Fits
    <2>4. Indexed(n, i, v, w, value, addr1, addr2, 1, 0)
        BY <2>2, <2>3, DispBody
    <2> HIDE DEF m, n
    <2>5. AtSum(n, i, v, w, value, addr1, addr2, 0)
        BY <2>2, <2>3, <2>4, Zenon DEF AtSum
    <2> QED BY <2>1, <2>5, Zenon DEF m
<1>2. CASE ~(Low3(addr1) = 5 /\ Low3(addr2) = 5)
    <2> DEFINE flip == Low3(addr1) = 4 \/ Low3(addr2) = 5
               index == IF flip THEN addr2 ELSE addr1
               base == IF flip THEN addr1 ELSE addr2
               n == WithIndex(i, v, value, 0, index, base, w)
    <2>1. m = n
        <3>1. CASE flip
            BY <1>2, <3>1, Zenon DEF reg_plus_reg_addr
        <3>2. CASE ~flip
            BY <1>2, <3>2, Zenon DEF reg_plus_reg_addr
        <3> QED BY <3>1, <3>2
    <2>2. index \in {addr1, addr2} /\ base \in {addr1, addr2} /\ index # base /\ 0 \in {0, 1, 2}
        BY DEF Address
    <2>3. Low3(index) # 4 /\ Low3(base) # 5
        BY <1>2, SMT DEF Address, Low3, RSP
    <2>4. Addressed(i, v, value, 0, index, base, w)
        BY <2>2, <2>3 DEF Address, Addressed
    <2> HIDE DEF m, flip, index, base
    <2>5. Indexed(n, i, v, w, value, index, base, 0, 0)
        BY <2>3, <2>4, NoDispBody
    <2> HIDE DEF n
    <2>6. AtSum(n, i, v, w, value, addr1, addr2, 0)
        BY <2>2, <2>5, Zenon DEF AtSum
    <2> QED BY <2>1, <2>6, Zenon DEF m
<1> QED BY <1>1, <1>2

-----------------------------------------------------------------------------
(* The rows of IGen, as the processor names their opcodes.                   *)

LegacyRow(row, p, e, o) ==
    /\ p \in Prefix /\ e \in Bit /\ o \in OpByte /\ HasModRM(e, o)
    /\ row.op = OpOf(p, e, o) /\ row.v = NoVex /\ row.w \in Bit
    /\ row.byte = FALSE \/ (row.byte = TRUE /\ p = 0)
VexRow(row, o) ==
    /\ o \in Int /\ row.v \in VexRec /\ HasModRM(row.v.map, o)
    /\ row.op = <<o>> /\ row.w \in Bit /\ row.byte = FALSE

\* The row is the instruction with this prefix, map and opcode.
RowOf(row, pp, map, o) ==
    \/ \E p \in Prefix : LegacyRow(row, p, map, o) /\ pp = PrefixOf(p)
    \/ VexRow(row, o) /\ map = row.v.map /\ pp = row.v.pp

\* An instruction of a row, before its prefixes are put in order.
Built(row, n, r, x, b) == Made(n, row.op, row.v, row.w, r, x, b) /\ r \in Bit /\ x \in Bit /\ b \in Bit

\* The bytes m say this row with these bits, the body of n unchanged.
Says(m, n, row, pp, map, o, r, x, b) ==
    /\ m \in InstrRec /\ SameBody(m, n) /\ Understood(m, pp, map, o, row.w, r, x, b)
    /\ o \in Int /\ HasModRM(map, o)

LEMMA FinishLegacy ==
    ASSUME NEW row, NEW p, NEW e, NEW o, LegacyRow(row, p, e, o), NEW value \in Int,
           NEW n, NEW r, NEW x, NEW b, Built(row, n, r, x, b)
    PROVE  /\ Says(Finish(row, value, n), n, row, PrefixOf(p), e, o, r, x, b)
           /\ row.byte /\ value > RBX => PrefixBytes(emit(Finish(row, value, n))).rex
<1> DEFINE s == IF p # 0 THEN swap_op0_rex(n) ELSE n
           q == RexOf(row.w, r, x, b)
<1>1. /\ p \in Prefix /\ e \in Bit /\ o \in OpByte /\ row.w \in Bit /\ r \in Bit /\ x \in Bit /\ b \in Bit
      /\ HasModRM(e, o) /\ row.op = OpOf(p, e, o) /\ row.v = NoVex
      /\ Made(n, OpOf(p, e, o), NoVex, row.w, r, x, b)
    BY DEF LegacyRow, Built
<1>2. Swapped(row) <=> p # 0
    <2>1. p # 0 => p \in {102, 243}
        BY <1>1 DEF Prefix
    <2>2. p # 0 => row.op[1] = p /\ Len(row.op) > 1
        BY <1>1, OpOfSeq
    <2>3. p = 0 => row.op[1] \notin {102, 243}
        BY <1>1, OpOfSeq
    <2> QED BY <2>1, <2>2, <2>3 DEF Swapped
<1>3. s \in InstrRec /\ SameBody(s, n) /\ Head_(s) = LegacyHead(p, q, e, o)
    <2>1. Unordered(n, p, e, o, row.w, r, x, b)
        BY <1>1, Zenon DEF Unordered
    <2> QED BY <2>1, SwapHead
<1>4. o \in Int /\ RexFor(q, row.w, r, x, b)
    <2>1. row.w + r + x + b = 0 => row.w = 0 /\ r = 0 /\ x = 0 /\ b = 0
        BY <1>1 DEF Bit
    <2> QED BY <1>1, <2>1 DEF OpByte, RexFor, RexOf
<1>5. CASE row.byte = FALSE \/ ~(value > RBX)
    <2>1. Finish(row, value, n) = s
        BY <1>2, <1>5, Zenon DEF Finish
    <2> HIDE DEF s, q
    <2>2. Understood(s, PrefixOf(p), e, o, row.w, r, x, b)
        BY <1>1, <1>3, <1>4, LegacyUnderstood
    <2>3. Says(s, n, row, PrefixOf(p), e, o, r, x, b)
        BY <1>1, <1>3, <1>4, <2>2, Zenon DEF Says
    <2> QED BY <1>5, <2>1, <2>3, Zenon
<1>6. CASE row.byte # FALSE /\ value > RBX
    <2>1. row.byte = TRUE /\ p = 0
        BY <1>6 DEF LegacyRow
    <2>2. Finish(row, value, n) = add_rex(n)
        BY <1>2, <1>6, <2>1, Zenon DEF Finish
    <2>3. n \in InstrRec /\ n.rex = q /\ n.vex = <<>> /\ n.op = Escaped(e, o)
        BY <1>1, <2>1, OpOfSeq DEF Made
    <2> DEFINE a == add_rex(n)
               z == IF q = None THEN REX(0, 0, 0, 0) ELSE q
    <2>4. z # None /\ RexFor(z, row.w, r, x, b) /\ z \in Int
        <3>1. REX(0, 0, 0, 0) = 64 /\ None = -1
            BY DEF REX, None
        <3>2. q \in Int
            BY <1>1 DEF RexOf, REX, None, Bit
        <3>3. q = None => row.w = 0 /\ r = 0 /\ x = 0 /\ b = 0
            BY <1>1, <1>4, RexBits DEF RexFor, None, Bit
        <3> QED BY <1>4, <3>1, <3>2, <3>3 DEF RexFor
    <2> HIDE DEF q
    <2>5. a \in InstrRec /\ SameBody(a, n) /\ a.rex = z /\ a.vex = n.vex /\ a.op = n.op
        <3>1. CASE q = None
            <4> HIDE DEF z
            <4>1. a = [n EXCEPT !.rex = z]
                BY <2>3, <3>1, Zenon DEF add_rex, z
            <4> HIDE DEF a
            <4>2. a \in InstrRec
                BY <2>3, <2>4, <4>1 DEF InstrRec
            <4>3. a.rex = z /\ a.vex = n.vex /\ a.op = n.op
                BY <2>3, <2>4, <4>1 DEF InstrRec
            <4>4. SameBody(a, n)
                BY <2>3, <2>4, <4>1 DEF InstrRec, SameBody
            <4> QED BY <4>2, <4>3, <4>4
        <3>2. CASE q # None
            BY <2>3, <3>2, Zenon DEF add_rex, SameBody
        <3> QED BY <3>1, <3>2
    <2> HIDE DEF a, z
    <2>6. Head_(a) = LegacyHead(p, z, e, o)
        <3>1. Byte(z) \in Seq(Int) /\ Escaped(e, o) \in Seq(Int)
            BY <2>4, <1>1, ByteSeq, OpOfSeq
        <3>2. Head_(a) = <<>> \o Byte(z) \o Escaped(e, o)
            BY <2>3, <2>5, Zenon DEF Head_
        <3> QED BY <2>1, <3>1, <3>2 DEF LegacyHead
    <2>7. Understood(a, PrefixOf(p), e, o, row.w, r, x, b)
        BY <1>1, <2>4, <2>5, <2>6, LegacyUnderstood
    <2>8. (PrefixBytes(emit(a)).rex <=> z # None)
        BY <1>1, <2>4, <2>5, <2>6, LegacyUnderstood, Zenon
    <2>9. Says(a, n, row, PrefixOf(p), e, o, r, x, b)
        BY <1>1, <1>4, <2>5, <2>7, Zenon DEF Says
    <2> QED BY <2>2, <2>4, <2>8, <2>9, Zenon DEF a
<1> QED BY <1>5, <1>6

LEMMA FinishVex ==
    ASSUME NEW row, NEW o, VexRow(row, o), NEW value \in Int, NEW n, NEW r, NEW x, NEW b, Built(row, n, r, x, b)
    PROVE  /\ Finish(row, value, n) = n /\ Says(n, n, row, row.v.pp, row.v.map, o, r, x, b)
           /\ PrefixBytes(emit(n)).vvvv = row.v.reg
<1>1. /\ o \in Int /\ row.v \in VexRec /\ HasModRM(row.v.map, o) /\ row.op = <<o>> /\ row.w \in Bit
      /\ row.byte = FALSE /\ r \in Bit /\ x \in Bit /\ b \in Bit /\ Made(n, <<o>>, row.v, row.w, r, x, b)
    BY DEF VexRow, Built
<1>2. ~Swapped(row)
    BY <1>1 DEF Swapped
<1>3. Finish(row, value, n) = n
    BY <1>1, <1>2, Zenon DEF Finish
<1>4. Head_(n) = VexHead(row.v, row.w, r, x, b, o) /\ n \in InstrRec
    BY <1>1, VexHeadOf DEF Made
<1>5. /\ Understood(n, row.v.pp, row.v.map, o, row.w, r, x, b)
      /\ PrefixBytes(emit(n)).vvvv = row.v.reg
    BY <1>1, <1>4, VexUnderstood
<1> QED BY <1>1, <1>3, <1>4, <1>5, Zenon DEF Says, SameBody

LEMMA Finishing ==
    ASSUME NEW row, NEW pp, NEW map, NEW o, RowOf(row, pp, map, o), NEW value \in Int,
           NEW n, NEW r, NEW x, NEW b, Built(row, n, r, x, b)
    PROVE  /\ Says(Finish(row, value, n), n, row, pp, map, o, r, x, b)
           /\ row.byte /\ value > RBX => PrefixBytes(emit(Finish(row, value, n))).rex
<1>1. ASSUME NEW p \in Prefix, LegacyRow(row, p, map, o), pp = PrefixOf(p)
      PROVE  /\ Says(Finish(row, value, n), n, row, pp, map, o, r, x, b)
             /\ row.byte /\ value > RBX => PrefixBytes(emit(Finish(row, value, n))).rex
    BY <1>1, FinishLegacy, Zenon
<1>2. ASSUME VexRow(row, o), map = row.v.map, pp = row.v.pp
      PROVE  /\ Says(Finish(row, value, n), n, row, pp, map, o, r, x, b)
             /\ row.byte /\ value > RBX => PrefixBytes(emit(Finish(row, value, n))).rex
    <2>1. row.byte = FALSE
        BY <1>2 DEF VexRow
    <2> QED BY <1>2, <2>1, FinishVex, Zenon
<1> QED BY <1>1, <1>2, Zenon DEF RowOf

-----------------------------------------------------------------------------
(* The accesses to memory.                                                   *)

LEMMA RowOpcode ==
    ASSUME NEW row, NEW pp, NEW map, NEW o, RowOf(row, pp, map, o)
    PROVE  LET i == Instruction(row.op)
           IN /\ row.op \in Seq(Int) /\ LegalV(row.v) /\ row.w \in Bit /\ o \in Int
              /\ Fresh(i) /\ i.op = row.op /\ i.imm = <<>> /\ i.valid = TRUE
<1>1. row.op \in Seq(Int) /\ LegalV(row.v) /\ row.w \in Bit /\ o \in Int
    <2>1. ASSUME NEW p \in Prefix, LegacyRow(row, p, map, o)
          PROVE  row.op \in Seq(Int) /\ LegalV(row.v) /\ row.w \in Bit /\ o \in Int
        <3>1. /\ p \in Prefix /\ map \in Bit /\ o \in OpByte /\ row.op = OpOf(p, map, o) /\ row.v = NoVex
              /\ row.w \in Bit
            BY <2>1 DEF LegacyRow
        <3>2. OpOf(p, map, o) \in Seq(Int)
            BY <3>1, OpOfSeq
        <3>3. o \in Int
            BY <3>1 DEF OpByte
        <3> QED BY <3>1, <3>2, <3>3, Zenon DEF LegalV
    <2>2. ASSUME VexRow(row, o)
          PROVE  row.op \in Seq(Int) /\ LegalV(row.v) /\ row.w \in Bit /\ o \in Int
        BY <2>2 DEF VexRow, LegalV
    <2> QED BY <2>1, <2>2, Zenon DEF RowOf
<1> QED BY <1>1, InstructionRec DEF Fresh

\* The access at regs + offset that the row asks for.
AsAsked(m, row, pp, map, o, value, regs, offset) ==
    LET d == Decode(emit(m))
    IN /\ d.rm.kind = "memory" /\ d.reg = value /\ RegistersOf(d.rm) = regs /\ d.rm.disp = offset
       /\ d.pp = pp /\ d.map = map /\ d.op = o /\ d.W = row.w /\ m.valid = TRUE
       /\ row.byte /\ value > RBX => d.rex

LEMMA SumReads ==
    ASSUME NEW row, NEW pp, NEW map, NEW o, RowOf(row, pp, map, o), NEW value \in 0 .. 15, NEW offset \in Int,
           NEW index \in 0 .. 15, NEW base \in 0 .. 15, NEW md,
           NEW n, Indexed(n, Instruction(row.op), row.v, row.w, value, index, base, md, offset)
    PROVE  AsAsked(Finish(row, value, n), row, pp, map, o, value, {index, base}, offset)
<1> DEFINE m == Finish(row, value, n)
           d == Decode(emit(m))
           r == Ext(value)
           x == Ext(index)
           b == Ext(base)
<1>1. Made(n, row.op, row.v, row.w, r, x, b)
    BY RowOpcode DEF Indexed
<1>2. /\ md \in {0, 1, 2} /\ Low3(index) # 4 /\ (md = 0 => Low3(base) # 5)
      /\ n.modrm = ModRM(md, Low3(value), 4) /\ n.sib = SIB(Low3(index), Low3(base))
      /\ Fits(DispSize(md, Low3(base)), offset) /\ n.disp = Imm(DispSize(md, Low3(base)), offset)
      /\ n.valid = TRUE
    BY DEF Indexed
<1>3. /\ r \in Bit /\ x \in Bit /\ b \in Bit /\ Low3(value) \in 0 .. 7 /\ Low3(index) \in 0 .. 7
      /\ Low3(base) \in 0 .. 7 /\ Low3(value) + 8 * r = value /\ Low3(index) + 8 * x = index
      /\ Low3(base) + 8 * b = base
    BY RegisterBits
<1>4. index # 4
    BY <1>2 DEF Low3
<1> HIDE DEF r, x, b
<1>5. Built(row, n, r, x, b) /\ value \in Int
    BY <1>1, <1>3 DEF Built
<1>6. Says(m, n, row, pp, map, o, r, x, b) /\ (row.byte /\ value > RBX => PrefixBytes(emit(m)).rex)
    BY <1>5, Finishing, Zenon
<1> HIDE DEF m
<1>7. ModRMForm(m, pp, map, o, row.w, r, x, b, md, Low3(value), 4) /\ m.sib = n.sib /\ m.disp = n.disp /\ m.valid = n.valid
    BY <1>2, <1>3, <1>6 DEF ModRMForm, Says, SameBody
<1>8. SibForm(m, pp, map, o, row.w, r, x, b, md, Low3(value), Low3(index), Low3(base), offset)
    BY <1>2, <1>3, <1>7 DEF SibForm
<1>9. /\ Named(d, m, pp, map, o, row.w) /\ d.reg = Low3(value) + 8 * r /\ d.rm.kind = "memory"
      /\ d.rm.base = Low3(base) + 8 * b /\ d.rm.disp = offset
      /\ d.rm.index = IF Low3(index) + 8 * x = 4 THEN NoRegister ELSE Low3(index) + 8 * x
    BY <1>8, ReadsSib
<1> HIDE DEF d
<1>10. d.reg = value /\ d.rm.base = base /\ d.rm.index = index
    BY <1>3, <1>4, <1>9
<1>11. RegistersOf(d.rm) = {index, base}
    BY <1>10 DEF RegistersOf, NoRegister
<1>12. /\ d.pp = pp /\ d.map = map /\ d.op = o /\ d.W = row.w /\ d.rex = PrefixBytes(emit(m)).rex
    BY <1>9, Zenon DEF Named
<1>13. row.byte /\ value > RBX => d.rex
    BY <1>6, <1>12, Zenon
<1>14. m.valid = TRUE
    BY <1>2, <1>7
<1> QED BY <1>9, <1>10, <1>11, <1>12, <1>13, <1>14, Zenon DEF AsAsked, m, d

LEMMA GoalMemoryAsAsked ==
    ASSUME NEW row, NEW pp, NEW map, NEW o, RowOf(row, pp, map, o), NEW value \in 0 .. 15, NEW offset, Disp32(offset),
           NEW addr1 \in 0 .. 15, NEW addr2 \in 0 .. 15, addr1 # addr2, addr1 # RSP, addr2 # RSP
    PROVE  AsAsked(OnGoalMemory(row, value, addr1, addr2, offset), row, pp, map, o, value, {addr1, addr2}, offset)
<1> DEFINE i == Instruction(row.op)
           n == IF OffsetSize(offset) = 0 THEN reg_plus_reg_addr(i, row.v, value, addr1, addr2, row.w)
                ELSE reg_plus_reg_plus_disp(i, row.v, value, addr1, addr2, OffsetSize(offset), offset, row.w)
<1>1. OnGoalMemory(row, value, addr1, addr2, offset) = Finish(row, value, n)
    BY Zenon DEF OnGoalMemory
<1>2. Address(i, row.v, value, addr1, addr2, offset, row.w)
    BY RowOpcode DEF Address
<1>3. offset \in Int
    BY DEF Disp32
<1>4. AtSum(n, i, row.v, row.w, value, addr1, addr2, offset)
    <2>1. CASE OffsetSize(offset) = 0
        <3>1. offset = 0
            BY <2>1, OffsetSizes
        <3>2. Address(i, row.v, value, addr1, addr2, 0, row.w)
            BY <1>2, <3>1
        <3> HIDE DEF i
        <3>3. AtSum(reg_plus_reg_addr(i, row.v, value, addr1, addr2, row.w), i, row.v, row.w, value, addr1, addr2, 0)
            BY <3>2, SumWithoutDisp
        <3> QED BY <2>1, <3>1, <3>3
    <2>2. CASE OffsetSize(offset) # 0
        <3>1. OffsetSize(offset) \in {1, 4} /\ Fits(OffsetSize(offset), offset)
            BY <2>2, OffsetSizes
        <3> HIDE DEF i
        <3>2. AtSum(reg_plus_reg_plus_disp(i, row.v, value, addr1, addr2, OffsetSize(offset), offset, row.w),
                    i, row.v, row.w, value, addr1, addr2, offset)
            BY <1>2, <3>1, SumWithDisp
        <3> QED BY <2>2, <3>2
    <2> QED BY <2>1, <2>2
<1> HIDE DEF n
<1>5. PICK index \in {addr1, addr2}, base \in {addr1, addr2}, md \in {0, 1, 2} :
          index # base /\ Indexed(n, i, row.v, row.w, value, index, base, md, offset)
    BY <1>4, Zenon DEF AtSum
<1>6. index \in 0 .. 15 /\ base \in 0 .. 15 /\ {index, base} = {addr1, addr2}
    BY <1>5
<1>7. AsAsked(Finish(row, value, n), row, pp, map, o, value, {index, base}, offset)
    BY <1>3, <1>5, <1>6, SumReads
<1> QED BY <1>1, <1>6, <1>7

\* What the functions without an index set.
Settable(i, mm, ss, d, w, r, b) ==
    Fresh(i) /\ mm \in Int /\ ss \in Int /\ d \in Seq(Int) /\ w \in Bit /\ r \in Bit /\ b \in Bit

AllSet(n, i, mm, ss, d, w, r, b) ==
    /\ Made(n, i.op, NoVex, w, r, 0, b) /\ n.modrm = mm /\ n.sib = ss /\ n.disp = d /\ n.valid = i.valid

LEMMA SetAll ==
    ASSUME NEW i, NEW mm, NEW ss, NEW d, NEW w, NEW r, NEW b, Settable(i, mm, ss, d, w, r, b)
    PROVE  AllSet(WithRex([i EXCEPT !.modrm = mm, !.sib = ss, !.disp = d], w, r, 0, b), i, mm, ss, d, w, r, b)
<1> PICK j : j = [i EXCEPT !.modrm = mm, !.sib = ss, !.disp = d]
    OBVIOUS
<1>1. i \in InstrRec /\ i.rex = None /\ i.vex = <<>>
    BY DEF Fresh, Settable
<1>2. j \in InstrRec
    BY <1>1 DEF InstrRec, Settable
<1>3. j.op = i.op /\ j.rex = i.rex /\ j.vex = i.vex /\ j.modrm = mm /\ j.sib = ss /\ j.disp = d
    BY <1>1 DEF InstrRec
<1>4. j.valid = i.valid
    BY <1>1 DEF InstrRec
<1>5. LegalV(NoVex) /\ 0 \in Bit
    BY DEF LegalV, Bit
<1> DEFINE n == WithPrefix(j, NoVex, w, r, 0, b)
<1>6. n = WithRex(j, w, r, 0, b)
    BY Zenon DEF WithPrefix
<1>7. Made(n, j.op, NoVex, w, r, 0, b) /\ SameBody(n, j)
    BY <1>1, <1>2, <1>3, <1>5, Prefixed DEF Settable
<1> HIDE DEF n
<1>8. n.modrm = mm /\ n.sib = ss /\ n.disp = d /\ n.valid = i.valid /\ Made(n, i.op, NoVex, w, r, 0, b)
    BY <1>3, <1>4, <1>7 DEF SameBody
<1> QED BY <1>6, <1>8, Zenon DEF AllSet

\* An access to base + offset, through a SIB byte or without one.
Based(n, i, w, value, base, md, offset) ==
    /\ Made(n, i.op, NoVex, w, Ext(value), 0, Ext(base)) /\ n.valid = i.valid /\ md \in {0, 1, 2} /\ offset \in Int
    /\ (md = 0 => Low3(base) # 5)
    /\ Fits(DispSize(md, Low3(base)), offset) /\ n.disp = Imm(DispSize(md, Low3(base)), offset)
    /\ \/ n.modrm = ModRM(md, Low3(value), 4) /\ n.sib = SIB(4, Low3(base))
       \/ n.modrm = ModRM(md, Low3(value), Low3(base)) /\ n.sib = None /\ Low3(base) # 4 /\ md # 2

LEMMA BaseReads ==
    ASSUME NEW row, NEW pp, NEW map, NEW o, RowOf(row, pp, map, o), row.v = NoVex, NEW value \in 0 .. 15,
           NEW base \in 0 .. 15, NEW md, NEW offset, NEW n, Based(n, Instruction(row.op), row.w, value, base, md, offset)
    PROVE  AsAsked(Finish(row, value, n), row, pp, map, o, value, {base}, offset)
<1> DEFINE m == Finish(row, value, n)
           d == Decode(emit(m))
           r == Ext(value)
           b == Ext(base)
           rest == Fits(DispSize(md, Low3(base)), offset) /\ n.disp = Imm(DispSize(md, Low3(base)), offset)
<1>1. Made(n, row.op, row.v, row.w, r, 0, b) /\ n.valid = TRUE
    BY RowOpcode DEF Based
<1>2. /\ md \in {0, 1, 2} /\ (md = 0 => Low3(base) # 5) /\ offset \in Int /\ rest
    BY DEF Based
<1>3. /\ r \in Bit /\ 0 \in Bit /\ b \in Bit /\ Low3(value) \in 0 .. 7 /\ Low3(base) \in 0 .. 7
      /\ Low3(value) + 8 * r = value /\ Low3(base) + 8 * b = base
    BY RegisterBits DEF Bit
<1> HIDE DEF r, b
<1>4. Built(row, n, r, 0, b) /\ value \in Int
    BY <1>1, <1>3 DEF Built
<1>5. Says(m, n, row, pp, map, o, r, 0, b) /\ (row.byte /\ value > RBX => PrefixBytes(emit(m)).rex)
    BY <1>4, Finishing, Zenon
<1> HIDE DEF m
<1>6. m.modrm = n.modrm /\ m.sib = n.sib /\ m.disp = n.disp /\ m.valid = TRUE
    BY <1>1, <1>5 DEF Says, SameBody
<1>7. /\ Named(d, m, pp, map, o, row.w) /\ d.reg = value /\ d.rm.kind = "memory"
      /\ d.rm.base = base /\ d.rm.index = NoRegister /\ d.rm.disp = offset
    <2>1. CASE n.modrm = ModRM(md, Low3(value), 4) /\ n.sib = SIB(4, Low3(base))
        <3>1. ModRMForm(m, pp, map, o, row.w, r, 0, b, md, Low3(value), 4)
            BY <1>2, <1>3, <1>5, <1>6, <2>1 DEF ModRMForm, Says
        <3>2. SibForm(m, pp, map, o, row.w, r, 0, b, md, Low3(value), 4, Low3(base), offset)
            BY <1>2, <1>3, <1>6, <2>1, <3>1 DEF SibForm
        <3>3. /\ Named(d, m, pp, map, o, row.w) /\ d.reg = Low3(value) + 8 * r /\ d.rm.kind = "memory"
              /\ d.rm.base = Low3(base) + 8 * b /\ d.rm.disp = offset
              /\ d.rm.index = IF 4 + 8 * 0 = 4 THEN NoRegister ELSE 4 + 8 * 0
            BY <3>2, ReadsSib
        <3> HIDE DEF d
        <3> QED BY <1>3, <3>3
    <2>2. CASE n.modrm = ModRM(md, Low3(value), Low3(base)) /\ n.sib = None /\ Low3(base) # 4 /\ md # 2
        <3>1. ModRMForm(m, pp, map, o, row.w, r, 0, b, md, Low3(value), Low3(base)) /\ md \in {0, 1}
            BY <1>2, <1>3, <1>5, <1>6, <2>2 DEF ModRMForm, Says
        <3>2. PlainForm(m, pp, map, o, row.w, r, 0, b, md, Low3(value), Low3(base), offset)
            BY <1>2, <1>3, <1>6, <2>2, <3>1 DEF PlainForm
        <3> DEFINE rip == md = 0 /\ Low3(base) = 5
        <3>3. /\ Named(d, m, pp, map, o, row.w) /\ d.reg = Low3(value) + 8 * r
              /\ d.rm.kind = (IF rip THEN "rip" ELSE "memory")
              /\ d.rm.base = (IF rip THEN NoRegister ELSE Low3(base) + 8 * b) /\ d.rm.index = NoRegister
              /\ d.rm.disp = offset
            BY <3>2, ReadsPlain
        <3>4. ~rip
            BY <1>2
        <3> HIDE DEF d, rip
        <3> QED BY <1>3, <3>3, <3>4
    <2> QED BY <2>1, <2>2 DEF Based
<1> HIDE DEF d
<1>8. RegistersOf(d.rm) = {base}
    BY <1>7 DEF RegistersOf, NoRegister
<1>9. d.pp = pp /\ d.map = map /\ d.op = o /\ d.W = row.w /\ d.rex = PrefixBytes(emit(m)).rex
    BY <1>7, Zenon DEF Named
<1>10. row.byte /\ value > RBX => d.rex
    BY <1>5, <1>9, Zenon
<1> QED BY <1>6, <1>7, <1>8, <1>9, <1>10, Zenon DEF AsAsked, m, d

\* set_modrm_rex_sib_for_reg_reg_disp.
LEMMA BaseWithDisp ==
    ASSUME NEW i, Fresh(i), NEW value \in 0 .. 15, NEW base \in 0 .. 15, NEW size \in {1, 4}, NEW offset \in Int,
           Fits(size, offset), NEW w \in Bit
    PROVE  LET md == IF size = 1 THEN 1 ELSE 2
           IN Based(reg_reg_disp(i, value, base, size, offset, w), i, w, value, base, md, offset)
<1> DEFINE md == IF size = 1 THEN 1 ELSE 2
           mm == ModRM(md, Low3(value), 4)
           ss == SIB(4, Low3(base))
           d == Imm(size, offset)
           r == Ext(value)
           b == Ext(base)
           n == WithRex([i EXCEPT !.modrm = mm, !.sib = ss, !.disp = d], w, r, 0, b)
<1>1. reg_reg_disp(i, value, base, size, offset, w) = n
    BY Zenon DEF reg_reg_disp
<1>2. md \in {1, 2} /\ DispSize(md, Low3(base)) = size
    BY DEF DispSize
<1>3. r \in Bit /\ b \in Bit /\ Low3(value) \in 0 .. 7 /\ Low3(base) \in 0 .. 7
    BY RegisterBits
<1>4. mm \in Int /\ ss \in Int
    BY <1>2, <1>3 DEF ModRM, SIB
<1>5. d \in Seq(Int)
    BY ImmSeq
<1>6. Settable(i, mm, ss, d, w, r, b)
    BY <1>3, <1>4, <1>5, Zenon DEF Settable
<1> HIDE DEF mm, ss, d, r, b, md
<1>7. Made(n, i.op, NoVex, w, r, 0, b) /\ n.modrm = mm /\ n.sib = ss /\ n.disp = d /\ n.valid = i.valid
    <2>1. AllSet(n, i, mm, ss, d, w, r, b)
        BY <1>6, SetAll
    <2> QED BY <2>1, Zenon DEF AllSet
<1> HIDE DEF n
<1>8. md \in {0, 1, 2} /\ md # 0
    BY <1>2
<1>9. Based(n, i, w, value, base, md, offset)
    BY <1>2, <1>7, <1>8, Zenon DEF Based, mm, ss, d, r, b
<1> QED BY <1>1, <1>9, Zenon DEF md

\* set_modrm_and_rex_for_reg_addr.
LEMMA BaseAlone ==
    ASSUME NEW i, Fresh(i), NEW value \in 0 .. 15, NEW base \in 0 .. 15, NEW w \in Bit
    PROVE  LET md == IF Low3(base) = 5 THEN 1 ELSE 0
           IN Based(reg_addr(i, value, base, w), i, w, value, base, md, 0)
<1> DEFINE md == IF Low3(base) = 5 THEN 1 ELSE 0
           mm == ModRM(md, Low3(value), Low3(base))
           ss == IF Low3(base) = 4 THEN SIB(4, 4) ELSE None
           d == IF Low3(base) = 5 THEN Imm(1, 0) ELSE <<>>
           r == Ext(value)
           b == Ext(base)
           n == WithRex([i EXCEPT !.modrm = mm, !.sib = ss, !.disp = d], w, r, 0, b)
<1>1. reg_addr(i, value, base, w) = n
    BY Zenon DEF reg_addr
<1>2. md \in {0, 1, 2} /\ md # 2 /\ (md = 0 => Low3(base) # 5) /\ 0 \in Int
    OBVIOUS
<1>3. r \in Bit /\ b \in Bit /\ Low3(value) \in 0 .. 7 /\ Low3(base) \in 0 .. 7
    BY RegisterBits
<1>4. mm \in Int /\ ss \in Int
    BY <1>2, <1>3 DEF ModRM, SIB, None
<1>5. Imm(1, 0) \in Seq(Int) /\ Imm(0, 0) \in Seq(Int) /\ Len(Imm(0, 0)) = 0
    <2>1. 1 \in Nat /\ 0 \in Nat /\ 0 \in Int
        OBVIOUS
    <2> QED BY <2>1, ImmSeq
<1>6. d \in Seq(Int) /\ d = Imm(DispSize(md, Low3(base)), 0)
    BY <1>5 DEF DispSize
<1>7. Fits(DispSize(md, Low3(base)), 0)
    BY DEF DispSize, Fits
<1>8. Settable(i, mm, ss, d, w, r, b)
    BY <1>3, <1>4, <1>6, Zenon DEF Settable
<1>9. \/ mm = ModRM(md, Low3(value), 4) /\ ss = SIB(4, Low3(base))
      \/ mm = ModRM(md, Low3(value), Low3(base)) /\ ss = None /\ Low3(base) # 4
    BY Zenon
<1> HIDE DEF mm, ss, d, r, b, md
<1>10. Made(n, i.op, NoVex, w, r, 0, b) /\ n.modrm = mm /\ n.sib = ss /\ n.disp = d /\ n.valid = i.valid
    <2>1. AllSet(n, i, mm, ss, d, w, r, b)
        BY <1>8, SetAll
    <2> QED BY <2>1, Zenon DEF AllSet
<1> HIDE DEF n
<1>11. Based(n, i, w, value, base, md, 0)
    BY <1>2, <1>6, <1>7, <1>9, <1>10, Zenon DEF Based, r, b
<1> QED BY <1>1, <1>11, Zenon DEF md

\* A row that moves this many bytes between a register and memory.
Mover(row, size, ext) ==
    \E pp, map, o :
        /\ RowOf(row, pp, map, o)
        /\ \A d : d.pp = pp /\ d.map = map /\ d.op = o /\ d.W = row.w => Access(d)[1] = size /\ Access(d)[2] = ext
        /\ size = 1 /\ ext = "low" => row.byte = TRUE

LegacyMoves(row, p, e, o, size, ext) ==
    /\ LegacyRow(row, p, e, o)
    /\ \A d : d.pp = PrefixOf(p) /\ d.map = e /\ d.op = o /\ d.W = row.w => Access(d)[1] = size /\ Access(d)[2] = ext
    /\ size = 1 /\ ext = "low" => row.byte = TRUE

LEMMA LegacyMover ==
    ASSUME NEW row, NEW p, NEW e, NEW o, NEW size, NEW ext, LegacyMoves(row, p, e, o, size, ext)
    PROVE  Mover(row, size, ext)
<1>1. p \in Prefix
    BY DEF LegacyRow, LegacyMoves
<1>2. RowOf(row, PrefixOf(p), e, o)
    BY <1>1, Zenon DEF RowOf, LegacyMoves
<1> QED BY <1>2, Zenon DEF Mover, LegacyMoves

LEMMA GoalMovers ==
    /\ Mover(load8s, 1, "signed") /\ Mover(load8u, 1, "zero")
    /\ Mover(load16s, 2, "signed") /\ Mover(load16u, 2, "zero")
    /\ Mover(load32s, 4, "signed") /\ Mover(load32u, 4, "zero")
    /\ Mover(load64, 8, "all") /\ Mover(store8, 1, "low")
    /\ Mover(store16, 2, "low") /\ Mover(store32, 4, "low")
    /\ Mover(store64, 8, "low")
<1>1. Mover(load8s, 1, "signed")
    <2>1. LegacyRow(load8s, 0, 1, 190) /\ load8s.w = 1
        BY DEF load8s, Row, LegacyRow, OpOf, Escaped, HasModRM, OpcodeRegister, Bit, OpByte, Prefix, NoVex
    <2>2. PrefixOf(0) = 0
        BY DEF PrefixOf
    <2>3. ASSUME NEW d, d.pp = PrefixOf(0), d.map = 1, d.op = 190, d.W = load8s.w
          PROVE  Access(d)[1] = 1 /\ Access(d)[2] = "signed"
        BY <2>1, <2>2, <2>3 DEF Access
    <2>4. 1 = 1 /\ "signed" = "low" => load8s.byte = TRUE
        BY <2>1
    <2>5. LegacyMoves(load8s, 0, 1, 190, 1, "signed")
        BY <2>1, <2>3, <2>4 DEF LegacyMoves
    <2> QED BY <2>5, LegacyMover
<1>2. Mover(load8u, 1, "zero")
    <2>1. LegacyRow(load8u, 0, 1, 182) /\ load8u.w = 1
        BY DEF load8u, Row, LegacyRow, OpOf, Escaped, HasModRM, OpcodeRegister, Bit, OpByte, Prefix, NoVex
    <2>2. PrefixOf(0) = 0
        BY DEF PrefixOf
    <2>3. ASSUME NEW d, d.pp = PrefixOf(0), d.map = 1, d.op = 182, d.W = load8u.w
          PROVE  Access(d)[1] = 1 /\ Access(d)[2] = "zero"
        BY <2>1, <2>2, <2>3 DEF Access
    <2>4. 1 = 1 /\ "zero" = "low" => load8u.byte = TRUE
        BY <2>1
    <2>5. LegacyMoves(load8u, 0, 1, 182, 1, "zero")
        BY <2>1, <2>3, <2>4 DEF LegacyMoves
    <2> QED BY <2>5, LegacyMover
<1>3. Mover(load16s, 2, "signed")
    <2>1. LegacyRow(load16s, 0, 1, 191) /\ load16s.w = 1
        BY DEF load16s, Row, LegacyRow, OpOf, Escaped, HasModRM, OpcodeRegister, Bit, OpByte, Prefix, NoVex
    <2>2. PrefixOf(0) = 0
        BY DEF PrefixOf
    <2>3. ASSUME NEW d, d.pp = PrefixOf(0), d.map = 1, d.op = 191, d.W = load16s.w
          PROVE  Access(d)[1] = 2 /\ Access(d)[2] = "signed"
        BY <2>1, <2>2, <2>3 DEF Access
    <2>4. 2 = 1 /\ "signed" = "low" => load16s.byte = TRUE
        BY <2>1
    <2>5. LegacyMoves(load16s, 0, 1, 191, 2, "signed")
        BY <2>1, <2>3, <2>4 DEF LegacyMoves
    <2> QED BY <2>5, LegacyMover
<1>4. Mover(load16u, 2, "zero")
    <2>1. LegacyRow(load16u, 0, 1, 183) /\ load16u.w = 1
        BY DEF load16u, Row, LegacyRow, OpOf, Escaped, HasModRM, OpcodeRegister, Bit, OpByte, Prefix, NoVex
    <2>2. PrefixOf(0) = 0
        BY DEF PrefixOf
    <2>3. ASSUME NEW d, d.pp = PrefixOf(0), d.map = 1, d.op = 183, d.W = load16u.w
          PROVE  Access(d)[1] = 2 /\ Access(d)[2] = "zero"
        BY <2>1, <2>2, <2>3 DEF Access
    <2>4. 2 = 1 /\ "zero" = "low" => load16u.byte = TRUE
        BY <2>1
    <2>5. LegacyMoves(load16u, 0, 1, 183, 2, "zero")
        BY <2>1, <2>3, <2>4 DEF LegacyMoves
    <2> QED BY <2>5, LegacyMover
<1>5. Mover(load32s, 4, "signed")
    <2>1. LegacyRow(load32s, 0, 0, 99) /\ load32s.w = 1
        BY DEF load32s, Row, LegacyRow, OpOf, Escaped, HasModRM, OpcodeRegister, Bit, OpByte, Prefix, NoVex
    <2>2. PrefixOf(0) = 0
        BY DEF PrefixOf
    <2>3. ASSUME NEW d, d.pp = PrefixOf(0), d.map = 0, d.op = 99, d.W = load32s.w
          PROVE  Access(d)[1] = 4 /\ Access(d)[2] = "signed"
        BY <2>1, <2>2, <2>3 DEF Access
    <2>4. 4 = 1 /\ "signed" = "low" => load32s.byte = TRUE
        BY <2>1
    <2>5. LegacyMoves(load32s, 0, 0, 99, 4, "signed")
        BY <2>1, <2>3, <2>4 DEF LegacyMoves
    <2> QED BY <2>5, LegacyMover
<1>6. Mover(load32u, 4, "zero")
    <2>1. LegacyRow(load32u, 0, 0, 139) /\ load32u.w = 0
        BY DEF load32u, Row, LegacyRow, OpOf, Escaped, HasModRM, OpcodeRegister, Bit, OpByte, Prefix, NoVex
    <2>2. PrefixOf(0) = 0
        BY DEF PrefixOf
    <2>3. ASSUME NEW d, d.pp = PrefixOf(0), d.map = 0, d.op = 139, d.W = load32u.w
          PROVE  Access(d)[1] = 4 /\ Access(d)[2] = "zero"
        BY <2>1, <2>2, <2>3 DEF Access
    <2>4. 4 = 1 /\ "zero" = "low" => load32u.byte = TRUE
        BY <2>1
    <2>5. LegacyMoves(load32u, 0, 0, 139, 4, "zero")
        BY <2>1, <2>3, <2>4 DEF LegacyMoves
    <2> QED BY <2>5, LegacyMover
<1>7. Mover(load64, 8, "all")
    <2>1. LegacyRow(load64, 0, 0, 139) /\ load64.w = 1
        BY DEF load64, Row, LegacyRow, OpOf, Escaped, HasModRM, OpcodeRegister, Bit, OpByte, Prefix, NoVex
    <2>2. PrefixOf(0) = 0
        BY DEF PrefixOf
    <2>3. ASSUME NEW d, d.pp = PrefixOf(0), d.map = 0, d.op = 139, d.W = load64.w
          PROVE  Access(d)[1] = 8 /\ Access(d)[2] = "all"
        BY <2>1, <2>2, <2>3 DEF Access
    <2>4. 8 = 1 /\ "all" = "low" => load64.byte = TRUE
        BY <2>1
    <2>5. LegacyMoves(load64, 0, 0, 139, 8, "all")
        BY <2>1, <2>3, <2>4 DEF LegacyMoves
    <2> QED BY <2>5, LegacyMover
<1>8. Mover(store8, 1, "low")
    <2>1. LegacyRow(store8, 0, 0, 136) /\ store8.w = 0 /\ store8.byte = TRUE
        BY DEF store8, Row, LegacyRow, OpOf, Escaped, HasModRM, OpcodeRegister, Bit, OpByte, Prefix, NoVex
    <2>2. PrefixOf(0) = 0
        BY DEF PrefixOf
    <2>3. ASSUME NEW d, d.pp = PrefixOf(0), d.map = 0, d.op = 136, d.W = store8.w
          PROVE  Access(d)[1] = 1 /\ Access(d)[2] = "low"
        BY <2>1, <2>2, <2>3 DEF Access
    <2>4. 1 = 1 /\ "low" = "low" => store8.byte = TRUE
        BY <2>1
    <2>5. LegacyMoves(store8, 0, 0, 136, 1, "low")
        BY <2>1, <2>3, <2>4 DEF LegacyMoves
    <2> QED BY <2>5, LegacyMover
<1>9. Mover(store16, 2, "low")
    <2>1. LegacyRow(store16, 102, 0, 137) /\ store16.w = 0
        BY DEF store16, Row, LegacyRow, OpOf, Escaped, HasModRM, OpcodeRegister, Bit, OpByte, Prefix, NoVex
    <2>2. PrefixOf(102) = 1
        BY DEF PrefixOf
    <2>3. ASSUME NEW d, d.pp = PrefixOf(102), d.map = 0, d.op = 137, d.W = store16.w
          PROVE  Access(d)[1] = 2 /\ Access(d)[2] = "low"
        BY <2>1, <2>2, <2>3 DEF Access
    <2>4. 2 = 1 /\ "low" = "low" => store16.byte = TRUE
        BY <2>1
    <2>5. LegacyMoves(store16, 102, 0, 137, 2, "low")
        BY <2>1, <2>3, <2>4 DEF LegacyMoves
    <2> QED BY <2>5, LegacyMover
<1>10. Mover(store32, 4, "low")
    <2>1. LegacyRow(store32, 0, 0, 137) /\ store32.w = 0
        BY DEF store32, Row, LegacyRow, OpOf, Escaped, HasModRM, OpcodeRegister, Bit, OpByte, Prefix, NoVex
    <2>2. PrefixOf(0) = 0
        BY DEF PrefixOf
    <2>3. ASSUME NEW d, d.pp = PrefixOf(0), d.map = 0, d.op = 137, d.W = store32.w
          PROVE  Access(d)[1] = 4 /\ Access(d)[2] = "low"
        BY <2>1, <2>2, <2>3 DEF Access
    <2>4. 4 = 1 /\ "low" = "low" => store32.byte = TRUE
        BY <2>1
    <2>5. LegacyMoves(store32, 0, 0, 137, 4, "low")
        BY <2>1, <2>3, <2>4 DEF LegacyMoves
    <2> QED BY <2>5, LegacyMover
<1>11. Mover(store64, 8, "low")
    <2>1. LegacyRow(store64, 0, 0, 137) /\ store64.w = 1
        BY DEF store64, Row, LegacyRow, OpOf, Escaped, HasModRM, OpcodeRegister, Bit, OpByte, Prefix, NoVex
    <2>2. PrefixOf(0) = 0
        BY DEF PrefixOf
    <2>3. ASSUME NEW d, d.pp = PrefixOf(0), d.map = 0, d.op = 137, d.W = store64.w
          PROVE  Access(d)[1] = 8 /\ Access(d)[2] = "low"
        BY <2>1, <2>2, <2>3 DEF Access
    <2>4. 8 = 1 /\ "low" = "low" => store64.byte = TRUE
        BY <2>1
    <2>5. LegacyMoves(store64, 0, 0, 137, 8, "low")
        BY <2>1, <2>3, <2>4 DEF LegacyMoves
    <2> QED BY <2>5, LegacyMover
<1> QED BY <1>1, <1>2, <1>3, <1>4, <1>5, <1>6, <1>7, <1>8, <1>9, <1>10, <1>11

\* The other accesses.
LEMMA OtherRows ==
    /\ RowOf(lea, 0, 0, 141) /\ lea.v = NoVex
    /\ RowOf(load32_xmm32, 2, 1, 16) /\ load32_xmm32.v = NoVex
    /\ RowOf(store32_xmm32, 2, 1, 17) /\ store32_xmm32.v = NoVex
    /\ RowOf(load128_xmm128, 1, 1, 111) /\ load128_xmm128.v = NoVex
    /\ RowOf(store128_xmm128, 1, 1, 127) /\ store128_xmm128.v = NoVex
    /\ RowOf(loadvf, 0, 1, 40) /\ RowOf(storevf, 0, 1, 41)
<1>1. RowOf(lea, 0, 0, 141) /\ lea.v = NoVex
    <2>1. LegacyRow(lea, 0, 0, 141) /\ 0 \in Prefix
        BY DEF lea, Row, LegacyRow, OpOf, Escaped, HasModRM, OpcodeRegister, Bit, OpByte, Prefix, NoVex
    <2>2. PrefixOf(0) = 0
        BY DEF PrefixOf
    <2> QED BY <2>1, <2>2, Zenon DEF RowOf, LegacyRow
<1>2. RowOf(load32_xmm32, 2, 1, 16) /\ load32_xmm32.v = NoVex
    <2>1. LegacyRow(load32_xmm32, 243, 1, 16) /\ 243 \in Prefix
        BY DEF load32_xmm32, Row, LegacyRow, OpOf, Escaped, HasModRM, OpcodeRegister, Bit, OpByte, Prefix, NoVex
    <2>2. PrefixOf(243) = 2
        BY DEF PrefixOf
    <2> QED BY <2>1, <2>2, Zenon DEF RowOf, LegacyRow
<1>3. RowOf(store32_xmm32, 2, 1, 17) /\ store32_xmm32.v = NoVex
    <2>1. LegacyRow(store32_xmm32, 243, 1, 17) /\ 243 \in Prefix
        BY DEF store32_xmm32, Row, LegacyRow, OpOf, Escaped, HasModRM, OpcodeRegister, Bit, OpByte, Prefix, NoVex
    <2>2. PrefixOf(243) = 2
        BY DEF PrefixOf
    <2> QED BY <2>1, <2>2, Zenon DEF RowOf, LegacyRow
<1>4. RowOf(load128_xmm128, 1, 1, 111) /\ load128_xmm128.v = NoVex
    <2>1. LegacyRow(load128_xmm128, 102, 1, 111) /\ 102 \in Prefix
        BY DEF load128_xmm128, Row, LegacyRow, OpOf, Escaped, HasModRM, OpcodeRegister, Bit, OpByte, Prefix, NoVex
    <2>2. PrefixOf(102) = 1
        BY DEF PrefixOf
    <2> QED BY <2>1, <2>2, Zenon DEF RowOf, LegacyRow
<1>5. RowOf(store128_xmm128, 1, 1, 127) /\ store128_xmm128.v = NoVex
    <2>1. LegacyRow(store128_xmm128, 102, 1, 127) /\ 102 \in Prefix
        BY DEF store128_xmm128, Row, LegacyRow, OpOf, Escaped, HasModRM, OpcodeRegister, Bit, OpByte, Prefix, NoVex
    <2>2. PrefixOf(102) = 1
        BY DEF PrefixOf
    <2> QED BY <2>1, <2>2, Zenon DEF RowOf, LegacyRow
<1>6. RowOf(loadvf, 0, 1, 40)
    <2>1. VexRow(loadvf, 40) /\ loadvf.v.map = 1 /\ loadvf.v.pp = 0
        BY DEF loadvf, Avx, Row, VexRow, VexRec, HasModRM, OpcodeRegister, Bit, NoVex
    <2> QED BY <2>1, Zenon DEF RowOf
<1>7. RowOf(storevf, 0, 1, 41)
    <2>1. VexRow(storevf, 41) /\ storevf.v.map = 1 /\ storevf.v.pp = 0
        BY DEF storevf, Avx, Row, VexRow, VexRec, HasModRM, OpcodeRegister, Bit, NoVex
    <2> QED BY <2>1, Zenon DEF RowOf
<1> QED BY <1>1, <1>2, <1>3, <1>4, <1>5, <1>6, <1>7

-----------------------------------------------------------------------------
(* The tasks that access memory.                                             *)

MemoryGood(t) ==
    LET d == Decode(emit(t.instr))
    IN /\ t.kind = "memory" /\ t.instr.valid = TRUE
       /\ d.rm.kind = "memory" /\ d.reg = t.reg /\ RegistersOf(d.rm) = t.regs /\ d.rm.disp = t.disp
       /\ t.size > 0 => /\ Access(d)[1] = t.size /\ Access(d)[2] = t.ext
                        /\ t.size = 1 /\ t.ext = "low" /\ t.reg \in 4 .. 7 => d.rex

\* An access to memory, and the instruction m that IGen built for it.
MemoryTask(m, row, size, ext, value, regs, offset) ==
    [kind |-> "memory", row |-> row, size |-> size, ext |-> ext, reg |-> value, regs |-> regs, disp |-> offset,
     instr |-> m]

LEMMA MoverTask ==
    ASSUME NEW row, NEW size, NEW ext, NEW pp, NEW map, NEW o,
           \A d : d.pp = pp /\ d.map = map /\ d.op = o /\ d.W = row.w => Access(d)[1] = size /\ Access(d)[2] = ext,
           size = 1 /\ ext = "low" => row.byte = TRUE,
           NEW m, NEW value \in 0 .. 15, NEW regs, NEW offset, AsAsked(m, row, pp, map, o, value, regs, offset)
    PROVE  MemoryGood(MemoryTask(m, row, size, ext, value, regs, offset))
<1> DEFINE d == Decode(emit(m))
           t == MemoryTask(m, row, size, ext, value, regs, offset)
<1>1. /\ d.rm.kind = "memory" /\ d.reg = value /\ RegistersOf(d.rm) = regs /\ d.rm.disp = offset
      /\ d.pp = pp /\ d.map = map /\ d.op = o /\ d.W = row.w /\ m.valid = TRUE
      /\ row.byte /\ value > RBX => d.rex
    BY DEF AsAsked
<1>2. /\ t.kind = "memory" /\ t.size = size /\ t.ext = ext /\ t.reg = value /\ t.regs = regs /\ t.disp = offset
      /\ t.instr = m
    BY DEF MemoryTask
<1> HIDE DEF d, t
<1>3. Access(d)[1] = size /\ Access(d)[2] = ext
    BY <1>1, Zenon
<1>4. ASSUME size = 1, ext = "low", value \in 4 .. 7
      PROVE  d.rex
    <2>1. value > RBX
        BY <1>4 DEF RBX
    <2>2. row.byte = TRUE
        BY <1>4
    <2> QED BY <1>1, <2>1, <2>2, Zenon
<1> QED BY <1>1, <1>2, <1>3, <1>4, Zenon DEF MemoryGood, d, t

LEMMA PlainTask ==
    ASSUME NEW row, NEW pp, NEW map, NEW o, NEW m, NEW value, NEW regs, NEW offset,
           AsAsked(m, row, pp, map, o, value, regs, offset)
    PROVE  MemoryGood(MemoryTask(m, row, 0, "other", value, regs, offset))
<1> DEFINE d == Decode(emit(m))
           t == MemoryTask(m, row, 0, "other", value, regs, offset)
<1>1. /\ d.rm.kind = "memory" /\ d.reg = value /\ RegistersOf(d.rm) = regs /\ d.rm.disp = offset /\ m.valid = TRUE
    BY DEF AsAsked
<1>2. /\ t.kind = "memory" /\ ~(t.size > 0) /\ t.reg = value /\ t.regs = regs /\ t.disp = offset /\ t.instr = m
    BY DEF MemoryTask
<1> HIDE DEF d, t
<1> QED BY <1>1, <1>2, Zenon DEF MemoryGood, d, t

LEMMA EmitterInputs ==
    /\ \A v \in Registers : v \in 0 .. 15
    /\ \A p \in Pairs : /\ p[1] \in 0 .. 15 /\ p[2] \in 0 .. 15 /\ p[1] # p[2] /\ p[1] # RSP /\ p[2] # RSP
    /\ \A offset \in Displacements : Disp32(offset)
<1>1. \A v \in Registers : v \in 0 .. 15
    BY EmitterAssumption, SMT
<1>2. \A p \in Pairs : p \in Registers \X Registers /\ p[1] # p[2] /\ p[1] # RSP /\ p[2] # RSP
    BY DEF Pairs
<1>3. \A p \in Pairs : p[1] \in Registers /\ p[2] \in Registers
    BY <1>2
<1>4. \A offset \in Displacements : Disp32(offset)
    BY EmitterAssumption, SMT DEF Disp32
<1>5. ASSUME NEW p \in Pairs
      PROVE  /\ p[1] \in 0 .. 15 /\ p[2] \in 0 .. 15 /\ p[1] # p[2] /\ p[1] # RSP /\ p[2] # RSP
    BY <1>1, <1>2, <1>3
<1> QED BY <1>1, <1>4, <1>5

LEMMA GoalTask ==
    ASSUME NEW row, NEW size, NEW ext, Mover(row, size, ext),
           NEW v \in Registers, NEW p \in Pairs, NEW off \in Displacements
    PROVE  MemoryGood(Goal(row, size, ext, v, p, off))
<1>1. PICK pp, map, o :
          /\ RowOf(row, pp, map, o)
          /\ \A d : d.pp = pp /\ d.map = map /\ d.op = o /\ d.W = row.w => Access(d)[1] = size /\ Access(d)[2] = ext
          /\ size = 1 /\ ext = "low" => row.byte = TRUE
    BY Zenon DEF Mover
<1>2. v \in 0 .. 15 /\ p[1] \in 0 .. 15 /\ p[2] \in 0 .. 15 /\ p[1] # p[2] /\ p[1] # RSP /\ p[2] # RSP /\ Disp32(off)
    BY EmitterInputs
<1> DEFINE m == OnGoalMemory(row, v, p[1], p[2], off)
<1>3. AsAsked(m, row, pp, map, o, v, {p[1], p[2]}, off)
    BY <1>1, <1>2, GoalMemoryAsAsked
<1> HIDE DEF m
<1>4. MemoryGood(MemoryTask(m, row, size, ext, v, {p[1], p[2]}, off))
    BY <1>1, <1>2, <1>3, MoverTask, Zenon
<1> QED BY <1>4, Zenon DEF Goal, MemoryTask, m

LEMMA OtherGoalTask ==
    ASSUME NEW row, NEW pp, NEW map, NEW o, RowOf(row, pp, map, o),
           NEW v \in Registers, NEW p \in Pairs, NEW off \in Displacements
    PROVE  MemoryGood(Goal(row, 0, "other", v, p, off))
<1>2. v \in 0 .. 15 /\ p[1] \in 0 .. 15 /\ p[2] \in 0 .. 15 /\ p[1] # p[2] /\ p[1] # RSP /\ p[2] # RSP /\ Disp32(off)
    BY EmitterInputs
<1> DEFINE m == OnGoalMemory(row, v, p[1], p[2], off)
<1>3. AsAsked(m, row, pp, map, o, v, {p[1], p[2]}, off)
    BY <1>2, GoalMemoryAsAsked
<1> HIDE DEF m
<1>4. MemoryGood(MemoryTask(m, row, 0, "other", v, {p[1], p[2]}, off))
    BY <1>3, PlainTask
<1> QED BY <1>4, Zenon DEF Goal, MemoryTask, m

LEMMA BaseAsAsked ==
    ASSUME NEW row, NEW pp, NEW map, NEW o, RowOf(row, pp, map, o), row.v = NoVex,
           NEW v \in 0 .. 15, NEW base \in 0 .. 15, NEW offset, Disp32(offset)
    PROVE  /\ AsAsked(OnBase(row, v, base, offset), row, pp, map, o, v, {base}, offset)
           /\ AsAsked(Finish(row, v, OnStackOffset(row, v, base, offset)), row, pp, map, o, v, {base}, offset)
<1> DEFINE i == Instruction(row.op)
           size == IF OffsetSize(offset) = 4 THEN 4 ELSE 1
           n == reg_reg_disp(i, v, base, size, offset, row.w)
           q == reg_reg_disp(i, v, base, 4, offset, row.w)
           k == reg_addr(i, v, base, row.w)
<1>1. offset \in Int /\ Fits(size, offset) /\ size \in {1, 4} /\ Fits(4, offset) /\ 4 \in {1, 4}
    BY SMT DEF Disp32, OffsetSize, Fits
<1>2. Fresh(i) /\ row.w \in Bit
    BY RowOpcode
<1> HIDE DEF i, size
<1>3. AsAsked(Finish(row, v, n), row, pp, map, o, v, {base}, offset)
    <2>1. Based(n, i, row.w, v, base, IF size = 1 THEN 1 ELSE 2, offset)
        BY <1>1, <1>2, BaseWithDisp
    <2> HIDE DEF n
    <2> QED BY <2>1, BaseReads DEF i
<1>4. AsAsked(Finish(row, v, q), row, pp, map, o, v, {base}, offset)
    <2>1. Based(q, i, row.w, v, base, IF 4 = 1 THEN 1 ELSE 2, offset)
        BY <1>1, <1>2, BaseWithDisp
    <2> HIDE DEF q
    <2> QED BY <2>1, BaseReads DEF i
<1>5. AsAsked(Finish(row, v, k), row, pp, map, o, v, {base}, 0)
    <2>1. Based(k, i, row.w, v, base, IF Low3(base) = 5 THEN 1 ELSE 0, 0)
        BY <1>2, BaseAlone
    <2> HIDE DEF k
    <2> QED BY <2>1, BaseReads DEF i
<1>6. OnStackOffset(row, v, base, offset) = q
    BY Zenon DEF OnStackOffset, i
<1>7. CASE offset = 0 /\ row \in {load128_xmm128, store128_xmm128}
    <2>1. OnBase(row, v, base, offset) = Finish(row, v, k)
        BY <1>7, Zenon DEF OnBase, i
    <2> QED BY <1>4, <1>5, <1>6, <1>7, <2>1
<1>8. CASE ~(offset = 0 /\ row \in {load128_xmm128, store128_xmm128})
    <2>1. OnBase(row, v, base, offset) = Finish(row, v, n)
        BY <1>8, Zenon DEF OnBase, i, size
    <2> QED BY <1>3, <1>4, <1>6, <2>1
<1> QED BY <1>7, <1>8

\* load_goal_gpr and store_goal_gpr choose a row that moves as many bytes.
Extension(size, sign) == IF size = 8 THEN "all" ELSE IF sign THEN "signed" ELSE "zero"

LEMMA GoalRows ==
    ASSUME NEW size \in {1, 2, 4, 8}
    PROVE  /\ \A sign \in BOOLEAN : Mover(load_goal_gpr(size, sign), size, Extension(size, sign))
           /\ Mover(store_goal_gpr(size), size, "low")
<1>1. ASSUME NEW sign \in BOOLEAN PROVE Mover(load_goal_gpr(size, sign), size, Extension(size, sign))
    <2>1. CASE size = 1 /\ sign
        BY <2>1, GoalMovers DEF load_goal_gpr, Extension
    <2>2. CASE size = 1 /\ ~sign
        BY <2>2, GoalMovers DEF load_goal_gpr, Extension
    <2>3. CASE size = 2 /\ sign
        BY <2>3, GoalMovers DEF load_goal_gpr, Extension
    <2>4. CASE size = 2 /\ ~sign
        BY <2>4, GoalMovers DEF load_goal_gpr, Extension
    <2>5. CASE size = 4 /\ sign
        BY <2>5, GoalMovers DEF load_goal_gpr, Extension
    <2>6. CASE size = 4 /\ ~sign
        BY <2>6, GoalMovers DEF load_goal_gpr, Extension
    <2>7. CASE size = 8
        BY <2>7, GoalMovers DEF load_goal_gpr, Extension
    <2> QED BY <2>1, <2>2, <2>3, <2>4, <2>5, <2>6, <2>7
<1>2. Mover(store_goal_gpr(size), size, "low")
    <2>1. CASE size = 1
        BY <2>1, GoalMovers DEF store_goal_gpr
    <2>2. CASE size = 2
        BY <2>2, GoalMovers DEF store_goal_gpr
    <2>3. CASE size = 4
        BY <2>3, GoalMovers DEF store_goal_gpr
    <2>4. CASE size = 8
        BY <2>4, GoalMovers DEF store_goal_gpr
    <2> QED BY <2>1, <2>2, <2>3, <2>4
<1> QED BY <1>1, <1>2

LEMMA OtherRow ==
    /\ \A row \in {lea, load32_xmm32, store32_xmm32, load128_xmm128, store128_xmm128} :
          row.v = NoVex /\ \E pp, map, o : RowOf(row, pp, map, o)
    /\ \A row \in {load32_xmm32, store32_xmm32, loadvf, storevf} : \E pp, map, o : RowOf(row, pp, map, o)
<1>1. /\ \E pp, map, o : RowOf(lea, pp, map, o)
      /\ \E pp, map, o : RowOf(load32_xmm32, pp, map, o)
      /\ \E pp, map, o : RowOf(store32_xmm32, pp, map, o)
      /\ \E pp, map, o : RowOf(load128_xmm128, pp, map, o)
      /\ \E pp, map, o : RowOf(store128_xmm128, pp, map, o)
      /\ \E pp, map, o : RowOf(loadvf, pp, map, o)
      /\ \E pp, map, o : RowOf(storevf, pp, map, o)
    BY OtherRows, Zenon
<1>2. /\ lea.v = NoVex /\ load32_xmm32.v = NoVex /\ store32_xmm32.v = NoVex
      /\ load128_xmm128.v = NoVex /\ store128_xmm128.v = NoVex
    BY OtherRows, Zenon
<1>3. \A row \in {load32_xmm32, store32_xmm32, loadvf, storevf} : \E pp, map, o : RowOf(row, pp, map, o)
    BY <1>1
<1>4. \A row \in {lea, load32_xmm32, store32_xmm32, load128_xmm128, store128_xmm128} :
          \E pp, map, o : RowOf(row, pp, map, o)
    BY <1>1
<1>5. \A row \in {lea, load32_xmm32, store32_xmm32, load128_xmm128, store128_xmm128} : row.v = NoVex
    BY <1>2
<1> QED BY <1>3, <1>4, <1>5

LEMMA GoalAccessGood == EmitGoalAccess => MemoryGood(task')
<1> SUFFICES ASSUME EmitGoalAccess PROVE MemoryGood(task')
    OBVIOUS
<1>1. PICK v \in Registers, p \in Pairs, off \in Displacements, size \in {1, 2, 4, 8} :
          \/ \E sign \in BOOLEAN : task' = Goal(load_goal_gpr(size, sign), size, Extension(size, sign), v, p, off)
          \/ task' = Goal(store_goal_gpr(size), size, "low", v, p, off)
    BY Zenon DEF EmitGoalAccess, Extension
<1>2. ASSUME NEW sign \in BOOLEAN, task' = Goal(load_goal_gpr(size, sign), size, Extension(size, sign), v, p, off)
      PROVE  MemoryGood(task')
    <2>1. Mover(load_goal_gpr(size, sign), size, Extension(size, sign))
        BY GoalRows
    <2>2. MemoryGood(Goal(load_goal_gpr(size, sign), size, Extension(size, sign), v, p, off))
        BY <2>1, GoalTask
    <2> QED BY <1>2, <2>2
<1>3. ASSUME task' = Goal(store_goal_gpr(size), size, "low", v, p, off)
      PROVE  MemoryGood(task')
    <2>1. Mover(store_goal_gpr(size), size, "low")
        BY GoalRows
    <2>2. MemoryGood(Goal(store_goal_gpr(size), size, "low", v, p, off))
        BY <2>1, GoalTask
    <2> QED BY <1>3, <2>2
<1> QED BY <1>1, <1>2, <1>3

LEMMA VectorAccessGood == EmitVectorAccess => MemoryGood(task')
<1> SUFFICES ASSUME EmitVectorAccess PROVE MemoryGood(task')
    OBVIOUS
<1>1. PICK v \in Registers, p \in Pairs, off \in Displacements, row \in {load32_xmm32, store32_xmm32, loadvf, storevf} :
          task' = Goal(row, 0, "other", v, p, off)
    BY Zenon DEF EmitVectorAccess
<1>2. PICK pp, map, o : RowOf(row, pp, map, o)
    BY OtherRow
<1>3. MemoryGood(Goal(row, 0, "other", v, p, off))
    BY <1>2, OtherGoalTask
<1> QED BY <1>1, <1>3

LEMMA BaseAccessGood == EmitBaseAccess => MemoryGood(task')
<1> SUFFICES ASSUME EmitBaseAccess PROVE MemoryGood(task')
    OBVIOUS
<1>1. PICK v \in Registers, base \in Registers, off \in Displacements :
          \/ \E row \in {lea, load32_xmm32, store32_xmm32, load128_xmm128, store128_xmm128} :
                task' = MemoryTask(OnBase(row, v, base, off), row, 0, "other", v, {base}, off)
          \/ \E row \in {load64, store64} :
                task' = MemoryTask(OnStackOffset(row, v, base, off), row, 8, IF row = load64 THEN "all" ELSE "low",
                                   v, {base}, off)
    BY Zenon DEF EmitBaseAccess, MemoryTask
<1>2. v \in 0 .. 15 /\ base \in 0 .. 15 /\ Disp32(off)
    BY EmitterInputs
<1>3. ASSUME NEW row \in {lea, load32_xmm32, store32_xmm32, load128_xmm128, store128_xmm128},
             task' = MemoryTask(OnBase(row, v, base, off), row, 0, "other", v, {base}, off)
      PROVE  MemoryGood(task')
    <2>1. PICK pp, map, o : RowOf(row, pp, map, o) /\ row.v = NoVex
        BY OtherRow
    <2>2. AsAsked(OnBase(row, v, base, off), row, pp, map, o, v, {base}, off)
        BY <1>2, <2>1, BaseAsAsked
    <2>3. MemoryGood(MemoryTask(OnBase(row, v, base, off), row, 0, "other", v, {base}, off))
        BY <2>2, PlainTask
    <2> QED BY <1>3, <2>3
<1>4. ASSUME NEW row \in {load64, store64}, NEW ext, ext = (IF row = load64 THEN "all" ELSE "low"),
             task' = MemoryTask(OnStackOffset(row, v, base, off), row, 8, ext, v, {base}, off)
      PROVE  MemoryGood(task')
    <2>1. row.v = NoVex /\ row.byte = FALSE /\ ~Swapped(row) /\ (load64 # store64)
        <3>1. load64.name = "load64" /\ store64.name = "store64"
            BY DEF load64, store64, Row
        <3>2. load64.v = NoVex /\ load64.byte = FALSE /\ load64.op = <<139>>
            BY DEF load64, Row
        <3>3. store64.v = NoVex /\ store64.byte = FALSE /\ store64.op = <<137>>
            BY DEF store64, Row
        <3>4. ~Swapped(load64) /\ ~Swapped(store64)
            BY <3>2, <3>3 DEF Swapped
        <3> QED BY <3>1, <3>2, <3>3, <3>4
    <2>2. Mover(row, 8, ext)
        BY <1>4, <2>1, GoalMovers
    <2>3. PICK pp, map, o :
              /\ RowOf(row, pp, map, o)
              /\ \A d : d.pp = pp /\ d.map = map /\ d.op = o /\ d.W = row.w => Access(d)[1] = 8 /\ Access(d)[2] = ext
              /\ 8 = 1 /\ ext = "low" => row.byte = TRUE
        BY <2>2, Zenon DEF Mover
    <2> DEFINE m == OnStackOffset(row, v, base, off)
    <2>4. Finish(row, v, m) = m
        BY <2>1, Zenon DEF Finish
    <2>5. AsAsked(Finish(row, v, m), row, pp, map, o, v, {base}, off)
        BY <1>2, <2>1, <2>3, BaseAsAsked
    <2>6. AsAsked(m, row, pp, map, o, v, {base}, off)
        BY <2>4, <2>5
    <2> HIDE DEF m
    <2>7. MemoryGood(MemoryTask(m, row, 8, ext, v, {base}, off))
        BY <1>2, <2>3, <2>6, MoverTask, Zenon
    <2> QED BY <1>4, <2>7 DEF m
<1> QED BY <1>1, <1>3, <1>4

-----------------------------------------------------------------------------
(* Statics.                                                                  *)

StaticGood(t) ==
    LET d == Decode(emit(t.instr))
    IN /\ t.kind = "static" /\ d.rm.kind = "rip" /\ d.reg = t.reg /\ d.rm.disp = t.disp
       /\ d.rm.dispAt = offset_of_disp(t.instr)

AtStatic(m, value, offset) ==
    LET d == Decode(emit(m))
    IN d.rm.kind = "rip" /\ d.reg = value /\ d.rm.disp = offset /\ d.rm.dispAt = offset_of_disp(m)

LEMMA StaticReads ==
    ASSUME NEW row, NEW pp, NEW map, NEW o, RowOf(row, pp, map, o), NEW value \in 0 .. 15, NEW offset, Disp32(offset)
    PROVE  AtStatic(OnStatic(row, value, offset), value, offset)
<1> DEFINE i == Instruction(row.op)
           mm == ModRM(0, Low3(value), 5)
           r == Ext(value)
           q == Imm(4, offset)
           n == WithPrefix([i EXCEPT !.modrm = mm, !.disp = q], row.v, row.w, r, 0, 0)
           m == Finish(row, value, n)
           d == Decode(emit(m))
<1>1. OnStatic(row, value, offset) = m
    BY Zenon DEF OnStatic, rip_plus_s32
<1>2. Fresh(i) /\ LegalV(row.v) /\ row.w \in Bit /\ i.op = row.op
    BY RowOpcode
<1>3. r \in Bit /\ Low3(value) \in 0 .. 7 /\ Low3(value) + 8 * r = value /\ 0 \in Bit
    BY RegisterBits DEF Bit
<1>4. mm \in 0 .. 255
    <2>1. 0 \in 0 .. 3 /\ 5 \in 0 .. 7
        OBVIOUS
    <2> QED BY <1>3, <2>1, SMT DEF ModRM
<1>5. q \in Seq(Int) /\ offset \in Int
    <2>1. offset \in Int /\ 4 \in Nat
        BY DEF Disp32
    <2> QED BY <2>1, ImmSeq
<1> HIDE DEF i, mm, r, q
<1>6. Made(n, row.op, row.v, row.w, r, 0, 0) /\ n.modrm = mm /\ n.sib = None /\ n.disp = q
    <2>1. mm \in Int
        BY <1>4
    <2>2. WithModRM(i, mm, q, row.v, row.w, r, 0, 0)
        BY <1>2, <1>3, <1>5, <2>1, Zenon DEF WithModRM
    <2>3. HasModRMOnly(n, i, mm, q, row.v, row.w, r, 0, 0)
        BY <2>2, SetModRM
    <2> QED BY <1>2, <2>3, Zenon DEF HasModRMOnly
<1> HIDE DEF n
<1>7. Built(row, n, r, 0, 0) /\ value \in Int
    BY <1>3, <1>6 DEF Built
<1>8. Says(m, n, row, pp, map, o, r, 0, 0)
    BY <1>7, Finishing, Zenon
<1> HIDE DEF m
<1>9. m \in InstrRec /\ m.modrm = mm /\ m.sib = None /\ m.disp = q
    BY <1>6, <1>8 DEF Says, SameBody
<1>10. ModRMForm(m, pp, map, o, row.w, r, 0, 0, 0, Low3(value), 5)
    BY <1>3, <1>8, <1>9 DEF ModRMForm, Says, mm
<1>11. PlainForm(m, pp, map, o, row.w, r, 0, 0, 0, Low3(value), 5, offset)
    <2>1. DispSize(0, 5) = 4 /\ Fits(4, offset) /\ 0 \in {0, 1} /\ 5 # 4
        BY DEF DispSize, Fits
    <2> QED BY <1>3, <1>5, <1>9, <1>10, <2>1 DEF PlainForm, q
<1>12. d.reg = value /\ d.rm.kind = "rip" /\ d.rm.disp = offset /\ d.rm.dispAt = Len(Head_(m)) + 1
    <2>1. /\ d.reg = Low3(value) + 8 * r /\ d.rm.kind = (IF 0 = 0 /\ 5 = 5 THEN "rip" ELSE "memory")
          /\ d.rm.disp = offset /\ d.rm.dispAt = Len(Head_(m)) + 1
        BY <1>11, ReadsPlain
    <2> HIDE DEF d
    <2> QED BY <1>3, <2>1
<1>13. offset_of_disp(m) = Len(Head_(m)) + 1
    <2>1. m.vex \in Seq(Int) /\ m.op \in Seq(Int) /\ m.rex \in Int
        BY <1>9 DEF InstrRec
    <2>2. Byte(m.rex) \in Seq(Int) /\ Len(Byte(m.rex)) = Flag(m.rex # None)
        BY <2>1, ByteSeq
    <2>3. Len(Head_(m)) = Len(m.vex) + Flag(m.rex # None) + Len(m.op)
        <3>1. Len(m.vex \o Byte(m.rex)) = Len(m.vex) + Len(Byte(m.rex)) /\ m.vex \o Byte(m.rex) \in Seq(Int)
            BY <2>1, <2>2, Appended
        <3>2. Len((m.vex \o Byte(m.rex)) \o m.op) = Len(m.vex \o Byte(m.rex)) + Len(m.op)
            BY <2>1, <3>1, Appended
        <3> QED BY <2>2, <3>1, <3>2 DEF Head_
    <2>4. Flag(m.modrm # None) = 1 /\ Flag(m.sib # None) = 0
        BY <1>4, <1>9 DEF Flag, None
    <2>5. Flag(m.rex # None) \in Int /\ Len(m.vex) \in Int /\ Len(m.op) \in Int
        BY <2>1 DEF Flag
    <2> QED BY <2>3, <2>4, <2>5 DEF offset_of_disp
<1> HIDE DEF d
<1>14. d.rm.dispAt = offset_of_disp(m)
    BY <1>12, <1>13
<1> QED BY <1>1, <1>12, <1>14, Zenon DEF d, AtStatic

LEMMA StaticTask ==
    ASSUME NEW row, NEW pp, NEW map, NEW o, RowOf(row, pp, map, o), NEW v \in Registers, NEW off \in Displacements
    PROVE  StaticGood([kind |-> "static", row |-> row, reg |-> v, disp |-> off, instr |-> OnStatic(row, v, off)])
<1>1. v \in 0 .. 15 /\ Disp32(off)
    BY EmitterInputs
<1> DEFINE m == OnStatic(row, v, off)
           d == Decode(emit(m))
           t == [kind |-> "static", row |-> row, reg |-> v, disp |-> off, instr |-> m]
<1>2. d.rm.kind = "rip" /\ d.reg = v /\ d.rm.disp = off /\ d.rm.dispAt = offset_of_disp(m)
    <2>1. AtStatic(m, v, off)
        BY <1>1, StaticReads
    <2> QED BY <2>1, Zenon DEF AtStatic
<1>3. t.kind = "static" /\ t.reg = v /\ t.disp = off /\ t.instr = m
    OBVIOUS
<1> HIDE DEF m, t
<1>4. StaticGood(t)
    BY <1>2, <1>3, Zenon DEF StaticGood
<1> QED BY <1>4 DEF t, m

LEMMA StaticAccessGood == EmitStaticAccess => StaticGood(task')
<1> SUFFICES ASSUME EmitStaticAccess PROVE StaticGood(task')
    OBVIOUS
<1> DEFINE Static(row, v, off) ==
               [kind |-> "static", row |-> row, reg |-> v, disp |-> off, instr |-> OnStatic(row, v, off)]
           Loads == {load_goal_gpr(size, sign) : size \in {1, 2, 4, 8}, sign \in BOOLEAN}
           Stores == {store_goal_gpr(size) : size \in {1, 2, 4, 8}}
<1>1. PICK v \in Registers, off \in Displacements :
          \E row \in Loads \cup Stores \cup {lea, load32_xmm32, store32_xmm32, loadvf} : task' = Static(row, v, off)
    BY DEF EmitStaticAccess
<1>2. ASSUME NEW row, NEW size, NEW ext, Mover(row, size, ext) PROVE StaticGood(Static(row, v, off))
    <2>1. PICK pp, map, o : RowOf(row, pp, map, o)
        BY <1>2, Zenon DEF Mover
    <2> QED BY <2>1, StaticTask
<1>3. \A row \in Loads : StaticGood(Static(row, v, off))
    <2> TAKE row \in Loads
    <2>1. PICK size \in {1, 2, 4, 8}, sign \in BOOLEAN : row = load_goal_gpr(size, sign)
        OBVIOUS
    <2>2. Mover(row, size, Extension(size, sign))
        BY <2>1, GoalRows
    <2> QED BY <1>2, <2>2
<1>4. \A row \in Stores : StaticGood(Static(row, v, off))
    <2> TAKE row \in Stores
    <2>1. PICK size \in {1, 2, 4, 8} : row = store_goal_gpr(size)
        OBVIOUS
    <2>2. Mover(row, size, "low")
        BY <2>1, GoalRows
    <2> QED BY <1>2, <2>2
<1>5. \A row \in {lea, load32_xmm32, store32_xmm32, loadvf} : StaticGood(Static(row, v, off))
    <2> TAKE row \in {lea, load32_xmm32, store32_xmm32, loadvf}
    <2>1. PICK pp, map, o : RowOf(row, pp, map, o)
        BY OtherRow
    <2> QED BY <2>1, StaticTask
<1> HIDE DEF Static, Loads, Stores
<1> QED BY <1>1, <1>3, <1>4, <1>5

-----------------------------------------------------------------------------
(* Instructions on registers.                                                *)

\* A new instruction of a row, its immediate as long as the processor expects.
Begun(i, row, map, o) ==
    Fresh(i) /\ i.op = row.op /\ Len(i.imm) = ImmediateSize(map, o, row.w) /\ row.byte = FALSE

\* What the processor reads of an instruction with two registers.
ReadsBoth(m, row, o, reg, rm) ==
    LET d == Decode(emit(m))
    IN /\ d.op = o /\ d.reg = reg /\ d.rm.register = rm /\ d.length = Len(emit(m)) /\ d.W = row.w
       /\ row.v # NoVex => d.vvvv = row.v.reg

LEMMA RegistersRead ==
    ASSUME NEW row, NEW pp, NEW map, NEW o, RowOf(row, pp, map, o), NEW i, Begun(i, row, map, o),
           NEW reg \in 0 .. 15, NEW rm \in 0 .. 15
    PROVE  ReadsBoth(Finish(row, 0, set_modrm_and_rex(i, row.v, reg, rm, row.w)), row, o, reg, rm)
<1> DEFINE n == set_modrm_and_rex(i, row.v, reg, rm, row.w)
           m == Finish(row, 0, n)
           d == Decode(emit(m))
           r == Ext(reg)
           b == Ext(rm)
<1>1. Fresh(i) /\ i.op = row.op /\ Len(i.imm) = ImmediateSize(map, o, row.w)
    BY DEF Begun
<1>2. LegalV(row.v) /\ row.w \in Bit
    BY RowOpcode
<1>3. /\ r \in Bit /\ 0 \in Bit /\ b \in Bit /\ Low3(reg) \in 0 .. 7 /\ Low3(rm) \in 0 .. 7
      /\ Low3(reg) + 8 * r = reg /\ Low3(rm) + 8 * b = rm
    BY RegisterBits DEF Bit
<1>4. /\ Made(n, row.op, row.v, row.w, r, 0, b) /\ n.modrm = ModRM(3, Low3(reg), Low3(rm))
      /\ n.sib = None /\ n.disp = <<>> /\ n.imm = i.imm
    <2>1. TwoRegisters(i, row.v, reg, rm, row.w)
        BY <1>1, <1>2, Zenon DEF TwoRegisters
    <2>2. OnTwo(n, i, row.v, reg, rm, row.w)
        BY <2>1, SetRegisters
    <2> QED BY <1>1, <2>2, Zenon DEF OnTwo
<1> HIDE DEF n, r, b
<1>5. Built(row, n, r, 0, b) /\ 0 \in Int
    BY <1>3, <1>4 DEF Built
<1>6. Says(m, n, row, pp, map, o, r, 0, b)
    BY <1>5, Finishing, Zenon
<1>7. row.v # NoVex => PrefixBytes(emit(m)).vvvv = row.v.reg
    <2>1. ASSUME VexRow(row, o) PROVE PrefixBytes(emit(m)).vvvv = row.v.reg
        BY <1>5, <2>1, FinishVex
    <2>2. ASSUME NEW p \in Prefix, LegacyRow(row, p, map, o) PROVE row.v = NoVex
        BY <2>2 DEF LegacyRow
    <2> QED BY <2>1, <2>2, Zenon DEF RowOf
<1> HIDE DEF m
<1>8. m.modrm = ModRM(3, Low3(reg), Low3(rm)) /\ m.sib = None /\ m.disp = <<>> /\ m.imm = i.imm
    BY <1>4, <1>6 DEF Says, SameBody
<1>9. RegisterForm(m, pp, map, o, row.w, r, 0, b, Low3(reg), Low3(rm))
    <2>1. ModRMForm(m, pp, map, o, row.w, r, 0, b, 3, Low3(reg), Low3(rm))
        BY <1>3, <1>6, <1>8 DEF ModRMForm, Says
    <2> QED BY <1>1, <1>3, <1>8, <2>1, Zenon DEF RegisterForm
<1>10. /\ Named(d, m, pp, map, o, row.w) /\ d.reg = Low3(reg) + 8 * r
       /\ d.rm.register = Low3(rm) + 8 * b /\ d.length = Len(emit(m))
    BY <1>9, ReadsRegister
<1> HIDE DEF d
<1>11. d.reg = reg /\ d.rm.register = rm
    BY <1>3, <1>10
<1>12. d.op = o /\ d.W = row.w /\ d.vvvv = PrefixBytes(emit(m)).vvvv
    BY <1>10, Zenon DEF Named
<1>13. row.v # NoVex => d.vvvv = row.v.reg
    BY <1>7, <1>12, Zenon
<1> QED BY <1>10, <1>11, <1>12, <1>13, Zenon DEF ReadsBoth, m, d, n

\* The processor and the row agree on the operands.
RegistersGood(t) ==
    LET d == Decode(emit(t.instr))
        how == t.row.how
    IN /\ t.kind = "registers" /\ d.length = Len(emit(t.instr)) /\ d.W = t.row.w
       /\ how \in {"rm,reg", "opcode", "digit"} => d.rm.register = t.dst
       /\ how = "rm,reg" => d.reg = t.src1
       /\ how \in {"reg,rm", "reg,vex,rm"} => d.reg = t.dst
       /\ how \in {"reg,rm", "vex,rm"} => d.rm.register = t.src1
       /\ how = "reg,vex,rm" => d.vvvv = t.src1 /\ d.rm.register = t.src2
       /\ how = "vex,rm" => d.vvvv = t.dst /\ d.reg = t.row.ext
       /\ how = "digit" => d.reg = t.row.ext

RegistersTask(row, dst, src1, src2) ==
    [kind |-> "registers", row |-> row, dst |-> dst, src1 |-> src1, src2 |-> src2,
     instr |-> OnRegisters(row, dst, src1, src2)]

\* A row on two registers, without and with a VEX prefix.
RegisterRow(row, p, e, o) ==
    /\ LegacyRow(row, p, e, o) /\ row.byte = FALSE /\ row.how \in {"rm,reg", "reg,rm", "digit"}
    /\ row.ext \in 0 .. 7 /\ row.imm \in Nat /\ ImmediateSize(e, o, row.w) = row.imm
VectorRow(row, o) ==
    /\ VexRow(row, o) /\ row.how \in {"reg,rm", "reg,vex,rm", "vex,rm"}
    /\ row.ext \in 0 .. 7 /\ row.imm \in Nat /\ ImmediateSize(row.v.map, o, row.w) = row.imm

\* A new instruction with an immediate.
Immediate(i, op, size) == Fresh(i) /\ i.op = op /\ Len(i.imm) = size /\ i.imm \in Seq(Int)

LEMMA WithImmediate ==
    ASSUME NEW op, NEW size, op \in Seq(Int) /\ size \in Nat
    PROVE  Immediate([Instruction(op) EXCEPT !.imm = Imm(size, 7)], op, size)
<1> PICK j : j = Instruction(op)
    OBVIOUS
<1>1. j \in InstrRec /\ j.op = op /\ j.rex = None /\ j.vex = <<>> /\ j.modrm = None /\ j.sib = None /\ j.disp = <<>>
    BY InstructionRec
<1>2. Imm(size, 7) \in Seq(Int) /\ Len(Imm(size, 7)) = size
    <2>1. 7 \in Int
        OBVIOUS
    <2> QED BY <2>1, ImmSeq
<1> DEFINE q == Imm(size, 7)
<1> HIDE DEF q
<1> PICK i : i = [j EXCEPT !.imm = q]
    OBVIOUS
<1>3. q \in Seq(Int) /\ Len(q) = size
    BY <1>2 DEF q
<1>4. i \in InstrRec
    BY <1>1, <1>3 DEF InstrRec
<1>5. i.op = j.op /\ i.rex = j.rex /\ i.vex = j.vex /\ i.modrm = j.modrm /\ i.sib = j.sib /\ i.disp = j.disp
    BY <1>1 DEF InstrRec
<1>6. i.imm = q
    BY <1>1 DEF InstrRec
<1>7. Fresh(i) /\ i.op = op /\ Len(i.imm) = size /\ i.imm \in Seq(Int)
    BY <1>1, <1>3, <1>4, <1>5, <1>6 DEF Fresh
<1> QED BY <1>7, Zenon DEF q, Immediate

LEMMA LegacyRegisters ==
    ASSUME NEW row, NEW p, NEW e, NEW o, RegisterRow(row, p, e, o),
           NEW dst \in 0 .. 15, NEW src1 \in 0 .. 15, NEW src2 \in 0 .. 15
    PROVE  RegistersGood(RegistersTask(row, dst, src1, src2))
<1> DEFINE i == [Instruction(row.op) EXCEPT !.imm = Imm(row.imm, 7)]
           how == row.how
           reg == IF how = "rm,reg" THEN src1 ELSE IF how = "reg,rm" THEN dst ELSE row.ext
           rm == IF how = "reg,rm" THEN src1 ELSE dst
           built == set_modrm_and_rex(i, NoVex, reg, rm, row.w)
           m == OnRegisters(row, dst, src1, src2)
           t == RegistersTask(row, dst, src1, src2)
           d == Decode(emit(m))
<1>1. /\ LegacyRow(row, p, e, o) /\ row.byte = FALSE /\ how \in {"rm,reg", "reg,rm", "digit"}
      /\ row.ext \in 0 .. 7 /\ row.imm \in Nat /\ ImmediateSize(e, o, row.w) = row.imm
    BY DEF RegisterRow
<1>2. row.v = NoVex /\ p \in Prefix
    BY <1>1 DEF LegacyRow
<1>3. RowOf(row, PrefixOf(p), e, o)
    BY <1>1, <1>2, Zenon DEF RowOf
<1>4. m = IF Swapped(row) THEN swap_op0_rex(built) ELSE built
    <2>1. CASE how = "rm,reg"
        BY <1>2, <2>1, Zenon DEF OnRegisters
    <2>2. CASE how = "reg,rm"
        BY <1>2, <2>2, Zenon DEF OnRegisters
    <2>3. CASE how = "digit"
        BY <1>2, <2>3, Zenon DEF OnRegisters
    <2> QED BY <1>1, <2>1, <2>2, <2>3
<1>5. m = Finish(row, 0, built)
    BY <1>1, <1>4, Zenon DEF Finish
<1>6. Begun(i, row, e, o)
    <2>1. row.op \in Seq(Int)
        BY <1>3, RowOpcode
    <2>2. Fresh(i) /\ i.op = row.op /\ Len(i.imm) = row.imm
        BY <1>1, <2>1, WithImmediate DEF Immediate
    <2> HIDE DEF i
    <2> QED BY <1>1, <2>2 DEF Begun
<1>7. reg \in 0 .. 15 /\ rm \in 0 .. 15
    <2>1. \A k \in 0 .. 7 : k \in 0 .. 15
        OBVIOUS
    <2> QED BY <1>1, <2>1, Zenon
<1>8. ReadsBoth(m, row, o, reg, rm)
    <2> HIDE DEF i, reg, rm, m
    <2>1. ReadsBoth(Finish(row, 0, set_modrm_and_rex(i, row.v, reg, rm, row.w)), row, o, reg, rm)
        BY <1>3, <1>6, <1>7, RegistersRead
    <2> QED BY <1>2, <1>5, <2>1
<1>9. /\ t.kind = "registers" /\ t.row = row /\ t.dst = dst /\ t.src1 = src1 /\ t.src2 = src2 /\ t.instr = m
    BY DEF RegistersTask
<1> HIDE DEF m, t
<1>10. d.reg = reg /\ d.rm.register = rm /\ d.length = Len(emit(m)) /\ d.W = row.w
    BY <1>8, Zenon DEF ReadsBoth
<1> HIDE DEF d
<1>11. how \in {"rm,reg", "digit"} => d.rm.register = dst
    BY <1>10
<1>12. (how = "rm,reg" => d.reg = src1) /\ (how = "reg,rm" => d.reg = dst /\ d.rm.register = src1)
    BY <1>10
<1>13. how = "digit" => d.reg = row.ext
    BY <1>10
<1>14. how # "opcode" /\ how # "reg,vex,rm" /\ how # "vex,rm"
    <2>1. how \in {"rm,reg", "reg,rm", "digit"}
        BY <1>1
    <2> HIDE DEF how
    <2> QED BY <2>1
<1> HIDE DEF how
<1>15. /\ how \in {"rm,reg", "opcode", "digit"} => d.rm.register = dst
       /\ how \in {"reg,rm", "reg,vex,rm"} => d.reg = dst
       /\ how \in {"reg,rm", "vex,rm"} => d.rm.register = src1
    BY <1>11, <1>12, <1>14
<1> QED BY <1>9, <1>10, <1>12, <1>13, <1>14, <1>15, Zenon DEF RegistersGood, d, how, t

LEMMA VectorRegisters ==
    ASSUME NEW row, NEW o, VectorRow(row, o), NEW dst \in 0 .. 15, NEW src1 \in 0 .. 15, NEW src2 \in 0 .. 15
    PROVE  RegistersGood(RegistersTask(row, dst, src1, src2))
<1> DEFINE how == row.how
           i == [Instruction(row.op) EXCEPT !.imm = Imm(row.imm, 7)]
           vvvv == IF how = "reg,vex,rm" THEN src1 ELSE IF how = "vex,rm" THEN dst ELSE 0
           v == [row.v EXCEPT !.reg = vvvv]
           e == [op |-> row.op, v |-> v, w |-> row.w, byte |-> FALSE]
           reg == IF how = "vex,rm" THEN row.ext ELSE dst
           rm == IF how = "reg,vex,rm" THEN src2 ELSE src1
           built == set_modrm_and_rex(i, v, reg, rm, row.w)
           m == OnRegisters(row, dst, src1, src2)
           t == RegistersTask(row, dst, src1, src2)
           d == Decode(emit(m))
<1>1. /\ how \in {"reg,rm", "reg,vex,rm", "vex,rm"} /\ row.v \in VexRec
      /\ row.ext \in 0 .. 7 /\ row.imm \in Nat /\ ImmediateSize(row.v.map, o, row.w) = row.imm
      /\ o \in Int /\ HasModRM(row.v.map, o) /\ row.op = <<o>> /\ row.w \in Bit
    BY DEF VectorRow, VexRow
<1>2. how \in {"reg,rm", "reg,vex,rm", "vex,rm"} /\ row.ext \in 0 .. 7
    BY DEF VectorRow
<1>3. row.v \in VexRec
    BY DEF VectorRow, VexRow
<1>4. o \in Int /\ row.op = <<o>>
    BY DEF VectorRow, VexRow
<1>5. \A u \in VexRec : u # NoVex
    <2> TAKE u \in VexRec
    <2>1. NoVex.map = 0 /\ u.map # 0
        BY DEF NoVex, VexRec
    <2> QED BY <2>1
<1>6. row.v # NoVex /\ ~Swapped(row)
    <2>1. Len(row.op) = 1
        BY <1>4
    <2> QED BY <1>3, <1>5, <2>1 DEF Swapped
<1>7. m = built
    <2>1. CASE how = "reg,vex,rm"
        BY <1>6, <2>1, Zenon DEF OnRegisters
    <2>2. CASE how = "reg,rm"
        BY <1>6, <2>2, Zenon DEF OnRegisters
    <2>3. CASE how = "vex,rm"
        BY <1>6, <2>3, Zenon DEF OnRegisters
    <2> QED BY <1>1, <2>1, <2>2, <2>3
<1>8. reg \in 0 .. 15 /\ rm \in 0 .. 15 /\ vvvv \in 0 .. 15
    <2>1. 0 \in 0 .. 15 /\ \A k \in 0 .. 7 : k \in 0 .. 15
        OBVIOUS
    <2> QED BY <1>2, <2>1, Zenon
<1>9. v \in VexRec /\ v.map = row.v.map /\ v.reg = vvvv
    <2> HIDE DEF vvvv
    <2> QED BY <1>1, <1>8 DEF VexRec
<1>10. Fresh(i) /\ i.op = row.op /\ Len(i.imm) = row.imm
    <2>1. row.op \in Seq(Int)
        BY <1>4
    <2> QED BY <1>1, <2>1, WithImmediate DEF Immediate
<1> HIDE DEF i, vvvv, v, reg, rm, m
<1>11. e.op = row.op /\ e.v = v /\ e.w = row.w /\ e.byte = FALSE
    OBVIOUS
<1> HIDE DEF e
<1>12. VexRow(e, o) /\ RowOf(e, v.pp, v.map, o)
    <2>1. VexRow(e, o)
        BY <1>1, <1>9, <1>11 DEF VexRow
    <2> QED BY <1>11, <2>1, Zenon DEF RowOf
<1>13. Begun(i, e, v.map, o)
    BY <1>1, <1>9, <1>10, <1>11 DEF Begun
<1>14. m = Finish(e, 0, built)
    <2>1. ~Swapped(e)
        <3>1. Len(e.op) = 1
            BY <1>4, <1>11
        <3> QED BY <3>1 DEF Swapped
    <2> QED BY <1>7, <1>11, <2>1, Zenon DEF Finish
<1>15. ReadsBoth(m, e, o, reg, rm)
    <2>1. ReadsBoth(Finish(e, 0, set_modrm_and_rex(i, e.v, reg, rm, e.w)), e, o, reg, rm)
        BY <1>8, <1>12, <1>13, RegistersRead
    <2> QED BY <1>11, <1>14, <2>1
<1>16. t.kind = "registers" /\ t.row = row /\ t.dst = dst /\ t.src1 = src1 /\ t.src2 = src2 /\ t.instr = m
    BY DEF RegistersTask, m
<1> HIDE DEF t
<1>17. v # NoVex
    BY <1>5, <1>9
<1>18. d.reg = reg /\ d.rm.register = rm /\ d.length = Len(emit(m)) /\ d.W = row.w /\ d.vvvv = vvvv
    BY <1>9, <1>11, <1>15, <1>17, Zenon DEF ReadsBoth
<1> HIDE DEF d
<1>19. how # "rm,reg" /\ how # "opcode" /\ how # "digit"
    BY <1>1
<1>20. /\ how \in {"rm,reg", "opcode", "digit"} => d.rm.register = dst
       /\ how \in {"reg,rm", "reg,vex,rm"} => d.reg = dst
       /\ how \in {"reg,rm", "vex,rm"} => d.rm.register = src1
       /\ how = "reg,vex,rm" => d.vvvv = src1 /\ d.rm.register = src2
       /\ how = "vex,rm" => d.vvvv = dst /\ d.reg = row.ext
    BY <1>18, <1>19 DEF reg, rm, vvvv
<1> HIDE DEF how
<1> QED BY <1>16, <1>18, <1>19, <1>20, Zenon DEF RegistersGood, d, how, t

\* Instructions without a ModRM byte.
BareForm(m, pp, map, o, w, r, x, b) ==
    /\ m \in InstrRec /\ o \in Int /\ Understood(m, pp, map, o, w, r, x, b) /\ ~HasModRM(map, o)
    /\ m.modrm = None /\ m.sib = None /\ m.disp = <<>> /\ Len(m.imm) = ImmediateSize(map, o, w)

LEMMA ReadsBare ==
    ASSUME NEW m, NEW pp, NEW map, NEW o, NEW w, NEW r, NEW x, NEW b, BareForm(m, pp, map, o, w, r, x, b)
    PROVE  LET d == Decode(emit(m))
           IN d.length = Len(emit(m)) /\ d.W = w /\ d.rm.register = (o % 8) + 8 * b
<1> DEFINE c == emit(m)
           pre == PrefixBytes(c)
           d == Decode(c)
           rm == [kind |-> "register", register |-> (o % 8) + 8 * b, next |-> Len(Head_(m)) + 1]
<1>1. /\ m \in InstrRec /\ o \in Int /\ ~HasModRM(map, o)
      /\ m.modrm = None /\ m.sib = None /\ m.disp = <<>> /\ Len(m.imm) = ImmediateSize(map, o, w)
    BY DEF BareForm
<1>2. /\ pre.at = Len(Head_(m)) /\ Len(Head_(m)) \in Nat \ {0} /\ c[Len(Head_(m))] = o /\ pre.map = map
      /\ pre.W = w /\ pre.B = b
    BY DEF BareForm, Understood
<1>3. Len(c) = Len(Head_(m)) + Len(m.imm)
    <2>1. Len(c) = Before(m) + Len(m.disp) + Len(m.imm)
        BY <1>1, Layout
    <2>2. Before(m) = Len(Head_(m))
        BY <1>1, <1>2 DEF Before, Flag
    <2>3. Len(m.disp) = 0 /\ m.imm \in Seq(Int)
        BY <1>1 DEF InstrRec
    <2> QED BY <1>2, <2>1, <2>2, <2>3
<1>4. c[pre.at] = o
    BY <1>2
<1> HIDE DEF c, pre
<1>5. d.W = w /\ d.rm = rm /\ d.length = rm.next - 1 + ImmediateSize(map, o, w)
    BY <1>1, <1>2, <1>4, Zenon DEF Decode, pre
<1>6. d.length = Len(c) /\ d.rm.register = (o % 8) + 8 * b
    <2>1. rm.next = Len(Head_(m)) + 1 /\ rm.register = (o % 8) + 8 * b
        OBVIOUS
    <2>2. Len(m.imm) \in Nat
        BY <1>1 DEF InstrRec
    <2> HIDE DEF rm, d
    <2> QED BY <1>1, <1>2, <1>3, <1>5, <2>1, <2>2
<1> QED BY <1>5, <1>6 DEF d, c

\* A register in the opcode.
OpcodeRow(row, o) ==
    /\ o \in {80, 88, 184} /\ row.how = "opcode" /\ row.op = <<o>> /\ row.v = NoVex /\ row.w \in Bit
    /\ row.imm \in Nat /\ \A l \in 0 .. 7 : ImmediateSize(0, o + l, row.w) = row.imm

LEMMA OpcodeRegisters ==
    ASSUME NEW row, NEW o, OpcodeRow(row, o), NEW dst \in 0 .. 15, NEW src1, NEW src2
    PROVE  RegistersGood(RegistersTask(row, dst, src1, src2))
<1> DEFINE i == [Instruction(row.op) EXCEPT !.imm = Imm(row.imm, 7)]
           c == o + Low3(dst)
           b == Ext(dst)
           q == RexOf(row.w, 0, 0, b)
           n == WithRex([i EXCEPT !.op = <<c>>], row.w, 0, 0, b)
           m == OnRegisters(row, dst, src1, src2)
           t == RegistersTask(row, dst, src1, src2)
           d == Decode(emit(m))
<1>1. /\ o \in {80, 88, 184} /\ row.how = "opcode" /\ row.op = <<o>> /\ row.v = NoVex /\ row.w \in Bit
      /\ row.imm \in Nat /\ \A l \in 0 .. 7 : ImmediateSize(0, o + l, row.w) = row.imm
    BY DEF OpcodeRow
<1>2. row.op[1] = o /\ Len(row.op) = 1 /\ row.op \in Seq(Int)
    BY <1>1
<1>3. ~Swapped(row)
    BY <1>2 DEF Swapped
<1>4. m = n
    BY <1>1, <1>2, <1>3, Zenon DEF OnRegisters
<1>5. Low3(dst) \in 0 .. 7 /\ b \in Bit /\ Low3(dst) + 8 * b = dst /\ 0 \in Bit
    BY RegisterBits DEF Bit
<1>6. /\ c \in OpByte /\ c \in Int /\ c % 8 = Low3(dst) /\ ImmediateSize(0, c, row.w) = row.imm
      /\ ~HasModRM(0, c)
    <2>1. ImmediateSize(0, c, row.w) = row.imm
        BY <1>1, <1>5
    <2>2. c \in 80 .. 95 \cup 184 .. 191 /\ c % 8 = Low3(dst)
        BY <1>1, <1>5
    <2>3. c \in OpByte /\ c \in Int
        BY <2>2 DEF OpByte
    <2>4. ~HasModRM(0, c)
        BY <2>2 DEF HasModRM, OpcodeRegister
    <2> QED BY <2>1, <2>2, <2>3, <2>4
<1>7. Fresh(i) /\ i.op = row.op /\ Len(i.imm) = row.imm
    <2>1. row.op \in Seq(Int) /\ row.imm \in Nat
        BY <1>1, <1>2
    <2>2. Immediate(i, row.op, row.imm)
        BY <2>1, WithImmediate
    <2> HIDE DEF i
    <2> QED BY <1>1, <2>2 DEF Immediate
<1> HIDE DEF i, c, b, m
<1> PICK j : j = [i EXCEPT !.op = <<c>>]
    OBVIOUS
<1>8. i \in InstrRec /\ i.rex = None /\ i.vex = <<>> /\ i.modrm = None /\ i.sib = None /\ i.disp = <<>>
    BY <1>7 DEF Fresh
<1>9. j \in InstrRec
    <2>1. <<c>> \in Seq(Int)
        BY <1>6
    <2> QED BY <1>8, <2>1 DEF InstrRec
<1>10. j.op = <<c>> /\ j.rex = None /\ j.vex = <<>> /\ j.modrm = None /\ j.sib = None
    BY <1>8 DEF InstrRec
<1>11. j.disp = <<>> /\ j.imm = i.imm
    BY <1>8 DEF InstrRec
<1>12. Made(n, <<c>>, NoVex, row.w, 0, 0, b) /\ SameBody(n, j)
    <2>1. n = WithPrefix(j, NoVex, row.w, 0, 0, b) /\ LegalV(NoVex)
        BY DEF WithPrefix, LegalV
    <2>2. /\ Made(WithPrefix(j, NoVex, row.w, 0, 0, b), j.op, NoVex, row.w, 0, 0, b)
          /\ SameBody(WithPrefix(j, NoVex, row.w, 0, 0, b), j)
        <3> PICK w : w = row.w
            OBVIOUS
        <3>1. w \in Bit
            BY <1>1
        <3>2. Made(WithPrefix(j, NoVex, w, 0, 0, b), j.op, NoVex, w, 0, 0, b) /\ SameBody(WithPrefix(j, NoVex, w, 0, 0, b), j)
            BY <1>5, <1>9, <1>10, <2>1, <3>1, Prefixed
        <3> QED BY <3>2
    <2> QED BY <1>10, <2>1, <2>2, Zenon
<1> HIDE DEF n
<1>13. n \in InstrRec /\ n.op = <<c>> /\ n.rex = q /\ n.vex = <<>>
    BY <1>12 DEF Made
<1>14. n.modrm = None /\ n.sib = None /\ n.disp = <<>> /\ n.imm = i.imm
    BY <1>10, <1>11, <1>12 DEF SameBody
<1>15. Head_(n) = LegacyHead(0, q, 0, c)
    BY <1>13, Zenon DEF Head_, LegacyHead, Escaped
<1>16. RexFor(q, row.w, 0, 0, b)
    <2>1. row.w + 0 + 0 + b = 0 => row.w = 0 /\ b = 0
        BY <1>1, <1>5 DEF Bit
    <2> QED BY <2>1 DEF RexFor, RexOf
<1> HIDE DEF q
<1>17. Understood(n, PrefixOf(0), 0, c, row.w, 0, 0, b)
    <2>1. 0 \in Prefix
        BY DEF Prefix
    <2> QED BY <1>1, <1>5, <1>6, <1>13, <1>15, <1>16, <2>1, LegacyUnderstood
<1>18. BareForm(n, PrefixOf(0), 0, c, row.w, 0, 0, b)
    BY <1>6, <1>7, <1>13, <1>14, <1>17 DEF BareForm
<1>19. d.length = Len(emit(m)) /\ d.W = row.w /\ d.rm.register = (c % 8) + 8 * b
    BY <1>4, <1>18, ReadsBare
<1>20. t.kind = "registers" /\ t.row = row /\ t.dst = dst /\ t.src1 = src1 /\ t.src2 = src2 /\ t.instr = m
    BY DEF RegistersTask, m
<1> HIDE DEF d, t
<1>21. d.rm.register = dst
    BY <1>5, <1>6, <1>19
<1>22. /\ row.how # "rm,reg" /\ row.how \notin {"reg,rm", "reg,vex,rm"} /\ row.how \notin {"reg,rm", "vex,rm"}
       /\ row.how # "reg,vex,rm" /\ row.how # "vex,rm" /\ row.how # "digit"
    BY <1>1
<1> DEFINE how == row.how
<1>23. /\ how \in {"rm,reg", "opcode", "digit"} => d.rm.register = dst
       /\ how = "rm,reg" => d.reg = src1
       /\ how \in {"reg,rm", "reg,vex,rm"} => d.reg = dst
       /\ how \in {"reg,rm", "vex,rm"} => d.rm.register = src1
       /\ how = "reg,vex,rm" => d.vvvv = src1 /\ d.rm.register = src2
       /\ how = "vex,rm" => d.vvvv = dst /\ d.reg = row.ext
       /\ how = "digit" => d.reg = row.ext
    BY <1>21, <1>22
<1> HIDE DEF how
<1>24. RegistersGood(t)
    BY <1>19, <1>20, <1>23, Zenon DEF RegistersGood, d, how
<1> QED BY <1>24 DEF t

\* No operands.
BareRow(row, e, o) ==
    /\ e \in Bit /\ o \in OpByte /\ ~HasModRM(e, o) /\ row.how = "none" /\ row.op = Escaped(e, o) /\ row.w = 0
    /\ row.imm \in Nat /\ ImmediateSize(e, o, 0) = row.imm

\* Whatever the processor reads, a row without operands asks for no more than the length.
LEMMA NoOperands ==
    ASSUME NEW row, row.how = "none", NEW dst, NEW src1, NEW src2, row.w = 0,
           LET m == OnRegisters(row, dst, src1, src2)
           IN Decode(emit(m)).length = Len(emit(m)) /\ Decode(emit(m)).W = 0
    PROVE  RegistersGood(RegistersTask(row, dst, src1, src2))
<1> DEFINE m == OnRegisters(row, dst, src1, src2)
           t == RegistersTask(row, dst, src1, src2)
           d == Decode(emit(m))
           how == row.how
<1>1. t.kind = "registers" /\ t.row = row /\ t.dst = dst /\ t.src1 = src1 /\ t.src2 = src2 /\ t.instr = m
    BY DEF RegistersTask
<1>2. /\ row.how # "rm,reg" /\ row.how \notin {"reg,rm", "reg,vex,rm"} /\ row.how \notin {"reg,rm", "vex,rm"}
      /\ row.how # "reg,vex,rm" /\ row.how # "vex,rm" /\ row.how # "digit"
      /\ row.how \notin {"rm,reg", "opcode", "digit"}
    OBVIOUS
<1>3. d.length = Len(emit(m)) /\ d.W = row.w
    OBVIOUS
<1> HIDE DEF t, d
<1>4. /\ how \in {"rm,reg", "opcode", "digit"} => d.rm.register = dst
      /\ how = "rm,reg" => d.reg = src1
      /\ how \in {"reg,rm", "reg,vex,rm"} => d.reg = dst
      /\ how \in {"reg,rm", "vex,rm"} => d.rm.register = src1
      /\ how = "reg,vex,rm" => d.vvvv = src1 /\ d.rm.register = src2
      /\ how = "vex,rm" => d.vvvv = dst /\ d.reg = row.ext
      /\ how = "digit" => d.reg = row.ext
    BY <1>2
<1> HIDE DEF how
<1> QED BY <1>1, <1>3, <1>4, Zenon DEF RegistersGood, d, how, t

LEMMA BareRegisters ==
    ASSUME NEW row, NEW e, NEW o, BareRow(row, e, o), NEW dst, NEW src1, NEW src2
    PROVE  RegistersGood(RegistersTask(row, dst, src1, src2))
<1> DEFINE i == [Instruction(row.op) EXCEPT !.imm = Imm(row.imm, 7)]
           m == OnRegisters(row, dst, src1, src2)
<1>1. /\ e \in Bit /\ o \in OpByte /\ ~HasModRM(e, o) /\ row.how = "none" /\ row.op = Escaped(e, o) /\ row.w = 0
      /\ row.imm \in Nat /\ ImmediateSize(e, o, 0) = row.imm
    BY DEF BareRow
<1>2. 0 \in Prefix /\ 0 \in Bit /\ o \in Int
    BY <1>1 DEF Prefix, Bit, OpByte
<1>3. row.op \in Seq(Int) /\ ~Swapped(row)
    <2>1. OpOf(0, e, o) = Escaped(e, o) /\ OpOf(0, e, o)[1] \notin {102, 243} /\ Escaped(e, o) \in Seq(Int)
        BY <1>1, <1>2, OpOfSeq
    <2> QED BY <1>1, <2>1, Zenon DEF Swapped
<1>4. m = i
    BY <1>1, <1>3, Zenon DEF OnRegisters
<1>5. Fresh(i) /\ i.op = row.op /\ Len(i.imm) = row.imm
    BY <1>1, <1>3, WithImmediate DEF Immediate
<1> HIDE DEF i, m
<1>6. i \in InstrRec /\ i.rex = None /\ i.vex = <<>> /\ i.modrm = None /\ i.sib = None /\ i.disp = <<>>
    BY <1>5 DEF Fresh
<1>7. Head_(i) = LegacyHead(0, None, e, o)
    BY <1>1, <1>5, <1>6, Zenon DEF Head_, LegacyHead
<1>8. Understood(i, PrefixOf(0), e, o, 0, 0, 0, 0)
    <2>1. RexFor(None, 0, 0, 0, 0)
        BY DEF RexFor
    <2> QED BY <1>1, <1>2, <1>6, <1>7, <2>1, LegacyUnderstood
<1>9. BareForm(i, PrefixOf(0), e, o, 0, 0, 0, 0)
    BY <1>1, <1>2, <1>5, <1>6, <1>8 DEF BareForm
<1>10. Decode(emit(i)).length = Len(emit(i)) /\ Decode(emit(i)).W = 0
    BY <1>9, ReadsBare
<1> QED BY <1>1, <1>4, <1>10, NoOperands, Zenon DEF m

\* nop_vf is an opcode with a ModRM byte in its opcode bytes.
LEMMA NopVf ==
    ASSUME NEW dst, NEW src1, NEW src2
    PROVE  RegistersGood(RegistersTask(Row("nop_vf", "none", <<217, 208>>, 0), dst, src1, src2))
<1> DEFINE row == Row("nop_vf", "none", <<217, 208>>, 0)
           i == [Instruction(row.op) EXCEPT !.imm = Imm(row.imm, 7)]
           m == OnRegisters(row, dst, src1, src2)
           c == emit(m)
           pre == PrefixBytes(c)
<1>1. row.how = "none" /\ row.op = <<217, 208>> /\ row.w = 0 /\ row.imm = 0 /\ 0 \in Nat
    BY DEF Row
<1>2. row.op \in Seq(Int) /\ ~Swapped(row)
    <2>1. row.op \in Seq(Int) /\ row.op[1] = 217
        <3>1. <<217, 208>> \in Seq(Int) /\ <<217, 208>>[1] = 217
            OBVIOUS
        <3> QED BY <1>1, <3>1
    <2> QED BY <2>1 DEF Swapped
<1> HIDE DEF row
<1>3. m = i
    BY <1>1, <1>2, Zenon DEF OnRegisters
<1>4. Fresh(i) /\ i.op = row.op /\ Len(i.imm) = 0 /\ i.imm \in Seq(Int)
    <2>1. row.op \in Seq(Int) /\ row.imm \in Nat
        BY <1>1, <1>2
    <2>2. Immediate(i, row.op, row.imm)
        BY <2>1, WithImmediate
    <2> HIDE DEF i
    <2> QED BY <1>1, <2>2 DEF Immediate
<1> HIDE DEF i, m
<1>5. i.rex = None /\ i.vex = <<>> /\ i.modrm = None /\ i.sib = None /\ i.disp = <<>> /\ i.imm = <<>>
    BY <1>4 DEF Fresh
<1>6. c = <<217, 208>>
    <2>1. c = <<>> \o <<>> \o <<217, 208>> \o <<>> \o <<>> \o <<>> \o <<>>
        BY <1>1, <1>3, <1>4, <1>5 DEF emit, Byte
    <2> QED BY <2>1
<1>7. c[1] = 217 /\ c[2] = 208 /\ Len(c) = 2
    BY <1>6
<1> HIDE DEF c
<1>8. PrefixOf(c[1]) = 0
    BY <1>7 DEF PrefixOf
<1>9. pre.at = 1 /\ pre.map = 0 /\ pre.W = 0
    BY <1>7, <1>8 DEF PrefixBytes
<1> HIDE DEF pre
<1>10. HasModRM(pre.map, c[pre.at]) /\ ImmediateSize(pre.map, c[pre.at], pre.W) = 0
    BY <1>7, <1>9 DEF HasModRM, OpcodeRegister, ImmediateSize
<1>11. Operand(c, pre.at + 1, pre).next = 3
    <2>1. NamesRegister(c, 2, 2, 0)
        BY <1>7 DEF NamesRegister, ModRM
    <2>2. Operand(c, 2, pre).next = 2 + 1
        BY <2>1, OperandRegister
    <2> QED BY <1>9, <2>2
<1>12. Decode(c).length = Operand(c, pre.at + 1, pre).next - 1 + ImmediateSize(pre.map, c[pre.at], pre.W)
    BY <1>10, Zenon DEF Decode, pre
<1>13. Decode(c).W = pre.W
    BY Zenon DEF Decode, pre
<1>14. Decode(c).length = Len(c) /\ Decode(c).W = 0
    BY <1>7, <1>9, <1>10, <1>11, <1>12, <1>13
<1> QED BY <1>1, <1>14, NoOperands, Zenon DEF c, m, row

-----------------------------------------------------------------------------
(* Every row of IGen on registers.                                           *)

GoodRow(row) == \A dst \in 0 .. 15, src1 \in 0 .. 15, src2 \in 0 .. 15 : RegistersGood(RegistersTask(row, dst, src1, src2))

\* One of the kinds of rows.
Known(row) ==
    \/ \E p, e, o : RegisterRow(row, p, e, o)
    \/ \E o : VectorRow(row, o) \/ OpcodeRow(row, o)
    \/ \E e, o : BareRow(row, e, o)

LEMMA KnownGood == ASSUME NEW row, Known(row) PROVE GoodRow(row)
<1>1. ASSUME NEW p, NEW e, NEW o, RegisterRow(row, p, e, o) PROVE GoodRow(row)
    BY <1>1, LegacyRegisters, Zenon DEF GoodRow
<1>2. ASSUME NEW o, VectorRow(row, o) PROVE GoodRow(row)
    BY <1>2, VectorRegisters, Zenon DEF GoodRow
<1>3. ASSUME NEW o, OpcodeRow(row, o) PROVE GoodRow(row)
    BY <1>3, OpcodeRegisters, Zenon DEF GoodRow
<1>4. ASSUME NEW e, NEW o, BareRow(row, e, o) PROVE GoodRow(row)
    BY <1>4, BareRegisters, Zenon DEF GoodRow
<1> QED BY <1>1, <1>2, <1>3, <1>4, Zenon DEF Known

LEMMA MovesGood == \A row \in Moves : GoodRow(row)
<1>1. Known(Row("mov_gpr64_gpr64", "rm,reg", <<137>>, 1))
    <2>1. RegisterRow(Row("mov_gpr64_gpr64", "rm,reg", <<137>>, 1), 0, 0, 137)
        BY DEF Row, RegisterRow, LegacyRow, OpOf, Escaped, HasModRM, OpcodeRegister, ImmediateSize, Bit, OpByte, Prefix, NoVex
    <2> QED BY <2>1, Zenon DEF Known
<1>2. Known([Row("mov_gpr64_u64", "opcode", <<184>>, 1) EXCEPT !.imm = 8])
    <2>1. OpcodeRow([Row("mov_gpr64_u64", "opcode", <<184>>, 1) EXCEPT !.imm = 8], 184)
        BY DEF Row, OpcodeRow, ImmediateSize, Bit, NoVex
    <2> QED BY <2>1, Zenon DEF Known
<1>3. Known([Row("mov_gpr64_u32", "opcode", <<184>>, 0) EXCEPT !.imm = 4])
    <2>1. OpcodeRow([Row("mov_gpr64_u32", "opcode", <<184>>, 0) EXCEPT !.imm = 4], 184)
        BY DEF Row, OpcodeRow, ImmediateSize, Bit, NoVex
    <2> QED BY <2>1, Zenon DEF Known
<1>4. Known(Slash("mov_gpr64_s32", <<199>>, 0, 4, 1))
    <2>1. RegisterRow(Slash("mov_gpr64_s32", <<199>>, 0, 4, 1), 0, 0, 199)
        BY DEF Row, Slash, RegisterRow, LegacyRow, OpOf, Escaped, HasModRM, OpcodeRegister, ImmediateSize, Bit, OpByte, Prefix, NoVex
    <2> QED BY <2>1, Zenon DEF Known
<1>5. Known(Row("movd_gpr32_xmm32", "rm,reg", <<102, 15, 126>>, 0))
    <2>1. RegisterRow(Row("movd_gpr32_xmm32", "rm,reg", <<102, 15, 126>>, 0), 102, 1, 126)
        BY DEF Row, RegisterRow, LegacyRow, OpOf, Escaped, HasModRM, OpcodeRegister, ImmediateSize, Bit, OpByte, Prefix, NoVex
    <2> QED BY <2>1, Zenon DEF Known
<1>6. Known(Row("movd_xmm32_gpr32", "reg,rm", <<102, 15, 110>>, 0))
    <2>1. RegisterRow(Row("movd_xmm32_gpr32", "reg,rm", <<102, 15, 110>>, 0), 102, 1, 110)
        BY DEF Row, RegisterRow, LegacyRow, OpOf, Escaped, HasModRM, OpcodeRegister, ImmediateSize, Bit, OpByte, Prefix, NoVex
    <2> QED BY <2>1, Zenon DEF Known
<1>7. Known(Row("movq_gpr64_xmm64", "rm,reg", <<102, 15, 126>>, 1))
    <2>1. RegisterRow(Row("movq_gpr64_xmm64", "rm,reg", <<102, 15, 126>>, 1), 102, 1, 126)
        BY DEF Row, RegisterRow, LegacyRow, OpOf, Escaped, HasModRM, OpcodeRegister, ImmediateSize, Bit, OpByte, Prefix, NoVex
    <2> QED BY <2>1, Zenon DEF Known
<1>8. Known(Row("movq_xmm64_gpr64", "reg,rm", <<102, 15, 110>>, 1))
    <2>1. RegisterRow(Row("movq_xmm64_gpr64", "reg,rm", <<102, 15, 110>>, 1), 102, 1, 110)
        BY DEF Row, RegisterRow, LegacyRow, OpOf, Escaped, HasModRM, OpcodeRegister, ImmediateSize, Bit, OpByte, Prefix, NoVex
    <2> QED BY <2>1, Zenon DEF Known
<1>9. Known(Row("mov_xmm32_xmm32", "reg,rm", <<243, 15, 16>>, 0))
    <2>1. RegisterRow(Row("mov_xmm32_xmm32", "reg,rm", <<243, 15, 16>>, 0), 243, 1, 16)
        BY DEF Row, RegisterRow, LegacyRow, OpOf, Escaped, HasModRM, OpcodeRegister, ImmediateSize, Bit, OpByte, Prefix, NoVex
    <2> QED BY <2>1, Zenon DEF Known
<1>10. \A row \in Moves : Known(row)
    BY <1>1, <1>2, <1>3, <1>4, <1>5, <1>6, <1>7, <1>8, <1>9, ZenonT(90) DEF Moves
<1> QED BY <1>10, KnownGood

LEMMA StackGood == \A row \in Stack : GoodRow(row)
<1>1. Known(Row("push_gpr64", "opcode", <<80>>, 0))
    <2>1. OpcodeRow(Row("push_gpr64", "opcode", <<80>>, 0), 80)
        BY DEF Row, OpcodeRow, ImmediateSize, Bit, NoVex
    <2> QED BY <2>1, Zenon DEF Known
<1>2. Known(Row("pop_gpr64", "opcode", <<88>>, 0))
    <2>1. OpcodeRow(Row("pop_gpr64", "opcode", <<88>>, 0), 88)
        BY DEF Row, OpcodeRow, ImmediateSize, Bit, NoVex
    <2> QED BY <2>1, Zenon DEF Known
<1>3. Known(Slash("call_r64", <<255>>, 2, 0, 0))
    <2>1. RegisterRow(Slash("call_r64", <<255>>, 2, 0, 0), 0, 0, 255)
        BY DEF Row, Slash, RegisterRow, LegacyRow, OpOf, Escaped, HasModRM, OpcodeRegister, ImmediateSize, Bit, OpByte, Prefix, NoVex
    <2> QED BY <2>1, Zenon DEF Known
<1>4. Known(Slash("jmp_r64", <<255>>, 4, 0, 0))
    <2>1. RegisterRow(Slash("jmp_r64", <<255>>, 4, 0, 0), 0, 0, 255)
        BY DEF Row, Slash, RegisterRow, LegacyRow, OpOf, Escaped, HasModRM, OpcodeRegister, ImmediateSize, Bit, OpByte, Prefix, NoVex
    <2> QED BY <2>1, Zenon DEF Known
<1> QED BY <1>1, <1>2, <1>3, <1>4, KnownGood DEF Stack

LEMMA IntegerMathGood == \A row \in IntegerMath : GoodRow(row)
<1>1. Known(Slash("sub_gpr64_imm8s", <<131>>, 5, 1, 1))
    <2>1. RegisterRow(Slash("sub_gpr64_imm8s", <<131>>, 5, 1, 1), 0, 0, 131)
        BY DEF Row, Slash, RegisterRow, LegacyRow, OpOf, Escaped, HasModRM, OpcodeRegister, ImmediateSize, Bit, OpByte, Prefix, NoVex
    <2> QED BY <2>1, Zenon DEF Known
<1>2. Known(Slash("sub_gpr64_imm32s", <<129>>, 5, 4, 1))
    <2>1. RegisterRow(Slash("sub_gpr64_imm32s", <<129>>, 5, 4, 1), 0, 0, 129)
        BY DEF Row, Slash, RegisterRow, LegacyRow, OpOf, Escaped, HasModRM, OpcodeRegister, ImmediateSize, Bit, OpByte, Prefix, NoVex
    <2> QED BY <2>1, Zenon DEF Known
<1>3. Known(Slash("add_gpr64_imm8s", <<131>>, 0, 1, 1))
    <2>1. RegisterRow(Slash("add_gpr64_imm8s", <<131>>, 0, 1, 1), 0, 0, 131)
        BY DEF Row, Slash, RegisterRow, LegacyRow, OpOf, Escaped, HasModRM, OpcodeRegister, ImmediateSize, Bit, OpByte, Prefix, NoVex
    <2> QED BY <2>1, Zenon DEF Known
<1>4. Known(Slash("add_gpr64_imm32s", <<129>>, 0, 4, 1))
    <2>1. RegisterRow(Slash("add_gpr64_imm32s", <<129>>, 0, 4, 1), 0, 0, 129)
        BY DEF Row, Slash, RegisterRow, LegacyRow, OpOf, Escaped, HasModRM, OpcodeRegister, ImmediateSize, Bit, OpByte, Prefix, NoVex
    <2> QED BY <2>1, Zenon DEF Known
<1>5. Known(Row("add_gpr64_gpr64", "rm,reg", <<1>>, 1))
    <2>1. RegisterRow(Row("add_gpr64_gpr64", "rm,reg", <<1>>, 1), 0, 0, 1)
        BY DEF Row, RegisterRow, LegacyRow, OpOf, Escaped, HasModRM, OpcodeRegister, ImmediateSize, Bit, OpByte, Prefix, NoVex
    <2> QED BY <2>1, Zenon DEF Known
<1>6. Known(Row("sub_gpr64_gpr64", "rm,reg", <<41>>, 1))
    <2>1. RegisterRow(Row("sub_gpr64_gpr64", "rm,reg", <<41>>, 1), 0, 0, 41)
        BY DEF Row, RegisterRow, LegacyRow, OpOf, Escaped, HasModRM, OpcodeRegister, ImmediateSize, Bit, OpByte, Prefix, NoVex
    <2> QED BY <2>1, Zenon DEF Known
<1>7. Known(Row("imul_gpr32_gpr32", "reg,rm", <<15, 175>>, 0))
    <2>1. RegisterRow(Row("imul_gpr32_gpr32", "reg,rm", <<15, 175>>, 0), 0, 1, 175)
        BY DEF Row, RegisterRow, LegacyRow, OpOf, Escaped, HasModRM, OpcodeRegister, ImmediateSize, Bit, OpByte, Prefix, NoVex
    <2> QED BY <2>1, Zenon DEF Known
<1>8. Known(Row("imul_gpr64_gpr64", "reg,rm", <<15, 175>>, 1))
    <2>1. RegisterRow(Row("imul_gpr64_gpr64", "reg,rm", <<15, 175>>, 1), 0, 1, 175)
        BY DEF Row, RegisterRow, LegacyRow, OpOf, Escaped, HasModRM, OpcodeRegister, ImmediateSize, Bit, OpByte, Prefix, NoVex
    <2> QED BY <2>1, Zenon DEF Known
<1>9. Known(Slash("idiv_gpr32", <<247>>, 7, 0, 0))
    <2>1. RegisterRow(Slash("idiv_gpr32", <<247>>, 7, 0, 0), 0, 0, 247)
        BY DEF Row, Slash, RegisterRow, LegacyRow, OpOf, Escaped, HasModRM, OpcodeRegister, ImmediateSize, Bit, OpByte, Prefix, NoVex
    <2> QED BY <2>1, Zenon DEF Known
<1>10. Known(Slash("unsigned_div_gpr32", <<247>>, 6, 0, 0))
    <2>1. RegisterRow(Slash("unsigned_div_gpr32", <<247>>, 6, 0, 0), 0, 0, 247)
        BY DEF Row, Slash, RegisterRow, LegacyRow, OpOf, Escaped, HasModRM, OpcodeRegister, ImmediateSize, Bit, OpByte, Prefix, NoVex
    <2> QED BY <2>1, Zenon DEF Known
<1>11. Known(Row("movsx_r64_r32", "reg,rm", <<99>>, 1))
    <2>1. RegisterRow(Row("movsx_r64_r32", "reg,rm", <<99>>, 1), 0, 0, 99)
        BY DEF Row, RegisterRow, LegacyRow, OpOf, Escaped, HasModRM, OpcodeRegister, ImmediateSize, Bit, OpByte, Prefix, NoVex
    <2> QED BY <2>1, Zenon DEF Known
<1>12. Known(Row("cmp_gpr64_gpr64", "reg,rm", <<59>>, 1))
    <2>1. RegisterRow(Row("cmp_gpr64_gpr64", "reg,rm", <<59>>, 1), 0, 0, 59)
        BY DEF Row, RegisterRow, LegacyRow, OpOf, Escaped, HasModRM, OpcodeRegister, ImmediateSize, Bit, OpByte, Prefix, NoVex
    <2> QED BY <2>1, Zenon DEF Known
<1>13. \A row \in IntegerMath : Known(row)
    BY <1>1, <1>2, <1>3, <1>4, <1>5, <1>6, <1>7, <1>8, <1>9, <1>10, <1>11, <1>12, ZenonT(90) DEF IntegerMath
<1> QED BY <1>13, KnownGood

LEMMA LogicGood == \A row \in Logic : GoodRow(row)
<1>1. Known(Row("or_gpr64_gpr64", "reg,rm", <<11>>, 1))
    <2>1. RegisterRow(Row("or_gpr64_gpr64", "reg,rm", <<11>>, 1), 0, 0, 11)
        BY DEF Row, RegisterRow, LegacyRow, OpOf, Escaped, HasModRM, OpcodeRegister, ImmediateSize, Bit, OpByte, Prefix, NoVex
    <2> QED BY <2>1, Zenon DEF Known
<1>2. Known(Row("and_gpr64_gpr64", "reg,rm", <<35>>, 1))
    <2>1. RegisterRow(Row("and_gpr64_gpr64", "reg,rm", <<35>>, 1), 0, 0, 35)
        BY DEF Row, RegisterRow, LegacyRow, OpOf, Escaped, HasModRM, OpcodeRegister, ImmediateSize, Bit, OpByte, Prefix, NoVex
    <2> QED BY <2>1, Zenon DEF Known
<1>3. Known(Row("xor_gpr64_gpr64", "reg,rm", <<51>>, 1))
    <2>1. RegisterRow(Row("xor_gpr64_gpr64", "reg,rm", <<51>>, 1), 0, 0, 51)
        BY DEF Row, RegisterRow, LegacyRow, OpOf, Escaped, HasModRM, OpcodeRegister, ImmediateSize, Bit, OpByte, Prefix, NoVex
    <2> QED BY <2>1, Zenon DEF Known
<1>4. Known(Slash("not_gpr64", <<247>>, 2, 0, 1))
    <2>1. RegisterRow(Slash("not_gpr64", <<247>>, 2, 0, 1), 0, 0, 247)
        BY DEF Row, Slash, RegisterRow, LegacyRow, OpOf, Escaped, HasModRM, OpcodeRegister, ImmediateSize, Bit, OpByte, Prefix, NoVex
    <2> QED BY <2>1, Zenon DEF Known
<1>5. Known(Slash("shl_gpr64_cl", <<211>>, 4, 0, 1))
    <2>1. RegisterRow(Slash("shl_gpr64_cl", <<211>>, 4, 0, 1), 0, 0, 211)
        BY DEF Row, Slash, RegisterRow, LegacyRow, OpOf, Escaped, HasModRM, OpcodeRegister, ImmediateSize, Bit, OpByte, Prefix, NoVex
    <2> QED BY <2>1, Zenon DEF Known
<1>6. Known(Slash("shr_gpr64_cl", <<211>>, 5, 0, 1))
    <2>1. RegisterRow(Slash("shr_gpr64_cl", <<211>>, 5, 0, 1), 0, 0, 211)
        BY DEF Row, Slash, RegisterRow, LegacyRow, OpOf, Escaped, HasModRM, OpcodeRegister, ImmediateSize, Bit, OpByte, Prefix, NoVex
    <2> QED BY <2>1, Zenon DEF Known
<1>7. Known(Slash("sar_gpr64_cl", <<211>>, 7, 0, 1))
    <2>1. RegisterRow(Slash("sar_gpr64_cl", <<211>>, 7, 0, 1), 0, 0, 211)
        BY DEF Row, Slash, RegisterRow, LegacyRow, OpOf, Escaped, HasModRM, OpcodeRegister, ImmediateSize, Bit, OpByte, Prefix, NoVex
    <2> QED BY <2>1, Zenon DEF Known
<1>8. Known(Slash("shl_gpr64_u8", <<193>>, 4, 1, 1))
    <2>1. RegisterRow(Slash("shl_gpr64_u8", <<193>>, 4, 1, 1), 0, 0, 193)
        BY DEF Row, Slash, RegisterRow, LegacyRow, OpOf, Escaped, HasModRM, OpcodeRegister, ImmediateSize, Bit, OpByte, Prefix, NoVex
    <2> QED BY <2>1, Zenon DEF Known
<1>9. Known(Slash("shr_gpr64_u8", <<193>>, 5, 1, 1))
    <2>1. RegisterRow(Slash("shr_gpr64_u8", <<193>>, 5, 1, 1), 0, 0, 193)
        BY DEF Row, Slash, RegisterRow, LegacyRow, OpOf, Escaped, HasModRM, OpcodeRegister, ImmediateSize, Bit, OpByte, Prefix, NoVex
    <2> QED BY <2>1, Zenon DEF Known
<1>10. Known(Slash("sar_gpr64_u8", <<193>>, 7, 1, 1))
    <2>1. RegisterRow(Slash("sar_gpr64_u8", <<193>>, 7, 1, 1), 0, 0, 193)
        BY DEF Row, Slash, RegisterRow, LegacyRow, OpOf, Escaped, HasModRM, OpcodeRegister, ImmediateSize, Bit, OpByte, Prefix, NoVex
    <2> QED BY <2>1, Zenon DEF Known
<1>11. \A row \in Logic : Known(row)
    BY <1>1, <1>2, <1>3, <1>4, <1>5, <1>6, <1>7, <1>8, <1>9, <1>10, ZenonT(90) DEF Logic
<1> QED BY <1>11, KnownGood

LEMMA FloatMathGood == \A row \in FloatMath : GoodRow(row)
<1>1. Known(Row("cmp_flt_flt", "reg,rm", <<15, 46>>, 0))
    <2>1. RegisterRow(Row("cmp_flt_flt", "reg,rm", <<15, 46>>, 0), 0, 1, 46)
        BY DEF Row, RegisterRow, LegacyRow, OpOf, Escaped, HasModRM, OpcodeRegister, ImmediateSize, Bit, OpByte, Prefix, NoVex
    <2> QED BY <2>1, Zenon DEF Known
<1>2. Known(Row("sqrts_xmm", "reg,rm", <<243, 15, 81>>, 0))
    <2>1. RegisterRow(Row("sqrts_xmm", "reg,rm", <<243, 15, 81>>, 0), 243, 1, 81)
        BY DEF Row, RegisterRow, LegacyRow, OpOf, Escaped, HasModRM, OpcodeRegister, ImmediateSize, Bit, OpByte, Prefix, NoVex
    <2> QED BY <2>1, Zenon DEF Known
<1>3. Known(Row("mulss_xmm_xmm", "reg,rm", <<243, 15, 89>>, 0))
    <2>1. RegisterRow(Row("mulss_xmm_xmm", "reg,rm", <<243, 15, 89>>, 0), 243, 1, 89)
        BY DEF Row, RegisterRow, LegacyRow, OpOf, Escaped, HasModRM, OpcodeRegister, ImmediateSize, Bit, OpByte, Prefix, NoVex
    <2> QED BY <2>1, Zenon DEF Known
<1>4. Known(Row("divss_xmm_xmm", "reg,rm", <<243, 15, 94>>, 0))
    <2>1. RegisterRow(Row("divss_xmm_xmm", "reg,rm", <<243, 15, 94>>, 0), 243, 1, 94)
        BY DEF Row, RegisterRow, LegacyRow, OpOf, Escaped, HasModRM, OpcodeRegister, ImmediateSize, Bit, OpByte, Prefix, NoVex
    <2> QED BY <2>1, Zenon DEF Known
<1>5. Known(Row("subss_xmm_xmm", "reg,rm", <<243, 15, 92>>, 0))
    <2>1. RegisterRow(Row("subss_xmm_xmm", "reg,rm", <<243, 15, 92>>, 0), 243, 1, 92)
        BY DEF Row, RegisterRow, LegacyRow, OpOf, Escaped, HasModRM, OpcodeRegister, ImmediateSize, Bit, OpByte, Prefix, NoVex
    <2> QED BY <2>1, Zenon DEF Known
<1>6. Known(Row("addss_xmm_xmm", "reg,rm", <<243, 15, 88>>, 0))
    <2>1. RegisterRow(Row("addss_xmm_xmm", "reg,rm", <<243, 15, 88>>, 0), 243, 1, 88)
        BY DEF Row, RegisterRow, LegacyRow, OpOf, Escaped, HasModRM, OpcodeRegister, ImmediateSize, Bit, OpByte, Prefix, NoVex
    <2> QED BY <2>1, Zenon DEF Known
<1>7. Known(Row("minss_xmm_xmm", "reg,rm", <<243, 15, 93>>, 0))
    <2>1. RegisterRow(Row("minss_xmm_xmm", "reg,rm", <<243, 15, 93>>, 0), 243, 1, 93)
        BY DEF Row, RegisterRow, LegacyRow, OpOf, Escaped, HasModRM, OpcodeRegister, ImmediateSize, Bit, OpByte, Prefix, NoVex
    <2> QED BY <2>1, Zenon DEF Known
<1>8. Known(Row("maxss_xmm_xmm", "reg,rm", <<243, 15, 95>>, 0))
    <2>1. RegisterRow(Row("maxss_xmm_xmm", "reg,rm", <<243, 15, 95>>, 0), 243, 1, 95)
        BY DEF Row, RegisterRow, LegacyRow, OpOf, Escaped, HasModRM, OpcodeRegister, ImmediateSize, Bit, OpByte, Prefix, NoVex
    <2> QED BY <2>1, Zenon DEF Known
<1>9. Known(Row("int32_to_float", "reg,rm", <<243, 15, 42>>, 0))
    <2>1. RegisterRow(Row("int32_to_float", "reg,rm", <<243, 15, 42>>, 0), 243, 1, 42)
        BY DEF Row, RegisterRow, LegacyRow, OpOf, Escaped, HasModRM, OpcodeRegister, ImmediateSize, Bit, OpByte, Prefix, NoVex
    <2> QED BY <2>1, Zenon DEF Known
<1>10. Known(Row("float_to_int32", "reg,rm", <<243, 15, 44>>, 1))
    <2>1. RegisterRow(Row("float_to_int32", "reg,rm", <<243, 15, 44>>, 1), 243, 1, 44)
        BY DEF Row, RegisterRow, LegacyRow, OpOf, Escaped, HasModRM, OpcodeRegister, ImmediateSize, Bit, OpByte, Prefix, NoVex
    <2> QED BY <2>1, Zenon DEF Known
<1>11. \A row \in FloatMath : Known(row)
    BY <1>1, <1>2, <1>3, <1>4, <1>5, <1>6, <1>7, <1>8, <1>9, <1>10, ZenonT(90) DEF FloatMath
<1> QED BY <1>11, KnownGood

LEMMA VectorMathGood == \A row \in VectorMath : GoodRow(row)
<1>1. Known([Avx("blend_vf", "reg,vex,rm", 12, 1) EXCEPT !.v.map = 3, !.imm = 1])
    <2>1. VectorRow([Avx("blend_vf", "reg,vex,rm", 12, 1) EXCEPT !.v.map = 3, !.imm = 1], 12)
        BY DEF Avx, Row, VectorRow, VexRow, VexRec, HasModRM, OpcodeRegister, ImmediateSize, Bit, NoVex
    <2> QED BY <2>1, Zenon DEF Known
<1>2. Known([Avx("swizzle_vf", "reg,vex,rm", 198, 0) EXCEPT !.imm = 1])
    <2>1. VectorRow([Avx("swizzle_vf", "reg,vex,rm", 198, 0) EXCEPT !.imm = 1], 198)
        BY DEF Avx, Row, VectorRow, VexRow, VexRec, HasModRM, OpcodeRegister, ImmediateSize, Bit, NoVex
    <2> QED BY <2>1, Zenon DEF Known
<1>3. Known(Avx("xor_vf", "reg,vex,rm", 87, 0))
    <2>1. VectorRow(Avx("xor_vf", "reg,vex,rm", 87, 0), 87)
        BY DEF Avx, Row, VectorRow, VexRow, VexRec, HasModRM, OpcodeRegister, ImmediateSize, Bit, NoVex
    <2> QED BY <2>1, Zenon DEF Known
<1>4. Known(Avx("sub_vf", "reg,vex,rm", 92, 0))
    <2>1. VectorRow(Avx("sub_vf", "reg,vex,rm", 92, 0), 92)
        BY DEF Avx, Row, VectorRow, VexRow, VexRec, HasModRM, OpcodeRegister, ImmediateSize, Bit, NoVex
    <2> QED BY <2>1, Zenon DEF Known
<1>5. Known(Avx("add_vf", "reg,vex,rm", 88, 0))
    <2>1. VectorRow(Avx("add_vf", "reg,vex,rm", 88, 0), 88)
        BY DEF Avx, Row, VectorRow, VexRow, VexRec, HasModRM, OpcodeRegister, ImmediateSize, Bit, NoVex
    <2> QED BY <2>1, Zenon DEF Known
<1>6. Known(Avx("mul_vf", "reg,vex,rm", 89, 0))
    <2>1. VectorRow(Avx("mul_vf", "reg,vex,rm", 89, 0), 89)
        BY DEF Avx, Row, VectorRow, VexRow, VexRec, HasModRM, OpcodeRegister, ImmediateSize, Bit, NoVex
    <2> QED BY <2>1, Zenon DEF Known
<1>7. Known(Avx("max_vf", "reg,vex,rm", 95, 0))
    <2>1. VectorRow(Avx("max_vf", "reg,vex,rm", 95, 0), 95)
        BY DEF Avx, Row, VectorRow, VexRow, VexRec, HasModRM, OpcodeRegister, ImmediateSize, Bit, NoVex
    <2> QED BY <2>1, Zenon DEF Known
<1>8. Known(Avx("min_vf", "reg,vex,rm", 93, 0))
    <2>1. VectorRow(Avx("min_vf", "reg,vex,rm", 93, 0), 93)
        BY DEF Avx, Row, VectorRow, VexRow, VexRec, HasModRM, OpcodeRegister, ImmediateSize, Bit, NoVex
    <2> QED BY <2>1, Zenon DEF Known
<1>9. Known(Avx("div_vf", "reg,vex,rm", 94, 0))
    <2>1. VectorRow(Avx("div_vf", "reg,vex,rm", 94, 0), 94)
        BY DEF Avx, Row, VectorRow, VexRow, VexRec, HasModRM, OpcodeRegister, ImmediateSize, Bit, NoVex
    <2> QED BY <2>1, Zenon DEF Known
<1>10. Known(Avx("sqrt_vf", "reg,rm", 81, 0))
    <2>1. VectorRow(Avx("sqrt_vf", "reg,rm", 81, 0), 81)
        BY DEF Avx, Row, VectorRow, VexRow, VexRec, HasModRM, OpcodeRegister, ImmediateSize, Bit, NoVex
    <2> QED BY <2>1, Zenon DEF Known
<1>11. Known(Avx("itof_vf", "reg,rm", 91, 0))
    <2>1. VectorRow(Avx("itof_vf", "reg,rm", 91, 0), 91)
        BY DEF Avx, Row, VectorRow, VexRow, VexRec, HasModRM, OpcodeRegister, ImmediateSize, Bit, NoVex
    <2> QED BY <2>1, Zenon DEF Known
<1>12. Known(Avx("ftoi_vf", "reg,rm", 91, 2))
    <2>1. VectorRow(Avx("ftoi_vf", "reg,rm", 91, 2), 91)
        BY DEF Avx, Row, VectorRow, VexRow, VexRec, HasModRM, OpcodeRegister, ImmediateSize, Bit, NoVex
    <2> QED BY <2>1, Zenon DEF Known
<1>13. \A row \in VectorMath : Known(row)
    BY <1>1, <1>2, <1>3, <1>4, <1>5, <1>6, <1>7, <1>8, <1>9, <1>10, <1>11, <1>12, ZenonT(90) DEF VectorMath
<1> QED BY <1>13, KnownGood

LEMMA Integer128Good == \A row \in Integer128 : GoodRow(row)
<1>1. Known([Avx("pw_sra", "vex,rm", 114, 1) EXCEPT !.ext = 4, !.imm = 1])
    <2>1. VectorRow([Avx("pw_sra", "vex,rm", 114, 1) EXCEPT !.ext = 4, !.imm = 1], 114)
        BY DEF Avx, Row, VectorRow, VexRow, VexRec, HasModRM, OpcodeRegister, ImmediateSize, Bit, NoVex
    <2> QED BY <2>1, Zenon DEF Known
<1>2. Known([Avx("pw_srl", "vex,rm", 114, 1) EXCEPT !.ext = 2, !.imm = 1])
    <2>1. VectorRow([Avx("pw_srl", "vex,rm", 114, 1) EXCEPT !.ext = 2, !.imm = 1], 114)
        BY DEF Avx, Row, VectorRow, VexRow, VexRec, HasModRM, OpcodeRegister, ImmediateSize, Bit, NoVex
    <2> QED BY <2>1, Zenon DEF Known
<1>3. Known([Avx("pw_sll", "vex,rm", 114, 1) EXCEPT !.ext = 6, !.imm = 1])
    <2>1. VectorRow([Avx("pw_sll", "vex,rm", 114, 1) EXCEPT !.ext = 6, !.imm = 1], 114)
        BY DEF Avx, Row, VectorRow, VexRow, VexRec, HasModRM, OpcodeRegister, ImmediateSize, Bit, NoVex
    <2> QED BY <2>1, Zenon DEF Known
<1>4. Known(Avx("pextlw_swapped", "reg,vex,rm", 98, 1))
    <2>1. VectorRow(Avx("pextlw_swapped", "reg,vex,rm", 98, 1), 98)
        BY DEF Avx, Row, VectorRow, VexRow, VexRec, HasModRM, OpcodeRegister, ImmediateSize, Bit, NoVex
    <2> QED BY <2>1, Zenon DEF Known
<1>5. Known(Avx("pextuw_swapped", "reg,vex,rm", 106, 1))
    <2>1. VectorRow(Avx("pextuw_swapped", "reg,vex,rm", 106, 1), 106)
        BY DEF Avx, Row, VectorRow, VexRow, VexRec, HasModRM, OpcodeRegister, ImmediateSize, Bit, NoVex
    <2> QED BY <2>1, Zenon DEF Known
<1>6. Known(Avx("vpunpcklqdq", "reg,vex,rm", 108, 1))
    <2>1. VectorRow(Avx("vpunpcklqdq", "reg,vex,rm", 108, 1), 108)
        BY DEF Avx, Row, VectorRow, VexRow, VexRec, HasModRM, OpcodeRegister, ImmediateSize, Bit, NoVex
    <2> QED BY <2>1, Zenon DEF Known
<1>7. Known(Avx("pcpyud", "reg,vex,rm", 109, 1))
    <2>1. VectorRow(Avx("pcpyud", "reg,vex,rm", 109, 1), 109)
        BY DEF Avx, Row, VectorRow, VexRow, VexRec, HasModRM, OpcodeRegister, ImmediateSize, Bit, NoVex
    <2> QED BY <2>1, Zenon DEF Known
<1>8. Known(Avx("pceqw", "reg,vex,rm", 118, 1))
    <2>1. VectorRow(Avx("pceqw", "reg,vex,rm", 118, 1), 118)
        BY DEF Avx, Row, VectorRow, VexRow, VexRec, HasModRM, OpcodeRegister, ImmediateSize, Bit, NoVex
    <2> QED BY <2>1, Zenon DEF Known
<1>9. Known(Avx("vpsubd", "reg,vex,rm", 250, 1))
    <2>1. VectorRow(Avx("vpsubd", "reg,vex,rm", 250, 1), 250)
        BY DEF Avx, Row, VectorRow, VexRow, VexRec, HasModRM, OpcodeRegister, ImmediateSize, Bit, NoVex
    <2> QED BY <2>1, Zenon DEF Known
<1>10. Known([Avx("vpsrldq", "vex,rm", 115, 1) EXCEPT !.ext = 3, !.imm = 1])
    <2>1. VectorRow([Avx("vpsrldq", "vex,rm", 115, 1) EXCEPT !.ext = 3, !.imm = 1], 115)
        BY DEF Avx, Row, VectorRow, VexRow, VexRec, HasModRM, OpcodeRegister, ImmediateSize, Bit, NoVex
    <2> QED BY <2>1, Zenon DEF Known
<1>11. Known([Avx("vpslldq", "vex,rm", 115, 1) EXCEPT !.ext = 7, !.imm = 1])
    <2>1. VectorRow([Avx("vpslldq", "vex,rm", 115, 1) EXCEPT !.ext = 7, !.imm = 1], 115)
        BY DEF Avx, Row, VectorRow, VexRow, VexRec, HasModRM, OpcodeRegister, ImmediateSize, Bit, NoVex
    <2> QED BY <2>1, Zenon DEF Known
<1>12. Known([Avx("vpshuflw", "reg,rm", 112, 3) EXCEPT !.imm = 1])
    <2>1. VectorRow([Avx("vpshuflw", "reg,rm", 112, 3) EXCEPT !.imm = 1], 112)
        BY DEF Avx, Row, VectorRow, VexRow, VexRec, HasModRM, OpcodeRegister, ImmediateSize, Bit, NoVex
    <2> QED BY <2>1, Zenon DEF Known
<1>13. Known([Avx("vpshufhw", "reg,rm", 112, 2) EXCEPT !.imm = 1])
    <2>1. VectorRow([Avx("vpshufhw", "reg,rm", 112, 2) EXCEPT !.imm = 1], 112)
        BY DEF Avx, Row, VectorRow, VexRow, VexRec, HasModRM, OpcodeRegister, ImmediateSize, Bit, NoVex
    <2> QED BY <2>1, Zenon DEF Known
<1>14. \A row \in Integer128 : Known(row)
    BY <1>1, <1>2, <1>3, <1>4, <1>5, <1>6, <1>7, <1>8, <1>9, <1>10, <1>11, <1>12, <1>13, ZenonT(90) DEF Integer128
<1> QED BY <1>14, KnownGood

LEMMA PlainGood == \A row \in Plain : GoodRow(row)
<1>1. Known(Row("ret", "none", <<195>>, 0))
    <2>1. BareRow(Row("ret", "none", <<195>>, 0), 0, 195)
        BY DEF Row, BareRow, HasModRM, OpcodeRegister, Escaped, ImmediateSize, Bit, OpByte
    <2> QED BY <2>1, Zenon DEF Known
<1>2. Known(Row("cdq", "none", <<153>>, 0))
    <2>1. BareRow(Row("cdq", "none", <<153>>, 0), 0, 153)
        BY DEF Row, BareRow, HasModRM, OpcodeRegister, Escaped, ImmediateSize, Bit, OpByte
    <2> QED BY <2>1, Zenon DEF Known
<1>3. Known(Row("nop", "none", <<144>>, 0))
    <2>1. BareRow(Row("nop", "none", <<144>>, 0), 0, 144)
        BY DEF Row, BareRow, HasModRM, OpcodeRegister, Escaped, ImmediateSize, Bit, OpByte
    <2> QED BY <2>1, Zenon DEF Known
<1>4. Known(Row("wait_vf", "none", <<155>>, 0))
    <2>1. BareRow(Row("wait_vf", "none", <<155>>, 0), 0, 155)
        BY DEF Row, BareRow, HasModRM, OpcodeRegister, Escaped, ImmediateSize, Bit, OpByte
    <2> QED BY <2>1, Zenon DEF Known
<1>5. GoodRow(Row("nop_vf", "none", <<217, 208>>, 0))
    BY NopVf, Zenon DEF GoodRow
<1> QED BY <1>1, <1>2, <1>3, <1>4, <1>5, KnownGood DEF Plain

LEMMA JumpFormsGood == \A row \in JumpForms : GoodRow(row)
<1>1. ASSUME NEW cc \in 130 .. 135 \cup 140 .. 143
      PROVE  GoodRow([Row("j", "none", <<15, cc>>, 0) EXCEPT !.imm = 4])
    <2>1. BareRow([Row("j", "none", <<15, cc>>, 0) EXCEPT !.imm = 4], 1, cc)
        BY DEF Row, BareRow, HasModRM, OpcodeRegister, Escaped, ImmediateSize, Bit, OpByte
    <2>2. Known([Row("j", "none", <<15, cc>>, 0) EXCEPT !.imm = 4])
        BY <2>1, Zenon DEF Known
    <2> QED BY <2>2, KnownGood, Zenon
<1>2. GoodRow([Row("jmp_32", "none", <<233>>, 0) EXCEPT !.imm = 4])
    <2>1. BareRow([Row("jmp_32", "none", <<233>>, 0) EXCEPT !.imm = 4], 0, 233)
        BY DEF Row, BareRow, HasModRM, OpcodeRegister, Escaped, ImmediateSize, Bit, OpByte
    <2>2. Known([Row("jmp_32", "none", <<233>>, 0) EXCEPT !.imm = 4])
        BY <2>1, Zenon DEF Known
    <2> QED BY <2>2, KnownGood, Zenon
<1> QED BY <1>1, <1>2, Zenon DEF JumpForms

LEMMA RegisterFormsGood == \A row \in RegisterForms : GoodRow(row)
BY MovesGood, StackGood, IntegerMathGood, LogicGood, FloatMathGood, VectorMathGood, Integer128Good, JumpFormsGood,
   PlainGood, Zenon DEF RegisterForms

-----------------------------------------------------------------------------
(* mov_vf_vf and the theorem.                                                *)

MoveGood(t) ==
    LET d == Decode(emit(t.instr))
    IN /\ t.kind = "move"
       /\ IF d.op = 40 THEN d.reg = t.dst /\ d.rm.register = t.src ELSE d.reg = t.src /\ d.rm.register = t.dst

MoveReads(m, o, reg, rm) ==
    LET d == Decode(emit(m)) IN d.op = o /\ d.reg = reg /\ d.rm.register = rm

LEMMA VfMove ==
    ASSUME NEW o \in {40, 41}, NEW reg \in 0 .. 15, NEW rm \in 0 .. 15
    PROVE  MoveReads(set_modrm_and_rex(Instruction(<<o>>), [map |-> 1, reg |-> 0, pp |-> 0], reg, rm, 0), o, reg, rm)
<1> DEFINE v == [map |-> 1, reg |-> 0, pp |-> 0]
           e == [op |-> <<o>>, v |-> v, w |-> 0, byte |-> FALSE]
           i == Instruction(<<o>>)
           n == set_modrm_and_rex(i, v, reg, rm, 0)
<1>1. v \in VexRec /\ v.map = 1 /\ v.pp = 0
    BY DEF VexRec
<1>2. e.op = <<o>> /\ e.v = v /\ e.w = 0 /\ e.byte = FALSE
    OBVIOUS
<1> HIDE DEF v, e
<1>3. HasModRM(1, o) /\ ImmediateSize(1, o, 0) = 0
    BY DEF HasModRM, OpcodeRegister, ImmediateSize
<1>4. VexRow(e, o)
    BY <1>1, <1>2, <1>3 DEF VexRow, Bit
<1>5. RowOf(e, 0, 1, o)
    BY <1>1, <1>2, <1>4, Zenon DEF RowOf
<1>6. Begun(i, e, 1, o)
    <2>1. <<o>> \in Seq(Int)
        OBVIOUS
    <2>2. Fresh(i) /\ i.op = <<o>> /\ i.imm = <<>>
        BY <2>1, InstructionRec DEF Fresh
    <2> HIDE DEF i
    <2> QED BY <1>2, <1>3, <2>2 DEF Begun
<1>7. Finish(e, 0, n) = n
    <2>1. Len(e.op) = 1
        BY <1>2
    <2>2. ~Swapped(e)
        BY <2>1 DEF Swapped
    <2> QED BY <1>2, <2>2, Zenon DEF Finish
<1> HIDE DEF i
<1>8. ReadsBoth(n, e, o, reg, rm)
    <2>1. ReadsBoth(Finish(e, 0, set_modrm_and_rex(i, e.v, reg, rm, e.w)), e, o, reg, rm)
        BY <1>5, <1>6, RegistersRead
    <2> QED BY <1>2, <1>7, <2>1
<1> HIDE DEF n
<1>9. Decode(emit(n)).op = o /\ Decode(emit(n)).reg = reg /\ Decode(emit(n)).rm.register = rm
    BY <1>8, Zenon DEF ReadsBoth
<1> QED BY <1>9, Zenon DEF n, i, v, MoveReads

LEMMA MoveTask ==
    ASSUME NEW dst \in 0 .. 15, NEW src \in 0 .. 15
    PROVE  MoveGood([kind |-> "move", dst |-> dst, src |-> src, instr |-> mov_vf_vf(dst, src)])
<1> DEFINE m == mov_vf_vf(dst, src)
           t == [kind |-> "move", dst |-> dst, src |-> src, instr |-> m]
           v == [map |-> 1, reg |-> 0, pp |-> 0]
           d == Decode(emit(m))
<1>1. t.kind = "move" /\ t.dst = dst /\ t.src = src /\ t.instr = m
    OBVIOUS
<1>2. CASE src >= 8 /\ dst < 8
    <2>1. m = set_modrm_and_rex(Instruction(<<41>>), v, src, dst, 0)
        BY <1>2, Zenon DEF mov_vf_vf
    <2>2. d.op = 41 /\ d.reg = src /\ d.rm.register = dst
        <3>1. MoveReads(set_modrm_and_rex(Instruction(<<41>>), v, src, dst, 0), 41, src, dst)
            BY VfMove
        <3> HIDE DEF m, v
        <3> QED BY <2>1, <3>1, Zenon DEF MoveReads, d
    <2>3. d.op # 40
        BY <2>2
    <2> HIDE DEF m, t, d
    <2>4. MoveGood(t)
        BY <1>1, <2>2, <2>3, Zenon DEF MoveGood, d
    <2> QED BY <2>4 DEF t, m
<1>3. CASE ~(src >= 8 /\ dst < 8)
    <2>1. m = set_modrm_and_rex(Instruction(<<40>>), v, dst, src, 0)
        BY <1>3, Zenon DEF mov_vf_vf
    <2>2. d.op = 40 /\ d.reg = dst /\ d.rm.register = src
        <3>1. MoveReads(set_modrm_and_rex(Instruction(<<40>>), v, dst, src, 0), 40, dst, src)
            BY VfMove
        <3> HIDE DEF m, v
        <3> QED BY <2>1, <3>1, Zenon DEF MoveReads, d
    <2> HIDE DEF m, t, d
    <2>3. MoveGood(t)
        BY <1>1, <2>2, Zenon DEF MoveGood, d
    <2> QED BY <2>3 DEF t, m
<1> QED BY <1>2, <1>3

LEMMA OnRegistersGood == EmitOnRegisters => RegistersGood(task') \/ MoveGood(task')
<1> SUFFICES ASSUME EmitOnRegisters PROVE RegistersGood(task') \/ MoveGood(task')
    OBVIOUS
<1>1. PICK dst \in Registers, src1 \in Registers, src2 \in Registers :
          \/ \E row \in RegisterForms : task' = RegistersTask(row, dst, src1, src2)
          \/ task' = [kind |-> "move", dst |-> dst, src |-> src1, instr |-> mov_vf_vf(dst, src1)]
    BY Zenon DEF EmitOnRegisters, RegistersTask
<1>2. dst \in 0 .. 15 /\ src1 \in 0 .. 15 /\ src2 \in 0 .. 15
    BY EmitterInputs
<1>3. ASSUME NEW row \in RegisterForms, task' = RegistersTask(row, dst, src1, src2)
      PROVE  RegistersGood(task')
    <2>1. RegistersGood(RegistersTask(row, dst, src1, src2))
        BY <1>2, RegisterFormsGood, Zenon DEF GoodRow
    <2> QED BY <1>3, <2>1
<1>4. ASSUME task' = [kind |-> "move", dst |-> dst, src |-> src1, instr |-> mov_vf_vf(dst, src1)]
      PROVE  MoveGood(task')
    <2>1. MoveGood([kind |-> "move", dst |-> dst, src |-> src1, instr |-> mov_vf_vf(dst, src1)])
        BY <1>2, MoveTask
    <2> QED BY <1>4, <2>1
<1> QED BY <1>1, <1>3, <1>4

\* The inductive invariant: the task is none yet, or one of the good ones.
TaskGood(t) == t.kind = "asked" \/ MemoryGood(t) \/ StaticGood(t) \/ RegistersGood(t) \/ MoveGood(t)
EmitterInv == TaskGood(task)

LEMMA EmitterInductive == (TaskInit => EmitterInv) /\ (EmitterInv /\ [Emit]_task => EmitterInv')
<1>1. TaskInit => EmitterInv
    BY DEF TaskInit, Asked, EmitterInv, TaskGood
<1>2. Emit => TaskGood(task')
    BY GoalAccessGood, VectorAccessGood, BaseAccessGood, StaticAccessGood, OnRegistersGood, Zenon DEF Emit, TaskGood
<1>3. ASSUME EmitterInv, task' = task PROVE TaskGood(task')
    BY <1>3 DEF EmitterInv
<1> QED BY <1>1, <1>2, <1>3, Zenon DEF EmitterInv

LEMMA EmitterInvImplies == EmitterInv => InstructionsAsAsked
<1> SUFFICES ASSUME TaskGood(task) PROVE InstructionsAsAsked
    BY DEF EmitterInv
<1>1. CASE task.kind = "asked"
    BY <1>1 DEF InstructionsAsAsked, AddressesAsAsked, SizesAsAsked, StaticsPatchable, OperandsAsAsked
<1>2. CASE MemoryGood(task)
    <2>1. task.kind = "memory"
        BY <1>2 DEF MemoryGood
    <2>2. AddressesAsAsked
        BY <1>2, Zenon DEF MemoryGood, AddressesAsAsked, Decoded
    <2>3. SizesAsAsked
        BY <1>2, Zenon DEF MemoryGood, SizesAsAsked, Decoded
    <2>4. StaticsPatchable /\ OperandsAsAsked
        BY <2>1 DEF StaticsPatchable, OperandsAsAsked
    <2> QED BY <2>2, <2>3, <2>4, Zenon DEF InstructionsAsAsked
<1>3. CASE StaticGood(task)
    <2>1. task.kind = "static"
        BY <1>3 DEF StaticGood
    <2>2. StaticsPatchable
        BY <1>3, Zenon DEF StaticGood, StaticsPatchable, Decoded
    <2>3. AddressesAsAsked /\ SizesAsAsked /\ OperandsAsAsked
        BY <2>1 DEF AddressesAsAsked, SizesAsAsked, OperandsAsAsked
    <2> QED BY <2>2, <2>3, Zenon DEF InstructionsAsAsked
<1>4. CASE RegistersGood(task)
    <2>1. task.kind = "registers"
        BY <1>4, Zenon DEF RegistersGood
    <2>2. AddressesAsAsked /\ SizesAsAsked /\ StaticsPatchable
        BY <2>1 DEF AddressesAsAsked, SizesAsAsked, StaticsPatchable
    <2>3. task.kind # "move"
        BY <2>1
    <2>4. OperandsAsAsked
        BY <1>4, <2>3, Zenon DEF RegistersGood, OperandsAsAsked, Decoded
    <2> QED BY <2>2, <2>4, Zenon DEF InstructionsAsAsked
<1>5. CASE MoveGood(task)
    <2>1. task.kind = "move"
        BY <1>5, Zenon DEF MoveGood
    <2>2. AddressesAsAsked /\ SizesAsAsked /\ StaticsPatchable
        BY <2>1 DEF AddressesAsAsked, SizesAsAsked, StaticsPatchable
    <2>3. task.kind # "registers"
        BY <2>1
    <2>4. OperandsAsAsked
        BY <1>5, <2>3, Zenon DEF MoveGood, OperandsAsAsked, Decoded
    <2> QED BY <2>2, <2>4, Zenon DEF InstructionsAsAsked
<1> QED BY <1>1, <1>2, <1>3, <1>4, <1>5, Zenon DEF TaskGood

\* Whatever the registers and the displacement, the processor reads the
\* instruction that the function of IGen was asked for: the same address, size
\* and operands, and a displacement where the linker patches it (emit and
\* IGen.h).
THEOREM EmitterCorrect == EmitterSpec => []InstructionsAsAsked
<1>1. TaskInit => EmitterInv
    BY EmitterInductive
<1>2. EmitterInv /\ [Emit]_task => EmitterInv'
    BY EmitterInductive
<1> QED BY <1>1, <1>2, EmitterInvImplies, PTL DEF EmitterSpec
-----------------------------------------------------------------------------
(* The register allocator: the least or greatest member of a set.            *)

\* A set of subsets of a finite set has a member that contains no other.
LEMMA MinimalMember ==
    ASSUME NEW S, IsFiniteSet(S), NEW F \in SUBSET (SUBSET S), F # {}
    PROVE  \E x \in F : \A y \in F : y \subseteq x => y = x
<1>1. IsWellFoundedOn(StrictSubsetOrdering(S), SUBSET S)
  BY FS_StrictSubsetOrderingWellFounded, FS_FiniteSubsetsOfFinite
<1>2. PICK x \in F : \A y \in F : ~ (<<y, x>> \in StrictSubsetOrdering(S))
  BY <1>1, WFMin
<1>3. ASSUME NEW y \in F, y \subseteq x PROVE y = x
  <2>1. <<y, x>> \in (SUBSET S) \X (SUBSET S) OBVIOUS
  <2> QED BY <1>2, <1>3, <2>1 DEF StrictSubsetOrdering
<1> QED BY <1>3

\* A non-empty set of numbers from an interval has a least one.
LEMMA LeastElement ==
    ASSUME NEW a \in Int, NEW b \in Int, NEW T, T \subseteq a .. b, T # {}
    PROVE  \E x \in T : \A y \in T : x <= y
<1> DEFINE UpTo(x) == {y \in T : y <= x}
           F == {UpTo(x) : x \in T}
           S == a .. b
<1>0. \A z \in T : z \in Int OBVIOUS
<1>1. F \in SUBSET (SUBSET S) /\ F # {} OBVIOUS
<1>2. IsFiniteSet(S) BY FS_Interval
<1>3. \E u \in F : \A v \in F : v \subseteq u => v = u
  <2> HIDE DEF F, S
  <2> QED BY <1>1, <1>2, MinimalMember
<1>4. PICK x \in T : \A y \in T : UpTo(y) \subseteq UpTo(x) => UpTo(y) = UpTo(x)
  <2>1. PICK u \in F : \A v \in F : v \subseteq u => v = u BY <1>3
  <2>2. PICK x \in T : u = UpTo(x) BY <2>1
  <2>3. \A y \in T : UpTo(y) \in F OBVIOUS
  <2> HIDE DEF UpTo, F
  <2> QED BY <2>1, <2>2, <2>3
<1>5. ASSUME NEW y \in T, ~ (x <= y) PROVE FALSE
  <2>1. x \in Int /\ y \in Int BY <1>0
  <2>2. \A z \in T : z <= y => z <= x BY <1>0, <1>5, <2>1
  <2>3. x <= x /\ ~ (x <= y) BY <1>5, <2>1
  <2>4. UpTo(y) \subseteq UpTo(x) /\ x \in UpTo(x) /\ x \notin UpTo(y) BY <1>4, <2>2, <2>3, Zenon
  <2> QED BY <1>4, <2>4
<1> QED BY <1>5

\* Min and Max of the community modules are members that bound the set.
LEMMA MinOf ==
    ASSUME NEW T, T \subseteq Nat, T # {}
    PROVE  Min(T) \in T /\ \A y \in T : Min(T) <= y
<1>1. PICK z \in T : TRUE
    OBVIOUS
<1> DEFINE U == T \cap (0 .. z)
<1>2. z \in Nat /\ U \subseteq 0 .. z /\ z \in U
    OBVIOUS
<1>3. PICK x \in U : \A y \in U : x <= y
    <2> HIDE DEF U
    <2>1. 0 \in Int /\ z \in Int /\ U # {}
        BY <1>2
    <2> QED BY <1>2, <2>1, LeastElement
<1>4. x \in T /\ \A y \in T : x <= y
    BY <1>2, <1>3
<1> QED BY <1>4 DEF Min

LEMMA MaxOf ==
    ASSUME NEW n \in Nat, NEW T, T \subseteq 1 .. n, T # {}
    PROVE  Max(T) \in T /\ \A y \in T : y <= Max(T)
<1> DEFINE U == {-y : y \in T}
<1>1. U \subseteq -n .. 0 /\ U # {}
    <2>1. \A y \in T : -y \in -n .. 0
        OBVIOUS
    <2>2. PICK y \in T : TRUE
        OBVIOUS
    <2> QED BY <2>1, <2>2
<1>2. PICK x \in U : \A y \in U : x <= y
    <2> HIDE DEF U
    <2>1. -n \in Int /\ 0 \in Int
        OBVIOUS
    <2> QED BY <1>1, <2>1, LeastElement
<1>3. PICK z \in T : x = -z
    BY <1>2
<1>4. \A y \in T : y <= z
    BY <1>2, <1>3
<1>5. \A y \in T : z >= y
    BY <1>4
<1>6. PICK m \in T : m = Max(T) /\ \A y \in T : m >= y
    BY <1>5 DEF Max
<1> QED BY <1>6

-----------------------------------------------------------------------------
(* Functions and where their variables are alive.                            *)

GoodFunction(f) ==
    /\ Vars(f) \subseteq Nat
    /\ Len(f.code) \in Nat
    /\ f.constraints \in Seq(Vars(f) \X (0 .. Len(f.code)) \X Registers_)
    /\ \A v \in Vars(f) : \A order \in {f.order, f.all_order, f.spill_order} : order[f.class[v]] \in Seq(Registers_)

LEMMA FunctionsGood == \A shape \in DOMAIN Functions : \A f \in Functions[shape] : GoodFunction(f)
BY FunctionsAssumption, Zenon DEF GoodFunction

LEMMA NoneIsNoRegister == "none" \notin Registers_
<1> DEFINE t == <<"rax", "rdx", "xmm0">>
           names == {"rbx", "r11", "r12", "xmm8", "xmm14", "rax", "rdx", "xmm0"}
<1>1. Saved \in Seq(names) /\ t \in Seq(names)
    BY DEF Saved
<1>2. "none" \notin names
    OBVIOUS
<1> HIDE DEF t, names
<1>3. AllRegisters \in Seq(names)
    <2>1. AllRegisters = Saved \o t
        BY DEF AllRegisters, t
    <2> QED BY <1>1, <2>1
<1>4. \A k \in DOMAIN AllRegisters : AllRegisters[k] \in names
    BY <1>3
<1> QED BY <1>2, <1>4 DEF Registers_, ToSet

\* A variable is alive where it is read, written or constrained.
GoodRanges(f, alive) ==
    /\ \A v \in Vars(f) : alive[v] \subseteq 1 .. Size(f)
    /\ \A v \in Vars(f) : \A i \in 1 .. Size(f) : v \in Read(f, i) \cup Written(f, i) => i \in alive[v]
    /\ \A k \in DOMAIN f.constraints : f.constraints[k][2] # 0 => f.constraints[k][2] \in alive[f.constraints[k][1]]

LEMMA ConstraintTypes ==
    ASSUME NEW f, GoodFunction(f), NEW k \in DOMAIN f.constraints
    PROVE  /\ f.constraints[k][1] \in Vars(f) /\ f.constraints[k][2] \in 0 .. Size(f) /\ f.constraints[k][3] \in Registers_
           /\ Len(f.constraints) \in Nat /\ DOMAIN f.constraints = 1 .. Len(f.constraints)
<1> DEFINE S == Vars(f) \X (0 .. Len(f.code)) \X Registers_
<1>1. f.constraints \in Seq(S)
    BY Zenon DEF GoodFunction
<1>2. Len(f.constraints) \in Nat /\ DOMAIN f.constraints = 1 .. Len(f.constraints) /\ f.constraints[k] \in S
    <2> HIDE DEF S
    <2> QED BY <1>1
<1> QED BY <1>2 DEF Size

LEMMA RangesGood ==
    ASSUME NEW f, NEW out, GoodFunction(f)
    PROVE  GoodRanges(f, LiveRanges(f, out))
<1> DEFINE alive == LiveRanges(f, out)
           Uses(v) == {i \in 1 .. Size(f) : v \in Read(f, i) \cup Written(f, i) \cup out[i]}
           Constrained(v) == {f.constraints[k][2] : k \in {j \in DOMAIN f.constraints : f.constraints[j][1] = v /\ f.constraints[j][2] # 0}}
<1>1. \A v \in Vars(f) : alive[v] = Uses(v) \cup Constrained(v)
    BY Zenon DEF LiveRanges
<1>2. \A v \in Vars(f) : Constrained(v) \subseteq 1 .. Size(f)
    <2> SUFFICES ASSUME NEW v \in Vars(f), NEW j \in DOMAIN f.constraints, f.constraints[j][2] # 0 PROVE f.constraints[j][2] \in 1 .. Size(f)
        OBVIOUS
    <2>1. f.constraints[j][2] \in 0 .. Size(f)
        BY ConstraintTypes
    <2>2. Size(f) \in Nat
        BY DEF GoodFunction, Size
    <2> QED BY <2>1, <2>2
<1>3. \A k \in DOMAIN f.constraints : f.constraints[k][2] # 0 => f.constraints[k][2] \in Constrained(f.constraints[k][1])
    OBVIOUS
<1>4. \A k \in DOMAIN f.constraints : f.constraints[k][1] \in Vars(f)
    BY ConstraintTypes
<1>5. \A v \in Vars(f) : \A i \in 1 .. Size(f) : v \in Read(f, i) \cup Written(f, i) => i \in Uses(v)
    OBVIOUS
<1>6. \A v \in Vars(f) : Uses(v) \subseteq 1 .. Size(f)
    OBVIOUS
<1> HIDE DEF Uses, Constrained, alive
<1> SUFFICES GoodRanges(f, alive)
    BY DEF alive
<1> QED BY <1>1, <1>2, <1>3, <1>4, <1>5, <1>6, Zenon DEF GoodRanges

LEMMA InTheRange ==
    ASSUME NEW f, NEW alive, GoodFunction(f), GoodRanges(f, alive), NEW v \in Vars(f), alive[v] # {}
    PROVE  /\ Min(alive[v]) \in InRange(alive, v) /\ Max(alive[v]) \in InRange(alive, v)
           /\ InRange(alive, v) \subseteq 1 .. Size(f)
           /\ alive[v] \subseteq InRange(alive, v)
<1> DEFINE T == alive[v]
<1>1. Size(f) \in Nat /\ T \subseteq 1 .. Size(f)
    BY DEF GoodFunction, GoodRanges, Size
<1> HIDE DEF T
<1>2. T # {} /\ T \subseteq Nat
    BY <1>1 DEF T
<1>3. Min(T) \in T /\ \A y \in T : Min(T) <= y
    BY <1>2, MinOf
<1>4. Max(T) \in T /\ \A y \in T : y <= Max(T)
    BY <1>1, <1>2, MaxOf
<1> DEFINE a == Min(T)
           b == Max(T)
           n == Size(f)
<1>5. a \in 1 .. n /\ b \in 1 .. n /\ a <= b /\ n \in Nat
    BY <1>1, <1>3, <1>4
<1>6. \A y \in T : y \in Int /\ a <= y /\ y <= b
    BY <1>1, <1>3, <1>4
<1> HIDE DEF a, b, n
<1>7. a \in a .. b /\ b \in a .. b /\ a .. b \subseteq 1 .. n /\ T \subseteq a .. b
    BY <1>5, <1>6
<1> QED BY <1>7 DEF InRange, T, a, b, n

-----------------------------------------------------------------------------
(* An allocation on the way: which variables are still to do.                *)

IsSeq(s) == Len(s) \in Nat /\ s = [k \in 1 .. Len(s) |-> s[k]]

AllocShape(f, alive, a, todo) ==
    /\ a = [ok |-> a.ok, ass |-> a.ass, ops |-> a.ops, slots |-> a.slots, top |-> a.top]
    /\ a.ass = [v \in Vars(f) |-> a.ass[v]]
    /\ todo \subseteq Seen(f, alive)
    /\ DOMAIN a.slots \subseteq Vars(f) \ todo
    /\ \A i \in 1 .. Size(f) : IsSeq(a.ops[i])
    /\ a.top \in Nat

\* Where constraint k applies.
Places(f, alive, k) ==
    IF f.constraints[k][2] = 0 THEN InRange(alive, f.constraints[k][1]) ELSE {f.constraints[k][2]}

\* A variable still to do is assigned where it is constrained.
Waiting(f, alive, a, todo) ==
    \A k \in DOMAIN f.constraints : f.constraints[k][1] \in todo =>
        \A i \in Places(f, alive, k) : a.ass[f.constraints[k][1]][i].assigned

Apart(f, alive, a) ==
    \A v, w \in Vars(f) : \A i \in alive[v] \cap alive[w] :
        v # w /\ a.ass[v][i].reg = a.ass[w][i].reg => a.ass[v][i].reg = "none" \/ MayShare(alive, v, w, i)

Kept(f, alive, a) ==
    \A k \in DOMAIN f.constraints : \A i \in Places(f, alive, k) : a.ass[f.constraints[k][1]][i].reg = f.constraints[k][3]

SettledAt(f, alive, a, v, i) ==
    /\ v \notin DOMAIN a.slots => a.ass[v][i].reg = a.ass[v][Min(alive[v])].reg
    /\ v \notin DOMAIN a.slots \/ v \in Read(f, i) \cup Written(f, i) => a.ass[v][i].reg # "none"
    /\ a.ass[v][i].reg = "none" \/ a.ass[v][i].reg \notin f.code[i].exclude
    /\ i \in {Min(alive[v]), Max(alive[v])} \/ a.ass[v][i].reg = "none" \/ a.ass[v][i].reg \notin f.code[i].clobber
Survive(f, alive, a, todo) == \A v \in Seen(f, alive) \ todo : \A i \in InRange(alive, v) : SettledAt(f, alive, a, v, i)

SlotOK(f, a, v) ==
    /\ slot_size(f.class[v]) = 2 => a.slots[v] % 2 = 0
    /\ a.slots[v] \in Nat /\ a.slots[v] + slot_size(f.class[v]) <= a.top
    /\ \A w \in DOMAIN a.slots \ {v} :
          a.slots[v] + slot_size(f.class[v]) <= a.slots[w] \/ a.slots[w] + slot_size(f.class[w]) <= a.slots[v]
SlotsOK(f, a) == \A v \in DOMAIN a.slots : SlotOK(f, a, v)

MatchAt(f, a, i) ==
    /\ \A v \in DOMAIN a.slots \cap (Read(f, i) \cup Written(f, i)) : \E k \in DOMAIN a.ops[i] : a.ops[i][k].var = v
    /\ \A k \in DOMAIN a.ops[i] : a.ops[i][k].var \in DOMAIN a.slots
    /\ \A k \in DOMAIN a.ops[i] :
          a.ops[i][k] = StackOp(f, a.ops[i][k].var, i, a.ass[a.ops[i][k].var][i].reg, a.slots[a.ops[i][k].var])
Match(f, a) == \A i \in 1 .. Size(f) : MatchAt(f, a, i)

AllocSound(f, alive, a, todo) ==
    Waiting(f, alive, a, todo) /\ Apart(f, alive, a) /\ Kept(f, alive, a) /\ Survive(f, alive, a, todo) /\ SlotsOK(f, a) /\ Match(f, a)
AllocGood(f, alive, a, todo) == AllocShape(f, alive, a, todo) /\ (a.ok => AllocSound(f, alive, a, todo))

LEMMA PlacesInRange ==
    ASSUME NEW f, NEW alive, GoodFunction(f), GoodRanges(f, alive), NEW k \in DOMAIN f.constraints,
           f.constraints[k][2] # 0 \/ alive[f.constraints[k][1]] # {}
    PROVE  Places(f, alive, k) \subseteq InRange(alive, f.constraints[k][1])
<1> DEFINE v == f.constraints[k][1]
           p == f.constraints[k][2]
<1>1. v \in Vars(f)
    BY ConstraintTypes
<1>2. CASE p = 0
    BY <1>2 DEF Places
<1>3. CASE p # 0
    <2>1. p \in alive[v]
        BY <1>3, Zenon DEF GoodRanges
    <2>2. alive[v] \subseteq InRange(alive, v)
        BY <1>1, <2>1, InTheRange
    <2>3. Places(f, alive, k) = {p}
        BY <1>3, Zenon DEF Places
    <2> QED BY <2>1, <2>2, <2>3
<1> QED BY <1>2, <1>3

\* The allocation that the constraints make.
LEMMA FirstGood ==
    ASSUME NEW f, NEW alive, GoodFunction(f), GoodRanges(f, alive)
    PROVE  AllocGood(f, alive, FirstAllocation(f, alive), Seen(f, alive))
<1> DEFINE ass == do_constrained_alloc(f, alive)
           todo == Seen(f, alive)
           a == FirstAllocation(f, alive)
<1>1. /\ a.ok = check_constrained_alloc(f, alive, ass) /\ a.ass = ass /\ a.ops = [i \in 1 .. Size(f) |-> <<>>]
      /\ a.slots = <<>> /\ a.top = 0
      /\ a = [ok |-> a.ok, ass |-> a.ass, ops |-> a.ops, slots |-> a.slots, top |-> a.top]
    BY DEF FirstAllocation
<1>2. DOMAIN a.slots = {}
    BY <1>1
<1> HIDE DEF a
<1>3. AllocShape(f, alive, a, todo)
    <2>1. a.ass = [v \in Vars(f) |-> a.ass[v]]
        BY <1>1 DEF do_constrained_alloc
    <2>2. \A i \in 1 .. Size(f) : IsSeq(a.ops[i])
        BY <1>1 DEF IsSeq
    <2> QED BY <1>1, <1>2, <2>1, <2>2 DEF AllocShape
<1>4. Waiting(f, alive, a, todo)
    <2> SUFFICES ASSUME NEW k \in DOMAIN f.constraints, f.constraints[k][1] \in todo, NEW i \in Places(f, alive, k)
                 PROVE  a.ass[f.constraints[k][1]][i].assigned
        BY Zenon DEF Waiting
    <2> DEFINE v == f.constraints[k][1]
    <2>1. v \in Vars(f) /\ alive[v] # {}
        BY DEF Seen
    <2>2. i \in InRange(alive, v) /\ i \in 1 .. Size(f)
        BY <2>1, PlacesInRange, InTheRange
    <2>3. k \in ConstraintsAt(f, alive, v, i)
        BY <2>2 DEF ConstraintsAt, ConstraintsOf, Places
    <2>4. ass[v][i] = InRegister(LastRegister(f, ConstraintsAt(f, alive, v, i)))
        <3> DEFINE Here(w, j) == ConstraintsAt(f, alive, w, j)
        <3>1. ass[v][i] = IF Here(v, i) = {} THEN Unassigned ELSE InRegister(LastRegister(f, Here(v, i)))
            BY <2>1, <2>2, Zenon DEF do_constrained_alloc
        <3>2. Here(v, i) # {}
            BY <2>3, Zenon
        <3> QED BY <3>1, <3>2, Zenon
    <2>5. ass[v][i].assigned
        BY <2>4 DEF InRegister
    <2> QED BY <1>1, <2>5
<1>5. ASSUME a.ok PROVE Apart(f, alive, a) /\ Kept(f, alive, a)
    <2>1. check_constrained_alloc(f, alive, ass)
        BY <1>1, <1>5
    <2>2. Kept(f, alive, a)
        <3> SUFFICES ASSUME NEW k \in DOMAIN f.constraints, NEW i \in Places(f, alive, k)
                     PROVE  a.ass[f.constraints[k][1]][i].reg = f.constraints[k][3]
            BY Zenon DEF Kept
        <3>1. \A j \in Places(f, alive, k) : ass[f.constraints[k][1]][j].reg = f.constraints[k][3]
            BY <2>1, Zenon DEF check_constrained_alloc, Places
        <3> QED BY <1>1, <3>1
    <2>3. Apart(f, alive, a)
        <3> SUFFICES ASSUME NEW v \in Vars(f), NEW w \in Vars(f), NEW i \in alive[v] \cap alive[w], v # w,
                            a.ass[v][i].reg = a.ass[w][i].reg
                     PROVE  a.ass[v][i].reg = "none"
            BY Zenon DEF Apart
        <3>1. i \in 1 .. Size(f)
            BY DEF GoodRanges
        <3>2. v \in {u \in Vars(f) : i \in alive[u]} /\ w \in {u \in Vars(f) : i \in alive[u]}
            OBVIOUS
        <3>3. ass[v][i].reg = "none" \/ ass[v][i].reg # ass[w][i].reg
            BY <2>1, <3>1, <3>2, Zenon DEF check_constrained_alloc
        <3> QED BY <1>1, <3>3
    <2> QED BY <2>2, <2>3
<1>6. Survive(f, alive, a, todo) /\ SlotsOK(f, a)
    BY <1>2 DEF Survive, SlotsOK
<1>7. Match(f, a)
    BY <1>1, <1>2 DEF Match, MatchAt
<1> QED BY <1>3, <1>4, <1>5, <1>6, <1>7, Zenon DEF AllocGood, AllocSound, a

-----------------------------------------------------------------------------
(* A new assignment for one variable.                                        *)

\* g may be the assignment of v next to the others.
Fitting(f, alive, ass, v, g) ==
    /\ \A i \in alive[v] : g[i].reg = "none" \/ NoConflictAt(f, alive, ass, v, i, g[i].reg)
    /\ \A k \in DOMAIN f.constraints : f.constraints[k][1] = v =>
          \A i \in Places(f, alive, k) : g[i].reg = f.constraints[k][3]

Is(b, ok, ass, ops, slots, top) == b = [ok |-> ok, ass |-> ass, ops |-> ops, slots |-> slots, top |-> top]

LEMMA FieldsOf ==
    ASSUME NEW b, NEW ok, NEW ass, NEW ops, NEW slots, NEW top, Is(b, ok, ass, ops, slots, top)
    PROVE  b.ok = ok /\ b.ass = ass /\ b.ops = ops /\ b.slots = slots /\ b.top = top
BY DEF Is

IsFunctionOn(h, S) == h = [w \in S |-> h[w]]

Assigned(a, b, f, v, g) == b.ass = [w \in Vars(f) |-> IF w = v THEN g ELSE a.ass[w]]

LEMMA ShareSymmetric ==
    ASSUME NEW alive, NEW v, NEW w, NEW i, MayShare(alive, v, w, i)
    PROVE  MayShare(alive, w, v, i)
BY Zenon DEF MayShare

LEMMA FittingKeeps ==
    ASSUME NEW f, NEW alive, NEW a, NEW b, NEW todo, NEW v \in todo, NEW g, GoodFunction(f), todo \subseteq Vars(f),
           Waiting(f, alive, a, todo), Apart(f, alive, a), Kept(f, alive, a),
           Fitting(f, alive, a.ass, v, g), Assigned(a, b, f, v, g)
    PROVE  Waiting(f, alive, b, todo \ {v}) /\ Apart(f, alive, b) /\ Kept(f, alive, b)
<1>1. b.ass[v] = g /\ \A w \in Vars(f) \ {v} : b.ass[w] = a.ass[w]
    BY DEF Assigned
<1>2. Waiting(f, alive, b, todo \ {v})
    <2> SUFFICES ASSUME NEW k \in DOMAIN f.constraints, f.constraints[k][1] \in todo \ {v}, NEW i \in Places(f, alive, k)
                 PROVE  b.ass[f.constraints[k][1]][i].assigned
        BY Zenon DEF Waiting
    <2>1. b.ass[f.constraints[k][1]] = a.ass[f.constraints[k][1]]
        BY <1>1
    <2>2. a.ass[f.constraints[k][1]][i].assigned
        BY Zenon DEF Waiting
    <2> QED BY <2>1, <2>2
<1>3. Apart(f, alive, b)
    <2>1. ASSUME NEW w \in Vars(f) \ {v}, NEW i \in alive[v] \cap alive[w], g[i].reg = a.ass[w][i].reg, g[i].reg # "none"
          PROVE  MayShare(alive, v, w, i)
        <3>1. NoConflictAt(f, alive, a.ass, v, i, g[i].reg)
            BY <2>1, Zenon DEF Fitting
        <3>2. i \in alive[w] /\ a.ass[w][i].reg = g[i].reg
            BY <2>1
        <3> QED BY <3>1, <3>2, Zenon DEF NoConflictAt
    <2> SUFFICES ASSUME NEW u \in Vars(f), NEW w \in Vars(f), NEW i \in alive[u] \cap alive[w], u # w,
                        b.ass[u][i].reg = b.ass[w][i].reg, b.ass[u][i].reg # "none"
                 PROVE  MayShare(alive, u, w, i)
        BY Zenon DEF Apart
    <2>2. CASE u = v
        <3>1. w \in Vars(f) \ {v} /\ g[i].reg = a.ass[w][i].reg /\ g[i].reg # "none" /\ i \in alive[v] \cap alive[w]
            BY <1>1, <2>2
        <3>2. MayShare(alive, v, w, i)
            BY <2>1, <3>1
        <3> QED BY <2>2, <3>2
    <2>3. CASE w = v
        <3>1. u \in Vars(f) \ {v} /\ g[i].reg = a.ass[u][i].reg /\ g[i].reg # "none" /\ i \in alive[v] \cap alive[u]
            BY <1>1, <2>3
        <3>2. MayShare(alive, v, u, i)
            BY <2>1, <3>1
        <3> QED BY <2>3, <3>2, ShareSymmetric
    <2>4. CASE u # v /\ w # v
        <3>1. a.ass[u][i].reg = a.ass[w][i].reg /\ a.ass[u][i].reg # "none"
            BY <1>1, <2>4
        <3> QED BY <3>1, Zenon DEF Apart
    <2> QED BY <2>2, <2>3, <2>4
<1>4. Kept(f, alive, b)
    <2> SUFFICES ASSUME NEW k \in DOMAIN f.constraints, NEW i \in Places(f, alive, k)
                 PROVE  b.ass[f.constraints[k][1]][i].reg = f.constraints[k][3]
        BY Zenon DEF Kept
    <2>1. f.constraints[k][1] \in Vars(f)
        BY ConstraintTypes
    <2>2. CASE f.constraints[k][1] = v
        <3>1. g[i].reg = f.constraints[k][3]
            BY <2>2, Zenon DEF Fitting
        <3> QED BY <1>1, <2>2, <3>1
    <2>3. CASE f.constraints[k][1] # v
        <3>1. a.ass[f.constraints[k][1]][i].reg = f.constraints[k][3]
            BY Zenon DEF Kept
        <3> QED BY <1>1, <2>1, <2>3, <3>1
    <2> QED BY <2>2, <2>3
<1> QED BY <1>2, <1>3, <1>4

\* The variables already settled do not notice.
LEMMA SettledStay ==
    ASSUME NEW f, NEW alive, NEW a, NEW b, NEW todo, NEW v \in todo, NEW g, todo \subseteq Vars(f),
           Survive(f, alive, a, todo), Assigned(a, b, f, v, g),
           \A w \in Vars(f) \ {v} : w \in DOMAIN b.slots <=> w \in DOMAIN a.slots,
           \A i \in InRange(alive, v) : SettledAt(f, alive, b, v, i)
    PROVE  Survive(f, alive, b, todo \ {v})
<1> SUFFICES ASSUME NEW w \in Seen(f, alive) \ (todo \ {v}), NEW i \in InRange(alive, w)
             PROVE  SettledAt(f, alive, b, w, i)
    BY Zenon DEF Survive
<1>1. CASE w = v
    BY <1>1
<1>2. CASE w # v
    <2>1. w \in Vars(f) \ {v} /\ w \in Seen(f, alive) \ todo
        BY <1>2 DEF Seen
    <2>2. b.ass[w] = a.ass[w]
        BY <2>1 DEF Assigned
    <2>3. SettledAt(f, alive, a, w, i)
        BY <2>1, Zenon DEF Survive
    <2>4. w \in DOMAIN b.slots <=> w \in DOMAIN a.slots
        BY <2>1
    <2> QED BY <2>2, <2>3, <2>4, Zenon DEF SettledAt
<1> QED BY <1>1, <1>2

-----------------------------------------------------------------------------
(* A variable that fits in one register.                                     *)

LEMMA OrdersAreRegisters ==
    ASSUME NEW f, GoodFunction(f), NEW v \in Vars(f)
    PROVE  /\ f.order[f.class[v]] \in Seq(Registers_) /\ f.spill_order[f.class[v]] \in Seq(Registers_)
           /\ ToSet(f.all_order[f.class[v]]) \subseteq Registers_
<1>1. /\ f.order[f.class[v]] \in Seq(Registers_) /\ f.spill_order[f.class[v]] \in Seq(Registers_)
      /\ f.all_order[f.class[v]] \in Seq(Registers_)
    BY Zenon DEF GoodFunction
<1> DEFINE s == f.all_order[f.class[v]]
<1>2. s \in Seq(Registers_)
    BY <1>1
<1> HIDE DEF s
<1>3. \A k \in DOMAIN s : s[k] \in Registers_
    BY <1>2
<1>4. ToSet(s) \subseteq Registers_
    BY <1>3 DEF ToSet
<1> QED BY <1>1, <1>4 DEF s

LEMMA LastIsRegister ==
    ASSUME NEW f, GoodFunction(f), NEW numbers, numbers \subseteq DOMAIN f.constraints, numbers # {}
    PROVE  LastRegister(f, numbers) \in Registers_
<1>1. PICK j \in numbers : TRUE
    OBVIOUS
<1>2. Len(f.constraints) \in Nat /\ numbers \subseteq 1 .. Len(f.constraints)
    BY <1>1, ConstraintTypes
<1>3. Max(numbers) \in numbers
    BY <1>2, MaxOf
<1>4. f.constraints[Max(numbers)][3] \in Registers_
    BY <1>3, ConstraintTypes
<1> QED BY <1>4 DEF LastRegister

LEMMA MoveIsRegister ==
    ASSUME NEW f, GoodFunction(f), NEW v \in Vars(f), NEW alive, NEW ass, NEW w, NEW i
    PROVE  MoveRegister(f, alive, ass, w, i, v) \in Seq(Registers_)
<1> DEFINE reg == ass[w][i].reg
<1>1. CASE ass[w][i].assigned /\ reg \in ToSet(f.all_order[f.class[v]])
    <2>1. reg \in Registers_
        BY <1>1, OrdersAreRegisters
    <2>2. MoveRegister(f, alive, ass, w, i, v) = <<reg>>
        BY <1>1, Zenon DEF MoveRegister
    <2> HIDE DEF reg
    <2> QED BY <2>1, <2>2
<1>2. CASE ~(ass[w][i].assigned /\ reg \in ToSet(f.all_order[f.class[v]]))
    <2>1. MoveRegister(f, alive, ass, w, i, v) = <<>>
        BY <1>2, Zenon DEF MoveRegister
    <2> QED BY <2>1
<1> QED BY <1>1, <1>2

LEMMA CandidatesAreRegisters ==
    ASSUME NEW f, GoodFunction(f), NEW v \in Vars(f), NEW alive, NEW ass
    PROVE  Candidates(f, alive, ass, v) \in Seq(Registers_)
<1> DEFINE first == Min(alive[v])
           last == Max(alive[v])
           c1 == IF HasConstraint(f, v) THEN <<LastRegister(f, ConstraintsOf(f, v))>> ELSE <<>>
           c2 == IF f.code[last].move THEN MoveRegister(f, alive, ass, Head(f.code[last].write), last, v) ELSE <<>>
           c3 == IF f.code[first].move THEN MoveRegister(f, alive, ass, Head(f.code[first].read), first, v) ELSE <<>>
           c4 == f.order[f.class[v]]
<1>1. c1 \in Seq(Registers_)
    <2>1. CASE HasConstraint(f, v)
        <3>1. LastRegister(f, ConstraintsOf(f, v)) \in Registers_
            BY <2>1, LastIsRegister DEF HasConstraint, ConstraintsOf
        <3>2. c1 = <<LastRegister(f, ConstraintsOf(f, v))>>
            BY <2>1
        <3> HIDE DEF c1
        <3> QED BY <3>1, <3>2
    <2>2. CASE ~HasConstraint(f, v)
        BY <2>2
    <2> QED BY <2>1, <2>2
<1>2. c2 \in Seq(Registers_)
    <2>1. MoveRegister(f, alive, ass, Head(f.code[last].write), last, v) \in Seq(Registers_) /\ <<>> \in Seq(Registers_)
        BY MoveIsRegister
    <2> QED BY <2>1, Zenon
<1>3. c3 \in Seq(Registers_)
    <2>1. MoveRegister(f, alive, ass, Head(f.code[first].read), first, v) \in Seq(Registers_) /\ <<>> \in Seq(Registers_)
        BY MoveIsRegister
    <2> QED BY <2>1, Zenon
<1>4. c4 \in Seq(Registers_)
    BY OrdersAreRegisters
<1>5. Candidates(f, alive, ass, v) = c1 \o c2 \o c3 \o c4
    BY Zenon DEF Candidates
<1> HIDE DEF c1, c2, c3, c4
<1> QED BY <1>1, <1>2, <1>3, <1>4, <1>5

\* The first of some places in a sequence is one of them.
LEMMA FirstOf ==
    ASSUME NEW S, NEW s \in Seq(S), NEW fit, fit \subseteq DOMAIN s, fit # {}
    PROVE  Min(fit) \in fit /\ s[Min(fit)] \in S
<1>1. fit \subseteq Nat
    OBVIOUS
<1>2. Min(fit) \in fit
    BY <1>1, MinOf
<1> QED BY <1>2

LEMMA ColouredGood ==
    ASSUME NEW f, NEW alive, NEW a, NEW b, NEW todo, NEW v \in todo, NEW reg \in Registers_,
           GoodFunction(f), GoodRanges(f, alive), AllocGood(f, alive, a, todo), a.ok,
           can_var_be_assigned(f, alive, a.ass, v, reg),
           b = [a EXCEPT !.ass[v] = [i \in 1 .. Size(f) |-> IF i \in InRange(alive, v) THEN InRegister(reg) ELSE Unassigned]]
    PROVE  AllocGood(f, alive, b, todo \ {v})
<1> DEFINE g == [i \in 1 .. Size(f) |-> IF i \in InRange(alive, v) THEN InRegister(reg) ELSE Unassigned]
<1>1. AllocShape(f, alive, a, todo) /\ AllocSound(f, alive, a, todo)
    BY Zenon DEF AllocGood
<1>2. /\ a = [ok |-> a.ok, ass |-> a.ass, ops |-> a.ops, slots |-> a.slots, top |-> a.top]
      /\ a.ass = [w \in Vars(f) |-> a.ass[w]] /\ todo \subseteq Seen(f, alive)
    BY <1>1 DEF AllocShape
<1>3. todo \subseteq Vars(f) /\ v \in Vars(f) /\ alive[v] # {}
    BY <1>2 DEF Seen
<1>4. b = [ok |-> a.ok, ass |-> [w \in Vars(f) |-> IF w = v THEN g ELSE a.ass[w]], ops |-> a.ops, slots |-> a.slots, top |-> a.top]
    <2>1. b = [a EXCEPT !.ass = [a.ass EXCEPT ![v] = g]]
        BY DEF g
    <2>2. [a.ass EXCEPT ![v] = g] = [w \in Vars(f) |-> IF w = v THEN g ELSE a.ass[w]]
        <3> HIDE DEF g
        <3> QED BY <1>2, <1>3
    <2> HIDE DEF g
    <2> QED BY <1>2, <2>1, <2>2
<1> HIDE DEF g
<1> DEFINE h == [w \in Vars(f) |-> IF w = v THEN g ELSE a.ass[w]]
<1>5a. b.ok = a.ok /\ b.ops = a.ops /\ b.slots = a.slots /\ b.top = a.top /\ b.ass = h
    <2>1. Is(b, a.ok, h, a.ops, a.slots, a.top)
        BY <1>4, Zenon DEF Is
    <2> HIDE DEF h
    <2> QED BY <2>1, FieldsOf, Zenon
<1>5b. h[v] = g /\ (\A w \in Vars(f) \ {v} : h[w] = a.ass[w]) /\ IsFunctionOn(h, Vars(f))
    BY <1>3 DEF IsFunctionOn
<1>5c. Assigned(a, b, f, v, g)
    BY <1>5a, Zenon DEF Assigned
<1> HIDE DEF h
<1>5. b.ok = a.ok /\ b.ops = a.ops /\ b.slots = a.slots /\ b.top = a.top /\ Assigned(a, b, f, v, g) /\ b.ass[v] = g
    BY <1>5a, <1>5b, <1>5c
<1>6. /\ Min(alive[v]) \in InRange(alive, v) /\ InRange(alive, v) \subseteq 1 .. Size(f) /\ alive[v] \subseteq InRange(alive, v)
      /\ alive[v] \subseteq 1 .. Size(f)
    BY <1>3, InTheRange DEF GoodRanges
<1>7. \A i \in InRange(alive, v) : g[i].reg = reg
    BY <1>6 DEF g, InRegister
<1>8. AllocShape(f, alive, b, todo \ {v})
    <2>1. b = [ok |-> b.ok, ass |-> b.ass, ops |-> b.ops, slots |-> b.slots, top |-> b.top]
        BY <1>4
    <2>2. b.ass = [w \in Vars(f) |-> b.ass[w]]
        <3>1. IsFunctionOn(b.ass, Vars(f))
            BY <1>5a, <1>5b, Zenon
        <3> QED BY <3>1, Zenon DEF IsFunctionOn
    <2> QED BY <1>1, <1>5, <2>1, <2>2 DEF AllocShape
<1>9. Fitting(f, alive, a.ass, v, g)
    <2>1. ASSUME NEW i \in alive[v] PROVE g[i].reg = "none" \/ NoConflictAt(f, alive, a.ass, v, i, g[i].reg)
        <3>1. i \in InRange(alive, v)
            BY <1>6
        <3>2. NoConflictAt(f, alive, a.ass, v, i, reg)
            BY <3>1, Zenon DEF can_var_be_assigned
        <3> QED BY <1>7, <3>1, <3>2
    <2>2. ASSUME NEW k \in DOMAIN f.constraints, f.constraints[k][1] = v, NEW i \in Places(f, alive, k)
          PROVE  g[i].reg = f.constraints[k][3]
        <3>1. i \in InRange(alive, v)
            BY <1>3, <2>2, PlacesInRange
        <3>2. HasConstraint(f, v)
            BY <2>2 DEF HasConstraint, ConstraintsOf
        <3>3. a.ass[v][i].assigned /\ a.ass[v][i].reg = f.constraints[k][3]
            BY <1>1, <2>2, Zenon DEF AllocSound, Waiting, Kept
        <3>4. a.ass[v][i].reg = reg
            BY <3>1, <3>2, <3>3, Zenon DEF can_var_be_assigned
        <3> QED BY <1>7, <3>1, <3>3, <3>4
    <2> QED BY <2>1, <2>2, Zenon DEF Fitting
<1>10. Waiting(f, alive, b, todo \ {v}) /\ Apart(f, alive, b) /\ Kept(f, alive, b)
    BY <1>1, <1>3, <1>5, <1>9, FittingKeeps DEF AllocSound
<1>11. Survive(f, alive, b, todo \ {v})
    <2>1. ASSUME NEW i \in InRange(alive, v) PROVE SettledAt(f, alive, b, v, i)
        <3>1. b.ass[v][i].reg = reg /\ b.ass[v][Min(alive[v])].reg = reg /\ reg # "none"
            BY <1>5, <1>6, <1>7, NoneIsNoRegister
        <3>2. reg \notin f.code[i].exclude
            BY Zenon DEF can_var_be_assigned
        <3>3. i \in {Min(alive[v]), Max(alive[v])} \/ reg \notin f.code[i].clobber
            <4> SUFFICES ASSUME i \notin {Min(alive[v]), Max(alive[v])} PROVE reg \notin f.code[i].clobber
                OBVIOUS
            <4> DEFINE lo == Min(alive[v])
                       hi == Max(alive[v])
            <4>1. lo \in 1 .. Size(f) /\ hi \in 1 .. Size(f)
                BY <1>3, InTheRange
            <4>2. i \in lo .. hi /\ i # lo /\ i # hi
                BY DEF InRange
            <4> HIDE DEF lo, hi
            <4>3. i \in lo + 1 .. hi - 1
                BY <4>1, <4>2
            <4> QED BY <4>3, Zenon DEF can_var_be_assigned, lo, hi
        <3> QED BY <3>1, <3>2, <3>3, Zenon DEF SettledAt
    <2> QED BY <1>1, <1>3, <1>5, <2>1, SettledStay DEF AllocSound
<1>12. SlotsOK(f, b)
    BY <1>1, <1>5, Zenon DEF AllocSound, SlotsOK, SlotOK
<1>13. Match(f, b)
    <2> SUFFICES ASSUME NEW i \in 1 .. Size(f) PROVE MatchAt(f, b, i)
        BY Zenon DEF Match
    <2>1. MatchAt(f, a, i)
        BY <1>1, Zenon DEF AllocSound, Match
    <2>2. DOMAIN a.slots \subseteq Vars(f) \ todo
        BY <1>1 DEF AllocShape
    <2>3. \A w \in DOMAIN a.slots : b.ass[w] = a.ass[w]
        BY <1>5, <2>2 DEF Assigned
    <2>4. b.slots = a.slots /\ b.ops = a.ops
        BY <1>5
    <2> DEFINE D == DOMAIN a.slots
               used == Read(f, i) \cup Written(f, i)
               ops == a.ops[i]
    <2>5. /\ \A u \in D \cap used : \E k \in DOMAIN ops : ops[k].var = u
          /\ \A k \in DOMAIN ops : ops[k].var \in D
          /\ \A k \in DOMAIN ops : ops[k] = StackOp(f, ops[k].var, i, a.ass[ops[k].var][i].reg, a.slots[ops[k].var])
        BY <2>1, Zenon DEF MatchAt
    <2>6. \A k \in DOMAIN ops : ops[k] = StackOp(f, ops[k].var, i, b.ass[ops[k].var][i].reg, a.slots[ops[k].var])
        BY <2>3, <2>5
    <2>7. DOMAIN b.slots = D /\ b.ops[i] = ops
        BY <2>4
    <2> HIDE DEF D, used, ops
    <2>8. MatchAt(f, b, i) <=>
              /\ \A u \in DOMAIN b.slots \cap used : \E k \in DOMAIN b.ops[i] : b.ops[i][k].var = u
              /\ \A k \in DOMAIN b.ops[i] : b.ops[i][k].var \in DOMAIN b.slots
              /\ \A k \in DOMAIN b.ops[i] :
                    b.ops[i][k] = StackOp(f, b.ops[i][k].var, i, b.ass[b.ops[i][k].var][i].reg, b.slots[b.ops[i][k].var])
        BY Zenon DEF MatchAt, used
    <2> QED BY <2>4, <2>5, <2>6, <2>7, <2>8
<1> QED BY <1>8, <1>10, <1>11, <1>12, <1>13, Zenon DEF AllocGood, AllocSound

-----------------------------------------------------------------------------
(* A variable that goes to the stack.                                        *)

LEMMA AppendOf ==
    ASSUME NEW s, NEW e, IsSeq(s)
    PROVE  /\ IsSeq(Append(s, e))
           /\ DOMAIN s = 1 .. Len(s) /\ DOMAIN Append(s, e) = 1 .. Len(s) + 1
           /\ Append(s, e)[Len(s) + 1] = e
           /\ \A k \in DOMAIN s : Append(s, e)[k] = s[k]
<1> DEFINE T == {s[k] : k \in 1 .. Len(s)} \cup {e}
           n == Len(s)
<1>1. s \in Seq(T)
    <2>1. n \in Nat /\ s = [k \in 1 .. n |-> s[k]]
        BY DEF IsSeq
    <2>2. \A k \in 1 .. n : s[k] \in T
        OBVIOUS
    <2> HIDE DEF T, n
    <2>3. s \in [1 .. n -> T]
        BY <2>1, <2>2
    <2> QED BY <2>1, <2>3
<1>2. e \in T
    OBVIOUS
<1> HIDE DEF T, n
<1>3. Append(s, e) \in Seq(T) /\ Len(Append(s, e)) = Len(s) + 1 /\ DOMAIN s = 1 .. Len(s) /\ Len(s) \in Nat
    BY <1>1, <1>2
<1>4. Append(s, e)[Len(s) + 1] = e /\ \A k \in 1 .. Len(s) : Append(s, e)[k] = s[k]
    BY <1>1, <1>2
<1>5. \A t \in Seq(T) : Len(t) \in Nat /\ t \in [1 .. Len(t) -> T] /\ DOMAIN t = 1 .. Len(t)
    OBVIOUS
<1>6. IsSeq(Append(s, e))
    BY <1>3, <1>5 DEF IsSeq
<1> QED BY <1>3, <1>4, <1>5, <1>6

\* A register found for an instruction is one the variable may have there.
LEMMA SpillRegisterFits ==
    ASSUME NEW f, NEW alive, NEW ass, NEW v \in Vars(f), NEW i, GoodFunction(f),
           SpillRegister(f, alive, ass, v, i) # "none"
    PROVE  assignment_ok_at(f, alive, ass, v, i, SpillRegister(f, alive, ass, v, i))
<1> DEFINE s == SpillCandidates(f, alive, ass, v, i)
           fit == {k \in DOMAIN s : assignment_ok_at(f, alive, ass, v, i, s[k])}
           order == f.spill_order[f.class[v]]
           here == ass[v][i].reg
           before == {j \in InRange(alive, v) : j < i /\ ass[v][j].assigned}
           hinted == ass[v][Max(before)].reg
           S == Registers_ \cup {here, hinted}
<1>1. s \in Seq(S)
    <2>1. order \in Seq(Registers_)
        BY OrdersAreRegisters
    <2>2. s = IF ass[v][i].assigned THEN <<here>> ELSE SpillHint(f, alive, ass, v, i) \o order
        BY Zenon DEF SpillCandidates
    <2>3. SpillHint(f, alive, ass, v, i) = <<>> \/ SpillHint(f, alive, ass, v, i) = <<hinted>>
        BY Zenon DEF SpillHint
    <2>4. here \in S /\ hinted \in S /\ Registers_ \subseteq S
        OBVIOUS
    <2> HIDE DEF s, order, here, hinted, S
    <2>5. order \in Seq(S) /\ <<here>> \in Seq(S) /\ <<hinted>> \in Seq(S) /\ <<>> \in Seq(S)
        BY <2>1, <2>4
    <2>6. SpillHint(f, alive, ass, v, i) \o order \in Seq(S)
        <3> DEFINE hint == SpillHint(f, alive, ass, v, i)
        <3>1. hint \in Seq(S)
            BY <2>3, <2>5, Zenon
        <3> HIDE DEF hint
        <3>2. hint \o order \in Seq(S)
            BY <2>5, <3>1
        <3> QED BY <3>2 DEF hint
    <2> QED BY <2>2, <2>5, <2>6, Zenon
<1>2. SpillRegister(f, alive, ass, v, i) = IF fit = {} THEN "none" ELSE s[Min(fit)]
    BY Zenon DEF SpillRegister
<1>3. fit # {}
    BY <1>2
<1>4. Min(fit) \in fit
    <2>1. fit \subseteq DOMAIN s
        OBVIOUS
    <2> HIDE DEF fit, s, S
    <2> QED BY <1>1, <1>3, <2>1, FirstOf
<1>5. assignment_ok_at(f, alive, ass, v, i, s[Min(fit)])
    BY <1>4
<1> QED BY <1>2, <1>3, <1>5, Zenon

LEMMA SlotBounds ==
    ASSUME NEW f, NEW v, NEW top \in Nat
    PROVE  /\ slot_size(f.class[v]) \in {1, 2}
           /\ get_stack_slot_for_var(f, v, top) \in Nat /\ top <= get_stack_slot_for_var(f, v, top)
           /\ slot_size(f.class[v]) = 2 => get_stack_slot_for_var(f, v, top) % 2 = 0
BY DEF slot_size, get_stack_slot_for_var

LEMMA SpilledGood ==
    ASSUME NEW f, NEW alive, NEW a, NEW b, NEW todo, NEW v \in todo,
           GoodFunction(f), GoodRanges(f, alive), AllocGood(f, alive, a, todo), a.ok,
           b = try_spill_coloring(f, alive, a, v)
    PROVE  AllocGood(f, alive, b, todo \ {v})
<1> DEFINE slot == get_stack_slot_for_var(f, v, a.top)
           R(i) == SpillRegister(f, alive, a.ass, v, i)
           used(i) == Read(f, i) \cup Written(f, i)
           g == [i \in 1 .. Size(f) |-> SpillAssignment(f, alive, a.ass, v, i)]
           h == [w \in Vars(f) |-> IF w = v THEN g ELSE a.ass[w]]
           op(i) == StackOp(f, v, i, R(i), slot)
           ops == [i \in 1 .. Size(f) |-> IF v \in used(i) THEN Append(a.ops[i], op(i)) ELSE a.ops[i]]
           slots == [w \in DOMAIN a.slots \cup {v} |-> IF w = v THEN slot ELSE a.slots[w]]
           top == slot + slot_size(f.class[v])
           ok == a.ok /\ \A i \in InRange(alive, v) : Touches(f, a.ass, v, i) => R(i) # "none"
           B == DOMAIN b.slots
           A == DOMAIN a.slots
<1>1. AllocShape(f, alive, a, todo) /\ AllocSound(f, alive, a, todo)
    BY Zenon DEF AllocGood
<1>2. /\ a.ass = [w \in Vars(f) |-> a.ass[w]] /\ todo \subseteq Seen(f, alive)
      /\ A \subseteq Vars(f) \ todo /\ a.top \in Nat
      /\ \A i \in 1 .. Size(f) : IsSeq(a.ops[i])
    BY <1>1 DEF AllocShape
<1>3. todo \subseteq Vars(f) /\ v \in Vars(f) /\ alive[v] # {} /\ v \notin A /\ A \subseteq Vars(f)
    BY <1>2 DEF Seen
<1>4. b.ok = ok /\ b.ass = h /\ b.ops = ops /\ b.slots = slots /\ b.top = top /\ Is(b, b.ok, b.ass, b.ops, b.slots, b.top)
    <2>1. [a.ass EXCEPT ![v] = g] = h
        <3> HIDE DEF g
        <3> QED BY <1>2, <1>3
    <2>2. Is(b, ok, [a.ass EXCEPT ![v] = g], ops, slots, top)
        BY Zenon DEF try_spill_coloring, Is
    <2> HIDE DEF ok, g, h, ops, slots, top
    <2>3. Is(b, ok, h, ops, slots, top)
        BY <2>1, <2>2, Zenon
    <2>4. b.ok = ok /\ b.ass = h /\ b.ops = ops /\ b.slots = slots /\ b.top = top
        BY <2>3, FieldsOf, Zenon
    <2> QED BY <2>3, <2>4, Zenon
<1>5. h[v] = g /\ (\A w \in Vars(f) \ {v} : h[w] = a.ass[w]) /\ IsFunctionOn(h, Vars(f))
    <2> HIDE DEF g
    <2> QED BY <1>3 DEF IsFunctionOn
<1>6. Assigned(a, b, f, v, g)
    BY <1>4, Zenon DEF Assigned
<1>7. /\ B = A \cup {v} /\ b.slots[v] = slot /\ \A w \in A : b.slots[w] = a.slots[w]
    <2> HIDE DEF slot
    <2>1. DOMAIN slots = A \cup {v} /\ slots[v] = slot /\ \A w \in A : slots[w] = a.slots[w]
        BY <1>3
    <2> HIDE DEF slots, A
    <2> QED BY <1>4, <2>1
<1>8. /\ Min(alive[v]) \in InRange(alive, v) /\ InRange(alive, v) \subseteq 1 .. Size(f) /\ alive[v] \subseteq InRange(alive, v)
      /\ alive[v] \subseteq 1 .. Size(f)
    BY <1>3, InTheRange DEF GoodRanges
<1>9. slot \in Nat /\ a.top <= slot /\ slot_size(f.class[v]) \in {1, 2} /\ (slot_size(f.class[v]) = 2 => slot % 2 = 0)
    BY <1>2, SlotBounds
<1>10. \A i \in 1 .. Size(f) : b.ops[i] = IF v \in used(i) THEN Append(a.ops[i], op(i)) ELSE a.ops[i]
    <2> HIDE DEF used, op
    <2>1. \A i \in 1 .. Size(f) : ops[i] = IF v \in used(i) THEN Append(a.ops[i], op(i)) ELSE a.ops[i]
        BY Zenon
    <2> QED BY <1>4, <2>1, Zenon
<1>11. AllocShape(f, alive, b, todo \ {v})
    <2>1. b = [ok |-> b.ok, ass |-> b.ass, ops |-> b.ops, slots |-> b.slots, top |-> b.top]
        BY <1>4, Zenon DEF Is
    <2>2. b.ass = [w \in Vars(f) |-> b.ass[w]]
        <3>1. IsFunctionOn(b.ass, Vars(f))
            BY <1>4, <1>5, Zenon
        <3> QED BY <3>1, Zenon DEF IsFunctionOn
    <2>3. \A i \in 1 .. Size(f) : IsSeq(b.ops[i])
        <3> SUFFICES ASSUME NEW i \in 1 .. Size(f) PROVE IsSeq(b.ops[i])
            OBVIOUS
        <3> DEFINE old == a.ops[i]
                   new == op(i)
        <3>1. IsSeq(old)
            BY <1>2
        <3>2. b.ops[i] = Append(old, new) \/ b.ops[i] = old
            BY <1>10
        <3> HIDE DEF old, new
        <3>3. IsSeq(Append(old, new))
            BY <3>1, AppendOf
        <3> QED BY <3>1, <3>2, <3>3
    <2>4. b.top \in Nat
        <3> HIDE DEF slot
        <3>1. b.top = slot + slot_size(f.class[v])
            BY <1>4, Zenon
        <3> QED BY <1>9, <3>1
    <2>5. todo \ {v} \subseteq Seen(f, alive)
        BY <1>2
    <2>6. DOMAIN b.slots \subseteq Vars(f) \ (todo \ {v})
        BY <1>2, <1>3, <1>7
    <2> QED BY <2>1, <2>2, <2>3, <2>4, <2>5, <2>6, Zenon DEF AllocShape
<1> SUFFICES ASSUME b.ok PROVE AllocSound(f, alive, b, todo \ {v})
    BY <1>11, Zenon DEF AllocGood
<1>12. \A i \in InRange(alive, v) :
          /\ g[i] = IF Touches(f, a.ass, v, i) THEN InRegister(R(i)) ELSE OnStack
          /\ Touches(f, a.ass, v, i) => R(i) # "none" /\ assignment_ok_at(f, alive, a.ass, v, i, R(i))
    <2>1. ASSUME NEW i \in InRange(alive, v)
          PROVE  g[i] = IF Touches(f, a.ass, v, i) THEN InRegister(R(i)) ELSE OnStack
        <3>1. i \in 1 .. Size(f)
            BY <1>8
        <3>2. g[i] = SpillAssignment(f, alive, a.ass, v, i)
            BY <3>1, Zenon
        <3> QED BY <3>2, Zenon DEF SpillAssignment
    <2>2. ok
        BY <1>4
    <2>3. ASSUME NEW i \in InRange(alive, v), Touches(f, a.ass, v, i)
          PROVE  R(i) # "none" /\ assignment_ok_at(f, alive, a.ass, v, i, R(i))
        <3>1. R(i) # "none"
            BY <2>2, <2>3, Zenon
        <3>2. assignment_ok_at(f, alive, a.ass, v, i, R(i))
            BY <1>3, <3>1, SpillRegisterFits, Zenon
        <3> QED BY <3>1, <3>2
    <2> HIDE DEF g, R
    <2> QED BY <2>1, <2>3, Zenon
<1>13. \A i \in InRange(alive, v) :
          /\ Touches(f, a.ass, v, i) => g[i].reg = R(i)
          /\ g[i].reg # "none" => Touches(f, a.ass, v, i)
    <2> HIDE DEF g, R
    <2> SUFFICES ASSUME NEW i \in InRange(alive, v)
                 PROVE  (Touches(f, a.ass, v, i) => g[i].reg = R(i)) /\ (g[i].reg # "none" => Touches(f, a.ass, v, i))
        OBVIOUS
    <2>1. g[i] = IF Touches(f, a.ass, v, i) THEN InRegister(R(i)) ELSE OnStack
        BY <1>12
    <2>2. InRegister(R(i)).reg = R(i) /\ OnStack.reg = "none"
        BY DEF InRegister, OnStack
    <2> QED BY <2>1, <2>2, Zenon
<1> HIDE DEF g, R
<1>14. Fitting(f, alive, a.ass, v, g)
    <2>1. ASSUME NEW i \in alive[v] PROVE g[i].reg = "none" \/ NoConflictAt(f, alive, a.ass, v, i, g[i].reg)
        <3>1. i \in InRange(alive, v)
            BY <1>8
        <3>2. CASE Touches(f, a.ass, v, i)
            <4>1. NoConflictAt(f, alive, a.ass, v, i, R(i))
                BY <1>12, <3>1, <3>2, Zenon DEF assignment_ok_at
            <4> QED BY <1>13, <3>1, <3>2, <4>1
        <3>3. CASE ~Touches(f, a.ass, v, i)
            BY <1>13, <3>1, <3>3
        <3> QED BY <3>2, <3>3
    <2>2. ASSUME NEW k \in DOMAIN f.constraints, f.constraints[k][1] = v, NEW i \in Places(f, alive, k)
          PROVE  g[i].reg = f.constraints[k][3]
        <3>1. i \in InRange(alive, v)
            BY <1>3, <2>2, PlacesInRange
        <3>2. a.ass[v][i].assigned /\ a.ass[v][i].reg = f.constraints[k][3]
            BY <1>1, <2>2, Zenon DEF AllocSound, Waiting, Kept
        <3>3. Touches(f, a.ass, v, i)
            BY <3>2, Zenon DEF Touches
        <3>4. a.ass[v][i].reg = R(i)
            BY <1>12, <3>1, <3>2, <3>3, Zenon DEF assignment_ok_at
        <3> QED BY <1>13, <3>1, <3>2, <3>3, <3>4
    <2> QED BY <2>1, <2>2, Zenon DEF Fitting
<1>15. Waiting(f, alive, b, todo \ {v}) /\ Apart(f, alive, b) /\ Kept(f, alive, b)
    BY <1>1, <1>3, <1>6, <1>14, FittingKeeps DEF AllocSound
<1>16. b.ass[v] = g /\ \A w \in A : b.ass[w] = a.ass[w]
    <2> HIDE DEF h, A
    <2> QED BY <1>3, <1>4, <1>5
<1>17. Survive(f, alive, b, todo \ {v})
    <2>1. ASSUME NEW i \in InRange(alive, v) PROVE SettledAt(f, alive, b, v, i)
        <3>1. v \in DOMAIN b.slots
            BY <1>7
        <3>2. CASE Touches(f, a.ass, v, i)
            <4>1. g[i].reg = R(i) /\ R(i) # "none"
                BY <1>12, <1>13, <3>2
            <4>2. R(i) \notin f.code[i].exclude /\ (i \in {Min(alive[v]), Max(alive[v])} \/ R(i) \notin f.code[i].clobber)
                BY <1>12, <3>2, Zenon DEF assignment_ok_at
            <4> QED BY <1>16, <3>1, <4>1, <4>2, Zenon DEF SettledAt
        <3>3. CASE ~Touches(f, a.ass, v, i)
            <4>1. g[i].reg = "none" /\ v \notin Read(f, i) \cup Written(f, i)
                BY <1>13, <3>3 DEF Touches
            <4> QED BY <1>16, <3>1, <4>1, Zenon DEF SettledAt
        <3> QED BY <3>2, <3>3
    <2>2. \A w \in Vars(f) \ {v} : w \in DOMAIN b.slots <=> w \in DOMAIN a.slots
        BY <1>7
    <2> QED BY <1>1, <1>3, <1>6, <2>1, <2>2, SettledStay DEF AllocSound
<1>18. SlotsOK(f, b)
    <2> DEFINE size(w) == slot_size(f.class[w])
    <2>1. b.top = slot + size(v)
        BY <1>4, Zenon
    <2>2. \A w \in A : SlotOK(f, a, w)
        BY <1>1, Zenon DEF AllocSound, SlotsOK
    <2>3. \A w \in A : /\ size(w) = 2 => a.slots[w] % 2 = 0
                       /\ a.slots[w] \in Nat /\ a.slots[w] + size(w) <= a.top
                       /\ \A u \in A \ {w} : a.slots[w] + size(w) <= a.slots[u] \/ a.slots[u] + size(u) <= a.slots[w]
        BY <2>2, Zenon DEF SlotOK
    <2>4. \A w : size(w) \in {1, 2}
        BY DEF slot_size
    <2> HIDE DEF size, slot, A, B
    <2>5. \A w \in A : a.slots[w] + size(w) <= slot /\ a.slots[w] + size(w) <= b.top
        <3> SUFFICES ASSUME NEW w \in A PROVE a.slots[w] + size(w) <= slot /\ a.slots[w] + size(w) <= b.top
            OBVIOUS
        <3>1. a.slots[w] \in Nat /\ a.slots[w] + size(w) <= a.top /\ size(w) \in {1, 2} /\ size(v) \in {1, 2}
            BY <2>3, <2>4
        <3>2. slot \in Nat /\ a.top \in Nat /\ a.top <= slot /\ b.top = slot + size(v)
            BY <1>2, <1>9, <2>1
        <3> QED BY <3>1, <3>2
    <2> SUFFICES ASSUME NEW w \in B PROVE SlotOK(f, b, w)
        BY Zenon DEF SlotsOK, B
    <2>6. CASE w = v
        <3>1. b.slots[w] = slot /\ slot \in Nat /\ slot + size(v) <= b.top
            BY <1>7, <1>9, <2>1, <2>4, <2>6
        <3>2. \A u \in B \ {w} : b.slots[u] + size(u) <= b.slots[w]
            BY <1>7, <2>5, <2>6
        <3>3. size(w) = 2 => b.slots[w] % 2 = 0
            BY <1>9, <2>6, <3>1 DEF size
        <3> QED BY <2>6, <3>1, <3>2, <3>3, Zenon DEF SlotOK, size, B
    <2>7. CASE w # v
        <3>1. w \in A /\ b.slots[w] = a.slots[w]
            BY <1>7, <2>7
        <3>2. (size(w) = 2 => b.slots[w] % 2 = 0) /\ b.slots[w] \in Nat /\ b.slots[w] + size(w) <= b.top
            BY <2>3, <2>5, <3>1
        <3>3. \A u \in B \ {w} : b.slots[w] + size(w) <= b.slots[u] \/ b.slots[u] + size(u) <= b.slots[w]
            <4> SUFFICES ASSUME NEW u \in B \ {w} PROVE b.slots[w] + size(w) <= b.slots[u] \/ b.slots[u] + size(u) <= b.slots[w]
                OBVIOUS
            <4>1. CASE u = v
                <5>1. b.slots[u] = slot
                    BY <1>7, <4>1
                <5> QED BY <2>5, <3>1, <5>1
            <4>2. CASE u # v
                <5>1. u \in A \ {w} /\ b.slots[u] = a.slots[u]
                    BY <1>7, <4>2
                <5> QED BY <2>3, <3>1, <5>1
            <4> QED BY <4>1, <4>2
        <3> QED BY <3>2, <3>3, Zenon DEF SlotOK, size, B
    <2> QED BY <2>6, <2>7
<1>19. Match(f, b)
    <2> SUFFICES ASSUME NEW i \in 1 .. Size(f) PROVE MatchAt(f, b, i)
        BY Zenon DEF Match
    <2> DEFINE old == a.ops[i]
               new == b.ops[i]
               n == Len(old)
               e == op(i)
    <2>1. /\ \A u \in A \cap used(i) : \E k \in DOMAIN old : old[k].var = u
          /\ \A k \in DOMAIN old : old[k].var \in A
          /\ \A k \in DOMAIN old : old[k] = StackOp(f, old[k].var, i, a.ass[old[k].var][i].reg, a.slots[old[k].var])
        BY <1>1, Zenon DEF AllocSound, Match, MatchAt
    <2>2. \A k \in DOMAIN old : old[k] = StackOp(f, old[k].var, i, b.ass[old[k].var][i].reg, b.slots[old[k].var])
        BY <1>7, <1>16, <2>1
    <2>3. IsSeq(old)
        BY <1>2
    <2>4. IF v \in used(i) THEN new = Append(old, e) ELSE new = old
        BY <1>10, Zenon
    <2>5. /\ e.var = v
          /\ v \in used(i) => e = StackOp(f, v, i, b.ass[v][i].reg, b.slots[v])
        <3>1. e.var = v
            BY DEF StackOp
        <3>2. ASSUME v \in used(i) PROVE b.ass[v][i].reg = R(i)
            <4>1. Touches(f, a.ass, v, i)
                BY <3>2, Zenon DEF Touches
            <4>2. i \in InRange(alive, v)
                BY <1>3, <1>8, <3>2, Zenon DEF GoodRanges
            <4> QED BY <1>13, <1>16, <4>1, <4>2
        <3> HIDE DEF slot, used
        <3> QED BY <1>7, <3>1, <3>2, Zenon
    <2> HIDE DEF e, used, A, old, B
    <2>6. (\A u \in B \cap used(i) : \E k \in DOMAIN new : new[k].var = u) /\ (\A k \in DOMAIN new : new[k].var \in B)
          /\ \A k \in DOMAIN new : new[k] = StackOp(f, new[k].var, i, b.ass[new[k].var][i].reg, b.slots[new[k].var])
        <3> HIDE DEF new
        <3>1. CASE v \notin used(i)
            <4>1. new = old
                BY <2>4, <3>1
            <4> QED BY <1>7, <2>1, <2>2, <3>1, <4>1 DEF B
        <3>2. CASE v \in used(i)
            <4>1. new = Append(old, e)
                BY <2>4, <3>2
            <4>2. DOMAIN new = DOMAIN old \cup {n + 1} /\ new[n + 1] = e /\ \A k \in DOMAIN old : new[k] = old[k]
                <5>1. /\ DOMAIN old = 1 .. n /\ DOMAIN new = 1 .. n + 1 /\ new[n + 1] = e
                      /\ \A k \in DOMAIN old : new[k] = old[k]
                    BY <2>3, <4>1, AppendOf
                <5>2. n \in Nat
                    BY <2>3 DEF IsSeq
                <5>3. 1 .. n + 1 = (1 .. n) \cup {n + 1}
                    <6> HIDE DEF n
                    <6> QED BY <5>2
                <5> QED BY <5>1, <5>3
            <4> HIDE DEF n
            <4>3. \A u \in B \cap used(i) : \E k \in DOMAIN new : new[k].var = u
                <5> SUFFICES ASSUME NEW u \in B \cap used(i) PROVE \E k \in DOMAIN new : new[k].var = u
                    OBVIOUS
                <5>1. CASE u = v
                    BY <2>5, <4>2, <5>1
                <5>2. CASE u # v
                    <6>1. u \in A \cap used(i)
                        BY <1>7, <5>2 DEF B
                    <6>2. PICK k \in DOMAIN old : old[k].var = u
                        BY <2>1, <6>1
                    <6> QED BY <4>2, <6>2
                <5> QED BY <5>1, <5>2
            <4>4. \A k \in DOMAIN new : new[k].var \in B
                BY <1>7, <2>1, <2>5, <4>2 DEF B
            <4>5. \A k \in DOMAIN new : new[k] = StackOp(f, new[k].var, i, b.ass[new[k].var][i].reg, b.slots[new[k].var])
                <5> SUFFICES ASSUME NEW k \in DOMAIN new
                             PROVE  new[k] = StackOp(f, new[k].var, i, b.ass[new[k].var][i].reg, b.slots[new[k].var])
                    OBVIOUS
                <5>1. CASE k \in DOMAIN old
                    BY <2>2, <4>2, <5>1
                <5>2. CASE k = n + 1
                    BY <2>5, <3>2, <4>2, <5>2
                <5> QED BY <4>2, <5>1, <5>2
            <4> QED BY <4>3, <4>4, <4>5
        <3> QED BY <3>1, <3>2
    <2> QED BY <2>6, Zenon DEF MatchAt, B, used
<1> QED BY <1>15, <1>17, <1>18, <1>19, Zenon DEF AllocSound
-----------------------------------------------------------------------------
(* One variable after another.                                               *)

LEMMA StepGood ==
    ASSUME NEW f, NEW alive, NEW a, NEW todo, NEW v \in todo,
           GoodFunction(f), GoodRanges(f, alive), AllocGood(f, alive, a, todo), a.ok
    PROVE  AllocGood(f, alive, do_allocation_for_var(f, alive, a, v), todo \ {v})
<1> DEFINE regs == Candidates(f, alive, a.ass, v)
           fit == IF v \in f.on_stack THEN {} ELSE {k \in DOMAIN regs : can_var_be_assigned(f, alive, a.ass, v, regs[k])}
           reg == regs[Min(fit)]
           b == do_allocation_for_var(f, alive, a, v)
<1>1. b = IF fit = {} THEN try_spill_coloring(f, alive, a, v)
          ELSE [a EXCEPT !.ass[v] = [i \in 1 .. Size(f) |-> IF i \in InRange(alive, v) THEN InRegister(reg) ELSE Unassigned]]
    BY Zenon DEF do_allocation_for_var
<1>2. v \in Vars(f)
    BY Zenon DEF AllocGood, AllocShape, Seen
<1>3. CASE fit = {}
    <2>1. b = try_spill_coloring(f, alive, a, v)
        BY <1>1, <1>3, Zenon
    <2> HIDE DEF b, fit
    <2> QED BY <2>1, SpilledGood DEF b
<1>4. CASE fit # {}
    <2>1. fit \subseteq DOMAIN regs /\ \A k \in fit : can_var_be_assigned(f, alive, a.ass, v, regs[k])
        BY Zenon
    <2>2. b = [a EXCEPT !.ass[v] = [i \in 1 .. Size(f) |-> IF i \in InRange(alive, v) THEN InRegister(reg) ELSE Unassigned]]
        BY <1>1, <1>4, Zenon
    <2>3. regs \in Seq(Registers_)
        BY <1>2, CandidatesAreRegisters
    <2>4. Min(fit) \in fit /\ reg \in Registers_
        <3> HIDE DEF fit, regs
        <3> QED BY <1>4, <2>1, <2>3, FirstOf
    <2>5. can_var_be_assigned(f, alive, a.ass, v, reg)
        BY <2>1, <2>4
    <2> HIDE DEF b, fit, regs
    <2> HIDE DEF reg
    <2> QED BY <2>2, <2>4, <2>5, ColouredGood, Zenon DEF b
<1> QED BY <1>3, <1>4

LEMMA NextIsToDo ==
    ASSUME NEW f, NEW todo, GoodFunction(f), todo \subseteq Vars(f), todo # {}
    PROVE  NextVar(f, todo) \in todo
<1> DEFINE constrained == {v \in todo : HasConstraint(f, v)}
<1>1. todo \subseteq Nat /\ constrained \subseteq todo
    BY DEF GoodFunction
<1>2. CASE constrained = {}
    <2>1. NextVar(f, todo) = Min(todo)
        BY <1>2, Zenon DEF NextVar
    <2> QED BY <1>1, <2>1, MinOf
<1>3. CASE constrained # {}
    <2>1. NextVar(f, todo) = Min(constrained)
        BY <1>3, Zenon DEF NextVar
    <2> HIDE DEF constrained
    <2>2. Min(constrained) \in constrained
        BY <1>1, <1>3, MinOf
    <2> QED BY <1>1, <2>1, <2>2
<1> QED BY <1>2, <1>3

Allocating(t) ==
    /\ t = [kind |-> "allocate", f |-> t.f, out |-> t.out, alive |-> t.alive, a |-> t.a, todo |-> t.todo]
    /\ GoodFunction(t.f) /\ GoodRanges(t.f, t.alive)
    /\ AllocGood(t.f, t.alive, t.a, t.todo)

AllocInv ==
    /\ task.kind \in {"function", "live"} => GoodFunction(task.f)
    /\ task.kind = "allocate" => Allocating(task)
    /\ task.kind = "run" => "kind" \in DOMAIN task

\* What holds of every variable still to do and of those settled is what
\* AssignmentSound says.
LEMMA GoodIsSound == AllocInv => AssignmentSound
<1> SUFFICES ASSUME AllocInv, task.kind = "allocate", task.a.ok
             PROVE  RegistersApart /\ ConstraintsKept /\ RegistersSurvive /\ SlotsApart /\ SpillsMatch
    BY Zenon DEF AssignmentSound
<1>1. Allocating(task)
    BY Zenon DEF AllocInv
<1>2. AllocShape(task.f, task.alive, task.a, task.todo) /\ AllocSound(task.f, task.alive, task.a, task.todo)
    BY <1>1, Zenon DEF Allocating, AllocGood
<1>3. RegistersApart
    BY <1>2, Zenon DEF AllocSound, Apart, RegistersApart, RegisterAt
<1>4. ConstraintsKept
    BY <1>2, Zenon DEF AllocSound, Kept, ConstraintsKept, RegisterAt, Places
<1>5. RegistersSurvive
    BY <1>2, Zenon DEF AllocSound, Survive, SettledAt, RegistersSurvive, RegisterAt, Settled, Spilled
<1>6. SlotsApart
    <2>1. ASSUME NEW v \in DOMAIN task.a.slots
          PROVE  /\ slot_size(task.f.class[v]) = 2 => task.a.slots[v] % 2 = 0
                 /\ task.a.slots[v] \in Nat /\ task.a.slots[v] + slot_size(task.f.class[v]) <= task.a.top
                 /\ \A w \in DOMAIN task.a.slots \ {v} :
                       \/ task.a.slots[v] + slot_size(task.f.class[v]) <= task.a.slots[w]
                       \/ task.a.slots[w] + slot_size(task.f.class[w]) <= task.a.slots[v]
        BY <1>2, Zenon DEF AllocSound, SlotsOK, SlotOK
    <2>2. \A n \in Nat : 0 <= n
        OBVIOUS
    <2> QED BY <2>1, <2>2, Zenon DEF SlotsApart, Spilled
<1>7. SpillsMatch
    BY <1>2, Zenon DEF AllocSound, Match, MatchAt, SpillsMatch, Spilled, RegisterAt
<1> QED BY <1>3, <1>4, <1>5, <1>6, <1>7

LEMMA AllocInvInit == TaskInit => AllocInv
BY DEF TaskInit, Asked, AllocInv

LEMMA AllocInvNext == AllocInv /\ [CompilerNext]_task => AllocInv'
<1> SUFFICES ASSUME AllocInv, [CompilerNext]_task PROVE AllocInv'
    OBVIOUS
<1>1. CASE FrontEnd
    <2>1. PICK shape \in DOMAIN Functions : \E f \in Functions[shape] : task' = [kind |-> "function", f |-> f]
        BY <1>1, Zenon DEF FrontEnd
    <2>2. PICK f \in Functions[shape] : task' = [kind |-> "function", f |-> f]
        BY <2>1
    <2>3. task'.kind = "function" /\ task'.f = f
        BY <2>2
    <2> QED BY <2>3, FunctionsGood DEF AllocInv
<1>2. CASE FindLive
    <2>1. task.kind = "function" /\ task' = [kind |-> "live", f |-> task.f, out |-> LiveOut(task.f)]
        BY <1>2, Zenon DEF FindLive
    <2>2. task'.kind = "live" /\ task'.f = task.f
        BY <2>1
    <2> QED BY <2>1, <2>2 DEF AllocInv
<1>3. CASE Analyze
    <2> DEFINE alive == LiveRanges(task.f, task.out)
               a == FirstAllocation(task.f, alive)
               todo == Seen(task.f, alive)
    <2>1. task.kind = "live" /\ task' = [kind |-> "allocate", f |-> task.f, out |-> task.out, alive |-> alive, a |-> a, todo |-> todo]
        BY <1>3, Zenon DEF Analyze
    <2>2. GoodFunction(task.f)
        BY <2>1 DEF AllocInv
    <2>3. GoodRanges(task.f, alive)
        BY <2>2, RangesGood
    <2>4. AllocGood(task.f, alive, a, todo)
        <3> HIDE DEF alive
        <3> QED BY <2>2, <2>3, FirstGood, Zenon
    <2> HIDE DEF alive, a, todo
    <2>5. task'.kind = "allocate" /\ task'.f = task.f /\ task'.out = task.out /\ task'.alive = alive /\ task'.a = a /\ task'.todo = todo
        BY <2>1
    <2>6. Allocating(task')
        BY <2>1, <2>2, <2>3, <2>4, <2>5 DEF Allocating
    <2> QED BY <2>5, <2>6 DEF AllocInv
<1>4. CASE Allocate
    <2> DEFINE v == NextVar(task.f, task.todo)
               a == do_allocation_for_var(task.f, task.alive, task.a, v)
               todo == task.todo \ {v}
    <2>1. task.kind = "allocate" /\ task.todo # {} /\ task.a.ok /\ task' = [task EXCEPT !.a = a, !.todo = todo]
        BY <1>4, Zenon DEF Allocate
    <2>2. Allocating(task)
        BY <2>1 DEF AllocInv
    <2>3. GoodFunction(task.f) /\ GoodRanges(task.f, task.alive) /\ AllocGood(task.f, task.alive, task.a, task.todo)
        BY <2>2, Zenon DEF Allocating
    <2>4. v \in task.todo
        <3>1. task.todo \subseteq Vars(task.f)
            BY <2>3 DEF AllocGood, AllocShape, Seen
        <3> QED BY <2>1, <2>3, <3>1, NextIsToDo
    <2>5. AllocGood(task.f, task.alive, a, todo)
        <3> HIDE DEF v
        <3> QED BY <2>1, <2>3, <2>4, StepGood
    <2> HIDE DEF a, todo, v
    <2>6. task = [kind |-> "allocate", f |-> task.f, out |-> task.out, alive |-> task.alive, a |-> task.a, todo |-> task.todo]
        BY <2>2, Zenon DEF Allocating
    <2>7. task' = [kind |-> "allocate", f |-> task.f, out |-> task.out, alive |-> task.alive, a |-> a, todo |-> todo]
        BY <2>1, <2>6
    <2>8. task'.kind = "allocate" /\ task'.f = task.f /\ task'.out = task.out /\ task'.alive = task.alive /\ task'.a = a /\ task'.todo = todo
        BY <2>7
    <2>9. Allocating(task')
        BY <2>3, <2>5, <2>7, <2>8 DEF Allocating
    <2> QED BY <2>8, <2>9 DEF AllocInv
<1>5. CASE Generate
    <2>1. \E f, r, out, alive, env, m : task' = [kind |-> "run", f |-> f, r |-> r, out |-> out, alive |-> alive, pc |-> 1, env |-> env, m |-> m, good |-> TRUE]
        BY <1>5, Zenon DEF Generate
    <2> QED BY <2>1 DEF AllocInv
<1>6. CASE Execute
    <2>1. task.kind = "run"
        BY <1>6, Zenon DEF Execute
    <2>2. "kind" \in DOMAIN task
        BY <2>1 DEF AllocInv
    <2>3. task'.kind = task.kind /\ DOMAIN task' = DOMAIN task
        BY <1>6, <2>2 DEF Execute
    <2> QED BY <2>1, <2>2, <2>3 DEF AllocInv
<1>7. CASE Leave
    <2>1. task.kind = "run" /\ \E m : task' = [task EXCEPT !.kind = "returned", !.m = m]
        BY <1>7, Zenon DEF Leave
    <2>2. "kind" \in DOMAIN task
        BY <2>1 DEF AllocInv
    <2>3. task'.kind = "returned"
        BY <2>1, <2>2
    <2> QED BY <2>3 DEF AllocInv
<1>8. CASE UNCHANGED task
    BY <1>8, Zenon DEF AllocInv, Allocating
<1> QED BY <1>1, <1>2, <1>3, <1>4, <1>5, <1>6, <1>7, <1>8, Zenon DEF CompilerNext

\* allocate_registers, for every function, over any number of variables,
\* instructions and constraints: while it has not failed, no two variables alive
\* together share a register but at the instruction where one ends and the other
\* begins, every constraint is kept, no call or division destroys a variable,
\* slots are apart, and each spilled variable is loaded and stored in the register
\* that its instruction uses.
THEOREM AllocatorSafety == CompilerSpec => []AssignmentSound
<1>1. AllocInv /\ [CompilerNext]_task => AllocInv'
    BY AllocInvNext
<1> QED BY <1>1, AllocInvInit, GoodIsSound, PTL DEF CompilerSpec
=============================================================================
