-------------------------- MODULE IsoThread_proofs --------------------------
(***************************************************************************)
(* The ISO thread is safe for any number of requesting threads, any file   *)
(* lengths and any sizes of its tables that IsoAssumption allows: it never *)
(* waits for a buffer or a file slot for ever (NeverStuck), holds no       *)
(* command whose caller went on (CommandsLive), loses no buffer and no     *)
(* file (ResourcesConserved) and delivers pages in order (LoadInOrder).    *)
(*                                                                         *)
(* The invariants below follow a command through mailbox and priority      *)
(* stack, a buffer through free list, read and callback list, and a page   *)
(* from the file to the destination.  The reason why four buffers are      *)
(* enough: a pass of the loop gives one buffer out, and every single load  *)
(* that has one uses it up in the next pass, so all single loads together  *)
(* hold at most one; only the one DGO command may keep two.                *)
(***************************************************************************)
EXTENDS IsoThread, SequenceTheorems, FiniteSetTheorems, WellFoundedInduction, TLAPS

-----------------------------------------------------------------------------
(* The inductive invariant.                                                *)

Has(s, x) == \E i \in DOMAIN s : s[i] = x
Once(s) == \A i, j \in DOMAIN s : s[i] = s[j] => i = j
InMailbox(c) == Has(iso_mbx, c)
IsQueued(c) == Has(gPriStack[PriorityOf(c)], c)

\* A command is in the mailbox or in the priority stack of its kind, once.
QueueInv ==
    /\ Once(iso_mbx)
    /\ \A p \in Priorities : Once(gPriStack[p])
    /\ \A p \in Priorities : \A i \in DOMAIN gPriStack[p] :
          PriorityOf(gPriStack[p][i]) = p /\ gPriStack[p][i] \in Loading
    /\ \A c \in Cmds : ~(InMailbox(c) /\ IsQueued(c))

\* What the state of a command says of where it is and of its caller.
MessageOf(c) ==
    /\ msg[c].status = "IN_PROGRESS" <=> IsQueued(c)
    /\ ~IsQueued(c) => msg[c].bufs = <<>> /\ msg[c].fd = 0
    /\ InMailbox(c) => client[c] = "waiting" /\ msg[c].status = "none"
    /\ client[c] = "waiting" => InMailbox(c) \/ IsQueued(c)
    /\ client[c] = "idle" => ~IsQueued(c)
    /\ c \in Singles /\ IsQueued(c) => client[c] = "waiting"
MessageInv == \A c \in Cmds : MessageOf(c)

\* Open files and queued commands name each other.
FilesInv ==
    /\ \A c \in Cmds : IsQueued(c) => msg[c].fd # 0 /\ sLoadStack[msg[c].fd].fr = c
    /\ \A s \in Slots, c \in Cmds : sLoadStack[s].fr = c => IsQueued(c) /\ msg[c].fd = s

\* The read of a pass is there between its begin and its sync, and belongs
\* to a queued command unless it has been dropped.
ReadInv ==
    /\ read = NoRead \/ (read.cmd \in Cmds /\ read.buf \in Buffers)
    /\ read # NoRead => pc \in {"process", "sync"}
    /\ read_in_progress => read # NoRead /\ IsQueued(read.cmd) /\ Len(msg[read.cmd].bufs) < 2

\* Who holds a buffer.
Named(bufs) == [i \in 1 .. Len(bufs) |-> bufs[i].buf]
InFreeList(b) == Has(sFreeBuffer, b)
HeldBy(b, c) == Has(Named(msg[c].bufs), b)
InRead(b) == read.buf = b

\* Every buffer has one holder and is there once.
BufferInv ==
    /\ Once(sFreeBuffer)
    /\ \A c \in Cmds : Once(Named(msg[c].bufs))
    /\ \A b \in Buffers : InFreeList(b) \/ InRead(b) \/ \E c \in Cmds : HeldBy(b, c)
    /\ \A b \in Buffers : ~(InFreeList(b) /\ InRead(b))
    /\ \A b \in Buffers : \A c \in Cmds : HeldBy(b, c) =>
          ~InFreeList(b) /\ ~InRead(b) /\ \A d \in Cmds : HeldBy(b, d) => d = c

\* Where ProcessMessageData is: the single load that has a buffer, if there
\* is one, is still ahead of it.
CursorInv ==
    /\ \A c \in Cmds : Len(msg[c].bufs) <= 2
    /\ \A c \in Singles : Len(msg[c].bufs) <= 1
    /\ \A c, d \in Singles : msg[c].bufs # <<>> /\ msg[d].bufs # <<>> => c = d
    /\ pc = "sync" => \A c \in Singles : msg[c].bufs = <<>>
    /\ pc = "process" =>
          /\ cursor.idx \in DOMAIN gPriStack[cursor.pri]
          /\ \A c \in Singles : msg[c].bufs # <<>> =>
                cursor.pri = 2 /\ \E i \in 1 .. cursor.idx : gPriStack[2][i] = c

Location(c) == sLoadStack[msg[c].fd].location
Own(page) == page[1] # NoCmd

\* The pages of a single load, from the destination to the file, are in
\* order: copied, waiting, being read, still to be read.
PagesCopied(c) ==
    /\ \A i \in DOMAIN mem[c] : Own(mem[c][i]) => mem[c][i][1] = c /\ mem[c][i][2] >= msg[c].offset
    /\ \A i, j \in DOMAIN mem[c] : i < j /\ Own(mem[c][i]) /\ Own(mem[c][j]) => mem[c][i][2] < mem[c][j][2]
PageFits(c, page) ==
    /\ page[1] = c
    /\ msg[c].offset <= page[2] /\ page[2] < Location(c)
    /\ \A i \in DOMAIN mem[c] : Own(mem[c][i]) => mem[c][i][2] < page[2]
PagesToCome(c) ==
    /\ Location(c) >= msg[c].offset
    /\ \A i \in DOMAIN mem[c] : Own(mem[c][i]) => mem[c][i][2] < Location(c)
    /\ \A k \in DOMAIN msg[c].bufs : Own(msg[c].bufs[k].page) => PageFits(c, msg[c].bufs[k].page)
    /\ read.cmd = c /\ Own(read.page) =>
          /\ PageFits(c, read.page)
          /\ \A k \in DOMAIN msg[c].bufs : Own(msg[c].bufs[k].page) => msg[c].bufs[k].page[2] < read.page[2]
Progress(c) ==
    /\ msg[c].done < msg[c].length_to_copy
    /\ msg[c].length_to_copy = LengthToCopy(c)
    /\ Len(mem[c]) = IF KindOf[c] = "ee" \/ msg[c].done = 0 THEN msg[c].done ELSE 1
Copied(c) ==
    /\ msg[c].done = LengthToCopy(c)
    /\ Len(mem[c]) = IF KindOf[c] = "ee" THEN msg[c].done ELSE 1
OrderOf(c) ==
    /\ PagesCopied(c)
    /\ IsQueued(c) => PagesToCome(c) /\ Progress(c)
    /\ InMailbox(c) => msg[c].length > 0
    /\ ~IsQueued(c) /\ client[c] # "returned" => mem[c] = <<>>
    /\ msg[c].status = "DONE" => Copied(c)
OrderInv == \A c \in Singles : OrderOf(c)

IsoInv ==
    /\ TypeOK
    /\ NeverStuck
    /\ QueueInv
    /\ MessageInv
    /\ FilesInv
    /\ ReadInv
    /\ BufferInv
    /\ CursorInv
    /\ OrderInv

-----------------------------------------------------------------------------
(* Sequences in which nothing is there twice.                              *)

LEMMA EmptyLemma ==
    ASSUME NEW S
    PROVE  <<>> \in Seq(S) /\ Len(<<>>) = 0 /\ Once(<<>>) /\ \A x : ~Has(<<>>, x)
<1>1. <<>> \in Seq(S) /\ Len(<<>>) = 0
  BY EmptySeq
<1>2. DOMAIN <<>> = {}
  BY <1>1, LenProperties
<1> QED
  BY <1>1, <1>2 DEF Once, Has

LEMMA TailLemma ==
    ASSUME NEW S, NEW s \in Seq(S), s # <<>>, Once(s)
    PROVE  /\ Tail(s) \in Seq(S) /\ Len(Tail(s)) = Len(s) - 1 /\ Head(s) \in S
           /\ Once(Tail(s)) /\ Has(s, Head(s))
           /\ \A x : Has(Tail(s), x) <=> Has(s, x) /\ x # Head(s)
<1> DEFINE t == Tail(s)
<1>1. /\ Head(s) \in S /\ Head(s) = s[1] /\ t \in Seq(S) /\ Len(t) = Len(s) - 1 /\ Len(s) \in Nat \ {0}
      /\ DOMAIN s = 1 .. Len(s) /\ DOMAIN t = 1 .. Len(s) - 1
      /\ \A i \in 1 .. Len(s) - 1 : t[i] = s[i + 1]
  BY HeadTailProperties, EmptySeq, LenProperties
<1> HIDE DEF t
<1>2. Once(t)
  BY <1>1 DEF Once
<1>3. Has(s, Head(s))
  BY <1>1 DEF Has
<1>4. ASSUME NEW x, Has(t, x) PROVE Has(s, x) /\ x # Head(s)
  <2>1. PICK i \in 1 .. Len(s) - 1 : t[i] = x
    BY <1>1, <1>4 DEF Has
  <2>2. i + 1 \in DOMAIN s /\ s[i + 1] = x /\ 1 \in DOMAIN s /\ i + 1 # 1
    BY <1>1, <2>1
  <2> QED
    BY <1>1, <2>2 DEF Has, Once
<1>5. ASSUME NEW x, Has(s, x), x # Head(s) PROVE Has(t, x)
  <2>1. PICK i \in 1 .. Len(s) : s[i] = x
    BY <1>1, <1>5 DEF Has
  <2>2. i # 1 /\ i - 1 \in 1 .. Len(s) - 1 /\ t[i - 1] = s[(i - 1) + 1] /\ (i - 1) + 1 = i
    BY <1>1, <1>5, <2>1
  <2> QED
    BY <1>1, <2>1, <2>2 DEF Has
<1> QED
  BY <1>1, <1>2, <1>3, <1>4, <1>5 DEF t

LEMMA ConcatLemma ==
    ASSUME NEW S, NEW s \in Seq(S), NEW t \in Seq(S), Once(s), Once(t), \A x : ~(Has(s, x) /\ Has(t, x))
    PROVE  /\ s \o t \in Seq(S) /\ Len(s \o t) = Len(s) + Len(t) /\ Once(s \o t)
           /\ \A x : Has(s \o t, x) <=> Has(s, x) \/ Has(t, x)
<1> DEFINE u == s \o t
<1>1. /\ u \in Seq(S) /\ Len(u) = Len(s) + Len(t) /\ Len(s) \in Nat /\ Len(t) \in Nat
      /\ DOMAIN s = 1 .. Len(s) /\ DOMAIN t = 1 .. Len(t) /\ DOMAIN u = 1 .. Len(s) + Len(t)
      /\ \A i \in 1 .. Len(s) + Len(t) : u[i] = IF i <= Len(s) THEN s[i] ELSE t[i - Len(s)]
  BY ConcatProperties, LenProperties
<1> HIDE DEF u
<1>2. /\ \A i \in 1 .. Len(s) : i \in DOMAIN u /\ u[i] = s[i]
      /\ \A i \in 1 .. Len(t) : i + Len(s) \in DOMAIN u /\ u[i + Len(s)] = t[i]
      /\ \A i \in DOMAIN u : i \in 1 .. Len(s) \/ (i - Len(s) \in 1 .. Len(t) /\ i = (i - Len(s)) + Len(s))
  <2>1. \A i \in 1 .. Len(s) : i \in DOMAIN u /\ u[i] = s[i]
    BY <1>1
  <2>2. ASSUME NEW i \in 1 .. Len(t) PROVE i + Len(s) \in DOMAIN u /\ u[i + Len(s)] = t[i]
    <3>1. i + Len(s) \in 1 .. Len(s) + Len(t) /\ ~(i + Len(s) <= Len(s)) /\ (i + Len(s)) - Len(s) = i
      BY <1>1
    <3> QED
      BY <1>1, <3>1
  <2>3. \A i \in 1 .. Len(s) + Len(t) : i \in 1 .. Len(s) \/ (i - Len(s) \in 1 .. Len(t) /\ i = (i - Len(s)) + Len(s))
    BY <1>1
  <2> QED
    BY <1>1, <2>1, <2>2, <2>3
<1>3. Once(u)
  <2> SUFFICES ASSUME NEW i \in DOMAIN u, NEW j \in DOMAIN u, u[i] = u[j] PROVE i = j
    BY DEF Once
  <2>1. CASE i \in 1 .. Len(s) /\ j \in 1 .. Len(s)
    BY <1>1, <1>2, <2>1 DEF Once
  <2>2. CASE i \in 1 .. Len(s) /\ j \notin 1 .. Len(s)
    <3>1. j - Len(s) \in DOMAIN t /\ u[j] = t[j - Len(s)] /\ u[i] = s[i] /\ i \in DOMAIN s
      BY <1>1, <1>2, <2>2
    <3> QED
      BY <3>1 DEF Has
  <2>3. CASE i \notin 1 .. Len(s) /\ j \in 1 .. Len(s)
    <3>1. i - Len(s) \in DOMAIN t /\ u[i] = t[i - Len(s)] /\ u[j] = s[j] /\ j \in DOMAIN s
      BY <1>1, <1>2, <2>3
    <3> QED
      BY <3>1 DEF Has
  <2>4. CASE i \notin 1 .. Len(s) /\ j \notin 1 .. Len(s)
    <3>1. /\ i - Len(s) \in DOMAIN t /\ u[i] = t[i - Len(s)] /\ i \in Int
          /\ j - Len(s) \in DOMAIN t /\ u[j] = t[j - Len(s)] /\ j \in Int
      BY <1>1, <1>2, <2>4
    <3>2. i - Len(s) = j - Len(s)
      BY <3>1 DEF Once
    <3> QED
      BY <1>1, <3>1, <3>2
  <2> QED
    BY <2>1, <2>2, <2>3, <2>4
<1>4. ASSUME NEW x, Has(u, x) PROVE Has(s, x) \/ Has(t, x)
  <2>1. PICK i \in DOMAIN u : u[i] = x
    BY <1>4 DEF Has
  <2>2. CASE i \in 1 .. Len(s)
    BY <1>1, <1>2, <2>1, <2>2 DEF Has
  <2>3. CASE i \notin 1 .. Len(s)
    <3>1. i - Len(s) \in DOMAIN t /\ t[i - Len(s)] = x
      BY <1>1, <1>2, <2>1, <2>3
    <3> QED
      BY <3>1 DEF Has
  <2> QED
    BY <2>2, <2>3
<1>5. ASSUME NEW x, Has(s, x) \/ Has(t, x) PROVE Has(u, x)
  BY <1>1, <1>2, <1>5 DEF Has
<1> QED
  BY <1>1, <1>3, <1>4, <1>5 DEF u

LEMMA SingletonLemma ==
    ASSUME NEW S, NEW a \in S
    PROVE  <<a>> \in Seq(S) /\ Len(<<a>>) = 1 /\ Once(<<a>>) /\ \A x : Has(<<a>>, x) <=> x = a
<1>1. <<a>> \in Seq(S) /\ Len(<<a>>) = 1 /\ <<a>>[1] = a
  OBVIOUS
<1>2. DOMAIN <<a>> = {1}
  OBVIOUS
<1> QED
  BY <1>1, <1>2 DEF Once, Has

\* A list with one more in front.
LEMMA ConsLemma ==
    ASSUME NEW S, NEW a \in S, NEW s \in Seq(S), Once(s), ~Has(s, a)
    PROVE  /\ <<a>> \o s \in Seq(S) /\ Len(<<a>> \o s) = Len(s) + 1 /\ Once(<<a>> \o s)
           /\ \A x : Has(<<a>> \o s, x) <=> x = a \/ Has(s, x)
<1>1. PICK t \in Seq(S) : t = <<a>> /\ Len(t) = 1 /\ Once(t) /\ \A x : Has(t, x) <=> x = a
  BY SingletonLemma
<1>2. \A x : ~(Has(t, x) /\ Has(s, x))
  BY <1>1
<1>3. /\ t \o s \in Seq(S) /\ Len(t \o s) = Len(t) + Len(s) /\ Once(t \o s)
      /\ \A x : Has(t \o s, x) <=> Has(t, x) \/ Has(s, x)
  BY <1>1, <1>2, ConcatLemma
<1>4. Len(s) \in Nat
  BY LenProperties
<1> QED
  BY <1>1, <1>3, <1>4

LEMMA AppendLemma ==
    ASSUME NEW S, NEW a \in S, NEW s \in Seq(S), Once(s), ~Has(s, a)
    PROVE  /\ Append(s, a) \in Seq(S) /\ Len(Append(s, a)) = Len(s) + 1 /\ Once(Append(s, a))
           /\ \A x : Has(Append(s, a), x) <=> Has(s, x) \/ x = a
<1>1. PICK t \in Seq(S) : t = <<a>> /\ Len(t) = 1 /\ Once(t) /\ \A x : Has(t, x) <=> x = a
  BY SingletonLemma
<1>2. \A x : ~(Has(s, x) /\ Has(t, x))
  BY <1>1
<1>3. /\ s \o t \in Seq(S) /\ Len(s \o t) = Len(s) + Len(t) /\ Once(s \o t)
      /\ \A x : Has(s \o t, x) <=> Has(s, x) \/ Has(t, x)
  BY <1>1, <1>2, ConcatLemma
<1>4. Append(s, a) = s \o t
  BY <1>1, AppendIsConcat
<1> QED
  BY <1>1, <1>3, <1>4

\* UnqueueMessage: all but the one at index k.
LEMMA RemoveLemma ==
    ASSUME NEW S, NEW s \in Seq(S), NEW k \in DOMAIN s, Once(s)
    PROVE  /\ RemoveAt(s, k) \in Seq(S) /\ Len(RemoveAt(s, k)) = Len(s) - 1 /\ Once(RemoveAt(s, k))
           /\ \A x : Has(RemoveAt(s, k), x) <=> Has(s, x) /\ x # s[k]
<1>1. /\ Len(s) \in Nat /\ DOMAIN s = 1 .. Len(s) /\ k \in 1 .. Len(s) /\ k \in Int /\ k - 1 \in Int /\ k + 1 \in Int
      /\ \A i \in 1 .. Len(s) : s[i] \in S
  BY LenProperties
<1>2. PICK a : a = SubSeq(s, 1, k - 1)
  OBVIOUS
<1>3. PICK b : b = SubSeq(s, k + 1, Len(s))
  OBVIOUS
<1>4. a \in Seq(S) /\ Len(a) = k - 1 /\ \A i \in 1 .. k - 1 : a[i] = s[i]
  <2>1. \A i \in 1 .. k - 1 : s[i] \in S
    BY <1>1
  <2>2. /\ a \in Seq(S) /\ Len(a) = (IF 1 <= k - 1 THEN (k - 1) - 1 + 1 ELSE 0)
        /\ \A i \in 1 .. (k - 1) - 1 + 1 : a[i] = s[1 + i - 1]
    BY <1>1, <1>2, <2>1, SubSeqProperties
  <2> QED
    BY <1>1, <2>2
<1>5. b \in Seq(S) /\ Len(b) = Len(s) - k /\ \A i \in 1 .. Len(s) - k : b[i] = s[k + i]
  <2>1. \A i \in k + 1 .. Len(s) : s[i] \in S
    BY <1>1
  <2>2. /\ b \in Seq(S) /\ Len(b) = (IF k + 1 <= Len(s) THEN Len(s) - (k + 1) + 1 ELSE 0)
        /\ \A i \in 1 .. Len(s) - (k + 1) + 1 : b[i] = s[(k + 1) + i - 1]
    BY <1>1, <1>3, <2>1, SubSeqProperties
  <2>3. Len(s) - (k + 1) + 1 = Len(s) - k /\ (k + 1 <= Len(s) \/ Len(s) - k = 0)
    BY <1>1
  <2>4. ASSUME NEW i \in 1 .. Len(s) - k PROVE b[i] = s[k + i]
    <3>1. (k + 1) + i - 1 = k + i
      BY <1>1
    <3> QED
      BY <2>2, <2>3, <3>1
  <2> QED
    BY <2>2, <2>3, <2>4
<1>6. DOMAIN a = 1 .. k - 1 /\ DOMAIN b = 1 .. Len(s) - k
  BY <1>4, <1>5, LenProperties
<1>7. Once(a) /\ Once(b)
  <2>1. Once(a)
    BY <1>1, <1>4, <1>6 DEF Once
  <2>2. Once(b)
    <3> SUFFICES ASSUME NEW i \in 1 .. Len(s) - k, NEW j \in 1 .. Len(s) - k, b[i] = b[j] PROVE i = j
      BY <1>6 DEF Once
    <3>1. k + i \in DOMAIN s /\ k + j \in DOMAIN s /\ s[k + i] = s[k + j]
      BY <1>1, <1>5
    <3>2. k + i = k + j
      BY <3>1 DEF Once
    <3> QED
      BY <1>1, <3>2
  <2> QED
    BY <2>1, <2>2
<1>8. \A x : Has(a, x) <=> \E i \in 1 .. k - 1 : s[i] = x
  BY <1>4, <1>6 DEF Has
<1>9. \A x : Has(b, x) <=> \E i \in k + 1 .. Len(s) : s[i] = x
  <2>1. ASSUME NEW x, Has(b, x) PROVE \E i \in k + 1 .. Len(s) : s[i] = x
    <3>1. PICK i \in 1 .. Len(s) - k : b[i] = x
      BY <1>6, <2>1 DEF Has
    <3>2. k + i \in k + 1 .. Len(s) /\ s[k + i] = x
      BY <1>1, <1>5, <3>1
    <3> QED
      BY <3>2
  <2>2. ASSUME NEW x, NEW i \in k + 1 .. Len(s), s[i] = x PROVE Has(b, x)
    <3>1. i - k \in 1 .. Len(s) - k /\ b[i - k] = s[k + (i - k)] /\ k + (i - k) = i
      BY <1>1, <1>5
    <3> QED
      BY <1>6, <2>2, <3>1 DEF Has
  <2> QED
    BY <2>1, <2>2
<1>10. \A x : ~(Has(a, x) /\ Has(b, x))
  <2> SUFFICES ASSUME NEW x, Has(a, x), Has(b, x) PROVE FALSE
    OBVIOUS
  <2>1. PICK i \in 1 .. k - 1 : s[i] = x
    BY <1>8
  <2>2. PICK j \in k + 1 .. Len(s) : s[j] = x
    BY <1>9
  <2>3. i \in DOMAIN s /\ j \in DOMAIN s /\ i # j
    BY <1>1
  <2> QED
    BY <2>1, <2>2, <2>3 DEF Once
<1>11. RemoveAt(s, k) = a \o b
  BY <1>2, <1>3 DEF RemoveAt
<1>12. \A x : Has(a, x) \/ Has(b, x) <=> Has(s, x) /\ x # s[k]
  <2>1. ASSUME NEW x, Has(a, x) \/ Has(b, x) PROVE Has(s, x) /\ x # s[k]
    <3>1. PICK i \in 1 .. Len(s) : s[i] = x /\ i # k
      BY <1>1, <1>8, <1>9, <2>1
    <3> QED
      BY <1>1, <3>1 DEF Has, Once
  <2>2. ASSUME NEW x, Has(s, x), x # s[k] PROVE Has(a, x) \/ Has(b, x)
    <3>1. PICK i \in 1 .. Len(s) : s[i] = x /\ i # k
      BY <1>1, <2>2 DEF Has
    <3>2. i \in 1 .. k - 1 \/ i \in k + 1 .. Len(s)
      BY <1>1, <3>1
    <3> QED
      BY <1>8, <1>9, <3>1, <3>2
  <2> QED
    BY <2>1, <2>2
<1>13. /\ a \o b \in Seq(S) /\ Len(a \o b) = Len(a) + Len(b) /\ Once(a \o b)
       /\ \A x : Has(a \o b, x) <=> Has(a, x) \/ Has(b, x)
  BY <1>4, <1>5, <1>7, <1>10, ConcatLemma
<1>14. Len(a) + Len(b) = Len(s) - 1
  BY <1>1, <1>4, <1>5
<1> QED
  BY <1>11, <1>12, <1>13, <1>14

LEMMA ReverseLemma ==
    ASSUME NEW S, NEW s \in Seq(S), Once(s)
    PROVE  /\ Reverse(s) \in Seq(S) /\ Len(Reverse(s)) = Len(s) /\ Once(Reverse(s))
           /\ \A x : Has(Reverse(s), x) <=> Has(s, x)
<1> DEFINE t == Reverse(s)
<1>1. Len(s) \in Nat /\ DOMAIN s = 1 .. Len(s) /\ \A i \in 1 .. Len(s) : s[i] \in S
  BY LenProperties
<1>2. \A i \in 1 .. Len(s) : (Len(s) - i) + 1 \in 1 .. Len(s) /\ (Len(s) - ((Len(s) - i) + 1)) + 1 = i
  BY <1>1
<1>3. t = [i \in 1 .. Len(s) |-> s[(Len(s) - i) + 1]]
  BY DEF Reverse
<1> HIDE DEF t
<1>4. DOMAIN t = 1 .. Len(s) /\ \A i \in 1 .. Len(s) : t[i] = s[(Len(s) - i) + 1] /\ t[i] \in S
  BY <1>1, <1>2, <1>3
<1>5. t \in Seq(S) /\ Len(t) = Len(s)
  BY <1>1, <1>3, <1>4
<1>6. Once(t)
  <2> SUFFICES ASSUME NEW i \in 1 .. Len(s), NEW j \in 1 .. Len(s), t[i] = t[j] PROVE i = j
    BY <1>4 DEF Once
  <2>1. (Len(s) - i) + 1 = (Len(s) - j) + 1
    BY <1>1, <1>2, <1>4 DEF Once
  <2> QED
    BY <1>1, <2>1
<1>7. ASSUME NEW x, Has(t, x) PROVE Has(s, x)
  BY <1>1, <1>2, <1>4, <1>7 DEF Has
<1>8. ASSUME NEW x, Has(s, x) PROVE Has(t, x)
  <2>1. PICK i \in 1 .. Len(s) : s[i] = x
    BY <1>1, <1>8 DEF Has
  <2>2. t[(Len(s) - i) + 1] = s[(Len(s) - ((Len(s) - i) + 1)) + 1]
    BY <1>2, <1>4
  <2> QED
    BY <1>2, <1>4, <2>1, <2>2 DEF Has
<1> QED
  BY <1>5, <1>6, <1>7, <1>8 DEF t

-----------------------------------------------------------------------------
(* The buffers of a command's callback list.                               *)

Waiting == [buf : Buffers, page : Pages]

LEMMA NamedLemma ==
    ASSUME NEW bufs \in Seq(Waiting)
    PROVE  /\ Named(bufs) \in Seq(Buffers) /\ Len(Named(bufs)) = Len(bufs)
           /\ \A i \in 1 .. Len(bufs) : Named(bufs)[i] = bufs[i].buf
           /\ (Named(bufs) = <<>> <=> bufs = <<>>)
<1>1. Len(bufs) \in Nat /\ \A i \in 1 .. Len(bufs) : bufs[i] \in Waiting
  BY LenProperties
<1>2. \A i \in 1 .. Len(bufs) : bufs[i].buf \in Buffers
  BY <1>1 DEF Waiting
<1>3. Named(bufs) \in Seq(Buffers) /\ Len(Named(bufs)) = Len(bufs)
  BY <1>1, <1>2 DEF Named
<1>4. \A i \in 1 .. Len(bufs) : Named(bufs)[i] = bufs[i].buf
  BY DEF Named
<1>5. Named(bufs) = <<>> <=> bufs = <<>>
  BY <1>1, <1>3, EmptySeq
<1> QED
  BY <1>3, <1>4, <1>5

LEMMA NamedEmpty == Named(<<>>) = <<>>
<1>1. <<>> \in Seq(Waiting)
  BY EmptySeq
<1> QED
  BY <1>1, NamedLemma

LEMMA NamedTail ==
    ASSUME NEW bufs \in Seq(Waiting), bufs # <<>>
    PROVE  /\ Head(bufs) \in Waiting /\ Head(bufs).buf = Head(Named(bufs)) /\ Head(bufs) = bufs[1]
           /\ Named(Tail(bufs)) = Tail(Named(bufs))
<1>1. PICK t \in Seq(Waiting) : t = Tail(bufs) /\ Len(t) = Len(bufs) - 1 /\ \A i \in 1 .. Len(t) : t[i] = bufs[i + 1]
  BY HeadTailProperties
<1>2. Head(bufs) \in Waiting /\ Head(bufs) = bufs[1] /\ Len(bufs) \in Nat \ {0}
  BY HeadTailProperties, EmptySeq
<1>3. PICK n \in Seq(Buffers) : /\ n = Named(bufs) /\ Len(n) = Len(bufs) /\ n # <<>>
                                /\ \A i \in 1 .. Len(bufs) : n[i] = bufs[i].buf
  BY NamedLemma
<1>4. Head(n) = n[1] /\ Tail(n) \in Seq(Buffers) /\ Len(Tail(n)) = Len(n) - 1 /\ \A i \in 1 .. Len(Tail(n)) : Tail(n)[i] = n[i + 1]
  BY <1>3, HeadTailProperties
<1>5. PICK u \in Seq(Buffers) : u = Named(t) /\ Len(u) = Len(t) /\ \A i \in 1 .. Len(t) : u[i] = t[i].buf
  BY NamedLemma
<1>6. \A i \in 1 .. Len(bufs) - 1 : i + 1 \in 1 .. Len(bufs)
  BY <1>2
<1>7. \A i \in 1 .. Len(u) : u[i] = Tail(n)[i]
  BY <1>1, <1>3, <1>4, <1>5, <1>6
<1>8. u = Tail(n)
  BY <1>1, <1>3, <1>4, <1>5, <1>7, SeqEqual
<1>9. 1 \in 1 .. Len(bufs)
  BY <1>2
<1> QED
  BY <1>1, <1>2, <1>3, <1>4, <1>5, <1>8, <1>9

LEMMA NamedAppend ==
    ASSUME NEW bufs \in Seq(Waiting), NEW r \in Waiting
    PROVE  Named(Append(bufs, r)) = Append(Named(bufs), r.buf)
<1>1. PICK t \in Seq(Waiting) : /\ t = Append(bufs, r) /\ Len(t) = Len(bufs) + 1
                                /\ \A i \in 1 .. Len(bufs) : t[i] = bufs[i]
                                /\ t[Len(bufs) + 1] = r
  BY AppendProperties
<1>2. Len(bufs) \in Nat /\ r.buf \in Buffers
  BY LenProperties DEF Waiting
<1>3. PICK n \in Seq(Buffers) : n = Named(bufs) /\ Len(n) = Len(bufs) /\ \A i \in 1 .. Len(bufs) : n[i] = bufs[i].buf
  BY NamedLemma
<1>4. PICK u \in Seq(Buffers) : u = Named(t) /\ Len(u) = Len(t) /\ \A i \in 1 .. Len(t) : u[i] = t[i].buf
  BY NamedLemma
<1>5. PICK a \in Seq(Buffers) : /\ a = Append(n, r.buf) /\ Len(a) = Len(n) + 1
                                /\ \A i \in 1 .. Len(n) : a[i] = n[i]
                                /\ a[Len(n) + 1] = r.buf
  BY <1>2, AppendProperties
<1>6. \A i \in 1 .. Len(u) : u[i] = a[i]
  <2> SUFFICES ASSUME NEW i \in 1 .. Len(bufs) + 1 PROVE u[i] = a[i]
    BY <1>1, <1>4
  <2>1. CASE i = Len(bufs) + 1
    BY <1>1, <1>3, <1>4, <1>5, <2>1
  <2>2. CASE i # Len(bufs) + 1
    <3>1. i \in 1 .. Len(bufs)
      BY <1>2, <2>2
    <3> QED
      BY <1>1, <1>3, <1>4, <1>5, <3>1
  <2> QED
    BY <2>1, <2>2
<1>7. u = a
  BY <1>1, <1>3, <1>4, <1>5, <1>6, SeqEqual
<1> QED
  BY <1>1, <1>3, <1>4, <1>5, <1>7

-----------------------------------------------------------------------------
(* What the steps of ProcessMessageData have in common.                    *)

Statuses == {"none", "IN_PROGRESS", "DONE", "FAILED_TO_QUEUE"}
Message == [status : Statuses, fd : 0 .. MAX_OPEN_FILES, bufs : Seq(Waiting), offset : Nat,
            length : Nat, length_to_copy : Nat, done : Nat]
Stacks == [Priorities -> Seq(Cmds)]

\* The type invariant, taken apart.
LEMMA Types ==
    ASSUME TypeOK
    PROVE  /\ iso_mbx \in Seq(Cmds) /\ gPriStack \in Stacks /\ msg \in [Cmds -> Message]
           /\ sFreeBuffer \in Seq(Buffers) /\ sLoadStack \in [Slots -> [fr : Cmds \cup {NoCmd}, location : Nat]]
           /\ read \in [cmd : Cmds \cup {NoCmd}, buf : 0 .. N_BUFFERS, page : Pages]
           /\ cursor \in [pri : Priorities, idx : 0 .. PRI_STACK_LENGTH]
           /\ client \in [Cmds -> {"idle", "waiting", "returned"}] /\ mem \in [Cmds -> Seq(Pages)]
           /\ \A p \in Priorities : Len(gPriStack[p]) <= PRI_STACK_LENGTH
BY DEF TypeOK, Stacks, Message, Waiting, Statuses

LEMMA Sizes ==
    /\ Priorities = {0, 1, 2, 3}
    /\ N_BUFFERS \in Nat \ {0} /\ N_BUFFERS >= 4
    /\ PRI_STACK_LENGTH \in Nat \ {0} /\ MAX_OPEN_FILES \in Nat \ {0} /\ MAX_OPEN_FILES > PRI_STACK_LENGTH
    /\ 0 \notin Buffers /\ 0 \notin Slots
    /\ NoCmd \notin Cmds
    /\ FileLen \in [Cmds -> Nat \ {0}] /\ \A c \in Cmds : PriorityOf(c) \in Priorities
BY IsoAssumption DEF Priorities, N_PRIORITIES, Buffers, Slots, PriorityOf

\* Only the stacks of the priorities 0 and 2 are used.
LEMMA Kinds ==
    ASSUME NEW c \in Cmds
    PROVE  /\ c \in Loading => c \in Singles \/ KindOf[c] = "dgo"
           /\ c \in Singles => KindOf[c] \in {"ee", "iop"} /\ PriorityOf(c) = 2 /\ c \in Loading
           /\ KindOf[c] = "dgo" => PriorityOf(c) = 0 /\ c \notin Singles /\ c \in Loading
           /\ c \notin Singles /\ c \in Loading => KindOf[c] = "dgo"
           /\ \A d \in Cmds : KindOf[c] = "dgo" /\ KindOf[d] = "dgo" => c = d
BY IsoAssumption DEF Singles, Loading, PriorityOf

\* ProcessFrom(p): the newest command of the highest priority in use.
LEMMA ProcessFromLemma ==
    ASSUME NEW p \in -1 .. 3, NEW stack, ProcessFrom(p, stack)
    PROVE  \/ /\ pc' = "sync" /\ cursor' = [pri |-> 0, idx |-> 0]
              /\ \A q \in 0 .. p : stack[q] = <<>>
           \/ /\ pc' = "process"
              /\ \E q \in 0 .. p : /\ stack[q] # <<>> /\ cursor' = [pri |-> q, idx |-> Len(stack[q])]
                                   /\ \A r \in q + 1 .. p : stack[r] = <<>>
<1> DEFINE busy == {q \in 0 .. p : stack[q] # <<>>}
<1>1. CASE busy = {}
  BY <1>1 DEF ProcessFrom
<1>2. CASE busy # {}
  <2>1. \E q \in busy : \A r \in busy : q >= r
    <3>1. busy \subseteq {0, 1, 2, 3}
      OBVIOUS
    <3> HIDE DEF busy
    <3>2. CASE 3 \in busy
      BY <3>1, <3>2
    <3>3. CASE 3 \notin busy /\ 2 \in busy
      BY <3>1, <3>3
    <3>4. CASE 3 \notin busy /\ 2 \notin busy /\ 1 \in busy
      BY <3>1, <3>4
    <3>5. CASE 3 \notin busy /\ 2 \notin busy /\ 1 \notin busy
      <4>1. PICK r : r \in busy
        BY <1>2
      <4>2. 0 \in busy /\ \A q \in busy : q = 0
        BY <3>1, <3>5, <4>1
      <4> QED
        BY <4>2
    <3> QED
      BY <3>2, <3>3, <3>4, <3>5
  <2>2. Max(busy) \in busy /\ \A r \in busy : Max(busy) >= r
    <3> HIDE DEF busy
    <3> QED
      BY <2>1 DEF Max
  <2>3. PICK q : q = Max(busy)
    OBVIOUS
  <2>4. q \in 0 .. p /\ stack[q] # <<>> /\ \A r \in q + 1 .. p : stack[r] = <<>>
    <3>1. q \in 0 .. p /\ stack[q] # <<>>
      BY <2>2, <2>3
    <3>2. ASSUME NEW r \in q + 1 .. p PROVE stack[r] = <<>>
      <4>1. r \in 0 .. p /\ ~(q >= r)
        BY <3>1
      <4> QED
        BY <2>2, <2>3, <4>1
    <3> QED
      BY <3>1, <3>2
  <2>5. pc' = "process" /\ cursor' = [pri |-> q, idx |-> Len(stack[q])]
    BY <1>2, <2>3 DEF ProcessFrom
  <2> QED
    BY <2>4, <2>5
<1> QED
  BY <1>1, <1>2

\* The lists of the commands that hold buffers, after a step.
SinglesEmpty == \A c \in Singles : msg[c].bufs = <<>>
HoldersInv ==
    /\ \A c \in Cmds : Len(msg[c].bufs) <= 2
    /\ \A c \in Singles : Len(msg[c].bufs) <= 1
    /\ \A c, d \in Singles : msg[c].bufs # <<>> /\ msg[d].bufs # <<>> => c = d
PlaceInv ==
    /\ pc = "sync" => SinglesEmpty
    /\ pc = "process" =>
          /\ cursor.idx \in DOMAIN gPriStack[cursor.pri]
          /\ \A c \in Singles : msg[c].bufs # <<>> =>
                cursor.pri = 2 /\ \E i \in 1 .. cursor.idx : gPriStack[2][i] = c

LEMMA CursorParts == CursorInv <=> HoldersInv /\ PlaceInv
BY DEF CursorInv, HoldersInv, PlaceInv, SinglesEmpty

\* A pass begins, or goes on when no single load has a buffer any more.
LEMMA PlaceLemma ==
    ASSUME NEW p \in -1 .. 3, ProcessFrom(p, gPriStack'), gPriStack' \in Stacks,
           \A q \in Priorities : Len(gPriStack'[q]) <= PRI_STACK_LENGTH,
           SinglesEmpty' \/ (p = 3 /\ gPriStack'[3] = <<>> /\ \A c \in Singles : msg'[c].bufs # <<>> => Has(gPriStack'[2], c))
    PROVE  PlaceInv' /\ pc' \in {"sync", "process"} /\ cursor' \in [pri : Priorities, idx : 0 .. PRI_STACK_LENGTH]
<1> DEFINE G == gPriStack'
<1>1. \A q \in {0, 1, 2, 3} : G[q] \in Seq(Cmds) /\ Len(G[q]) \in Nat /\ Len(G[q]) <= PRI_STACK_LENGTH /\ DOMAIN G[q] = 1 .. Len(G[q])
                              /\ (G[q] # <<>> => Len(G[q]) # 0)
  <2> SUFFICES ASSUME NEW q \in {0, 1, 2, 3} PROVE G[q] \in Seq(Cmds) /\ Len(G[q]) <= PRI_STACK_LENGTH
    BY LenProperties, EmptySeq
  <2> QED
    BY Sizes DEF Stacks
<1> HIDE DEF G
<1>2. CASE pc' = "sync" /\ cursor' = [pri |-> 0, idx |-> 0] /\ \A q \in 0 .. p : G[q] = <<>>
  <2>1. SinglesEmpty'
    <3>1. CASE p = 3 /\ \A c \in Singles : msg'[c].bufs # <<>> => Has(G[2], c)
      <4>1. G[2] = <<>>
        BY <1>2, <3>1
      <4>2. \A c : ~Has(G[2], c)
        BY <4>1, EmptyLemma
      <4> QED
        BY <3>1, <4>2 DEF SinglesEmpty
    <3> QED
      BY <3>1 DEF G
  <2> QED
    BY <1>2, <2>1, Sizes DEF PlaceInv
<1>3. CASE /\ pc' = "process"
           /\ \E q \in 0 .. p : /\ G[q] # <<>> /\ cursor' = [pri |-> q, idx |-> Len(G[q])]
                                /\ \A r \in q + 1 .. p : G[r] = <<>>
  <2>1. PICK q \in 0 .. p : /\ G[q] # <<>> /\ cursor' = [pri |-> q, idx |-> Len(G[q])]
                            /\ \A r \in q + 1 .. p : G[r] = <<>>
    BY <1>3
  <2>2. q \in {0, 1, 2, 3} /\ Len(G[q]) \in 1 .. PRI_STACK_LENGTH
    <3>1. q \in {0, 1, 2, 3}
      OBVIOUS
    <3>2. Len(G[q]) \in Nat /\ Len(G[q]) <= PRI_STACK_LENGTH /\ Len(G[q]) # 0
      BY <1>1, <2>1, <3>1
    <3> QED
      BY <3>1, <3>2, Sizes
  <2>3. cursor'.pri = q /\ cursor'.idx = Len(G[q]) /\ cursor' \in [pri : Priorities, idx : 0 .. PRI_STACK_LENGTH]
    BY <2>1, <2>2, Sizes
  <2>4. cursor'.idx \in DOMAIN G[cursor'.pri]
    BY <1>1, <2>2, <2>3
  <2>5. ASSUME NEW c \in Singles, msg'[c].bufs # <<>>
        PROVE  cursor'.pri = 2 /\ \E i \in 1 .. cursor'.idx : G[2][i] = c
    <3>1. p = 3 /\ G[3] = <<>> /\ Has(G[2], c)
      BY <2>5 DEF SinglesEmpty, G
    <3>2. PICK i \in 1 .. Len(G[2]) : G[2][i] = c
      BY <1>1, <3>1 DEF Has
    <3>3. G[2] # <<>>
      BY <1>1, <3>1, EmptyLemma
    <3>4. q = 2
      BY <2>1, <2>2, <3>1, <3>3
    <3> QED
      BY <2>3, <3>2, <3>4
  <2> QED
    BY <1>3, <2>3, <2>4, <2>5 DEF PlaceInv, G
<1> QED
  BY <1>2, <1>3, ProcessFromLemma DEF G

-----------------------------------------------------------------------------
(* Init, and the steps that only move the program counter.                 *)

LEMMA InitInv == Init => IsoInv
<1> SUFFICES ASSUME Init PROVE IsoInv
  OBVIOUS
<1>1. \A S : <<>> \in Seq(S)
  BY EmptySeq
<1>2. /\ \A c : ~Has(<<>>, c)
      /\ Once(<<>>) /\ Len(<<>>) = 0 /\ Named(<<>>) = <<>> /\ DOMAIN <<>> = {}
  BY EmptyLemma, NamedEmpty
<1>3. \A c \in Cmds : /\ msg[c] = FreshMsg /\ msg[c].status = "none" /\ msg[c].bufs = <<>> /\ msg[c].fd = 0
                      /\ ~InMailbox(c) /\ ~IsQueued(c) /\ client[c] = "idle" /\ mem[c] = <<>>
  BY <1>2, Sizes DEF Init, FreshMsg, InMailbox, IsQueued
<1>4. sFreeBuffer \in Seq(Buffers) /\ DOMAIN sFreeBuffer = Buffers /\ \A b \in Buffers : sFreeBuffer[b] = b
  BY Sizes DEF Init, Buffers
<1>5. read = NoRead /\ read.buf = 0 /\ read.cmd = NoCmd /\ ~read_in_progress /\ pc = "receive"
  BY DEF Init, NoRead
<1>6. TypeOK
  <2>1. FreshMsg \in Message
    <3>1. <<>> \in Seq(Waiting)
      BY <1>1
    <3> QED
      BY <3>1, Sizes DEF FreshMsg, Message, Statuses
  <2>2. NoPage \in Pages
    BY DEF NoPage, Pages
  <2>3. read \in [cmd : Cmds \cup {NoCmd}, buf : 0 .. N_BUFFERS, page : Pages]
    BY <2>2, Sizes DEF Init, NoRead
  <2>4. sLoadStack \in [Slots -> [fr : Cmds \cup {NoCmd}, location : Nat]]
    BY DEF Init, Closed
  <2>5. gPriStack \in [Priorities -> Seq(Cmds)] /\ \A p \in Priorities : Len(gPriStack[p]) <= PRI_STACK_LENGTH
    BY <1>1, <1>2, Sizes DEF Init
  <2>6. msg \in [Cmds -> Message] /\ mem \in [Cmds -> Seq(Pages)] /\ iso_mbx \in Seq(Cmds)
    BY <1>1, <2>1 DEF Init
  <2>7. cursor \in [pri : Priorities, idx : 0 .. PRI_STACK_LENGTH]
    BY Sizes DEF Init
  <2>8. read_in_progress \in BOOLEAN /\ wantExit \in BOOLEAN
    BY DEF Init
  <2>9. client \in [Cmds -> {"idle", "waiting", "returned"}]
    BY DEF Init
  <2> QED
    BY <1>4, <1>5, <2>3, <2>4, <2>5, <2>6, <2>7, <2>8, <2>9 DEF TypeOK, Message, Waiting, Statuses
<1>7. NeverStuck
  BY <1>5 DEF NeverStuck
<1>8. QueueInv
  BY <1>2, <1>3 DEF QueueInv, Init
<1>9. MessageInv
  BY <1>3 DEF MessageInv, MessageOf
<1>10. FilesInv
  BY <1>3, Sizes DEF FilesInv, Init, Closed
<1>11. ReadInv
  BY <1>5 DEF ReadInv
<1>12. BufferInv
  <2>1. Once(sFreeBuffer) /\ \A b \in Buffers : InFreeList(b)
    BY <1>4 DEF Once, InFreeList, Has
  <2>2. \A b \in Buffers : ~InRead(b) /\ \A c \in Cmds : ~HeldBy(b, c)
    BY <1>2, <1>3, <1>5, Sizes DEF InRead, HeldBy
  <2>3. \A c \in Cmds : Once(Named(msg[c].bufs))
    BY <1>2, <1>3
  <2> QED
    BY <2>1, <2>2, <2>3 DEF BufferInv
<1>13. CursorInv
  <2>1. \A c \in Cmds : msg[c].bufs = <<>> /\ Len(msg[c].bufs) = 0
    BY <1>2, <1>3
  <2>2. Singles \subseteq Cmds
    BY DEF Singles
  <2> QED
    BY <1>5, <2>1, <2>2 DEF CursorInv
<1>14. OrderInv
  <2>1. Singles \subseteq Cmds
    BY DEF Singles
  <2> QED
    BY <1>2, <1>3, <2>1 DEF OrderInv, OrderOf, PagesCopied
<1> QED
  BY <1>6, <1>7, <1>8, <1>9, <1>10, <1>11, <1>12, <1>13, <1>14 DEF IsoInv

\* What the invariants other than the type invariant look at, apart from pc.
watched == <<iso_mbx, gPriStack, msg, sFreeBuffer, sLoadStack, read_in_progress, read, client, mem>>

LEMMA QuietStep ==
    ASSUME IsoInv, UNCHANGED <<watched, cursor>>, read = NoRead, wantExit' \in BOOLEAN,
           pc' \in {"receive", "begin", "delay", "exit"}
    PROVE  IsoInv'
<1>1. TypeOK'
  BY DEF IsoInv, TypeOK, watched
<1>2. NeverStuck'
  BY DEF NeverStuck
<1>3. \A c : (InMailbox(c)' <=> InMailbox(c)) /\ (IsQueued(c)' <=> IsQueued(c))
  BY DEF watched, InMailbox, IsQueued
<1>4. QueueInv'
  BY <1>3 DEF IsoInv, QueueInv, watched
<1>5. MessageInv'
  BY <1>3 DEF IsoInv, MessageInv, MessageOf, watched
<1>6. FilesInv'
  BY <1>3 DEF IsoInv, FilesInv, watched
<1>7. ReadInv'
  BY <1>3 DEF IsoInv, ReadInv, watched
<1>8. BufferInv'
  BY DEF IsoInv, BufferInv, InFreeList, HeldBy, InRead, watched
<1>9. CursorInv'
  BY DEF IsoInv, CursorInv, watched
<1>10. OrderInv'
  BY <1>3 DEF IsoInv, OrderInv, OrderOf, PagesCopied, PagesToCome, PageFits, Progress, Copied, Location, LengthToCopy, watched
<1> QED
  BY <1>1, <1>2, <1>4, <1>5, <1>6, <1>7, <1>8, <1>9, <1>10 DEF IsoInv

-----------------------------------------------------------------------------
(* Receiving.                                                              *)

\* Sixteen files are enough for a priority stack and the DGO: a queue that
\* has room leaves a slot of sLoadStack free.
LEMMA SlotLemma ==
    ASSUME IsoInv, NEW c \in Loading, ~IsQueued(c), ~QueueFull(PriorityOf(c))
    PROVE  FreeSlots # {}
<1> SUFFICES ASSUME FreeSlots = {} PROVE FALSE
  OBVIOUS
<1> DEFINE o(s) == sLoadStack[s].fr
<1> DEFINE g == gPriStack[2]
<1>1. TypeOK /\ QueueInv /\ FilesInv /\ c \in Cmds
  BY DEF IsoInv, Loading
<1>2. g \in Seq(Cmds) /\ Len(g) \in Nat /\ Len(g) <= PRI_STACK_LENGTH /\ DOMAIN g = 1 .. Len(g)
  <2>1. g \in Seq(Cmds) /\ Len(g) <= PRI_STACK_LENGTH
    BY <1>1, Types, Sizes DEF Stacks
  <2> QED
    BY <2>1, LenProperties
<1>3. \A s \in Slots : o(s) \in Cmds /\ IsQueued(o(s)) /\ msg[o(s)].fd = s
  <2> SUFFICES ASSUME NEW s \in Slots PROVE o(s) \in Cmds /\ IsQueued(o(s)) /\ msg[o(s)].fd = s
    OBVIOUS
  <2>1. o(s) # NoCmd
    BY DEF FreeSlots
  <2>2. o(s) \in Cmds \cup {NoCmd}
    BY <1>1, Types
  <2> QED
    BY <1>1, <2>1, <2>2 DEF FilesInv
<1>4. ASSUME NEW s \in Slots
      PROVE  (KindOf[o(s)] = "dgo" /\ o(s) # c) \/ \E i \in DOMAIN g : g[i] = o(s)
  <2>1. PICK d \in Cmds : d = o(s)
    BY <1>3
  <2>2. PICK i \in DOMAIN gPriStack[PriorityOf(d)] : gPriStack[PriorityOf(d)][i] = d
    BY <1>3, <2>1 DEF IsQueued, Has
  <2>3. d \in Loading /\ d # c
    <3>1. PriorityOf(d) \in Priorities
      BY Sizes
    <3> QED
      BY <1>1, <1>3, <2>1, <2>2, <3>1 DEF QueueInv
  <2>4. CASE d \in Singles
    BY <2>1, <2>2, <2>4, Kinds
  <2>5. CASE KindOf[d] = "dgo"
    BY <2>1, <2>3, <2>5
  <2> QED
    BY <2>3, <2>4, <2>5, Kinds
<1>5. \A s \in Slots : KindOf[o(s)] = "dgo" => Len(g) < PRI_STACK_LENGTH
  <2> SUFFICES ASSUME NEW s \in Slots, KindOf[o(s)] = "dgo" PROVE Len(g) < PRI_STACK_LENGTH
    OBVIOUS
  <2>1. PICK d \in Cmds : d = o(s)
    BY <1>3
  <2>2. d # c
    BY <1>3, <2>1
  <2>3. c \in Singles
    BY <1>1, <2>1, <2>2, Kinds
  <2>4. PriorityOf(c) = 2
    BY <1>1, <2>3, Kinds
  <2> QED
    BY <1>2, <2>4, Sizes DEF QueueFull
<1> DEFINE f == [s \in Slots |-> IF KindOf[o(s)] = "dgo" THEN PRI_STACK_LENGTH
                                 ELSE CHOOSE i \in DOMAIN g : g[i] = o(s)]
<1>6. ASSUME NEW s \in Slots
      PROVE  /\ KindOf[o(s)] = "dgo" => f[s] = PRI_STACK_LENGTH
             /\ KindOf[o(s)] # "dgo" => f[s] \in DOMAIN g /\ g[f[s]] = o(s)
             /\ f[s] \in 1 .. PRI_STACK_LENGTH
  <2>1. KindOf[o(s)] # "dgo" => f[s] \in DOMAIN g /\ g[f[s]] = o(s)
    BY <1>4
  <2>2. KindOf[o(s)] = "dgo" => f[s] = PRI_STACK_LENGTH
    OBVIOUS
  <2> HIDE DEF f, g, o
  <2> QED
    BY <1>2, <2>1, <2>2, Sizes
<1>7. f \in [Slots -> 1 .. PRI_STACK_LENGTH]
  BY <1>6
<1>8. IsFiniteSet(Slots) /\ Cardinality(Slots) = MAX_OPEN_FILES
  BY FS_Interval, Sizes DEF Slots
<1>9. IsFiniteSet(1 .. PRI_STACK_LENGTH) /\ Cardinality(1 .. PRI_STACK_LENGTH) = PRI_STACK_LENGTH
  BY FS_Interval, Sizes
<1> HIDE DEF f
<1>10. PICK s \in Slots, t \in Slots : s # t /\ f[s] = f[t]
  <2>1. Cardinality(1 .. PRI_STACK_LENGTH) < Cardinality(Slots)
    BY <1>8, <1>9, Sizes
  <2> QED
    BY <1>7, <1>8, <1>9, <2>1, FS_PigeonHole
<1>11. o(s) # o(t)
  BY <1>3, <1>10
<1>12. CASE KindOf[o(s)] = "dgo" /\ KindOf[o(t)] = "dgo"
  <2>1. o(s) \in Cmds /\ o(t) \in Cmds
    BY <1>3
  <2> HIDE DEF o
  <2> QED
    BY <1>11, <1>12, <2>1, Kinds
<1>13. CASE KindOf[o(s)] # "dgo" /\ KindOf[o(t)] # "dgo"
  BY <1>6, <1>10, <1>11, <1>13
<1>14. CASE KindOf[o(s)] = "dgo" /\ KindOf[o(t)] # "dgo"
  <2>1. Len(g) < PRI_STACK_LENGTH /\ f[s] = PRI_STACK_LENGTH /\ f[t] \in DOMAIN g
    BY <1>5, <1>6, <1>14
  <2> QED
    BY <1>2, <1>10, <2>1, Sizes
<1>15. CASE KindOf[o(s)] # "dgo" /\ KindOf[o(t)] = "dgo"
  <2>1. Len(g) < PRI_STACK_LENGTH /\ f[t] = PRI_STACK_LENGTH /\ f[s] \in DOMAIN g
    BY <1>5, <1>6, <1>15
  <2> QED
    BY <1>2, <1>10, <2>1, Sizes
<1> QED
  BY <1>12, <1>13, <1>14, <1>15

LEMMA MinLemma ==
    ASSUME NEW T \in SUBSET Nat, T # {}
    PROVE  \E i \in T : \A j \in T : i <= j
<1>1. PICK i \in T : \A j \in T : ~ (<<j, i>> \in OpToRel(<, Nat))
  BY WFMin, NatLessThanWellFounded
<1>2. \A j \in Nat : j < i => <<j, i>> \in OpToRel(<, Nat)
  BY Zenon DEF OpToRel
<1>3. \A j \in T : ~(j < i)
  BY <1>1, <1>2
<1> QED
  BY <1>3

LEMMA FirstFreeLemma ==
    ASSUME FreeSlots # {}
    PROVE  FirstFree \in Slots /\ sLoadStack[FirstFree].fr = NoCmd
<1>1. FreeSlots \in SUBSET Nat
  BY Sizes DEF FreeSlots, Slots
<1>2. \E s \in FreeSlots : \A t \in FreeSlots : s <= t
  BY <1>1, MinLemma
<1>3. FirstFree \in FreeSlots
  BY <1>2 DEF FirstFree
<1> QED
  BY <1>3 DEF FreeSlots

-----------------------------------------------------------------------------
(* A step that changes one command.                                        *)

Msg(s, f, b, o, l, k, n) ==
    [status |-> s, fd |-> f, bufs |-> b, offset |-> o, length |-> l, length_to_copy |-> k, done |-> n]

LEMMA MsgType ==
    ASSUME NEW s \in Statuses, NEW f \in 0 .. MAX_OPEN_FILES, NEW b \in Seq(Waiting),
           NEW o \in Nat, NEW l \in Nat, NEW k \in Nat, NEW n \in Nat
    PROVE  Msg(s, f, b, o, l, k, n) \in Message
BY DEF Message, Msg

LEMMA Fields ==
    ASSUME NEW m \in Message
    PROVE  /\ m.status \in Statuses /\ m.fd \in 0 .. MAX_OPEN_FILES /\ m.bufs \in Seq(Waiting)
           /\ m.offset \in Nat /\ m.length \in Nat /\ m.length_to_copy \in Nat /\ m.done \in Nat
BY DEF Message

\* The order of the pages of a load that the step does not touch.
LEMMA OrderFrame ==
    ASSUME TypeOK, NEW d \in Cmds, OrderOf(d), msg'[d] = msg[d], mem'[d] = mem[d], client'[d] = client[d],
           IsQueued(d)' <=> IsQueued(d), InMailbox(d)' => InMailbox(d),
           IsQueued(d) => sLoadStack'[msg[d].fd] = sLoadStack[msg[d].fd],
           read' = read \/ read'.cmd # d
    PROVE  OrderOf(d)'
<1>1. PagesCopied(d)'
  BY DEF OrderOf, PagesCopied
<1>2. ASSUME IsQueued(d) PROVE PagesToCome(d)' /\ Progress(d)'
  <2>1. PagesToCome(d) /\ Progress(d) /\ Location(d)' = Location(d)
    BY <1>2 DEF OrderOf, Location
  <2>2. \A page : PageFits(d, page) => PageFits(d, page)'
    BY <2>1 DEF PageFits
  <2>3. PagesToCome(d)'
    BY <2>1, <2>2 DEF PagesToCome
  <2> QED
    BY <2>1, <2>3 DEF Progress, LengthToCopy
<1>3. Copied(d) => Copied(d)'
  BY DEF Copied, LengthToCopy
<1> QED
  BY <1>1, <1>2, <1>3 DEF OrderOf

\* A command that leaves the mailbox.
LEMMA TakeLemma ==
    ASSUME IsoInv, iso_mbx # <<>>, NEW c, c = Head(iso_mbx), NEW mbx, mbx = Tail(iso_mbx)
    PROVE  /\ c \in Cmds /\ mbx \in Seq(Cmds) /\ Once(mbx)
           /\ InMailbox(c) /\ \A d : Has(mbx, d) <=> InMailbox(d) /\ d # c
           /\ ~IsQueued(c) /\ msg[c].status = "none" /\ msg[c].bufs = <<>> /\ msg[c].fd = 0
           /\ client[c] = "waiting"
<1>1. TypeOK /\ QueueInv /\ MessageInv
  BY DEF IsoInv
<1>2. iso_mbx \in Seq(Cmds) /\ Once(iso_mbx)
  BY <1>1, Types DEF QueueInv
<1>3. /\ c \in Cmds /\ mbx \in Seq(Cmds) /\ Once(mbx) /\ InMailbox(c)
      /\ \A d : Has(mbx, d) <=> InMailbox(d) /\ d # c
  BY <1>2, TailLemma DEF InMailbox
<1> QED
  BY <1>1, <1>3 DEF QueueInv, MessageInv, MessageOf

\* The priority stack is full: the command goes back to its caller.
LEMMA RefuseStep ==
    ASSUME IsoInv, iso_mbx # <<>>, NEW c, c = Head(iso_mbx), c \in Loading,
           iso_mbx' = Tail(iso_mbx),
           NEW m \in Message, msg' = [msg EXCEPT ![c] = m],
           m.status = "FAILED_TO_QUEUE", m.bufs = <<>>, m.fd = 0, m.offset = msg[c].offset,
           client' = [client EXCEPT ![c] = "returned"],
           pc = "receive", pc' = "begin",
           UNCHANGED <<gPriStack, fsVars, sFreeBuffer, read, cursor, mem, wantExit>>
    PROVE  IsoInv'
<1>1. /\ c \in Cmds /\ iso_mbx' \in Seq(Cmds) /\ Once(iso_mbx')
      /\ InMailbox(c) /\ \A d : InMailbox(d)' <=> InMailbox(d) /\ d # c
      /\ ~IsQueued(c) /\ msg[c].status = "none" /\ msg[c].bufs = <<>> /\ msg[c].fd = 0
      /\ client[c] = "waiting"
  BY TakeLemma DEF InMailbox
<1>2. /\ TypeOK /\ QueueInv /\ MessageInv /\ FilesInv /\ ReadInv /\ BufferInv /\ CursorInv /\ OrderInv
  BY DEF IsoInv
<1>3. /\ msg \in [Cmds -> Message] /\ client \in [Cmds -> {"idle", "waiting", "returned"}]
  BY <1>2, Types
<1>4. /\ msg' \in [Cmds -> Message]
      /\ msg'[c] = m /\ \A d \in Cmds : d # c => msg'[d] = msg[d]
      /\ \A d \in Cmds : msg'[d].bufs = msg[d].bufs /\ msg'[d].fd = msg[d].fd
  BY <1>1, <1>3
<1>5. client' \in [Cmds -> {"idle", "waiting", "returned"}] /\ client'[c] = "returned" /\ \A d \in Cmds : d # c => client'[d] = client[d]
  BY <1>1, <1>3
<1>6. \A d : IsQueued(d)' <=> IsQueued(d)
  BY DEF IsQueued
<1>7. TypeOK'
  BY <1>1, <1>2, <1>4, <1>5 DEF TypeOK, fsVars, Message, Waiting, Statuses
<1>8. NeverStuck'
  BY DEF NeverStuck
<1>9. QueueInv'
  BY <1>1, <1>2, <1>6 DEF QueueInv
<1>10. MessageInv'
  BY <1>1, <1>2, <1>4, <1>5, <1>6 DEF MessageInv, MessageOf
<1>11. FilesInv'
  <2>1. UNCHANGED sLoadStack /\ sLoadStack \in [Slots -> [fr : Cmds \cup {NoCmd}, location : Nat]]
    BY <1>2, Types DEF fsVars
  <2> QED
    BY <1>2, <1>4, <1>6, <2>1 DEF FilesInv
<1>12. ReadInv'
  <2>1. UNCHANGED <<read, read_in_progress>>
    BY DEF fsVars
  <2> QED
    BY <1>2, <1>4, <1>6, <2>1 DEF ReadInv
<1>13. BufferInv'
  <2>1. \A b, d : d \in Cmds => (HeldBy(b, d)' <=> HeldBy(b, d))
    BY <1>4 DEF HeldBy
  <2> QED
    BY <1>2, <1>4, <2>1 DEF BufferInv, InFreeList, InRead
<1>14. CursorInv'
  <2>1. Singles \subseteq Cmds
    BY DEF Singles
  <2> QED
    BY <1>2, <1>4, <2>1 DEF CursorInv
<1>15. OrderInv'
  <2> SUFFICES ASSUME NEW d \in Singles PROVE OrderOf(d)'
    BY DEF OrderInv
  <2>1. d \in Cmds /\ OrderOf(d)
    BY <1>2 DEF OrderInv, Singles
  <2>2. CASE d # c
    BY <1>1, <1>2, <1>4, <1>5, <1>6, <2>1, <2>2, OrderFrame DEF fsVars
  <2>3. CASE d = c
    BY <1>1, <1>4, <1>5, <1>6, <2>1, <2>3 DEF OrderOf, PagesCopied
  <2> QED
    BY <2>2, <2>3
<1> QED
  BY <1>7, <1>8, <1>9, <1>10, <1>11, <1>12, <1>13, <1>14, <1>15 DEF IsoInv

\* The command is queued and its file opened in the unused slot f.
LEMMA EnqueueStep ==
    ASSUME IsoInv, iso_mbx # <<>>, NEW c, c = Head(iso_mbx), c \in Loading, ~QueueFull(PriorityOf(c)),
           iso_mbx' = Tail(iso_mbx),
           NEW f \in Slots, sLoadStack[f].fr = NoCmd,
           sLoadStack' = [sLoadStack EXCEPT ![f] = [fr |-> c, location |-> msg[c].offset]],
           gPriStack' = [gPriStack EXCEPT ![PriorityOf(c)] = Append(@, c)],
           NEW m \in Message, msg' = [msg EXCEPT ![c] = m],
           m.status = "IN_PROGRESS", m.bufs = <<>>, m.fd = f, m.offset = msg[c].offset,
           m.length = msg[c].length, m.done = 0, c \in Singles => m.length_to_copy = LengthToCopy(c),
           pc = "receive", pc' = "begin",
           UNCHANGED <<client, read_in_progress, sFreeBuffer, read, cursor, mem, wantExit>>
    PROVE  IsoInv'
<1> DEFINE p == PriorityOf(c)
<1>1. /\ c \in Cmds /\ iso_mbx' \in Seq(Cmds) /\ Once(iso_mbx')
      /\ InMailbox(c) /\ \A d : InMailbox(d)' <=> InMailbox(d) /\ d # c
      /\ ~IsQueued(c) /\ msg[c].status = "none" /\ msg[c].bufs = <<>> /\ msg[c].fd = 0
      /\ client[c] = "waiting"
  BY TakeLemma DEF InMailbox
<1>2. /\ TypeOK /\ QueueInv /\ MessageInv /\ FilesInv /\ ReadInv /\ BufferInv /\ CursorInv /\ OrderInv
  BY DEF IsoInv
<1>3. /\ msg \in [Cmds -> Message] /\ client \in [Cmds -> {"idle", "waiting", "returned"}]
      /\ gPriStack \in Stacks /\ sLoadStack \in [Slots -> [fr : Cmds \cup {NoCmd}, location : Nat]]
      /\ p \in Priorities /\ mem \in [Cmds -> Seq(Pages)]
  BY <1>1, <1>2, Types, Sizes
<1>4. /\ msg' \in [Cmds -> Message]
      /\ msg'[c] = m /\ \A d \in Cmds : d # c => msg'[d] = msg[d]
      /\ \A d \in Cmds : msg'[d].bufs = msg[d].bufs
  BY <1>1, <1>3
<1>5. PICK g \in Seq(Cmds) : /\ g = Append(gPriStack[p], c) /\ Len(g) = Len(gPriStack[p]) + 1 /\ Once(g)
                             /\ \A x : Has(g, x) <=> Has(gPriStack[p], x) \/ x = c
                             /\ Len(gPriStack[p]) \in Nat
                             /\ \A i \in DOMAIN g : (i \in DOMAIN gPriStack[p] /\ g[i] = gPriStack[p][i]) \/ g[i] = c
  <2>1. gPriStack[p] \in Seq(Cmds) /\ Once(gPriStack[p]) /\ ~Has(gPriStack[p], c)
    BY <1>1, <1>2, <1>3 DEF Stacks, QueueInv, IsQueued
  <2>2. /\ Append(gPriStack[p], c) \in Seq(Cmds) /\ Len(Append(gPriStack[p], c)) = Len(gPriStack[p]) + 1
        /\ \A i \in 1 .. Len(gPriStack[p]) : Append(gPriStack[p], c)[i] = gPriStack[p][i]
        /\ Append(gPriStack[p], c)[Len(gPriStack[p]) + 1] = c
    BY <1>1, <2>1, AppendProperties
  <2>3. Once(Append(gPriStack[p], c)) /\ \A x : Has(Append(gPriStack[p], c), x) <=> Has(gPriStack[p], x) \/ x = c
    BY <1>1, <2>1, AppendLemma
  <2>4. DOMAIN gPriStack[p] = 1 .. Len(gPriStack[p]) /\ Len(gPriStack[p]) \in Nat
    BY <2>1, LenProperties
  <2>5. DOMAIN Append(gPriStack[p], c) = 1 .. Len(gPriStack[p]) + 1
    BY <2>2, LenProperties
  <2>6. \A i \in 1 .. Len(gPriStack[p]) + 1 : i \in 1 .. Len(gPriStack[p]) \/ i = Len(gPriStack[p]) + 1
    BY <2>4
  <2> QED
    BY <2>2, <2>3, <2>4, <2>5, <2>6
<1>6. gPriStack'[p] = g /\ \A q \in Priorities : q # p => gPriStack'[q] = gPriStack[q]
  BY <1>3, <1>5 DEF Stacks
<1>7. /\ gPriStack' \in Stacks
      /\ \A q \in Priorities : Len(gPriStack'[q]) <= PRI_STACK_LENGTH
  <2>1. gPriStack' \in Stacks
    BY <1>3, <1>5 DEF Stacks
  <2>2. Len(g) <= PRI_STACK_LENGTH
    <3>1. Len(gPriStack[p]) <= PRI_STACK_LENGTH /\ Len(gPriStack[p]) # PRI_STACK_LENGTH
      BY <1>2, <1>3, Types DEF QueueFull
    <3> QED
      BY <1>5, <3>1, Sizes
  <2> QED
    BY <1>2, <1>6, <2>1, <2>2, Types
<1>8. \A d \in Cmds : IsQueued(d)' <=> IsQueued(d) \/ d = c
  <2> SUFFICES ASSUME NEW d \in Cmds PROVE IsQueued(d)' <=> IsQueued(d) \/ d = c
    OBVIOUS
  <2>1. CASE PriorityOf(d) = p
    BY <1>5, <1>6, <2>1 DEF IsQueued
  <2>2. CASE PriorityOf(d) # p
    BY <1>6, <2>2, Sizes DEF IsQueued
  <2> QED
    BY <2>1, <2>2
<1>9. /\ sLoadStack' \in [Slots -> [fr : Cmds \cup {NoCmd}, location : Nat]]
      /\ sLoadStack'[f] = [fr |-> c, location |-> msg[c].offset]
      /\ \A s \in Slots : s # f => sLoadStack'[s] = sLoadStack[s]
  <2>1. msg[c].offset \in Nat
    BY <1>1, <1>3, Fields
  <2> QED
    BY <1>1, <1>3, <2>1
<1>10. f # 0 /\ \A d \in Cmds : IsQueued(d) => msg[d].fd \in Slots /\ msg[d].fd # f
  <2> SUFFICES ASSUME NEW d \in Cmds, IsQueued(d) PROVE msg[d].fd \in Slots /\ msg[d].fd # f
    BY Sizes
  <2>1. msg[d].fd # 0 /\ sLoadStack[msg[d].fd].fr = d /\ d # NoCmd
    BY <1>2, Sizes DEF FilesInv
  <2>2. msg[d].fd \in 0 .. MAX_OPEN_FILES
    BY <1>3, Fields
  <2> QED
    BY <2>1, <2>2, Sizes DEF Slots
<1>11. TypeOK'
  BY <1>1, <1>2, <1>4, <1>7, <1>9 DEF TypeOK, Message, Waiting, Statuses, Stacks
<1>12. NeverStuck'
  BY DEF NeverStuck
<1>13. QueueInv'
  <2>1. \A q \in Priorities : Once(gPriStack'[q])
    BY <1>2, <1>5, <1>6 DEF QueueInv
  <2>2. ASSUME NEW q \in Priorities, NEW i \in DOMAIN gPriStack'[q]
        PROVE  PriorityOf(gPriStack'[q][i]) = q /\ gPriStack'[q][i] \in Loading
    BY <1>2, <1>5, <1>6, <2>2 DEF QueueInv
  <2> QED
    BY <1>1, <1>2, <1>8, <2>1, <2>2 DEF QueueInv
<1>14. MessageInv'
  BY <1>1, <1>2, <1>4, <1>8 DEF MessageInv, MessageOf
<1>15. FilesInv'
  <2>1. ASSUME NEW d \in Cmds, IsQueued(d)' PROVE msg'[d].fd # 0 /\ sLoadStack'[msg'[d].fd].fr = d
    BY <1>2, <1>4, <1>8, <1>9, <1>10, <2>1 DEF FilesInv
  <2>2. ASSUME NEW s \in Slots, NEW d \in Cmds, sLoadStack'[s].fr = d PROVE IsQueued(d)' /\ msg'[d].fd = s
    <3>1. CASE s = f
      BY <1>4, <1>8, <1>9, <2>2, <3>1
    <3>2. CASE s # f
      <4>1. IsQueued(d) /\ msg[d].fd = s /\ d # c
        BY <1>1, <1>2, <1>9, <2>2, <3>2 DEF FilesInv
      <4> QED
        BY <1>4, <1>8, <4>1
    <3> QED
      BY <3>1, <3>2
  <2> QED
    BY <2>1, <2>2 DEF FilesInv
<1>16. ReadInv'
  BY <1>2, <1>4, <1>8 DEF ReadInv
<1>17. BufferInv'
  <2>1. \A b, d : d \in Cmds => (HeldBy(b, d)' <=> HeldBy(b, d))
    BY <1>4 DEF HeldBy
  <2> QED
    BY <1>2, <1>4, <2>1 DEF BufferInv, InFreeList, InRead
<1>18. CursorInv'
  <2>1. Singles \subseteq Cmds
    BY DEF Singles
  <2> QED
    BY <1>2, <1>4, <2>1 DEF CursorInv
<1>19. OrderInv'
  <2> SUFFICES ASSUME NEW d \in Singles PROVE OrderOf(d)'
    BY DEF OrderInv
  <2>1. d \in Cmds /\ OrderOf(d)
    BY <1>2 DEF OrderInv, Singles
  <2>2. CASE d # c
    BY <1>1, <1>2, <1>4, <1>8, <1>9, <1>10, <2>1, <2>2, OrderFrame
  <2>3. CASE d = c
    <3>1. mem[c] = <<>> /\ msg[c].length > 0
      BY <1>1, <2>1, <2>3 DEF OrderOf
    <3>2. DOMAIN mem'[c] = {} /\ Len(mem'[c]) = 0
      BY <3>1, EmptyLemma
    <3>3. read.cmd # c
      <4>1. read = NoRead
        BY <1>2 DEF ReadInv
      <4> QED
        BY <1>1, <4>1, Sizes DEF NoRead
    <3>4. Location(c)' = msg[c].offset /\ msg[c].offset \in Nat /\ msg[c].length \in Nat
      BY <1>1, <1>3, <1>4, <1>9, Fields DEF Location
    <3>5. LengthToCopy(c)' = LengthToCopy(c) /\ LengthToCopy(c) > 0
      <4>1. FileLen[c] \in Nat \ {0}
        BY <1>1, Sizes
      <4> QED
        BY <1>4, <3>1, <3>4, <4>1 DEF LengthToCopy
    <3>6. PagesCopied(c)'
      BY <3>2 DEF PagesCopied
    <3>7. PagesToCome(c)'
      <4>1. DOMAIN msg'[c].bufs = {}
        BY <1>4
      <4>2. Location(c)' >= msg'[c].offset
        BY <1>4, <3>4
      <4> QED
        BY <3>2, <3>3, <4>1, <4>2 DEF PagesToCome
    <3>8. Progress(c)'
      BY <1>4, <2>3, <3>2, <3>5 DEF Progress
    <3> QED
      BY <1>1, <1>4, <1>8, <2>3, <3>6, <3>7, <3>8 DEF OrderOf
  <2> QED
    BY <2>2, <2>3
<1> QED
  BY <1>11, <1>12, <1>13, <1>14, <1>15, <1>16, <1>17, <1>18, <1>19 DEF IsoInv

LEMMA ReceiveLoadStep ==
    ASSUME IsoInv, ReceiveLoad
    PROVE  IsoInv'
<1>1. PICK c : c = Head(iso_mbx)
  OBVIOUS
<1>2. /\ pc = "receive" /\ iso_mbx # <<>> /\ c \in Loading /\ iso_mbx' = Tail(iso_mbx)
      /\ UNCHANGED <<sFreeBuffer, read, cursor, mem, wantExit>>
  BY <1>1 DEF ReceiveLoad
<1>3. c \in Cmds /\ ~IsQueued(c)
  BY <1>1, <1>2, TakeLemma
<1>4. TypeOK /\ msg \in [Cmds -> Message] /\ msg[c] \in Message
  BY <1>3, Types DEF IsoInv
<1>5. PICK m : m = msg[c]
  OBVIOUS
<1>6. m \in Message /\ m.offset \in Nat /\ m.length \in Nat /\ m.length_to_copy \in Nat /\ m.done \in Nat
  BY <1>4, <1>5, Fields
<1>7. PICK e \in Seq(Waiting) : e = <<>>
  BY EmptySeq
<1>8. CASE /\ QueueFull(PriorityOf(c))
           /\ msg' = [msg EXCEPT ![c].status = "FAILED_TO_QUEUE", ![c].bufs = <<>>, ![c].fd = 0]
           /\ client' = [client EXCEPT ![c] = "returned"]
           /\ pc' = "begin"
           /\ UNCHANGED <<gPriStack, fsVars>>
  <2>a. PICK s \in Statuses : s = "FAILED_TO_QUEUE"
    BY DEF Statuses
  <2>1. PICK n : n = Msg(s, 0, e, m.offset, m.length, m.length_to_copy, m.done)
    OBVIOUS
  <2>2. 0 \in 0 .. MAX_OPEN_FILES
    BY Sizes
  <2>3. n \in Message /\ n.status = s /\ n.bufs = e /\ n.fd = 0 /\ n.offset = m.offset
    <3>1. n \in Message
      BY <1>6, <2>1, <2>2, MsgType
    <3> QED
      BY <2>1, <3>1 DEF Msg
  <2>4. msg' = [msg EXCEPT ![c] = n]
    <3>1. PICK x : x = [[[m EXCEPT !.status = s] EXCEPT !.bufs = e] EXCEPT !.fd = 0]
      OBVIOUS
    <3>2. x = Msg(s, 0, e, m.offset, m.length, m.length_to_copy, m.done)
      BY <1>6, <3>1 DEF Msg, Message
    <3> QED
      BY <1>3, <1>4, <1>5, <1>7, <1>8, <2>a, <2>1, <3>1, <3>2
  <2> QED
    BY <1>1, <1>2, <1>5, <1>7, <1>8, <2>a, <2>3, <2>4, RefuseStep
<1>9. CASE /\ ~QueueFull(PriorityOf(c))
           /\ gPriStack' = [gPriStack EXCEPT ![PriorityOf(c)] = Append(@, c)]
           /\ IF FreeSlots = {}
              THEN /\ pc' = "stuck"
                   /\ UNCHANGED <<msg, fsVars>>
              ELSE /\ sLoadStack' = [sLoadStack EXCEPT ![FirstFree] =
                                       [fr |-> c, location |-> msg[c].offset]]
                   /\ msg' = [msg EXCEPT ![c].status = "IN_PROGRESS", ![c].bufs = <<>>,
                                         ![c].fd = FirstFree, ![c].done = 0,
                                         ![c].length_to_copy =
                                            IF c \in Singles THEN LengthToCopy(c) ELSE @]
                   /\ pc' = "begin"
                   /\ UNCHANGED read_in_progress
           /\ UNCHANGED client
  <2>1. FreeSlots # {}
    BY <1>2, <1>3, <1>9, SlotLemma
  <2>2. PICK f : f = FirstFree
    OBVIOUS
  <2>3. f \in Slots /\ sLoadStack[f].fr = NoCmd
    BY <2>1, <2>2, FirstFreeLemma
  <2>4. PICK k : k = IF c \in Singles THEN LengthToCopy(c) ELSE m.length_to_copy
    OBVIOUS
  <2>5. k \in Nat /\ (c \in Singles => k = LengthToCopy(c))
    <3>1. FileLen[c] \in Nat
      BY <1>3, Sizes
    <3> QED
      BY <1>5, <1>6, <2>4, <3>1 DEF LengthToCopy
  <2>a. PICK s \in Statuses : s = "IN_PROGRESS"
    BY DEF Statuses
  <2>6. PICK n : n = Msg(s, f, e, m.offset, m.length, k, 0)
    OBVIOUS
  <2>7. f \in 0 .. MAX_OPEN_FILES /\ 0 \in Nat
    BY <2>3, Sizes DEF Slots
  <2>8. /\ n \in Message /\ n.status = s /\ n.bufs = e /\ n.fd = f /\ n.offset = m.offset
        /\ n.length = m.length /\ n.length_to_copy = k /\ n.done = 0
    <3>1. n \in Message
      BY <1>6, <2>5, <2>6, <2>7, MsgType
    <3> QED
      BY <2>6, <3>1 DEF Msg
  <2>9. msg' = [msg EXCEPT ![c] = n]
    <3>1. PICK x : x = [[[[[m EXCEPT !.status = s] EXCEPT !.bufs = e] EXCEPT !.fd = f] EXCEPT !.done = 0]
                           EXCEPT !.length_to_copy = k]
      OBVIOUS
    <3>3. x = Msg(s, f, e, m.offset, m.length, k, 0)
      BY <1>6, <3>1 DEF Msg, Message
    <3>2. msg' = [msg EXCEPT ![c].status = "IN_PROGRESS", ![c].bufs = <<>>, ![c].fd = f, ![c].done = 0,
                             ![c].length_to_copy = k]
      <4>1. CASE c \in Singles
        BY <1>9, <2>1, <2>2, <2>5, <4>1
      <4>2. CASE c \notin Singles
        <5>1. msg' = [msg EXCEPT ![c].status = "IN_PROGRESS", ![c].bufs = <<>>, ![c].fd = f, ![c].done = 0,
                                 ![c].length_to_copy = @]
          BY <1>9, <2>1, <2>2, <4>2
        <5> QED
          BY <1>3, <1>4, <1>5, <1>6, <2>4, <4>2, <5>1 DEF Message
      <4> QED
        BY <4>1, <4>2
    <3> QED
      BY <1>3, <1>4, <1>5, <1>7, <2>a, <2>6, <3>1, <3>2, <3>3
  <2>10. /\ sLoadStack' = [sLoadStack EXCEPT ![f] = [fr |-> c, location |-> msg[c].offset]]
         /\ pc' = "begin" /\ UNCHANGED read_in_progress
    BY <1>9, <2>1, <2>2
  <2> QED
    BY <1>1, <1>2, <1>5, <1>7, <1>9, <2>3, <2>5, <2>a, <2>8, <2>9, <2>10, EnqueueStep
<1> QED
  BY <1>1, <1>8, <1>9 DEF ReceiveLoad

LEMMA ReceiveBankStep ==
    ASSUME IsoInv, ReceiveBank
    PROVE  IsoInv'
<1>1. PICK c : c = Head(iso_mbx)
  OBVIOUS
<1>2. PICK t : t = Tail(iso_mbx)
  OBVIOUS
<1>3. /\ pc = "receive" /\ iso_mbx # <<>> /\ c \notin Loading /\ pc' = "begin"
      /\ UNCHANGED <<gPriStack, msg, sFreeBuffer, fsVars, read, cursor, mem, wantExit>>
      /\ \/ iso_mbx' = Append(t, c) /\ UNCHANGED client
         \/ iso_mbx' = t /\ client' = [client EXCEPT ![c] = "returned"]
  BY <1>1, <1>2 DEF ReceiveBank
<1>4. /\ c \in Cmds /\ t \in Seq(Cmds) /\ Once(t)
      /\ InMailbox(c) /\ \A d : Has(t, d) <=> InMailbox(d) /\ d # c
      /\ ~IsQueued(c) /\ msg[c].status = "none" /\ client[c] = "waiting"
  BY <1>1, <1>2, <1>3, TakeLemma
<1>5. /\ TypeOK /\ QueueInv /\ MessageInv /\ FilesInv /\ ReadInv /\ BufferInv /\ CursorInv /\ OrderInv
  BY DEF IsoInv
<1>6. client \in [Cmds -> {"idle", "waiting", "returned"}]
  BY <1>5, Types
<1>7. \A d : IsQueued(d)' <=> IsQueued(d)
  BY <1>3 DEF IsQueued
<1>8. /\ iso_mbx' \in Seq(Cmds) /\ Once(iso_mbx')
      /\ \A d : InMailbox(d)' => InMailbox(d)
      /\ client' \in [Cmds -> {"idle", "waiting", "returned"}]
      /\ \A d \in Cmds : d # c => client'[d] = client[d] /\ (InMailbox(d)' <=> InMailbox(d))
      /\ (client'[c] = "waiting" /\ InMailbox(c)') \/ (client'[c] = "returned" /\ ~InMailbox(c)')
  <2>1. CASE iso_mbx' = Append(t, c) /\ UNCHANGED client
    <3>1. /\ Append(t, c) \in Seq(Cmds) /\ Once(Append(t, c))
          /\ \A d : Has(Append(t, c), d) <=> Has(t, d) \/ d = c
      BY <1>4, AppendLemma
    <3> QED
      BY <1>4, <1>6, <2>1, <3>1 DEF InMailbox
  <2>2. CASE iso_mbx' = t /\ client' = [client EXCEPT ![c] = "returned"]
    BY <1>4, <1>6, <2>2 DEF InMailbox
  <2> QED
    BY <1>3, <2>1, <2>2
<1>9. TypeOK'
  BY <1>3, <1>5, <1>8 DEF TypeOK, fsVars
<1>10. NeverStuck'
  BY <1>3 DEF NeverStuck
<1>11. QueueInv'
  BY <1>3, <1>5, <1>7, <1>8 DEF QueueInv
<1>12. MessageInv'
  <2> SUFFICES ASSUME NEW d \in Cmds PROVE MessageOf(d)'
    BY DEF MessageInv
  <2>1. CASE d = c
    <3>1. c \notin Singles /\ MessageOf(c)
      BY <1>3, <1>4, <1>5, Kinds DEF MessageInv
    <3> QED
      BY <1>3, <1>4, <1>7, <1>8, <2>1, <3>1 DEF MessageOf
  <2>2. CASE d # c
    BY <1>3, <1>5, <1>7, <1>8, <2>2 DEF MessageInv, MessageOf
  <2> QED
    BY <2>1, <2>2
<1>13. FilesInv'
  BY <1>3, <1>5, <1>7 DEF FilesInv, fsVars
<1>14. ReadInv'
  BY <1>3, <1>5, <1>7 DEF ReadInv, fsVars
<1>15. BufferInv'
  BY <1>3, <1>5 DEF BufferInv, InFreeList, HeldBy, InRead
<1>16. CursorInv'
  BY <1>3, <1>5 DEF CursorInv
<1>17. OrderInv'
  <2> SUFFICES ASSUME NEW d \in Singles PROVE OrderOf(d)'
    BY DEF OrderInv
  <2>1. d \in Cmds /\ OrderOf(d) /\ d # c
    BY <1>3, <1>5, Kinds DEF OrderInv, Singles
  <2> QED
    BY <1>3, <1>5, <1>7, <1>8, <2>1, OrderFrame DEF fsVars
<1> QED
  BY <1>9, <1>10, <1>11, <1>12, <1>13, <1>14, <1>15, <1>16, <1>17 DEF IsoInv

-----------------------------------------------------------------------------
(* Beginning a read.                                                       *)

\* GetMessage selects a queued command with room for a buffer.
LEMMA GetMessageLemma ==
    ASSUME IsoInv, NEW c, c = GetMessage, c # NoCmd
    PROVE  c \in Cmds /\ IsQueued(c) /\ Len(msg[c].bufs) < 2
<1>1. TypeOK /\ QueueInv
  BY DEF IsoInv
<1>2. Wanting # {}
  BY DEF GetMessage
<1> DEFINE Highest(x) == \A y \in Wanting : y[1] < x[1] \/ (y[1] = x[1] /\ y[2] <= x[2])
<1>3. \A x \in Wanting : /\ x = <<x[1], x[2]>> /\ x[1] \in {0, 1, 2, 3} /\ x[2] \in 1 .. PRI_STACK_LENGTH
                         /\ x[2] <= Len(gPriStack[x[1]])
                         /\ Len(msg[gPriStack[x[1]][x[2]]].bufs) < BufferLimit(x[1])
  BY Sizes DEF Wanting
<1>4. \E x \in Wanting : Highest(x)
  <2> DEFINE Q == {x[1] : x \in Wanting}
  <2>1. Q \subseteq {0, 1, 2, 3} /\ Q # {}
    BY <1>2, <1>3
  <2>2. \E q \in Q : \A r \in Q : r <= q
    <3> HIDE DEF Q
    <3>1. CASE 3 \in Q
      BY <2>1, <3>1
    <3>2. CASE 3 \notin Q /\ 2 \in Q
      BY <2>1, <3>2
    <3>3. CASE 3 \notin Q /\ 2 \notin Q /\ 1 \in Q
      BY <2>1, <3>3
    <3>4. CASE 3 \notin Q /\ 2 \notin Q /\ 1 \notin Q
      <4>1. PICK r : r \in Q
        BY <2>1
      <4>2. 0 \in Q /\ \A q \in Q : q = 0
        BY <2>1, <3>4, <4>1
      <4> QED
        BY <4>2
    <3> QED
      BY <3>1, <3>2, <3>3, <3>4
  <2>3. PICK q \in Q : \A x \in Wanting : x[1] <= q
    BY <2>2
  <2> DEFINE T == {PRI_STACK_LENGTH - x[2] : x \in {y \in Wanting : y[1] = q}}
  <2>4. T \in SUBSET Nat /\ T # {}
    <3>1. T # {}
      BY <2>3
    <3>2. \A x \in Wanting : PRI_STACK_LENGTH - x[2] \in Nat
      BY <1>3, Sizes
    <3> QED
      BY <3>1, <3>2
  <2>5. PICK k \in T : \A j \in T : k <= j
    <3> HIDE DEF T
    <3> QED
      BY <2>4, MinLemma
  <2>6. PICK x \in Wanting : x[1] = q /\ k = PRI_STACK_LENGTH - x[2]
    BY <2>5
  <2>7. \A y \in Wanting : y[1] = q => PRI_STACK_LENGTH - x[2] <= PRI_STACK_LENGTH - y[2]
    BY <2>5, <2>6
  <2>8. ASSUME NEW y \in Wanting PROVE y[1] < x[1] \/ (y[1] = x[1] /\ y[2] <= x[2])
    <3>1. y[1] \in Int /\ y[2] \in Int /\ x[1] \in Int /\ x[2] \in Int /\ PRI_STACK_LENGTH \in Int
      BY <1>3, Sizes
    <3> QED
      BY <2>3, <2>6, <2>7, <3>1
  <2> QED
    BY <2>6, <2>8
<1>5. PICK w : w = CHOOSE x \in Wanting : Highest(x)
  OBVIOUS
<1>6. w \in Wanting
  BY <1>4, <1>5
<1>7. c = gPriStack[w[1]][w[2]]
  BY <1>2, <1>5 DEF GetMessage
<1>8. PICK p : p = w[1]
  OBVIOUS
<1>9. PICK i : i = w[2]
  OBVIOUS
<1>10. /\ p \in Priorities /\ gPriStack[p] \in Seq(Cmds) /\ i \in 1 .. Len(gPriStack[p])
       /\ i \in DOMAIN gPriStack[p] /\ c = gPriStack[p][i] /\ c \in Cmds
  <2>1. p \in Priorities /\ i \in Nat \ {0} /\ i <= Len(gPriStack[p])
    BY <1>3, <1>6, <1>8, <1>9, Sizes
  <2>2. gPriStack[p] \in Seq(Cmds)
    BY <1>1, <2>1, Types DEF Stacks
  <2>3. Len(gPriStack[p]) \in Nat /\ DOMAIN gPriStack[p] = 1 .. Len(gPriStack[p])
    BY <2>2, LenProperties
  <2>4. i \in 1 .. Len(gPriStack[p])
    BY <2>1, <2>3
  <2> QED
    BY <1>7, <1>8, <1>9, <2>1, <2>2, <2>3, <2>4, ElementOfSeq
<1>11. IsQueued(c)
  BY <1>1, <1>10 DEF QueueInv, IsQueued, Has
<1>12. Len(msg[c].bufs) < 2
  <2>1. Len(msg[c].bufs) < BufferLimit(p) /\ BufferLimit(p) \in {1, 2}
    BY <1>3, <1>6, <1>7, <1>8 DEF BufferLimit
  <2>2. Len(msg[c].bufs) \in Nat
    <3>1. msg[c].bufs \in Seq(Waiting)
      BY <1>1, <1>10, Types, Fields
    <3> QED
      BY <3>1, LenProperties
  <2> QED
    BY <2>1, <2>2
<1> QED
  BY <1>10, <1>11, <1>12

\* Four buffers are enough: when a read begins, the single loads hold at
\* most one buffer and the DGO at most two.
LEMMA EnoughBuffers ==
    ASSUME IsoInv, pc = "begin"
    PROVE  sFreeBuffer # <<>>
<1> SUFFICES ASSUME sFreeBuffer = <<>> PROVE FALSE
  OBVIOUS
<1>1. TypeOK /\ QueueInv /\ MessageInv /\ ReadInv /\ BufferInv /\ CursorInv
  BY DEF IsoInv
<1>2. \A b \in Buffers : ~InFreeList(b) /\ ~InRead(b)
  <2>1. read = NoRead
    BY <1>1 DEF ReadInv
  <2>2. \A b : ~InFreeList(b)
    BY EmptyLemma DEF InFreeList
  <2> QED
    BY <2>1, <2>2, Sizes DEF InRead, NoRead
<1>3. \A b \in Buffers : \E c \in Cmds : HeldBy(b, c)
  BY <1>1, <1>2 DEF BufferInv
<1>4. ASSUME NEW c \in Cmds
      PROVE  /\ msg[c].bufs \in Seq(Waiting) /\ Named(msg[c].bufs) \in Seq(Buffers)
             /\ DOMAIN Named(msg[c].bufs) = 1 .. Len(msg[c].bufs) /\ Len(msg[c].bufs) \in Nat
             /\ Len(msg[c].bufs) <= 2
  <2>1. msg[c].bufs \in Seq(Waiting)
    BY <1>1, Types, Fields
  <2>2. Named(msg[c].bufs) \in Seq(Buffers) /\ Len(Named(msg[c].bufs)) = Len(msg[c].bufs)
    BY <2>1, NamedLemma
  <2>3. Len(msg[c].bufs) <= 2
    BY <1>1 DEF CursorInv
  <2> QED
    BY <2>1, <2>2, <2>3, LenProperties
<1>5. \A c \in Cmds, b \in Buffers : HeldBy(b, c) => c \in Singles \/ KindOf[c] = "dgo"
  <2> SUFFICES ASSUME NEW c \in Cmds, NEW b \in Buffers, HeldBy(b, c) PROVE c \in Loading
    BY Kinds
  <2>1. msg[c].bufs # <<>>
    BY NamedEmpty, EmptyLemma DEF HeldBy
  <2>2. IsQueued(c)
    BY <1>1, <2>1 DEF MessageInv, MessageOf
  <2> QED
    BY <1>1, <2>2, Sizes DEF IsQueued, Has, QueueInv
<1>6. \E x : \A c \in Singles, b \in Buffers : HeldBy(b, c) => b = x
  <2>0. Singles \subseteq Cmds
    BY DEF Singles
  <2>1. ASSUME NEW d \in Singles, msg[d].bufs # <<>>
        PROVE  \A c \in Singles, b \in Buffers : HeldBy(b, c) => b = Named(msg[d].bufs)[1]
    <3> SUFFICES ASSUME NEW c \in Singles, NEW b \in Buffers, HeldBy(b, c) PROVE b = Named(msg[d].bufs)[1]
      OBVIOUS
    <3>1. msg[c].bufs # <<>>
      BY NamedEmpty, EmptyLemma DEF HeldBy
    <3>2. c = d
      BY <1>1, <2>1, <3>1 DEF CursorInv
    <3>3. Len(msg[d].bufs) <= 1
      BY <1>1 DEF CursorInv
    <3>4. PICK i \in 1 .. Len(msg[d].bufs) : Named(msg[d].bufs)[i] = b
      BY <1>4, <2>0, <3>2 DEF HeldBy, Has
    <3> QED
      BY <1>4, <2>0, <3>3, <3>4
  <2>2. ASSUME \A d \in Singles : msg[d].bufs = <<>>
        PROVE  \A c \in Singles, b \in Buffers : ~HeldBy(b, c)
    BY <2>2, NamedEmpty, EmptyLemma DEF HeldBy
  <2> QED
    BY <2>1, <2>2
<1>7. \E y, z : \A c \in Cmds, b \in Buffers : KindOf[c] = "dgo" /\ HeldBy(b, c) => b = y \/ b = z
  <2>1. ASSUME NEW d \in Cmds, KindOf[d] = "dgo"
        PROVE  \A c \in Cmds, b \in Buffers : KindOf[c] = "dgo" /\ HeldBy(b, c) =>
                   b = Named(msg[d].bufs)[1] \/ b = Named(msg[d].bufs)[2]
    <3> SUFFICES ASSUME NEW c \in Cmds, NEW b \in Buffers, KindOf[c] = "dgo", HeldBy(b, c)
                 PROVE  b = Named(msg[d].bufs)[1] \/ b = Named(msg[d].bufs)[2]
      OBVIOUS
    <3>1. c = d
      BY <2>1, Kinds
    <3>2. PICK i \in 1 .. Len(msg[d].bufs) : Named(msg[d].bufs)[i] = b
      BY <1>4, <3>1 DEF HeldBy, Has
    <3>3. i = 1 \/ i = 2
      BY <1>4, <3>2
    <3> QED
      BY <3>2, <3>3
  <2>2. CASE \E d \in Cmds : KindOf[d] = "dgo"
    <3>1. PICK d \in Cmds : KindOf[d] = "dgo"
      BY <2>2
    <3>2. PICK y : y = Named(msg[d].bufs)[1]
      OBVIOUS
    <3>3. PICK z : z = Named(msg[d].bufs)[2]
      OBVIOUS
    <3>4. \A c \in Cmds, b \in Buffers : KindOf[c] = "dgo" /\ HeldBy(b, c) => b = y \/ b = z
      BY <2>1, <3>1, <3>2, <3>3
    <3> QED
      BY <3>4
  <2>3. CASE ~\E d \in Cmds : KindOf[d] = "dgo"
    BY <2>3
  <2> QED
    BY <2>2, <2>3
<1>8. PICK x : \A c \in Singles, b \in Buffers : HeldBy(b, c) => b = x
  BY <1>6
<1>9. PICK y, z : \A c \in Cmds, b \in Buffers : KindOf[c] = "dgo" /\ HeldBy(b, c) => b = y \/ b = z
  BY <1>7
<1>10. \A b \in Buffers : b = x \/ b = y \/ b = z
  BY <1>3, <1>5, <1>8, <1>9
<1>11. 1 \in Buffers /\ 2 \in Buffers /\ 3 \in Buffers /\ 4 \in Buffers
  BY Sizes DEF Buffers
<1> QED
  BY <1>10, <1>11

\* What holds of the buffer lists when a pass of ProcessMessageData begins.
LEMMA PassBegins ==
    ASSUME IsoInv, UNCHANGED <<gPriStack, msg>>, ProcessFrom(N_PRIORITIES - 1, gPriStack)
    PROVE  PlaceInv' /\ pc' \in {"sync", "process"} /\ cursor' \in [pri : Priorities, idx : 0 .. PRI_STACK_LENGTH]
<1>1. TypeOK /\ QueueInv /\ MessageInv
  BY DEF IsoInv
<1>2. gPriStack' \in Stacks /\ \A q \in Priorities : Len(gPriStack'[q]) <= PRI_STACK_LENGTH
  BY <1>1, Types
<1>3. gPriStack'[3] = <<>>
  <2>1. gPriStack[3] \in Seq(Cmds) /\ 3 \in Priorities
    BY <1>2, Sizes DEF Stacks
  <2>2. \A i \in DOMAIN gPriStack[3] : PriorityOf(gPriStack[3][i]) = 3
    BY <1>1, <2>1 DEF QueueInv
  <2>3. \A c : PriorityOf(c) # 3
    BY DEF PriorityOf
  <2>4. DOMAIN gPriStack[3] = 1 .. Len(gPriStack[3]) /\ Len(gPriStack[3]) \in Nat
    BY <2>1, LenProperties
  <2>5. Len(gPriStack[3]) = 0
    <3>1. 1 \notin DOMAIN gPriStack[3]
      BY <2>2, <2>3
    <3> QED
      BY <2>4, <3>1
  <2> QED
    BY <2>1, <2>5, EmptySeq
<1>4. \A c \in Singles : msg'[c].bufs # <<>> => Has(gPriStack'[2], c)
  <2> SUFFICES ASSUME NEW c \in Singles, msg[c].bufs # <<>> PROVE Has(gPriStack[2], c)
    OBVIOUS
  <2>1. c \in Cmds /\ PriorityOf(c) = 2
    BY Kinds DEF Singles
  <2> QED
    BY <1>1, <2>1 DEF MessageInv, MessageOf, IsQueued
<1>5. PICK p \in -1 .. 3 : p = 3
  OBVIOUS
<1>6. ProcessFrom(p, gPriStack')
  BY <1>5 DEF N_PRIORITIES
<1> QED
  BY <1>2, <1>3, <1>4, <1>5, <1>6, PlaceLemma

LEMMA BeginReadStep ==
    ASSUME IsoInv, BeginRead
    PROVE  IsoInv'
<1>1. PICK c : c = GetMessage
  OBVIOUS
<1>2. pc = "begin" /\ UNCHANGED <<iso_mbx, gPriStack, msg, mem, client, wantExit>>
  BY DEF BeginRead, threadVars
<1>3. sFreeBuffer # <<>>
  BY <1>2, EnoughBuffers
<1>4. /\ ProcessFrom(N_PRIORITIES - 1, gPriStack)
      /\ \/ /\ c = NoCmd
            /\ UNCHANGED <<sFreeBuffer, sLoadStack, read_in_progress, read>>
         \/ /\ c # NoCmd
            /\ read' = [cmd |-> c, buf |-> Head(sFreeBuffer), page |-> ReadPage(msg[c].fd)]
            /\ sFreeBuffer' = Tail(sFreeBuffer)
            /\ sLoadStack' = [sLoadStack EXCEPT ![msg[c].fd].location = @ + 1]
            /\ read_in_progress' = TRUE
  BY <1>1, <1>3 DEF BeginRead, fsVars
<1>5. /\ TypeOK /\ QueueInv /\ MessageInv /\ FilesInv /\ ReadInv /\ BufferInv /\ CursorInv /\ OrderInv
  BY DEF IsoInv
<1>6. PlaceInv' /\ pc' \in {"sync", "process"} /\ cursor' \in [pri : Priorities, idx : 0 .. PRI_STACK_LENGTH]
  BY <1>2, <1>4, PassBegins
<1>7. CursorInv'
  <2>1. HoldersInv'
    BY <1>2, <1>5, CursorParts DEF HoldersInv
  <2> QED
    BY <1>6, <2>1, CursorParts, PTL
<1>8. NeverStuck'
  BY <1>6 DEF NeverStuck
<1>9. \A d : (InMailbox(d)' <=> InMailbox(d)) /\ (IsQueued(d)' <=> IsQueued(d))
  BY <1>2 DEF InMailbox, IsQueued
<1>10. QueueInv'
  BY <1>2, <1>5, <1>9 DEF QueueInv
<1>11. MessageInv'
  BY <1>2, <1>5, <1>9 DEF MessageInv, MessageOf
<1>12. read = NoRead /\ read.cmd = NoCmd /\ read.buf = 0
  BY <1>2, <1>5 DEF ReadInv, NoRead
<1>13. CASE c = NoCmd /\ UNCHANGED <<sFreeBuffer, sLoadStack, read_in_progress, read>>
  <2>1. TypeOK'
    BY <1>2, <1>5, <1>6, <1>13 DEF TypeOK
  <2>2. FilesInv'
    BY <1>2, <1>5, <1>9, <1>13 DEF FilesInv
  <2>3. ReadInv'
    BY <1>2, <1>5, <1>9, <1>12, <1>13 DEF ReadInv
  <2>4. BufferInv'
    BY <1>2, <1>5, <1>13 DEF BufferInv, InFreeList, HeldBy, InRead
  <2>5. OrderInv'
    <3> SUFFICES ASSUME NEW d \in Singles PROVE OrderOf(d)'
      BY DEF OrderInv
    <3>1. d \in Cmds /\ OrderOf(d)
      BY <1>5 DEF OrderInv, Singles
    <3> QED
      BY <1>2, <1>5, <1>9, <1>13, <3>1, OrderFrame
  <2> QED
    BY <1>7, <1>8, <1>10, <1>11, <2>1, <2>2, <2>3, <2>4, <2>5 DEF IsoInv
<1>14. CASE /\ c # NoCmd
            /\ read' = [cmd |-> c, buf |-> Head(sFreeBuffer), page |-> ReadPage(msg[c].fd)]
            /\ sFreeBuffer' = Tail(sFreeBuffer)
            /\ sLoadStack' = [sLoadStack EXCEPT ![msg[c].fd].location = @ + 1]
            /\ read_in_progress' = TRUE
  <2>1. c \in Cmds /\ IsQueued(c) /\ Len(msg[c].bufs) < 2
    BY <1>1, <1>14, GetMessageLemma
  <2>2. PICK f : f = msg[c].fd
    OBVIOUS
  <2>3. /\ sLoadStack \in [Slots -> [fr : Cmds \cup {NoCmd}, location : Nat]]
        /\ msg \in [Cmds -> Message] /\ mem \in [Cmds -> Seq(Pages)]
    BY <1>5, Types
  <2>4. f \in Slots /\ sLoadStack[f].fr = c
    <3>1. f # 0 /\ sLoadStack[f].fr = c
      BY <1>5, <2>1, <2>2 DEF FilesInv
    <3>2. f \in 0 .. MAX_OPEN_FILES
      BY <2>1, <2>2, <2>3, Fields
    <3> QED
      BY <3>1, <3>2, Sizes DEF Slots
  <2>5. PICK l : l = sLoadStack[f].location
    OBVIOUS
  <2>6. /\ l \in Nat /\ sLoadStack' \in [Slots -> [fr : Cmds \cup {NoCmd}, location : Nat]]
        /\ sLoadStack'[f].fr = c /\ sLoadStack'[f].location = l + 1
        /\ \A s \in Slots : s # f => sLoadStack'[s] = sLoadStack[s]
        /\ \A s \in Slots : sLoadStack'[s].fr = sLoadStack[s].fr
    <3>1. l \in Nat /\ sLoadStack' = [sLoadStack EXCEPT ![f].location = @ + 1]
      BY <1>14, <2>2, <2>3, <2>4, <2>5
    <3>2. PICK r : r = [sLoadStack[f] EXCEPT !.location = @ + 1]
      OBVIOUS
    <3>3. r \in [fr : Cmds \cup {NoCmd}, location : Nat] /\ r.fr = c /\ r.location = l + 1
      BY <2>3, <2>4, <2>5, <3>1, <3>2
    <3>4. sLoadStack' = [sLoadStack EXCEPT ![f] = r]
      BY <3>1, <3>2
    <3> QED
      BY <2>3, <2>4, <3>1, <3>3, <3>4
  <2>7. PICK page : page = ReadPage(f)
    OBVIOUS
  <2>8. page \in Pages /\ (Own(page) => page[1] = c /\ page[2] = l)
    <3>1. CASE l < FileLen[c]
      <4>1. page = <<c, l>>
        BY <2>4, <2>5, <2>7, <3>1 DEF ReadPage
      <4> QED
        BY <2>1, <2>6, <4>1 DEF Pages, Own
    <3>2. CASE ~(l < FileLen[c])
      <4>1. page = NoPage
        BY <2>4, <2>5, <2>7, <3>2 DEF ReadPage
      <4> QED
        BY <4>1 DEF Pages, Own, NoPage
    <3> QED
      BY <3>1, <3>2
  <2>9. PICK b : b = Head(sFreeBuffer)
    OBVIOUS
  <2>10. /\ sFreeBuffer' \in Seq(Buffers) /\ b \in Buffers /\ Once(sFreeBuffer') /\ InFreeList(b)
         /\ \A x : InFreeList(x)' <=> InFreeList(x) /\ x # b
    <3>1. sFreeBuffer \in Seq(Buffers) /\ Once(sFreeBuffer)
      BY <1>5, Types DEF BufferInv
    <3> QED
      BY <1>3, <1>14, <2>9, <3>1, TailLemma DEF InFreeList
  <2>11. /\ read' = [cmd |-> c, buf |-> b, page |-> page]
         /\ read'.cmd = c /\ read'.buf = b /\ read'.page = page /\ read' # NoRead
         /\ read' \in [cmd : Cmds \cup {NoCmd}, buf : 0 .. N_BUFFERS, page : Pages]
    <3>1. read' = [cmd |-> c, buf |-> b, page |-> page]
      BY <1>14, <2>2, <2>7, <2>9
    <3>2. b \in 0 .. N_BUFFERS /\ b # 0
      BY <2>10, Sizes DEF Buffers
    <3> QED
      BY <2>1, <2>8, <3>1, <3>2 DEF NoRead
  <2>12. TypeOK'
    <3>1. read_in_progress' \in BOOLEAN
      BY <1>14
    <3> QED
      BY <1>2, <1>5, <1>6, <2>6, <2>10, <2>11, <3>1 DEF TypeOK
  <2>13. FilesInv'
    <3>1. \A d \in Cmds : IsQueued(d) => msg[d].fd \in Slots
      <4> SUFFICES ASSUME NEW d \in Cmds, IsQueued(d) PROVE msg[d].fd \in Slots
        OBVIOUS
      <4>1. msg[d].fd # 0 /\ msg[d].fd \in 0 .. MAX_OPEN_FILES
        BY <1>5, <2>3, Fields DEF FilesInv
      <4> QED
        BY <4>1, Sizes DEF Slots
    <3> QED
      BY <1>2, <1>5, <1>9, <2>6, <3>1 DEF FilesInv
  <2>14. ReadInv'
    BY <1>2, <1>6, <1>9, <2>1, <2>10, <2>11 DEF ReadInv
  <2>15. BufferInv'
    <3>1. \A x : InRead(x)' <=> x = b
      BY <2>11 DEF InRead
    <3>2. \A x \in Buffers : ~InRead(x)
      BY <1>12, Sizes DEF InRead
    <3>3. \A x, d : HeldBy(x, d)' <=> HeldBy(x, d)
      BY <1>2 DEF HeldBy
    <3>4. \A d \in Cmds : Once(Named(msg'[d].bufs))
      BY <1>2, <1>5 DEF BufferInv
    <3> QED
      BY <1>5, <2>10, <3>1, <3>2, <3>3, <3>4 DEF BufferInv
  <2>16. OrderInv'
    <3> SUFFICES ASSUME NEW d \in Singles PROVE OrderOf(d)'
      BY DEF OrderInv
    <3>1. d \in Cmds /\ OrderOf(d)
      BY <1>5 DEF OrderInv, Singles
    <3>2. CASE d # c
      <4>1. IsQueued(d) => sLoadStack'[msg[d].fd] = sLoadStack[msg[d].fd]
        <5> SUFFICES ASSUME IsQueued(d) PROVE msg[d].fd \in Slots /\ msg[d].fd # f
          BY <2>6
        <5>1. msg[d].fd # 0 /\ sLoadStack[msg[d].fd].fr = d /\ msg[d].fd \in 0 .. MAX_OPEN_FILES
          BY <1>5, <2>3, <3>1, Fields DEF FilesInv
        <5> QED
          BY <2>4, <3>2, <5>1, Sizes DEF Slots
      <4> QED
        BY <1>2, <1>5, <1>9, <2>11, <3>1, <3>2, <4>1, OrderFrame
    <3>3. CASE d = c
      <4>1. PagesCopied(c) /\ PagesToCome(c) /\ Progress(c)
        BY <2>1, <3>1, <3>3 DEF OrderOf
      <4>2. Location(c) = l /\ Location(c)' = l + 1
        BY <1>2, <2>2, <2>5, <2>6 DEF Location
      <4>3. PagesCopied(c)'
        BY <1>2, <4>1 DEF PagesCopied
      <4>4. Progress(c)'
        BY <1>2, <4>1 DEF Progress, LengthToCopy
      <4>5. PagesToCome(c)'
        <5> DEFINE old(i) == mem[c][i][2]
        <5>1. msg[c].offset \in Nat /\ msg[c].bufs \in Seq(Waiting) /\ mem[c] \in Seq(Pages)
          BY <2>1, <2>3, Fields
        <5>2. \A i \in DOMAIN mem[c] : old(i) \in Nat
          BY <5>1, LenProperties DEF Pages
        <5>3. \A k \in DOMAIN msg[c].bufs : msg[c].bufs[k].page[2] \in Nat
          <6>1. \A k \in DOMAIN msg[c].bufs : msg[c].bufs[k] \in Waiting
            BY <5>1, LenProperties
          <6> QED
            BY <6>1 DEF Waiting, Pages
        <5>4. /\ l >= msg[c].offset
              /\ \A i \in DOMAIN mem[c] : Own(mem[c][i]) => old(i) < l
              /\ \A k \in DOMAIN msg[c].bufs : Own(msg[c].bufs[k].page) => PageFits(c, msg[c].bufs[k].page)
          BY <4>1, <4>2 DEF PagesToCome
        <5>5. ASSUME NEW k \in DOMAIN msg[c].bufs, Own(msg[c].bufs[k].page)
              PROVE  PageFits(c, msg[c].bufs[k].page)' /\ msg[c].bufs[k].page[2] < l
          <6>1. PICK q : q = msg[c].bufs[k].page
            OBVIOUS
          <6>2. PageFits(c, q) /\ q[2] \in Nat
            BY <5>3, <5>4, <5>5, <6>1
          <6>3. PageFits(c, q)' /\ q[2] < l
            BY <1>2, <2>6, <4>2, <6>2 DEF PageFits
          <6> QED
            BY <1>2, <6>1, <6>3
        <5>6. Own(page) => PageFits(c, page)'
          BY <1>2, <2>6, <2>8, <4>2, <5>1, <5>2, <5>4 DEF PageFits
        <5>7. l + 1 >= msg[c].offset /\ \A i \in DOMAIN mem[c] : Own(mem[c][i]) => old(i) < l + 1
          BY <2>6, <5>1, <5>2, <5>4
        <5> QED
          BY <1>2, <2>8, <2>11, <4>2, <5>5, <5>6, <5>7 DEF PagesToCome
      <4>6. Copied(c) => Copied(c)'
        BY <1>2 DEF Copied, LengthToCopy
      <4> QED
        BY <1>2, <1>9, <3>1, <3>3, <4>3, <4>4, <4>5, <4>6 DEF OrderOf
    <3> QED
      BY <3>2, <3>3
  <2> QED
    BY <1>7, <1>8, <1>10, <1>11, <2>12, <2>13, <2>14, <2>15, <2>16 DEF IsoInv
<1> QED
  BY <1>4, <1>13, <1>14

-----------------------------------------------------------------------------
(* Running the callbacks.                                                  *)

LEMMA CurrentLemma ==
    ASSUME IsoInv, pc = "process", NEW c, c = Current
    PROVE  /\ c \in Cmds /\ c \in Loading /\ IsQueued(c) /\ cursor.pri = PriorityOf(c)
           /\ cursor.pri \in Priorities /\ gPriStack[cursor.pri] \in Seq(Cmds)
           /\ cursor.idx \in DOMAIN gPriStack[cursor.pri] /\ cursor.idx \in Nat \ {0}
           /\ cursor.idx <= PRI_STACK_LENGTH
<1>1. TypeOK /\ QueueInv /\ CursorInv
  BY DEF IsoInv
<1>2. cursor.pri \in Priorities /\ gPriStack[cursor.pri] \in Seq(Cmds) /\ cursor.idx \in 0 .. PRI_STACK_LENGTH
  BY <1>1, Types DEF Stacks
<1>3. cursor.idx \in DOMAIN gPriStack[cursor.pri]
  BY <1>1 DEF CursorInv
<1>4. cursor.idx \in 1 .. Len(gPriStack[cursor.pri]) /\ Len(gPriStack[cursor.pri]) \in Nat
  BY <1>2, <1>3, LenProperties
<1>5. c \in Cmds
  BY <1>2, <1>4, ElementOfSeq DEF Current
<1>6. PriorityOf(c) = cursor.pri /\ c \in Loading
  BY <1>1, <1>2, <1>3 DEF QueueInv, Current
<1>7. IsQueued(c)
  BY <1>3, <1>6 DEF IsQueued, Has, Current
<1>8. cursor.idx \in Nat \ {0} /\ cursor.idx <= PRI_STACK_LENGTH
  BY <1>2, <1>4, Sizes
<1> QED
  BY <1>2, <1>3, <1>5, <1>6, <1>7, <1>8

\* ProcessMessageData goes on to the next command.
LEMMA NextCommandLemma ==
    ASSUME IsoInv, pc = "process", NextCommand, UNCHANGED gPriStack,
           SinglesEmpty' \/ (UNCHANGED msg /\ msg[Current].bufs = <<>>)
    PROVE  PlaceInv' /\ pc' \in {"sync", "process"} /\ cursor' \in [pri : Priorities, idx : 0 .. PRI_STACK_LENGTH]
<1>1. TypeOK /\ CursorInv
  BY DEF IsoInv
<1>2. PICK c : c = Current
  OBVIOUS
<1>3. PICK p : p = cursor.pri
  OBVIOUS
<1>4. PICK n : n = cursor.idx
  OBVIOUS
<1>5. /\ p \in Priorities /\ gPriStack[p] \in Seq(Cmds)
      /\ n \in DOMAIN gPriStack[p] /\ n \in Nat \ {0} /\ n <= PRI_STACK_LENGTH
      /\ c = gPriStack[p][n]
  BY <1>2, <1>3, <1>4, CurrentLemma DEF Current
<1>6. ASSUME NEW d \in Singles, msg'[d].bufs # <<>>
      PROVE  p = 2 /\ n > 1 /\ \E i \in 1 .. n - 1 : gPriStack[2][i] = d
  <2>1. UNCHANGED msg /\ msg[c].bufs = <<>> /\ msg[d].bufs # <<>>
    BY <1>2, <1>6 DEF SinglesEmpty
  <2>2. p = 2 /\ \E i \in 1 .. n : gPriStack[2][i] = d
    BY <1>1, <1>3, <1>4, <2>1 DEF CursorInv
  <2>3. PICK i \in 1 .. n : gPriStack[2][i] = d
    BY <2>2
  <2>4. i # n
    BY <1>5, <2>1, <2>2, <2>3
  <2>5. i \in 1 .. n - 1 /\ n > 1
    BY <1>5, <2>3, <2>4
  <2> QED
    BY <2>2, <2>3, <2>5
<1>7. CASE n > 1
  <2>1. pc' = "process" /\ cursor' = [cursor EXCEPT !.idx = @ - 1]
    BY <1>4, <1>7 DEF NextCommand
  <2>2. cursor \in [pri : Priorities, idx : 0 .. PRI_STACK_LENGTH]
    BY <1>1, Types
  <2>3. n - 1 \in 0 .. PRI_STACK_LENGTH /\ n - 1 \in DOMAIN gPriStack[p]
    <3>1. DOMAIN gPriStack[p] = 1 .. Len(gPriStack[p]) /\ Len(gPriStack[p]) \in Nat
      BY <1>5, LenProperties
    <3> QED
      BY <1>5, <1>7, <3>1, Sizes
  <2>4. cursor' = [pri |-> p, idx |-> n - 1]
    BY <1>3, <1>4, <2>1, <2>2
  <2>5. cursor'.pri = p /\ cursor'.idx = n - 1 /\ cursor' \in [pri : Priorities, idx : 0 .. PRI_STACK_LENGTH]
    BY <1>5, <2>3, <2>4
  <2> QED
    BY <1>6, <2>1, <2>3, <2>5 DEF PlaceInv
<1>8. CASE ~(n > 1)
  <2>1. SinglesEmpty'
    BY <1>6, <1>8 DEF SinglesEmpty
  <2>2. PICK q \in -1 .. 3 : q = p - 1
    BY <1>5, Sizes
  <2>3. ProcessFrom(q, gPriStack')
    BY <1>3, <1>4, <1>8, <2>2 DEF NextCommand
  <2>4. gPriStack' \in Stacks /\ \A r \in Priorities : Len(gPriStack'[r]) <= PRI_STACK_LENGTH
    BY <1>1, Types
  <2> QED
    BY <2>1, <2>3, <2>4, PlaceLemma
<1> QED
  BY <1>7, <1>8

LEMMA SkipCommandStep ==
    ASSUME IsoInv, SkipCommand
    PROVE  IsoInv'
<1>1. /\ pc = "process" /\ msg[Current].bufs = <<>> /\ NextCommand
      /\ UNCHANGED <<iso_mbx, gPriStack, msg, sFreeBuffer, sLoadStack, read_in_progress, read, mem, client, wantExit>>
  BY DEF SkipCommand, fsVars, threadVars
<1>2. /\ TypeOK /\ QueueInv /\ MessageInv /\ FilesInv /\ ReadInv /\ BufferInv /\ CursorInv /\ OrderInv
  BY DEF IsoInv
<1>3. PlaceInv' /\ pc' \in {"sync", "process"} /\ cursor' \in [pri : Priorities, idx : 0 .. PRI_STACK_LENGTH]
  BY <1>1, NextCommandLemma
<1>4. CursorInv'
  <2>1. HoldersInv'
    BY <1>1, <1>2, CursorParts DEF HoldersInv
  <2> QED
    BY <1>3, <2>1, CursorParts, PTL
<1>5. TypeOK'
  BY <1>1, <1>2, <1>3 DEF TypeOK
<1>6. NeverStuck'
  BY <1>3 DEF NeverStuck
<1>7. \A d : (InMailbox(d)' <=> InMailbox(d)) /\ (IsQueued(d)' <=> IsQueued(d))
  BY <1>1 DEF InMailbox, IsQueued
<1>8. QueueInv'
  BY <1>1, <1>2, <1>7 DEF QueueInv
<1>9. MessageInv'
  BY <1>1, <1>2, <1>7 DEF MessageInv, MessageOf
<1>10. FilesInv'
  BY <1>1, <1>2, <1>7 DEF FilesInv
<1>11. ReadInv'
  BY <1>1, <1>2, <1>3, <1>7 DEF ReadInv
<1>12. BufferInv'
  BY <1>1, <1>2 DEF BufferInv, InFreeList, HeldBy, InRead
<1>13. OrderInv'
  <2> SUFFICES ASSUME NEW d \in Singles PROVE OrderOf(d)'
    BY DEF OrderInv
  <2>1. d \in Cmds /\ OrderOf(d)
    BY <1>2 DEF OrderInv, Singles
  <2> QED
    BY <1>1, <1>2, <1>7, <2>1, OrderFrame
<1> QED
  BY <1>4, <1>5, <1>6, <1>8, <1>9, <1>10, <1>11, <1>12, <1>13 DEF IsoInv

\* When a callback runs, no single load but its own holds a buffer.
LEMMA OthersEmpty ==
    ASSUME IsoInv, pc = "process", NEW c, c = Current, msg[c].bufs # <<>>
    PROVE  /\ \A d \in Singles : d # c => msg[d].bufs = <<>>
           /\ c \in Singles => Len(msg[c].bufs) = 1
<1>1. CursorInv /\ c \in Cmds /\ c \in Loading /\ cursor.pri = PriorityOf(c) /\ TypeOK
  BY CurrentLemma DEF IsoInv
<1>2. CASE c \in Singles
  <2>1. msg[c].bufs \in Seq(Waiting)
    BY <1>1, Types, Fields
  <2>2. PICK n \in Nat : n = Len(msg[c].bufs) /\ n # 0
    BY <2>1, EmptySeq
  <2>3. n <= 1
    BY <1>1, <1>2, <2>2 DEF CursorInv
  <2>4. \A k \in Nat : k # 0 /\ k <= 1 => k = 1
    OBVIOUS
  <2>5. \A d \in Singles : d # c => msg[d].bufs = <<>>
    BY <1>1, <1>2 DEF CursorInv
  <2> QED
    BY <2>2, <2>3, <2>4, <2>5
<1>3. CASE c \notin Singles
  <2>1. cursor.pri = 0
    BY <1>1, <1>3, Kinds
  <2> QED
    BY <1>1, <1>3, <2>1 DEF CursorInv
<1> QED
  BY <1>2, <1>3

\* The callback of command c uses up its first buffer; it may send the
\* command back to a caller that waits for an object.
LEMMA ConsumeStep ==
    ASSUME IsoInv, pc = "process", NEW c, c = Current, msg[c].bufs # <<>>, Consume(c),
           NEW m \in Message, msg' = [msg EXCEPT ![c] = m],
           m.status = msg[c].status, m.fd = msg[c].fd, m.bufs = Tail(msg[c].bufs),
           client' = client \/ (c \notin Singles /\ client[c] = "waiting" /\ client' = [client EXCEPT ![c] = "returned"]),
           mem' \in [Cmds -> Seq(Pages)], UNCHANGED <<iso_mbx, read, wantExit>>, OrderInv'
    PROVE  IsoInv'
<1>1. /\ c \in Cmds /\ c \in Loading /\ IsQueued(c)
  BY CurrentLemma
<1>2. /\ TypeOK /\ QueueInv /\ MessageInv /\ FilesInv /\ ReadInv /\ BufferInv /\ CursorInv
  BY DEF IsoInv
<1>3. /\ msg \in [Cmds -> Message] /\ client \in [Cmds -> {"idle", "waiting", "returned"}]
      /\ msg[c].bufs \in Seq(Waiting) /\ sFreeBuffer \in Seq(Buffers)
  <2>1. msg \in [Cmds -> Message]
    BY <1>2, Types
  <2> QED
    BY <1>1, <1>2, <2>1, Types, Fields
<1>4. /\ msg' \in [Cmds -> Message]
      /\ msg'[c] = m /\ \A d \in Cmds : d # c => msg'[d] = msg[d]
      /\ \A d \in Cmds : msg'[d].status = msg[d].status /\ msg'[d].fd = msg[d].fd
  BY <1>1, <1>3
<1>5. /\ client' \in [Cmds -> {"idle", "waiting", "returned"}]
      /\ \A d \in Cmds : client'[d] = client[d] \/ (d = c /\ c \notin Singles /\ client[d] = "waiting" /\ client'[d] = "returned")
  BY <1>1, <1>3
<1>6. PICK b : b = Head(msg[c].bufs).buf
  OBVIOUS
<1>7. /\ UNCHANGED <<gPriStack, sLoadStack, read_in_progress>> /\ NextCommand
      /\ sFreeBuffer' = <<b>> \o sFreeBuffer
  BY <1>6 DEF Consume, fsVars, FreeBuffer
<1>8. /\ b \in Buffers /\ HeldBy(b, c) /\ Once(Named(msg'[c].bufs))
      /\ \A x : HeldBy(x, c)' <=> HeldBy(x, c) /\ x # b
      /\ Len(msg'[c].bufs) = Len(msg[c].bufs) - 1 /\ Len(msg[c].bufs) \in Nat \ {0}
  <2>1. PICK n \in Seq(Buffers) : n = Named(msg[c].bufs) /\ n # <<>>
    BY <1>3, NamedLemma
  <2>2. b = Head(n) /\ Named(Tail(msg[c].bufs)) = Tail(n)
    BY <1>3, <1>6, <2>1, NamedTail
  <2>3. Once(n)
    BY <1>1, <1>2, <2>1 DEF BufferInv
  <2>4. Head(n) \in Buffers /\ Has(n, Head(n)) /\ Once(Tail(n)) /\ \A x : Has(Tail(n), x) <=> Has(n, x) /\ x # Head(n)
    BY <2>1, <2>3, TailLemma
  <2>5. Len(Tail(msg[c].bufs)) = Len(msg[c].bufs) - 1 /\ Len(msg[c].bufs) \in Nat \ {0}
    BY <1>3, HeadTailProperties, EmptySeq
  <2>6. msg'[c].bufs = Tail(msg[c].bufs)
    BY <1>4
  <2>7. Named(msg'[c].bufs) = Tail(n)
    BY <2>2, <2>6
  <2>8. \A x : HeldBy(x, c) <=> Has(n, x)
    BY <2>1 DEF HeldBy
  <2>9. \A x : HeldBy(x, c)' <=> Has(Tail(n), x)
    BY <2>7 DEF HeldBy
  <2> QED
    BY <2>2, <2>4, <2>5, <2>6, <2>7, <2>8, <2>9
<1>9. \A d \in Cmds : d # c => \A x : HeldBy(x, d)' <=> HeldBy(x, d)
  BY <1>4 DEF HeldBy
<1>10. ~InFreeList(b) /\ ~InRead(b) /\ \A d \in Cmds : HeldBy(b, d) => d = c
  BY <1>1, <1>2, <1>8 DEF BufferInv
<1>11. /\ sFreeBuffer' \in Seq(Buffers) /\ Once(sFreeBuffer')
       /\ \A x : InFreeList(x)' <=> x = b \/ InFreeList(x)
  <2>1. Once(sFreeBuffer) /\ ~Has(sFreeBuffer, b)
    BY <1>2, <1>10 DEF BufferInv, InFreeList
  <2> QED
    BY <1>3, <1>7, <1>8, <2>1, ConsLemma DEF InFreeList
<1>12. \A d : (InMailbox(d)' <=> InMailbox(d)) /\ (IsQueued(d)' <=> IsQueued(d))
  BY <1>7 DEF InMailbox, IsQueued
<1>13. SinglesEmpty'
  <2> SUFFICES ASSUME NEW d \in Singles PROVE msg'[d].bufs = <<>>
    BY DEF SinglesEmpty
  <2>1. d \in Cmds
    BY DEF Singles
  <2>2. CASE d # c
    BY <1>4, <2>1, <2>2, OthersEmpty
  <2>3. CASE d = c
    <3>1. Len(msg[c].bufs) = 1
      BY <2>3, OthersEmpty
    <3>2. Len(msg'[c].bufs) = 0
      BY <1>8, <3>1
    <3>3. msg'[c].bufs \in Seq(Waiting)
      BY <1>1, <1>4, Fields
    <3> QED
      BY <2>3, <3>2, <3>3, EmptySeq
  <2> QED
    BY <2>2, <2>3
<1>14. PlaceInv' /\ pc' \in {"sync", "process"} /\ cursor' \in [pri : Priorities, idx : 0 .. PRI_STACK_LENGTH]
  BY <1>7, <1>13, NextCommandLemma
<1>15. CursorInv'
  <2>1. ASSUME NEW d \in Cmds PROVE Len(msg'[d].bufs) <= 2
    <3>1. Len(msg[d].bufs) <= 2
      BY <1>2 DEF CursorInv
    <3> QED
      BY <1>4, <1>8, <3>1
  <2>2. \A d \in Singles : msg'[d].bufs = <<>> /\ Len(msg'[d].bufs) = 0
    BY <1>13, EmptyLemma DEF SinglesEmpty
  <2>3. HoldersInv'
    BY <2>1, <2>2 DEF HoldersInv
  <2> QED
    BY <1>14, <2>3, CursorParts, PTL
<1>16. TypeOK'
  BY <1>2, <1>4, <1>5, <1>7, <1>11, <1>14 DEF TypeOK, Message, Waiting, Statuses
<1>17. NeverStuck'
  BY <1>14 DEF NeverStuck
<1>18. QueueInv'
  BY <1>2, <1>7, <1>12 DEF QueueInv
<1>19. MessageInv'
  <2> SUFFICES ASSUME NEW d \in Cmds PROVE MessageOf(d)'
    BY DEF MessageInv
  <2>1. MessageOf(d) /\ (d = c => IsQueued(d) /\ ~InMailbox(d))
    BY <1>1, <1>2 DEF MessageInv, QueueInv
  <2> QED
    BY <1>4, <1>5, <1>12, <2>1 DEF MessageOf
<1>20. FilesInv'
  BY <1>2, <1>4, <1>7, <1>12 DEF FilesInv
<1>21. ReadInv'
  <2>1. read_in_progress => read # NoRead /\ read.cmd \in Cmds /\ IsQueued(read.cmd) /\ Len(msg[read.cmd].bufs) < 2
    BY <1>2 DEF ReadInv
  <2>2. read_in_progress => Len(msg'[read.cmd].bufs) < 2
    BY <1>4, <1>8, <2>1
  <2> QED
    BY <1>2, <1>7, <1>12, <1>14, <2>1, <2>2 DEF ReadInv
<1>22. BufferInv'
  <2>1. \A x : InRead(x)' <=> InRead(x)
    BY DEF InRead
  <2>2. \A d \in Cmds : Once(Named(msg'[d].bufs))
    BY <1>2, <1>4, <1>8 DEF BufferInv
  <2>3. ASSUME NEW x \in Buffers PROVE InFreeList(x)' \/ InRead(x)' \/ \E d \in Cmds : HeldBy(x, d)'
    BY <1>2, <1>8, <1>9, <1>11, <2>1 DEF BufferInv
  <2>4. ASSUME NEW x \in Buffers PROVE ~(InFreeList(x)' /\ InRead(x)')
    BY <1>2, <1>10, <1>11, <2>1 DEF BufferInv
  <2>5. ASSUME NEW x \in Buffers, NEW d \in Cmds, HeldBy(x, d)'
        PROVE  ~InFreeList(x)' /\ ~InRead(x)' /\ \A e \in Cmds : HeldBy(x, e)' => e = d
    <3>1. HeldBy(x, d) /\ x # b
      BY <1>8, <1>9, <1>10, <2>5
    <3>2. \A e \in Cmds : HeldBy(x, e)' => HeldBy(x, e)
      BY <1>8, <1>9
    <3> QED
      BY <1>2, <1>11, <2>1, <3>1, <3>2 DEF BufferInv
  <2> QED
    BY <1>11, <2>2, <2>3, <2>4, <2>5 DEF BufferInv
<1> QED
  BY <1>15, <1>16, <1>17, <1>18, <1>19, <1>20, <1>21, <1>22 DEF IsoInv

\* ReleaseMessage takes command c, and no other, out of its stack.
LEMMA LeaveQueue ==
    ASSUME IsoInv, pc = "process", NEW c, c = Current, Finish(c)
    PROVE  /\ gPriStack' \in Stacks /\ ProcessFrom(cursor.pri, gPriStack')
           /\ \A q \in Priorities : Len(gPriStack'[q]) <= PRI_STACK_LENGTH
           /\ \A q \in Priorities : Once(gPriStack'[q])
           /\ \A q \in Priorities : \A i \in DOMAIN gPriStack'[q] :
                 PriorityOf(gPriStack'[q][i]) = q /\ gPriStack'[q][i] \in Loading
           /\ \A d \in Cmds : IsQueued(d)' <=> IsQueued(d) /\ d # c
<1>1. /\ c \in Cmds /\ c \in Loading /\ IsQueued(c) /\ cursor.pri = PriorityOf(c)
      /\ cursor.pri \in Priorities /\ gPriStack[cursor.pri] \in Seq(Cmds)
      /\ cursor.idx \in DOMAIN gPriStack[cursor.pri]
  BY CurrentLemma
<1>2. TypeOK /\ QueueInv
  BY DEF IsoInv
<1>3. gPriStack \in Stacks
  BY <1>2, Types
<1>4. PICK p \in Priorities : p = cursor.pri
  BY <1>1
<1>5. PICK g : g = RemoveAt(gPriStack[p], cursor.idx)
  OBVIOUS
<1>6. gPriStack' = [gPriStack EXCEPT ![p] = g] /\ ProcessFrom(p, gPriStack')
  BY <1>4, <1>5 DEF Finish, UnqueueMessage
<1>7. /\ g \in Seq(Cmds) /\ Len(g) = Len(gPriStack[p]) - 1 /\ Once(g) /\ Len(gPriStack[p]) \in Nat
      /\ \A x : Has(g, x) <=> Has(gPriStack[p], x) /\ x # c
  <2>1. Once(gPriStack[p]) /\ gPriStack[p][cursor.idx] = c
    BY <1>1, <1>2, <1>4 DEF QueueInv, Current
  <2>2. Len(gPriStack[p]) \in Nat
    BY <1>1, <1>4, LenProperties
  <2> QED
    BY <1>1, <1>4, <1>5, <2>1, <2>2, RemoveLemma
<1>8. /\ gPriStack' \in Stacks /\ gPriStack'[p] = g
      /\ \A q \in Priorities : q # p => gPriStack'[q] = gPriStack[q]
  BY <1>3, <1>6, <1>7 DEF Stacks
<1>9. \A q \in Priorities : Len(gPriStack'[q]) <= PRI_STACK_LENGTH
  <2>1. \A q \in Priorities : Len(gPriStack[q]) <= PRI_STACK_LENGTH
    BY <1>2, Types
  <2>2. Len(g) <= PRI_STACK_LENGTH
    <3>1. PICK k \in Nat : k = Len(gPriStack[p]) /\ k <= PRI_STACK_LENGTH /\ Len(g) = k - 1
      BY <1>7, <2>1
    <3>2. k - 1 <= PRI_STACK_LENGTH
      BY <3>1, Sizes
    <3> QED
      BY <3>1, <3>2
  <2> QED
    BY <1>8, <2>1, <2>2
<1>10. \A d \in Cmds : IsQueued(d)' <=> IsQueued(d) /\ d # c
  <2> SUFFICES ASSUME NEW d \in Cmds PROVE IsQueued(d)' <=> IsQueued(d) /\ d # c
    OBVIOUS
  <2>1. CASE PriorityOf(d) = p
    BY <1>7, <1>8, <2>1 DEF IsQueued
  <2>2. CASE PriorityOf(d) # p
    BY <1>1, <1>4, <1>8, <2>2, Sizes DEF IsQueued
  <2> QED
    BY <2>1, <2>2
<1>11. \A q \in Priorities : Once(gPriStack'[q])
  BY <1>2, <1>7, <1>8 DEF QueueInv
<1>12. ASSUME NEW q \in Priorities, NEW i \in DOMAIN gPriStack'[q]
      PROVE  PriorityOf(gPriStack'[q][i]) = q /\ gPriStack'[q][i] \in Loading
  <2>1. CASE q # p
    BY <1>2, <1>8, <1>12, <2>1 DEF QueueInv
  <2>2. CASE q = p
    <3>1. PICK x : x = g[i]
      OBVIOUS
    <3>2. Has(g, x)
      BY <1>8, <1>12, <2>2, <3>1 DEF Has
    <3>3. PICK j \in DOMAIN gPriStack[p] : gPriStack[p][j] = x
      BY <1>7, <3>2 DEF Has
    <3> QED
      BY <1>2, <1>8, <2>2, <3>1, <3>3 DEF QueueInv
  <2> QED
    BY <2>1, <2>2
<1> QED
  BY <1>4, <1>6, <1>8, <1>9, <1>10, <1>11, <1>12

\* The callback of command c is done: the command leaves its queue, gives
\* back its buffers and its file and wakes its caller.
LEMMA FinishStep ==
    ASSUME IsoInv, pc = "process", NEW c, c = Current, msg[c].bufs # <<>>, Finish(c),
           NEW m \in Message, msg' = [msg EXCEPT ![c] = m],
           m.status = "DONE", m.fd = 0, m.bufs = <<>>,
           mem' \in [Cmds -> Seq(Pages)], UNCHANGED <<iso_mbx, read>>, OrderInv'
    PROVE  IsoInv'
<1>1. /\ c \in Cmds /\ c \in Loading /\ IsQueued(c) /\ cursor.pri = PriorityOf(c)
      /\ cursor.pri \in Priorities /\ gPriStack[cursor.pri] \in Seq(Cmds)
      /\ cursor.idx \in DOMAIN gPriStack[cursor.pri]
  BY CurrentLemma
<1>2. /\ TypeOK /\ QueueInv /\ MessageInv /\ FilesInv /\ ReadInv /\ BufferInv /\ CursorInv
  BY DEF IsoInv
<1>3. /\ msg \in [Cmds -> Message] /\ client \in [Cmds -> {"idle", "waiting", "returned"}]
      /\ msg[c].bufs \in Seq(Waiting) /\ sFreeBuffer \in Seq(Buffers) /\ gPriStack \in Stacks
      /\ sLoadStack \in [Slots -> [fr : Cmds \cup {NoCmd}, location : Nat]]
      /\ msg[c].fd \in 0 .. MAX_OPEN_FILES
  <2>1. msg \in [Cmds -> Message]
    BY <1>2, Types
  <2> QED
    BY <1>1, <1>2, <2>1, Types, Fields
<1>4. /\ msg' \in [Cmds -> Message]
      /\ msg'[c] = m /\ \A d \in Cmds : d # c => msg'[d] = msg[d]
  BY <1>1, <1>3
<1>5. PICK f : f = msg[c].fd
  OBVIOUS
<1>6. /\ sFreeBuffer' = Reverse(Named(msg[c].bufs)) \o sFreeBuffer
      /\ sLoadStack' = [sLoadStack EXCEPT ![f] = Closed] /\ read_in_progress' = FALSE
      /\ client' = [client EXCEPT ![c] = "returned"] /\ wantExit' = wantExit
  BY <1>5 DEF Finish, FreeAll, Named, CloseFile
<1>7. client' \in [Cmds -> {"idle", "waiting", "returned"}] /\ client'[c] = "returned" /\ \A d \in Cmds : d # c => client'[d] = client[d]
  BY <1>1, <1>3, <1>6
<1>8. /\ gPriStack' \in Stacks /\ ProcessFrom(cursor.pri, gPriStack')
      /\ \A q \in Priorities : Len(gPriStack'[q]) <= PRI_STACK_LENGTH
      /\ \A q \in Priorities : Once(gPriStack'[q])
      /\ \A q \in Priorities : \A i \in DOMAIN gPriStack'[q] :
            PriorityOf(gPriStack'[q][i]) = q /\ gPriStack'[q][i] \in Loading
  BY LeaveQueue
<1>9. \A d \in Cmds : IsQueued(d)' <=> IsQueued(d) /\ d # c
  BY LeaveQueue
<1>10. \A d : InMailbox(d)' <=> InMailbox(d)
  BY DEF InMailbox
<1>11. ~InMailbox(c)
  BY <1>1, <1>2 DEF QueueInv
<1>12. SinglesEmpty'
  <2> SUFFICES ASSUME NEW d \in Singles PROVE msg'[d].bufs = <<>>
    BY DEF SinglesEmpty
  <2>1. d \in Cmds
    BY DEF Singles
  <2> QED
    BY <1>4, <2>1, OthersEmpty
<1>13. PlaceInv' /\ pc' \in {"sync", "process"} /\ cursor' \in [pri : Priorities, idx : 0 .. PRI_STACK_LENGTH]
  <2>1. cursor.pri \in -1 .. 3
    BY <1>1, Sizes
  <2> QED
    BY <1>8, <1>12, <2>1, PlaceLemma
<1>14. f \in Slots /\ f # 0 /\ sLoadStack[f].fr = c
  <2>1. f # 0 /\ sLoadStack[f].fr = c
    BY <1>1, <1>2, <1>5 DEF FilesInv
  <2> QED
    BY <1>3, <1>5, <2>1, Sizes DEF Slots
<1>15. /\ sLoadStack' \in [Slots -> [fr : Cmds \cup {NoCmd}, location : Nat]] /\ sLoadStack'[f].fr = NoCmd
       /\ \A s \in Slots : s # f => sLoadStack'[s] = sLoadStack[s]
  BY <1>3, <1>6, <1>14 DEF Closed
<1>16. /\ sFreeBuffer' \in Seq(Buffers) /\ Once(sFreeBuffer')
       /\ \A x : InFreeList(x)' <=> HeldBy(x, c) \/ InFreeList(x)
  <2>1. PICK n \in Seq(Buffers) : n = Named(msg[c].bufs) /\ Once(n)
    BY <1>1, <1>2, <1>3, NamedLemma DEF BufferInv
  <2>2. PICK r \in Seq(Buffers) : r = Reverse(n) /\ Once(r) /\ \A x : Has(r, x) <=> Has(n, x)
    BY <2>1, ReverseLemma
  <2>3. \A x : HeldBy(x, c) <=> Has(n, x)
    BY <2>1 DEF HeldBy
  <2>4. \A x : ~(Has(r, x) /\ Has(sFreeBuffer, x))
    <3> SUFFICES ASSUME NEW x, HeldBy(x, c), InFreeList(x) PROVE FALSE
      BY <2>2, <2>3 DEF InFreeList
    <3>1. x \in Buffers
      <4>1. PICK i \in DOMAIN n : n[i] = x
        BY <2>3 DEF Has
      <4> QED
        BY <2>1, <4>1, LenProperties
    <3> QED
      BY <1>1, <1>2, <3>1 DEF BufferInv
  <2>5. Once(sFreeBuffer)
    BY <1>2 DEF BufferInv
  <2>6. sFreeBuffer' = r \o sFreeBuffer
    BY <1>6, <2>1, <2>2
  <2>7. r \o sFreeBuffer \in Seq(Buffers) /\ Once(r \o sFreeBuffer) /\ \A x : Has(r \o sFreeBuffer, x) <=> Has(r, x) \/ Has(sFreeBuffer, x)
    BY <1>3, <2>2, <2>4, <2>5, ConcatLemma
  <2> QED
    BY <2>2, <2>3, <2>6, <2>7 DEF InFreeList
<1>17. /\ \A x : ~HeldBy(x, c)'
       /\ \A d \in Cmds : d # c => \A x : HeldBy(x, d)' <=> HeldBy(x, d)
       /\ Once(Named(msg'[c].bufs))
  <2>1. Named(msg'[c].bufs) = <<>>
    BY <1>4, NamedEmpty
  <2>2. \A x : ~HeldBy(x, c)'
    BY <2>1, EmptyLemma DEF HeldBy
  <2>3. \A d \in Cmds : d # c => \A x : HeldBy(x, d)' <=> HeldBy(x, d)
    BY <1>4 DEF HeldBy
  <2> QED
    BY <2>1, <2>2, <2>3, EmptyLemma
<1>18. TypeOK'
  <2>1. read_in_progress' \in BOOLEAN
    BY <1>6
  <2> QED
    BY <1>2, <1>4, <1>6, <1>7, <1>8, <1>13, <1>15, <1>16, <2>1 DEF TypeOK, Message, Waiting, Statuses, Stacks
<1>19. NeverStuck'
  BY <1>13 DEF NeverStuck
<1>20. QueueInv'
  <2>1. Once(iso_mbx') /\ \A d \in Cmds : ~(InMailbox(d)' /\ IsQueued(d)')
    BY <1>2, <1>9, <1>10 DEF QueueInv
  <2> QED
    BY <1>8, <2>1 DEF QueueInv
<1>21. MessageInv'
  <2> SUFFICES ASSUME NEW d \in Cmds PROVE MessageOf(d)'
    BY DEF MessageInv
  <2>1. MessageOf(d)
    BY <1>2 DEF MessageInv
  <2>2. CASE d # c
    BY <1>4, <1>7, <1>9, <1>10, <2>1, <2>2 DEF MessageOf
  <2>3. CASE d = c
    BY <1>4, <1>7, <1>9, <1>10, <1>11, <2>3 DEF MessageOf
  <2> QED
    BY <2>2, <2>3
<1>22. FilesInv'
  <2>1. ASSUME NEW d \in Cmds, IsQueued(d)' PROVE msg'[d].fd # 0 /\ sLoadStack'[msg'[d].fd].fr = d
    <3>1. IsQueued(d) /\ d # c /\ msg'[d] = msg[d]
      BY <1>4, <1>9, <2>1
    <3>2. msg[d].fd # 0 /\ sLoadStack[msg[d].fd].fr = d /\ msg[d].fd \in 0 .. MAX_OPEN_FILES
      BY <1>2, <1>3, <3>1, Fields DEF FilesInv
    <3>3. msg[d].fd \in Slots /\ msg[d].fd # f
      BY <1>14, <3>1, <3>2, Sizes DEF Slots
    <3> QED
      BY <1>15, <3>1, <3>2, <3>3
  <2>2. ASSUME NEW s \in Slots, NEW d \in Cmds, sLoadStack'[s].fr = d PROVE IsQueued(d)' /\ msg'[d].fd = s
    <3>1. s # f
      BY <1>15, <2>2, Sizes
    <3>2. IsQueued(d) /\ msg[d].fd = s
      BY <1>2, <1>15, <2>2, <3>1 DEF FilesInv
    <3> QED
      BY <1>4, <1>5, <1>9, <3>1, <3>2
  <2> QED
    BY <2>1, <2>2 DEF FilesInv
<1>23. ReadInv'
  BY <1>2, <1>6, <1>13 DEF ReadInv
<1>24. BufferInv'
  <2>1. \A x : InRead(x)' <=> InRead(x)
    BY DEF InRead
  <2>2. \A d \in Cmds : Once(Named(msg'[d].bufs))
    BY <1>2, <1>4, <1>17 DEF BufferInv
  <2>3. ASSUME NEW x \in Buffers PROVE InFreeList(x)' \/ InRead(x)' \/ \E d \in Cmds : HeldBy(x, d)'
    BY <1>2, <1>16, <1>17, <2>1 DEF BufferInv
  <2>4. ASSUME NEW x \in Buffers PROVE ~(InFreeList(x)' /\ InRead(x)')
    BY <1>1, <1>2, <1>16, <2>1 DEF BufferInv
  <2>5. ASSUME NEW x \in Buffers, NEW d \in Cmds, HeldBy(x, d)'
        PROVE  ~InFreeList(x)' /\ ~InRead(x)' /\ \A e \in Cmds : HeldBy(x, e)' => e = d
    <3>1. HeldBy(x, d) /\ d # c
      BY <1>17, <2>5
    <3>2. \A e \in Cmds : HeldBy(x, e)' => HeldBy(x, e)
      BY <1>17
    <3>3. ~InFreeList(x) /\ ~InRead(x) /\ \A e \in Cmds : HeldBy(x, e) => e = d
      BY <1>2, <3>1 DEF BufferInv
    <3> QED
      BY <1>1, <1>16, <2>1, <3>1, <3>2, <3>3
  <2> QED
    BY <1>16, <2>2, <2>3, <2>4, <2>5 DEF BufferInv
<1>25. CursorInv'
  <2>1. ASSUME NEW d \in Cmds PROVE Len(msg'[d].bufs) <= 2
    <3>1. CASE d # c
      BY <1>2, <1>4, <3>1 DEF CursorInv
    <3>2. CASE d = c
      BY <1>4, <3>2, EmptyLemma
    <3> QED
      BY <3>1, <3>2
  <2>2. \A d \in Singles : msg'[d].bufs = <<>> /\ Len(msg'[d].bufs) = 0
    BY <1>12, EmptyLemma DEF SinglesEmpty
  <2>3. HoldersInv'
    BY <2>1, <2>2 DEF HoldersInv
  <2> QED
    BY <1>13, <2>3, CursorParts, PTL
<1> QED
  BY <1>18, <1>19, <1>20, <1>21, <1>22, <1>23, <1>24, <1>25 DEF IsoInv

\* CopyDataToEE and CopyDataToIOP write behind what they have written, or
\* over the one page they keep.
LEMMA WrittenLemma ==
    ASSUME NEW old \in Seq(Pages), NEW k \in Nat \ {0}, NEW page \in Pages, Len(old) = k - 1 \/ Len(old) = k
    PROVE  \E new \in Seq(Pages) :
              /\ new = Written(old, k, page) /\ Len(new) = k /\ DOMAIN new = 1 .. k /\ new[k] = page
              /\ \A i \in 1 .. k - 1 : new[i] = old[i] /\ i \in DOMAIN old
<1> DEFINE new == Written(old, k, page)
<1>1. PICK n \in Nat : n = Len(old) /\ DOMAIN old = 1 .. n /\ \A i \in 1 .. n : old[i] \in Pages
  BY LenProperties
<1>2. (IF k > n THEN k ELSE n) = k /\ (n = k - 1 \/ n = k)
  BY <1>1
<1>3. new = [i \in 1 .. k |-> IF i = k THEN page ELSE old[i]]
  BY <1>1, <1>2 DEF Written
<1> HIDE DEF new
<1>4. \A i \in 1 .. k - 1 : i \in 1 .. n /\ i \in 1 .. k /\ i # k
  BY <1>2
<1>5. \A i \in 1 .. k : i = k \/ i \in 1 .. k - 1
  OBVIOUS
<1>6. k \in 1 .. k
  OBVIOUS
<1>7. DOMAIN new = 1 .. k /\ new[k] = page /\ \A i \in 1 .. k - 1 : new[i] = old[i] /\ i \in DOMAIN old
  BY <1>1, <1>3, <1>4, <1>6
<1>8. \A i \in 1 .. k : new[i] \in Pages
  BY <1>1, <1>4, <1>5, <1>7
<1>9. new \in Seq(Pages) /\ Len(new) = k
  BY <1>3, <1>8
<1> QED
  BY <1>7, <1>9 DEF new

\* The page that CopyData copies follows the pages copied before it and
\* precedes the one being read.
LEMMA CopyOrder ==
    ASSUME IsoInv, pc = "process", NEW c \in Singles, c = Current, msg[c].bufs # <<>>,
           mem' = [mem EXCEPT ![c] = Written(@, CopyIndex(c), Head(msg[c].bufs).page)],
           NEW m \in Message, msg' = [msg EXCEPT ![c] = m],
           m.offset = msg[c].offset, m.length = msg[c].length, m.length_to_copy = msg[c].length_to_copy,
           m.done = msg[c].done + 1, UNCHANGED read
    PROVE  /\ mem' \in [Cmds -> Seq(Pages)]
           /\ PagesCopied(c)'
           /\ msg[c].length_to_copy = LengthToCopy(c) /\ LengthToCopy(c)' = LengthToCopy(c)
           /\ Len(mem'[c]) = IF KindOf[c] = "ee" THEN m.done ELSE 1
           /\ UNCHANGED sLoadStack /\ m.fd = msg[c].fd /\ m.bufs = <<>> => PagesToCome(c)'
<1>1. c \in Cmds /\ IsQueued(c) /\ TypeOK
  BY CurrentLemma DEF IsoInv
<1>2. OrderOf(c)
  BY DEF IsoInv, OrderInv
<1>3. PagesCopied(c) /\ PagesToCome(c) /\ Progress(c)
  BY <1>1, <1>2 DEF OrderOf
<1>4. msg \in [Cmds -> Message] /\ mem \in [Cmds -> Seq(Pages)]
  BY <1>1, Types
<1>5. PICK old \in Seq(Pages) : old = mem[c]
  BY <1>1, <1>4
<1>6. msg[c].bufs \in Seq(Waiting) /\ msg[c].done \in Nat /\ msg[c].offset \in Nat
  BY <1>1, <1>4, Fields
<1>7. PICK page \in Pages : page = Head(msg[c].bufs).page /\ page = msg[c].bufs[1].page /\ 1 \in DOMAIN msg[c].bufs
  <2>1. Head(msg[c].bufs) \in Waiting /\ Head(msg[c].bufs) = msg[c].bufs[1]
    BY <1>6, NamedTail
  <2>2. 1 \in DOMAIN msg[c].bufs
    BY <1>6, EmptySeq, LenProperties
  <2> QED
    BY <2>1, <2>2 DEF Waiting
<1>8. PICK k : k = CopyIndex(c)
  OBVIOUS
<1>9. PICK done \in Nat : done = msg[c].done
  BY <1>6
<1>10. k \in Nat \ {0} /\ (Len(old) = k - 1 \/ Len(old) = k) /\ k = (IF KindOf[c] = "ee" THEN done + 1 ELSE 1)
  <2>1. Len(old) = IF KindOf[c] = "ee" \/ done = 0 THEN done ELSE 1
    BY <1>3, <1>5, <1>9 DEF Progress
  <2>2. k = IF KindOf[c] = "ee" THEN done + 1 ELSE 1
    BY <1>8, <1>9 DEF CopyIndex
  <2>3. CASE KindOf[c] = "ee"
    <3>1. Len(old) = done /\ k = done + 1
      BY <2>1, <2>2, <2>3
    <3>2. done + 1 \in Nat \ {0} /\ done = (done + 1) - 1
      OBVIOUS
    <3>3. k \in Nat \ {0} /\ Len(old) = k - 1
      BY <3>1, <3>2
    <3> QED
      BY <2>2, <3>3
  <2>4. CASE KindOf[c] # "ee"
    <3>1. k = 1 /\ (Len(old) = 0 \/ Len(old) = 1)
      BY <2>1, <2>2, <2>4
    <3>2. k \in Nat \ {0} /\ (Len(old) = k - 1 \/ Len(old) = k)
      BY <3>1
    <3> QED
      BY <2>2, <3>2
  <2> QED
    BY <2>3, <2>4
<1>11. \E new \in Seq(Pages) :
          /\ new = Written(old, k, page) /\ Len(new) = k /\ DOMAIN new = 1 .. k /\ new[k] = page
          /\ \A i \in 1 .. k - 1 : new[i] = old[i] /\ i \in DOMAIN old
  <2>1. k \in Nat \ {0} /\ (Len(old) = k - 1 \/ Len(old) = k)
    BY <1>10
  <2> QED
    BY <2>1, WrittenLemma
<1>12. PICK new \in Seq(Pages) :
          /\ new = Written(old, k, page) /\ Len(new) = k /\ DOMAIN new = 1 .. k /\ new[k] = page
          /\ \A i \in 1 .. k - 1 : new[i] = old[i] /\ i \in DOMAIN old
  BY <1>11
<1>13. mem' \in [Cmds -> Seq(Pages)] /\ mem'[c] = new
  BY <1>1, <1>4, <1>5, <1>7, <1>8, <1>12
<1>14. msg' \in [Cmds -> Message] /\ msg'[c] = m
  BY <1>1, <1>4
<1>15. /\ \A i \in DOMAIN old : Own(old[i]) => old[i][1] = c /\ old[i][2] >= msg[c].offset
       /\ \A i, j \in DOMAIN old : i < j /\ Own(old[i]) /\ Own(old[j]) => old[i][2] < old[j][2]
  BY <1>3, <1>5 DEF PagesCopied
<1>16. Own(page) => /\ page[1] = c /\ msg[c].offset <= page[2] /\ page[2] < Location(c)
                    /\ \A i \in DOMAIN old : Own(old[i]) => old[i][2] < page[2]
  BY <1>3, <1>5, <1>7 DEF PagesToCome, PageFits
<1>17. \A i \in 1 .. k : i \in 1 .. k - 1 \/ i = k
  BY <1>10
<1>18. page[2] \in Nat /\ \A i \in DOMAIN old : old[i][2] \in Nat
  <2>1. \A i \in DOMAIN old : old[i] \in Pages
    BY LenProperties
  <2> QED
    BY <2>1 DEF Pages
<1>19. PagesCopied(c)'
  <2>1. ASSUME NEW i \in 1 .. k, Own(new[i]) PROVE new[i][1] = c /\ new[i][2] >= msg[c].offset
    <3>1. CASE i \in 1 .. k - 1
      BY <1>12, <1>15, <2>1, <3>1
    <3>2. CASE i = k
      <4>1. page[1] = c /\ msg[c].offset <= page[2]
        BY <1>12, <1>16, <2>1, <3>2
      <4> QED
        BY <1>6, <1>12, <1>18, <3>2, <4>1
    <3> QED
      BY <1>17, <3>1, <3>2
  <2>2. ASSUME NEW i \in 1 .. k, NEW j \in 1 .. k, i < j, Own(new[i]), Own(new[j]) PROVE new[i][2] < new[j][2]
    <3>1. i \in 1 .. k - 1
      BY <1>10, <2>2
    <3>2. CASE j \in 1 .. k - 1
      BY <1>12, <1>15, <2>2, <3>1, <3>2
    <3>3. CASE j = k
      BY <1>12, <1>16, <2>2, <3>1, <3>3
    <3> QED
      BY <1>17, <3>2, <3>3
  <2> QED
    BY <1>12, <1>13, <1>14, <2>1, <2>2 DEF PagesCopied
<1>20. msg[c].length_to_copy = LengthToCopy(c) /\ LengthToCopy(c)' = LengthToCopy(c)
  BY <1>3, <1>14 DEF Progress, LengthToCopy
<1>21. Len(mem'[c]) = IF KindOf[c] = "ee" THEN m.done ELSE 1
  BY <1>9, <1>10, <1>12, <1>13
<1>22. ASSUME UNCHANGED sLoadStack, m.fd = msg[c].fd, m.bufs = <<>> PROVE PagesToCome(c)'
  <2>1. Location(c)' = Location(c) /\ Location(c) >= msg[c].offset
    BY <1>3, <1>14, <1>22 DEF Location, PagesToCome
  <2>2. ASSUME NEW i \in 1 .. k, Own(new[i]) PROVE new[i][2] < Location(c)
    <3>1. CASE i \in 1 .. k - 1
      BY <1>3, <1>5, <1>12, <2>2, <3>1 DEF PagesToCome
    <3>2. CASE i = k
      BY <1>12, <1>16, <2>2, <3>2
    <3> QED
      BY <1>17, <3>1, <3>2
  <2>3. DOMAIN msg'[c].bufs = {}
    BY <1>14, <1>22, EmptyLemma
  <2>4. ASSUME read.cmd = c, Own(read.page) PROVE PageFits(c, read.page)'
    <3>1. /\ read.page[1] = c /\ msg[c].offset <= read.page[2] /\ read.page[2] < Location(c)
          /\ \A i \in DOMAIN old : Own(old[i]) => old[i][2] < read.page[2]
      BY <1>3, <1>5, <2>4 DEF PagesToCome, PageFits
    <3>2. Own(page) => page[2] < read.page[2]
      BY <1>3, <1>7, <2>4 DEF PagesToCome
    <3>3. ASSUME NEW i \in 1 .. k, Own(new[i]) PROVE new[i][2] < read.page[2]
      <4>1. CASE i \in 1 .. k - 1
        BY <1>12, <3>1, <3>3, <4>1
      <4>2. CASE i = k
        BY <1>12, <3>2, <3>3, <4>2
      <4> QED
        BY <1>17, <4>1, <4>2
    <3> QED
      BY <1>12, <1>13, <1>14, <2>1, <3>1, <3>3 DEF PageFits
  <2> QED
    BY <1>12, <1>13, <1>14, <2>1, <2>2, <2>3, <2>4 DEF PagesToCome
<1> QED
  BY <1>13, <1>19, <1>20, <1>21, <1>22

\* A callback of command c leaves the pages of every other load alone.
LEMMA OthersOrder ==
    ASSUME IsoInv, NEW c \in Cmds, IsQueued(c), NEW d \in Singles, d # c,
           msg'[d] = msg[d], mem'[d] = mem[d], client'[d] = client[d],
           UNCHANGED <<iso_mbx, read>>, IsQueued(d)' <=> IsQueued(d),
           sLoadStack' = sLoadStack \/ sLoadStack' = [sLoadStack EXCEPT ![msg[c].fd] = Closed]
    PROVE  OrderOf(d)'
<1>1. TypeOK /\ FilesInv /\ OrderInv /\ d \in Cmds
  BY DEF IsoInv, Singles
<1>2. OrderOf(d)
  BY <1>1 DEF OrderInv
<1>3. InMailbox(d)' => InMailbox(d)
  BY DEF InMailbox
<1>4. ASSUME IsQueued(d) PROVE sLoadStack'[msg[d].fd] = sLoadStack[msg[d].fd]
  <2>1. sLoadStack[msg[d].fd].fr = d /\ sLoadStack[msg[c].fd].fr = c
    BY <1>1, <1>4 DEF FilesInv
  <2>2. msg[d].fd # msg[c].fd
    BY <2>1
  <2>3. sLoadStack \in [Slots -> [fr : Cmds \cup {NoCmd}, location : Nat]] /\ msg \in [Cmds -> Message]
    BY <1>1, Types
  <2>4. msg[d].fd # 0 /\ msg[d].fd \in 0 .. MAX_OPEN_FILES
    BY <1>1, <1>4, <2>3, Fields DEF FilesInv
  <2>5. msg[d].fd \in Slots
    BY <2>4, Sizes DEF Slots
  <2> QED
    BY <2>2, <2>3, <2>5
<1> QED
  BY <1>1, <1>2, <1>3, <1>4, OrderFrame

LEMMA CopyDataStep ==
    ASSUME IsoInv, CopyData
    PROVE  IsoInv'
<1>1. PICK c : c = Current
  OBVIOUS
<1>2. /\ pc = "process" /\ c \in Singles /\ msg[c].bufs # <<>> /\ UNCHANGED <<iso_mbx, read>>
      /\ mem' = [mem EXCEPT ![c] = Written(@, CopyIndex(c), Head(msg[c].bufs).page)]
  BY <1>1 DEF CopyData
<1>3. c \in Cmds /\ IsQueued(c) /\ TypeOK /\ QueueInv
  BY <1>1, <1>2, CurrentLemma DEF IsoInv
<1>4. msg \in [Cmds -> Message] /\ mem \in [Cmds -> Seq(Pages)]
  BY <1>3, Types
<1>5. PICK m \in Message : m = msg[c]
  BY <1>3, <1>4
<1>6. /\ m.status \in Statuses /\ m.fd \in 0 .. MAX_OPEN_FILES /\ m.bufs \in Seq(Waiting)
      /\ m.offset \in Nat /\ m.length \in Nat /\ m.length_to_copy \in Nat /\ m.done \in Nat
  BY <1>5, Fields
<1>7. PICK k \in Nat : k = m.done + 1
  BY <1>6
<1>8. m.status = "IN_PROGRESS" /\ ~InMailbox(c)
  BY <1>3, <1>5 DEF IsoInv, MessageInv, MessageOf, QueueInv
<1>9. \A d \in Singles : d # c => d \in Cmds /\ mem'[d] = mem[d]
  BY <1>2, <1>4 DEF Singles
<1>10. InMailbox(c)' <=> InMailbox(c)
  BY <1>2 DEF InMailbox
<1>11. CASE /\ k < m.length_to_copy /\ Consume(c)
            /\ msg' = [msg EXCEPT ![c].done = k, ![c].bufs = Tail(@)]
            /\ UNCHANGED threadVars
  <2>1. PICK t \in Seq(Waiting) : t = Tail(m.bufs) /\ t = <<>>
    <3>1. Len(m.bufs) = 1 /\ m.bufs # <<>>
      BY <1>1, <1>2, <1>5, OthersEmpty
    <3>2. Tail(m.bufs) \in Seq(Waiting) /\ Len(Tail(m.bufs)) = Len(m.bufs) - 1
      BY <1>6, <3>1, HeadTailProperties
    <3>3. Len(Tail(m.bufs)) = 0
      BY <3>1, <3>2
    <3> QED
      BY <3>2, <3>3, EmptySeq
  <2>2. PICK n : n = Msg(m.status, m.fd, t, m.offset, m.length, m.length_to_copy, k)
    OBVIOUS
  <2>3. /\ n \in Message /\ n.status = m.status /\ n.fd = m.fd /\ n.bufs = t /\ n.offset = m.offset
        /\ n.length = m.length /\ n.length_to_copy = m.length_to_copy /\ n.done = k
    <3>1. n \in Message
      BY <1>6, <2>2, MsgType
    <3> QED
      BY <2>2, <3>1 DEF Msg
  <2>4. msg' = [msg EXCEPT ![c] = n]
    <3>1. PICK x : x = [[m EXCEPT !.done = k] EXCEPT !.bufs = t]
      OBVIOUS
    <3>2. x = Msg(m.status, m.fd, t, m.offset, m.length, m.length_to_copy, k)
      BY <1>5, <3>1 DEF Msg, Message
    <3>3. msg' = [msg EXCEPT ![c].done = k, ![c].bufs = t]
      BY <1>3, <1>4, <1>5, <1>11, <2>1
    <3> QED
      BY <1>3, <1>4, <1>5, <2>2, <3>1, <3>2, <3>3
  <2>5. msg'[c] = n /\ \A d \in Cmds : d # c => msg'[d] = msg[d]
    BY <1>3, <1>4, <2>4
  <2>6. UNCHANGED <<gPriStack, sLoadStack, client, wantExit>>
    BY <1>11 DEF Consume, fsVars, threadVars
  <2>7. \A d : IsQueued(d)' <=> IsQueued(d)
    BY <2>6 DEF IsQueued
  <2>8. /\ mem' \in [Cmds -> Seq(Pages)]
        /\ PagesCopied(c)'
        /\ msg[c].length_to_copy = LengthToCopy(c) /\ LengthToCopy(c)' = LengthToCopy(c)
        /\ Len(mem'[c]) = IF KindOf[c] = "ee" THEN n.done ELSE 1
        /\ UNCHANGED sLoadStack /\ n.fd = msg[c].fd /\ n.bufs = <<>> => PagesToCome(c)'
    BY <1>1, <1>2, <1>5, <1>7, <2>3, <2>4, CopyOrder
  <2>9. OrderOf(c)'
    <3>1. PagesToCome(c)'
      BY <1>5, <2>1, <2>3, <2>6, <2>8
    <3>2. k # 0
      BY <1>6, <1>7
    <3>3. Progress(c)'
      BY <1>5, <1>11, <2>3, <2>5, <2>8, <3>2 DEF Progress
    <3> QED
      BY <1>3, <1>8, <1>10, <2>3, <2>5, <2>7, <2>8, <3>1, <3>3 DEF OrderOf
  <2>10. OrderInv'
    <3> SUFFICES ASSUME NEW d \in Singles, d # c PROVE OrderOf(d)'
      BY <2>9 DEF OrderInv
    <3> QED
      BY <1>2, <1>3, <1>9, <2>5, <2>6, <2>7, OthersOrder
  <2>11. n.status = msg[c].status /\ n.fd = msg[c].fd /\ n.bufs = Tail(msg[c].bufs) /\ n \in Message
    BY <1>5, <2>1, <2>3
  <2>12. Consume(c) /\ mem' \in [Cmds -> Seq(Pages)] /\ client' = client /\ UNCHANGED <<iso_mbx, read, wantExit>>
    BY <1>2, <1>11, <2>6, <2>8
  <2>13. pc = "process" /\ msg[c].bufs # <<>>
    BY <1>2
  <2> QED
    BY <1>1, <2>4, <2>10, <2>11, <2>12, <2>13, ConsumeStep
<1>12. CASE /\ k = m.length_to_copy /\ Finish(c)
            /\ msg' = [msg EXCEPT ![c].done = k, ![c].bufs = <<>>, ![c].fd = 0, ![c].status = "DONE"]
  <2>1. PICK t \in Seq(Waiting) : t = <<>>
    BY EmptySeq
  <2>a. PICK s \in Statuses : s = "DONE"
    BY DEF Statuses
  <2>2. PICK n : n = Msg(s, 0, t, m.offset, m.length, m.length_to_copy, k)
    OBVIOUS
  <2>b. 0 \in 0 .. MAX_OPEN_FILES
    BY Sizes
  <2>3. /\ n \in Message /\ n.status = s /\ n.fd = 0 /\ n.bufs = t /\ n.offset = m.offset
        /\ n.length = m.length /\ n.length_to_copy = m.length_to_copy /\ n.done = k
    <3>1. n \in Message
      BY <1>6, <2>2, <2>b, MsgType
    <3> QED
      BY <2>2, <3>1 DEF Msg
  <2>4. msg' = [msg EXCEPT ![c] = n]
    <3>1. PICK x : x = [[[[m EXCEPT !.done = k] EXCEPT !.bufs = t] EXCEPT !.fd = 0] EXCEPT !.status = s]
      OBVIOUS
    <3>2. x = Msg(s, 0, t, m.offset, m.length, m.length_to_copy, k)
      BY <1>5, <3>1 DEF Msg, Message
    <3> QED
      BY <1>3, <1>4, <1>5, <1>12, <2>1, <2>a, <2>2, <3>1, <3>2
  <2>5. msg'[c] = n /\ \A d \in Cmds : d # c => msg'[d] = msg[d]
    BY <1>3, <1>4, <2>4
  <2>6. /\ sLoadStack' = [sLoadStack EXCEPT ![msg[c].fd] = Closed]
        /\ client' = [client EXCEPT ![c] = "returned"]
    BY <1>12 DEF Finish, CloseFile
  <2>c. client'[c] = "returned" /\ \A d \in Cmds : d # c => client'[d] = client[d]
    <3>1. client \in [Cmds -> {"idle", "waiting", "returned"}]
      BY <1>3, Types
    <3> QED
      BY <1>3, <2>6, <3>1
  <2>7. \A d \in Cmds : IsQueued(d)' <=> IsQueued(d) /\ d # c
    BY <1>1, <1>2, <1>12, LeaveQueue
  <2>8. /\ mem' \in [Cmds -> Seq(Pages)]
        /\ PagesCopied(c)'
        /\ msg[c].length_to_copy = LengthToCopy(c) /\ LengthToCopy(c)' = LengthToCopy(c)
        /\ Len(mem'[c]) = IF KindOf[c] = "ee" THEN n.done ELSE 1
    BY <1>1, <1>2, <1>5, <1>7, <2>3, <2>4, CopyOrder
  <2>9. OrderOf(c)'
    <3>1. Copied(c)'
      BY <1>5, <1>12, <2>3, <2>5, <2>8 DEF Copied
    <3> QED
      BY <1>3, <1>8, <1>10, <2>c, <2>5, <2>7, <2>8, <3>1 DEF OrderOf
  <2>10. OrderInv'
    <3> SUFFICES ASSUME NEW d \in Singles, d # c PROVE OrderOf(d)'
      BY <2>9 DEF OrderInv
    <3>1. IsQueued(d)' <=> IsQueued(d)
      BY <1>9, <2>7
    <3> QED
      BY <1>2, <1>3, <1>9, <2>5, <2>6, <2>c, <3>1, OthersOrder
  <2>11. n.status = "DONE" /\ n.fd = 0 /\ n.bufs = <<>> /\ n \in Message
    BY <2>1, <2>a, <2>3
  <2>12. Finish(c) /\ mem' \in [Cmds -> Seq(Pages)] /\ UNCHANGED <<iso_mbx, read>>
    BY <1>2, <1>12, <2>8
  <2>13. pc = "process" /\ msg[c].bufs # <<>>
    BY <1>2
  <2> QED
    BY <1>1, <2>4, <2>10, <2>11, <2>12, <2>13, FinishStep
<1> QED
  BY <1>1, <1>2, <1>5, <1>7, <1>11, <1>12 DEF CopyData

LEMMA DgoCallbackStep ==
    ASSUME IsoInv, DgoCallback
    PROVE  IsoInv'
<1>1. PICK c : c = Current
  OBVIOUS
<1>2. pc = "process" /\ c \notin Singles /\ msg[c].bufs # <<>> /\ UNCHANGED <<iso_mbx, read, mem>>
  BY <1>1 DEF DgoCallback
<1>3. /\ c \in Cmds /\ IsQueued(c)
      /\ TypeOK /\ QueueInv /\ MessageInv /\ FilesInv /\ ReadInv /\ BufferInv /\ CursorInv /\ OrderInv
  BY <1>1, <1>2, CurrentLemma DEF IsoInv
<1>4. /\ msg \in [Cmds -> Message] /\ mem \in [Cmds -> Seq(Pages)]
      /\ client \in [Cmds -> {"idle", "waiting", "returned"}]
  BY <1>3, Types
<1>5. PICK m \in Message : m = msg[c]
  BY <1>3, <1>4
<1>6. /\ m.status \in Statuses /\ m.fd \in 0 .. MAX_OPEN_FILES /\ m.bufs \in Seq(Waiting)
      /\ m.offset \in Nat /\ m.length \in Nat /\ m.length_to_copy \in Nat /\ m.done \in Nat
  BY <1>5, Fields
<1>7. \A d \in Singles : d \in Cmds /\ d # c /\ mem'[d] = mem[d]
  BY <1>2 DEF Singles
<1>8. ASSUME MayReport(c)
      PROVE  /\ client' = client \/ (c \notin Singles /\ client[c] = "waiting" /\ client' = [client EXCEPT ![c] = "returned"])
             /\ client' \in [Cmds -> {"idle", "waiting", "returned"}]
             /\ \A d \in Cmds : client'[d] = client[d] \/ (d = c /\ client[d] = "waiting" /\ client'[d] = "returned")
  <2>1. client' = client \/ (client[c] = "waiting" /\ client' = [client EXCEPT ![c] = "returned"])
    BY <1>8 DEF MayReport
  <2> QED
    BY <1>2, <1>3, <1>4, <2>1
<1>9. CASE Consume(c) /\ msg' = [msg EXCEPT ![c].bufs = Tail(@)] /\ MayReport(c) /\ UNCHANGED wantExit
  <2>1. PICK t \in Seq(Waiting) : t = Tail(m.bufs)
    BY <1>2, <1>5, <1>6, HeadTailProperties
  <2>2. PICK n : n = [m EXCEPT !.bufs = t]
    OBVIOUS
  <2>3. n \in Message /\ n.status = msg[c].status /\ n.fd = msg[c].fd /\ n.bufs = Tail(msg[c].bufs)
    BY <1>5, <2>1, <2>2 DEF Message
  <2>4. msg' = [msg EXCEPT ![c] = n]
    BY <1>3, <1>4, <1>5, <1>9, <2>1, <2>2
  <2>5. \A d \in Cmds : d # c => msg'[d] = msg[d]
    BY <1>3, <1>4, <2>4
  <2>6. UNCHANGED <<gPriStack, sLoadStack>>
    BY <1>9 DEF Consume, fsVars
  <2>7. \A d : IsQueued(d)' <=> IsQueued(d)
    BY <2>6 DEF IsQueued
  <2>8. OrderInv'
    <3> SUFFICES ASSUME NEW d \in Singles PROVE OrderOf(d)'
      BY DEF OrderInv
    <3>1. client'[d] = client[d]
      BY <1>7, <1>8, <1>9
    <3> QED
      BY <1>2, <1>3, <1>7, <2>5, <2>6, <2>7, <3>1, OthersOrder
  <2>9. Consume(c) /\ mem' \in [Cmds -> Seq(Pages)] /\ UNCHANGED <<iso_mbx, read, wantExit>>
    BY <1>2, <1>4, <1>9
  <2>10. pc = "process" /\ msg[c].bufs # <<>>
    BY <1>2
  <2>11. client' = client \/ (c \notin Singles /\ client[c] = "waiting" /\ client' = [client EXCEPT ![c] = "returned"])
    BY <1>8, <1>9
  <2> QED
    BY <1>1, <2>3, <2>4, <2>8, <2>9, <2>10, <2>11, ConsumeStep
<1>10. CASE NextCommand /\ MayReport(c) /\ UNCHANGED <<gPriStack, fsVars, sFreeBuffer, msg, wantExit>>
  <2>1. UNCHANGED <<gPriStack, sLoadStack, read_in_progress, sFreeBuffer, msg, wantExit>>
    BY <1>10 DEF fsVars
  <2>2. SinglesEmpty'
    BY <1>1, <1>2, <1>7, <2>1, OthersEmpty DEF SinglesEmpty
  <2>3. PlaceInv' /\ pc' \in {"sync", "process"} /\ cursor' \in [pri : Priorities, idx : 0 .. PRI_STACK_LENGTH]
    BY <1>2, <1>10, <2>1, <2>2, NextCommandLemma
  <2>4. CursorInv'
    <3>1. HoldersInv'
      BY <1>3, <2>1, CursorParts DEF HoldersInv
    <3> QED
      BY <2>3, <3>1, CursorParts, PTL
  <2>5. TypeOK'
    BY <1>2, <1>3, <1>8, <1>10, <2>1, <2>3 DEF TypeOK
  <2>6. NeverStuck'
    BY <2>3 DEF NeverStuck
  <2>7. \A d : (InMailbox(d)' <=> InMailbox(d)) /\ (IsQueued(d)' <=> IsQueued(d))
    BY <1>2, <2>1 DEF InMailbox, IsQueued
  <2>8. QueueInv'
    BY <1>2, <1>3, <2>1, <2>7 DEF QueueInv
  <2>9. MessageInv'
    <3> SUFFICES ASSUME NEW d \in Cmds PROVE MessageOf(d)'
      BY DEF MessageInv
    <3>1. MessageOf(d) /\ (d = c => IsQueued(d) /\ ~InMailbox(d) /\ d \notin Singles)
      BY <1>2, <1>3 DEF MessageInv, QueueInv
    <3>2. client'[d] = client[d] \/ (d = c /\ client[d] = "waiting" /\ client'[d] = "returned")
      BY <1>8, <1>10
    <3> QED
      BY <2>1, <2>7, <3>1, <3>2 DEF MessageOf
  <2>10. FilesInv'
    BY <1>3, <2>1, <2>7 DEF FilesInv
  <2>11. ReadInv'
    BY <1>2, <1>3, <2>1, <2>3, <2>7 DEF ReadInv
  <2>12. BufferInv'
    BY <1>2, <1>3, <2>1 DEF BufferInv, InFreeList, HeldBy, InRead
  <2>13. OrderInv'
    <3> SUFFICES ASSUME NEW d \in Singles PROVE OrderOf(d)'
      BY DEF OrderInv
    <3>1. client'[d] = client[d]
      BY <1>7, <1>8, <1>10
    <3> QED
      BY <1>2, <1>3, <1>7, <2>1, <2>7, <3>1, OthersOrder
  <2> QED
    BY <2>4, <2>5, <2>6, <2>8, <2>9, <2>10, <2>11, <2>12, <2>13 DEF IsoInv
<1>11. CASE Finish(c) /\ msg' = [msg EXCEPT ![c].bufs = <<>>, ![c].fd = 0, ![c].status = "DONE"]
  <2>1. PICK t \in Seq(Waiting) : t = <<>>
    BY EmptySeq
  <2>a. PICK s \in Statuses : s = "DONE"
    BY DEF Statuses
  <2>2. PICK n : n = Msg(s, 0, t, m.offset, m.length, m.length_to_copy, m.done)
    OBVIOUS
  <2>b. 0 \in 0 .. MAX_OPEN_FILES
    BY Sizes
  <2>3. n \in Message /\ n.status = "DONE" /\ n.fd = 0 /\ n.bufs = <<>>
    <3>1. n \in Message
      BY <1>6, <2>2, <2>b, MsgType
    <3> QED
      BY <2>1, <2>a, <2>2, <3>1 DEF Msg
  <2>4. msg' = [msg EXCEPT ![c] = n]
    <3>1. PICK x : x = [[[m EXCEPT !.bufs = t] EXCEPT !.fd = 0] EXCEPT !.status = s]
      OBVIOUS
    <3>2. x = Msg(s, 0, t, m.offset, m.length, m.length_to_copy, m.done)
      BY <1>5, <3>1 DEF Msg, Message
    <3> QED
      BY <1>3, <1>4, <1>5, <1>11, <2>1, <2>a, <2>2, <3>1, <3>2
  <2>5. \A d \in Cmds : d # c => msg'[d] = msg[d]
    BY <1>3, <1>4, <2>4
  <2>6. /\ sLoadStack' = [sLoadStack EXCEPT ![msg[c].fd] = Closed]
        /\ client' = [client EXCEPT ![c] = "returned"]
    BY <1>11 DEF Finish, CloseFile
  <2>7. \A d \in Cmds : IsQueued(d)' <=> IsQueued(d) /\ d # c
    BY <1>1, <1>2, <1>11, LeaveQueue
  <2>8. OrderInv'
    <3> SUFFICES ASSUME NEW d \in Singles PROVE OrderOf(d)'
      BY DEF OrderInv
    <3>1. client'[d] = client[d]
      BY <1>3, <1>4, <1>7, <2>6
    <3>2. IsQueued(d)' <=> IsQueued(d)
      BY <1>7, <2>7
    <3> QED
      BY <1>2, <1>3, <1>7, <2>5, <2>6, <3>1, <3>2, OthersOrder
  <2>9. Finish(c) /\ mem' \in [Cmds -> Seq(Pages)] /\ UNCHANGED <<iso_mbx, read>>
    BY <1>2, <1>4, <1>11
  <2>10. pc = "process" /\ msg[c].bufs # <<>>
    BY <1>2
  <2> QED
    BY <1>1, <2>3, <2>4, <2>8, <2>9, <2>10, FinishStep
<1> QED
  BY <1>1, <1>9, <1>10, <1>11 DEF DgoCallback

-----------------------------------------------------------------------------
(* Syncing the read.                                                       *)

\* The file was closed since the read was begun: its buffer is free again.
LEMMA DropReadStep ==
    ASSUME IsoInv, pc = "sync", read # NoRead, ~read_in_progress,
           sFreeBuffer' = <<read.buf>> \o sFreeBuffer, read' = NoRead, pc' = "receive",
           UNCHANGED <<iso_mbx, gPriStack, msg, sLoadStack, read_in_progress, cursor, mem, client, wantExit>>
    PROVE  IsoInv'
<1>1. /\ TypeOK /\ QueueInv /\ MessageInv /\ FilesInv /\ ReadInv /\ BufferInv /\ CursorInv /\ OrderInv
  BY DEF IsoInv
<1>2. PICK b : b = read.buf
  OBVIOUS
<1>3. b \in Buffers /\ InRead(b)
  BY <1>1, <1>2 DEF ReadInv, InRead
<1>4. read'.buf = 0 /\ read'.cmd = NoCmd /\ read' \in [cmd : Cmds \cup {NoCmd}, buf : 0 .. N_BUFFERS, page : Pages]
  <2>1. NoPage \in Pages
    BY DEF NoPage, Pages
  <2> QED
    BY <2>1, Sizes DEF NoRead
<1>5. /\ sFreeBuffer' \in Seq(Buffers) /\ Once(sFreeBuffer')
      /\ \A x : InFreeList(x)' <=> x = b \/ InFreeList(x)
  <2>1. sFreeBuffer \in Seq(Buffers) /\ Once(sFreeBuffer) /\ ~Has(sFreeBuffer, b)
    BY <1>1, <1>3, Types DEF BufferInv, InFreeList
  <2> QED
    BY <1>2, <1>3, <2>1, ConsLemma DEF InFreeList
<1>6. TypeOK'
  BY <1>1, <1>4, <1>5 DEF TypeOK
<1>7. NeverStuck'
  BY DEF NeverStuck
<1>8. \A d : (InMailbox(d)' <=> InMailbox(d)) /\ (IsQueued(d)' <=> IsQueued(d))
  BY DEF InMailbox, IsQueued
<1>9. QueueInv'
  BY <1>1, <1>8 DEF QueueInv
<1>10. MessageInv'
  BY <1>1, <1>8 DEF MessageInv, MessageOf
<1>11. FilesInv'
  BY <1>1, <1>8 DEF FilesInv
<1>12. ReadInv'
  BY DEF ReadInv
<1>13. BufferInv'
  <2>1. \A x \in Buffers : ~InRead(x)' /\ (InRead(x) => x = b)
    BY <1>2, <1>4, Sizes DEF InRead
  <2>2. \A x, d : HeldBy(x, d)' <=> HeldBy(x, d)
    BY DEF HeldBy
  <2>3. \A d \in Cmds : Once(Named(msg'[d].bufs))
    BY <1>1 DEF BufferInv
  <2> QED
    BY <1>1, <1>3, <1>5, <2>1, <2>2, <2>3 DEF BufferInv
<1>14. CursorInv'
  BY <1>1 DEF CursorInv
<1>15. OrderInv'
  <2> SUFFICES ASSUME NEW d \in Singles PROVE OrderOf(d)'
    BY DEF OrderInv
  <2>1. d \in Cmds /\ OrderOf(d) /\ read'.cmd # d
    BY <1>1, <1>4, Sizes DEF OrderInv, Singles
  <2> QED
    BY <1>1, <1>8, <2>1, OrderFrame
<1> QED
  BY <1>6, <1>7, <1>9, <1>10, <1>11, <1>12, <1>13, <1>14, <1>15 DEF IsoInv

\* The buffer is given to the command that asked for the page.
LEMMA GiveReadStep ==
    ASSUME IsoInv, pc = "sync", read # NoRead, read_in_progress,
           NEW r, r = read.cmd, NEW w, w = [buf |-> read.buf, page |-> read.page],
           msg' = [msg EXCEPT ![r].bufs = Append(@, w)],
           read' = NoRead, pc' = "receive", read_in_progress' = FALSE,
           UNCHANGED <<iso_mbx, gPriStack, sFreeBuffer, sLoadStack, cursor, mem, client, wantExit>>
    PROVE  IsoInv'
<1>1. /\ TypeOK /\ QueueInv /\ MessageInv /\ FilesInv /\ ReadInv /\ BufferInv /\ CursorInv /\ OrderInv
  BY DEF IsoInv
<1>2. PICK b : b = read.buf
  OBVIOUS
<1>3. b \in Buffers /\ InRead(b) /\ r \in Cmds /\ IsQueued(r) /\ Len(msg[r].bufs) < 2
  BY <1>1, <1>2 DEF ReadInv, InRead
<1>4. read'.buf = 0 /\ read'.cmd = NoCmd /\ read' \in [cmd : Cmds \cup {NoCmd}, buf : 0 .. N_BUFFERS, page : Pages]
  <2>1. NoPage \in Pages
    BY DEF NoPage, Pages
  <2> QED
    BY <2>1, Sizes DEF NoRead
<1>5. w \in Waiting /\ w.buf = b /\ w.page = read.page
  <2>1. read.page \in Pages
    BY <1>1, Types
  <2> QED
    BY <1>2, <1>3, <2>1 DEF Waiting
<1>6. msg \in [Cmds -> Message] /\ msg[r] \in Message
  BY <1>1, <1>3, Types
<1>7. PICK old \in Seq(Waiting) : old = msg[r].bufs
  BY <1>6, Fields
<1>8. PICK new \in Seq(Waiting) : /\ new = Append(old, w) /\ Len(new) = Len(old) + 1 /\ Len(old) \in Nat
                                  /\ \A i \in 1 .. Len(old) : new[i] = old[i]
                                  /\ new[Len(old) + 1] = w
  <2>1. Len(old) \in Nat
    BY LenProperties
  <2>2. /\ Append(old, w) \in Seq(Waiting) /\ Len(Append(old, w)) = Len(old) + 1
        /\ \A i \in 1 .. Len(old) : Append(old, w)[i] = old[i]
        /\ Append(old, w)[Len(old) + 1] = w
    BY <1>5, AppendProperties
  <2> QED
    BY <2>1, <2>2
<1>9. PICK m : m = [msg[r] EXCEPT !.bufs = new]
  OBVIOUS
<1>10. /\ m \in Message /\ m.bufs = new /\ m.status = msg[r].status /\ m.fd = msg[r].fd /\ m.offset = msg[r].offset
       /\ m.length = msg[r].length /\ m.length_to_copy = msg[r].length_to_copy /\ m.done = msg[r].done
  BY <1>6, <1>9 DEF Message
<1>11. msg' = [msg EXCEPT ![r] = m]
  BY <1>3, <1>6, <1>7, <1>8, <1>9
<1>12. /\ msg' \in [Cmds -> Message] /\ msg'[r] = m /\ \A d \in Cmds : d # r => msg'[d] = msg[d]
       /\ \A d \in Cmds : msg'[d].status = msg[d].status /\ msg'[d].fd = msg[d].fd
  BY <1>3, <1>6, <1>10, <1>11
<1>13. \A d : (InMailbox(d)' <=> InMailbox(d)) /\ (IsQueued(d)' <=> IsQueued(d))
  BY DEF InMailbox, IsQueued
<1>14. \A d \in Singles : d \in Cmds /\ msg[d].bufs = <<>>
  BY <1>1 DEF CursorInv, Singles
<1>15. r \in Singles => old = <<>> /\ Len(old) = 0 /\ Len(new) = 1
  BY <1>7, <1>8, <1>14, EmptyLemma
<1>16. TypeOK'
  <2>1. read_in_progress' \in BOOLEAN
    OBVIOUS
  <2> QED
    BY <1>1, <1>4, <1>12, <2>1 DEF TypeOK, Message, Waiting, Statuses
<1>17. NeverStuck'
  BY DEF NeverStuck
<1>18. QueueInv'
  BY <1>1, <1>13 DEF QueueInv
<1>19. MessageInv'
  <2> SUFFICES ASSUME NEW d \in Cmds PROVE MessageOf(d)'
    BY DEF MessageInv
  <2>1. MessageOf(d)
    BY <1>1 DEF MessageInv
  <2>2. ~IsQueued(d) => msg'[d].bufs = <<>> /\ msg'[d].fd = 0
    BY <1>3, <1>12, <2>1 DEF MessageOf
  <2> QED
    BY <1>12, <1>13, <2>1, <2>2 DEF MessageOf
<1>20. FilesInv'
  BY <1>1, <1>12, <1>13 DEF FilesInv
<1>21. ReadInv'
  BY DEF ReadInv
<1>22. /\ Once(Named(msg'[r].bufs))
       /\ \A x : HeldBy(x, r)' <=> HeldBy(x, r) \/ x = b
       /\ \A d \in Cmds : d # r => \A x : HeldBy(x, d)' <=> HeldBy(x, d)
  <2>1. PICK n \in Seq(Buffers) : n = Named(old) /\ Once(n) /\ ~Has(n, b)
    <3>1. Once(Named(old)) /\ ~Has(Named(old), b)
      BY <1>1, <1>3, <1>7 DEF BufferInv, HeldBy
    <3> QED
      BY <3>1, NamedLemma
  <2>2. Once(Append(n, b)) /\ \A x : Has(Append(n, b), x) <=> Has(n, x) \/ x = b
    BY <1>3, <2>1, AppendLemma
  <2>3. Named(msg'[r].bufs) = Append(n, b)
    <3>1. Named(new) = Append(Named(old), w.buf)
      BY <1>5, <1>8, NamedAppend
    <3> QED
      BY <1>5, <1>10, <1>12, <2>1, <3>1
  <2>4. \A x : HeldBy(x, r)' <=> Has(Append(n, b), x)
    BY <2>3 DEF HeldBy
  <2>5. \A x : HeldBy(x, r) <=> Has(n, x)
    BY <1>7, <2>1 DEF HeldBy
  <2>6. \A d \in Cmds : d # r => \A x : HeldBy(x, d)' <=> HeldBy(x, d)
    BY <1>12 DEF HeldBy
  <2> QED
    BY <2>2, <2>3, <2>4, <2>5, <2>6
<1>23. BufferInv'
  <2>1. \A x \in Buffers : ~InRead(x)' /\ (InRead(x) <=> x = b)
    BY <1>2, <1>4, Sizes DEF InRead
  <2>2. \A x : InFreeList(x)' <=> InFreeList(x)
    BY DEF InFreeList
  <2>3. \A d \in Cmds : Once(Named(msg'[d].bufs))
    BY <1>1, <1>12, <1>22 DEF BufferInv
  <2>4. \A x \in Buffers : InFreeList(x)' \/ InRead(x)' \/ \E d \in Cmds : HeldBy(x, d)'
    BY <1>1, <1>3, <1>22, <2>1, <2>2 DEF BufferInv
  <2>5. ASSUME NEW x \in Buffers, NEW d \in Cmds, HeldBy(x, d)'
        PROVE  ~InFreeList(x)' /\ ~InRead(x)' /\ \A e \in Cmds : HeldBy(x, e)' => e = d
    <3>1. CASE x = b
      <4>1. ~InFreeList(b) /\ \A e \in Cmds : ~HeldBy(b, e)
        BY <1>1, <1>3 DEF BufferInv
      <4> QED
        BY <1>22, <2>1, <2>2, <2>5, <3>1, <4>1
    <3>2. CASE x # b
      <4>1. HeldBy(x, d) /\ \A e \in Cmds : HeldBy(x, e)' => HeldBy(x, e)
        BY <1>22, <2>5, <3>2
      <4> QED
        BY <1>1, <2>1, <2>2, <4>1 DEF BufferInv
    <3> QED
      BY <3>1, <3>2
  <2>6. Once(sFreeBuffer')
    BY <1>1 DEF BufferInv
  <2> QED
    BY <2>1, <2>3, <2>4, <2>5, <2>6 DEF BufferInv
<1>24. CursorInv'
  <2>1. ASSUME NEW d \in Cmds PROVE Len(msg'[d].bufs) <= 2
    <3>1. CASE d # r
      BY <1>1, <1>12, <3>1 DEF CursorInv
    <3>2. CASE d = r
      <4>1. Len(new) <= 2
        BY <1>3, <1>7, <1>8
      <4> QED
        BY <1>10, <1>12, <3>2, <4>1
    <3> QED
      BY <3>1, <3>2
  <2>2. ASSUME NEW d \in Singles PROVE Len(msg'[d].bufs) <= 1 /\ (msg'[d].bufs # <<>> => d = r)
    <3>1. CASE d # r
      <4>1. msg'[d].bufs = <<>>
        BY <1>12, <1>14, <3>1
      <4>2. Len(<<>>) = 0
        BY EmptyLemma
      <4>3. Len(msg'[d].bufs) <= 1
        BY <4>1, <4>2
      <4> QED
        BY <4>1, <4>3
    <3>2. CASE d = r
      <4>1. Len(new) = 1
        BY <1>15, <3>2
      <4>2. Len(msg'[d].bufs) = 1
        BY <1>10, <1>12, <3>2, <4>1
      <4>3. 1 <= 1
        OBVIOUS
      <4> QED
        BY <3>2, <4>2, <4>3
    <3> QED
      BY <3>1, <3>2
  <2>3. pc' # "sync" /\ pc' # "process"
    OBVIOUS
  <2> QED
    BY <2>1, <2>2, <2>3 DEF CursorInv
<1>25. OrderInv'
  <2> SUFFICES ASSUME NEW d \in Singles PROVE OrderOf(d)'
    BY DEF OrderInv
  <2>1. d \in Cmds /\ OrderOf(d) /\ read'.cmd # d
    BY <1>1, <1>4, Sizes DEF OrderInv, Singles
  <2>2. CASE d # r
    BY <1>1, <1>12, <1>13, <2>1, <2>2, OrderFrame
  <2>3. CASE d = r
    <3>1. PagesCopied(r) /\ PagesToCome(r) /\ Progress(r)
      BY <1>3, <2>1, <2>3 DEF OrderOf
    <3>2. Location(r)' = Location(r)
      BY <1>10, <1>12 DEF Location
    <3>3. PagesCopied(r)'
      BY <1>10, <1>12, <3>1 DEF PagesCopied
    <3>4. Progress(r)' /\ (Copied(r) => Copied(r)')
      BY <1>10, <1>12, <3>1 DEF Progress, Copied, LengthToCopy
    <3>5. DOMAIN new = {1} /\ new[1] = w
      <4>1. DOMAIN new = 1 .. 1
        BY <1>8, <1>15, <2>3, LenProperties
      <4> QED
        BY <1>8, <1>15, <2>3, <4>1
    <3>6. PICK q : q = read.page /\ w.page = q
      BY <1>5
    <3>7. Own(q) => PageFits(r, q)'
      <4>1. Own(q) => PageFits(r, q)
        BY <3>1, <3>6 DEF PagesToCome
      <4>2. PageFits(r, q) => PageFits(r, q)'
        BY <1>10, <1>12, <3>2 DEF PageFits
      <4> QED
        BY <4>1, <4>2
    <3>8. Location(r)' >= msg'[r].offset /\ \A i \in DOMAIN mem'[r] : Own(mem'[r][i]) => mem'[r][i][2] < Location(r)'
      BY <1>10, <1>12, <3>1, <3>2 DEF PagesToCome
    <3>9. msg'[r].bufs = new
      BY <1>10, <1>12
    <3>10. ASSUME NEW k \in DOMAIN new, Own(new[k].page) PROVE PageFits(r, new[k].page)'
      <4>1. PICK x : x = new[k].page
        OBVIOUS
      <4>2. x = q
        BY <3>5, <3>6, <4>1
      <4> QED
        BY <3>7, <3>10, <4>1, <4>2
    <3>11. \A k \in DOMAIN msg'[r].bufs : Own(msg'[r].bufs[k].page) => PageFits(r, msg[r].bufs[k].page)'
      BY <3>9, <3>10
    <3>12. PagesToCome(r)'
      BY <2>1, <2>3, <3>8, <3>11 DEF PagesToCome
    <3> QED
      BY <1>3, <1>10, <1>12, <1>13, <2>1, <2>3, <3>3, <3>4, <3>12 DEF OrderOf
  <2> QED
    BY <2>2, <2>3
<1> QED
  BY <1>16, <1>17, <1>18, <1>19, <1>20, <1>21, <1>23, <1>24, <1>25 DEF IsoInv

LEMMA SyncReadStep ==
    ASSUME IsoInv, SyncRead
    PROVE  IsoInv'
<1>1. CASE read_in_progress
  BY <1>1, GiveReadStep DEF SyncRead, threadVars
<1>2. CASE ~read_in_progress
  BY <1>2, DropReadStep DEF SyncRead, FreeBuffer, threadVars
<1> QED
  BY <1>1, <1>2

-----------------------------------------------------------------------------
(* The requesting threads.                                                 *)

\* A thread makes its command ready (and sends it, or not) while the ISO
\* thread does not hold it.
LEMMA RestStep ==
    ASSUME IsoInv, pc \in {"delay", "exit"}, NEW c \in Cmds, ~IsQueued(c), ~InMailbox(c),
           NEW m \in Message, msg' = [msg EXCEPT ![c] = m], m.status = "none", m.bufs = <<>>, m.fd = 0,
           NEW x \in {"idle", "waiting"}, client' = [client EXCEPT ![c] = x],
           x = "idle" => iso_mbx' = iso_mbx,
           x = "waiting" => iso_mbx' = Append(iso_mbx, c) /\ (c \in Singles => m.length > 0),
           mem' \in [Cmds -> Seq(Pages)], \A d \in Cmds : d # c => mem'[d] = mem[d],
           c \in Singles => mem'[c] = <<>>,
           UNCHANGED <<pc, gPriStack, sFreeBuffer, sLoadStack, read_in_progress, read, cursor, wantExit>>
    PROVE  IsoInv'
<1>1. /\ TypeOK /\ QueueInv /\ MessageInv /\ FilesInv /\ ReadInv /\ BufferInv /\ CursorInv /\ OrderInv
  BY DEF IsoInv
<1>2. /\ msg \in [Cmds -> Message] /\ client \in [Cmds -> {"idle", "waiting", "returned"}] /\ iso_mbx \in Seq(Cmds)
      /\ Once(iso_mbx)
  BY <1>1, Types DEF QueueInv
<1>3. msg[c].bufs = <<>> /\ msg[c].fd = 0
  BY <1>1 DEF MessageInv, MessageOf
<1>4. /\ msg' \in [Cmds -> Message] /\ msg'[c] = m /\ \A d \in Cmds : d # c => msg'[d] = msg[d]
      /\ \A d \in Cmds : msg'[d].bufs = msg[d].bufs /\ msg'[d].fd = msg[d].fd
  BY <1>2, <1>3
<1>5. client' \in [Cmds -> {"idle", "waiting", "returned"}] /\ client'[c] = x /\ \A d \in Cmds : d # c => client'[d] = client[d]
  BY <1>2
<1>6. /\ iso_mbx' \in Seq(Cmds) /\ Once(iso_mbx')
      /\ \A d : InMailbox(d)' <=> InMailbox(d) \/ (d = c /\ x = "waiting")
  <2>1. CASE x = "idle"
    BY <1>2, <2>1 DEF InMailbox
  <2>2. CASE x = "waiting"
    <3>1. ~Has(iso_mbx, c)
      BY DEF InMailbox
    <3>2. /\ Append(iso_mbx, c) \in Seq(Cmds) /\ Once(Append(iso_mbx, c))
          /\ \A d : Has(Append(iso_mbx, c), d) <=> Has(iso_mbx, d) \/ d = c
      BY <1>2, <3>1, AppendLemma
    <3> QED
      BY <2>2, <3>2 DEF InMailbox
  <2> QED
    BY <2>1, <2>2
<1>7. \A d : IsQueued(d)' <=> IsQueued(d)
  BY DEF IsQueued
<1>8. read = NoRead
  BY <1>1 DEF ReadInv
<1>9. TypeOK'
  BY <1>1, <1>4, <1>5, <1>6 DEF TypeOK, Message, Waiting, Statuses
<1>10. NeverStuck'
  BY DEF NeverStuck, IsoInv
<1>11. QueueInv'
  BY <1>1, <1>6, <1>7 DEF QueueInv
<1>12. MessageInv'
  <2> SUFFICES ASSUME NEW d \in Cmds PROVE MessageOf(d)'
    BY DEF MessageInv
  <2>1. MessageOf(d)
    BY <1>1 DEF MessageInv
  <2>2. CASE d # c
    BY <1>4, <1>5, <1>6, <1>7, <2>1, <2>2 DEF MessageOf
  <2>3. CASE d = c
    BY <1>4, <1>5, <1>6, <1>7, <2>3 DEF MessageOf
  <2> QED
    BY <2>2, <2>3
<1>13. FilesInv'
  BY <1>1, <1>4, <1>7 DEF FilesInv
<1>14. ReadInv'
  BY <1>1, <1>8 DEF ReadInv
<1>15. BufferInv'
  <2>1. \A b, d : d \in Cmds => (HeldBy(b, d)' <=> HeldBy(b, d))
    BY <1>4 DEF HeldBy
  <2> QED
    BY <1>1, <1>4, <2>1 DEF BufferInv, InFreeList, InRead
<1>16. CursorInv'
  <2>1. Singles \subseteq Cmds
    BY DEF Singles
  <2> QED
    BY <1>1, <1>4, <2>1 DEF CursorInv
<1>17. OrderInv'
  <2> SUFFICES ASSUME NEW d \in Singles PROVE OrderOf(d)'
    BY DEF OrderInv
  <2>1. d \in Cmds /\ OrderOf(d)
    BY <1>1 DEF OrderInv, Singles
  <2>2. CASE d # c
    BY <1>1, <1>4, <1>5, <1>6, <1>7, <2>1, <2>2, OrderFrame
  <2>3. CASE d = c
    <3>1. mem'[c] = <<>> /\ DOMAIN <<>> = {}
      BY <2>3
    <3>2. PagesCopied(c)'
      BY <3>1 DEF PagesCopied
    <3> QED
      BY <1>4, <1>5, <1>6, <1>7, <2>3, <3>1, <3>2 DEF OrderOf
  <2> QED
    BY <2>2, <2>3
<1> QED
  BY <1>9, <1>10, <1>11, <1>12, <1>13, <1>14, <1>15, <1>16, <1>17 DEF IsoInv

LEMMA RequestStep ==
    ASSUME IsoInv, NEW c \in Cmds, NEW a \in Asked(c), Request(c, a[1], a[2])
    PROVE  IsoInv'
<1>1. /\ TypeOK /\ MessageInv /\ OrderInv
  BY DEF IsoInv
<1>2. pc \in {"delay", "exit"} /\ client[c] = "idle"
  BY DEF Request, OthersRun
<1>3. MessageOf(c)
  BY <1>1 DEF MessageInv
<1>4. ~IsQueued(c) /\ ~InMailbox(c)
  BY <1>2, <1>3 DEF MessageOf
<1>5. PICK o : o = a[1]
  OBVIOUS
<1>6. PICK l : l = a[2]
  OBVIOUS
<1>7. o \in Nat /\ l \in Nat /\ (c \in Singles => l > 0)
  <2>1. FileLen[c] \in Nat \ {0}
    BY Sizes
  <2>2. CASE c \in Singles
    <3>1. a \in (0 .. FileLen[c] - 1) \X (1 .. FileLen[c] + 1)
      BY <2>2 DEF Asked
    <3> QED
      BY <1>5, <1>6, <2>1, <3>1
  <2>3. CASE c \notin Singles
    <3>1. a = <<0, 0>>
      BY <2>3 DEF Asked
    <3> QED
      BY <1>5, <1>6, <2>3, <3>1
  <2> QED
    BY <2>2, <2>3
<1>8. PICK e \in Seq(Waiting) : e = <<>>
  BY EmptySeq
<1>9. PICK s \in Statuses : s = "none"
  BY DEF Statuses
<1>10. PICK m : m = Msg(s, 0, e, o, l, 0, 0)
  OBVIOUS
<1>11. m \in Message /\ m.status = "none" /\ m.bufs = <<>> /\ m.fd = 0 /\ m.length = l
  <2>1. 0 \in 0 .. MAX_OPEN_FILES /\ 0 \in Nat
    BY Sizes
  <2>2. m \in Message
    BY <1>7, <1>10, <2>1, MsgType
  <2> QED
    BY <1>8, <1>9, <1>10, <2>2 DEF Msg
<1>12. msg' = [msg EXCEPT ![c] = m]
  <2>1. PICK y : y = Msg(s, 0, e, 0, 0, 0, 0)
    OBVIOUS
  <2>2. PICK z : z = [[y EXCEPT !.offset = o] EXCEPT !.length = l]
    OBVIOUS
  <2>3. z = m
    <3>1. 0 \in 0 .. MAX_OPEN_FILES /\ 0 \in Nat
      BY Sizes
    <3>2. y \in Message
      BY <2>1, <3>1, MsgType
    <3>3. y.status = s /\ y.fd = 0 /\ y.bufs = e /\ y.length_to_copy = 0 /\ y.done = 0
      BY <2>1, <3>2 DEF Msg
    <3>4. z = Msg(y.status, y.fd, y.bufs, o, l, y.length_to_copy, y.done)
      BY <2>2, <3>2 DEF Msg, Message
    <3> QED
      BY <1>10, <3>3, <3>4
  <2>4. FreshMsg = y
    BY <1>8, <1>9, <2>1 DEF FreshMsg, Msg
  <2>5. msg' = [msg EXCEPT ![c] = [[FreshMsg EXCEPT !.offset = o] EXCEPT !.length = l]]
    BY <1>5, <1>6 DEF Request
  <2> QED
    BY <2>2, <2>3, <2>4, <2>5
<1>13. /\ iso_mbx' = Append(iso_mbx, c) /\ client' = [client EXCEPT ![c] = "waiting"]
       /\ UNCHANGED <<pc, gPriStack, sFreeBuffer, sLoadStack, read_in_progress, read, cursor, mem, wantExit>>
  BY DEF Request, fsVars
<1>14. mem' \in [Cmds -> Seq(Pages)] /\ \A d \in Cmds : d # c => mem'[d] = mem[d]
  BY <1>1, <1>13, Types
<1>15. c \in Singles => mem'[c] = <<>>
  BY <1>1, <1>2, <1>4, <1>13 DEF OrderInv, OrderOf
<1>16. PICK x \in {"idle", "waiting"} : x = "waiting"
  OBVIOUS
<1>17. /\ client' = [client EXCEPT ![c] = x] /\ (x = "idle" => iso_mbx' = iso_mbx)
       /\ (x = "waiting" => iso_mbx' = Append(iso_mbx, c) /\ (c \in Singles => m.length > 0))
  BY <1>7, <1>11, <1>13, <1>16
<1> QED
  BY <1>2, <1>4, <1>11, <1>12, <1>13, <1>14, <1>15, <1>16, <1>17, RestStep

LEMMA WakeStep ==
    ASSUME IsoInv, NEW c \in Cmds, Wake(c)
    PROVE  IsoInv'
<1>1. /\ TypeOK /\ QueueInv /\ MessageInv /\ FilesInv /\ ReadInv /\ BufferInv /\ CursorInv /\ OrderInv
  BY DEF IsoInv
<1>2. /\ pc \in {"delay", "exit"} /\ client[c] = "returned"
      /\ UNCHANGED <<pc, iso_mbx, gPriStack, sFreeBuffer, sLoadStack, read_in_progress, read, cursor, wantExit>>
  BY DEF Wake, OthersRun, fsVars
<1>3. MessageOf(c) /\ ~InMailbox(c)
  BY <1>1, <1>2 DEF MessageInv, MessageOf
<1>4. client \in [Cmds -> {"idle", "waiting", "returned"}] /\ msg \in [Cmds -> Message] /\ mem \in [Cmds -> Seq(Pages)]
  BY <1>1, Types
<1>5. CASE KindOf[c] = "dgo" /\ msg[c].status = "IN_PROGRESS"
  <2>1. client' = [client EXCEPT ![c] = "waiting"] /\ UNCHANGED <<msg, mem>>
    BY <1>5 DEF Wake
  <2>2. IsQueued(c) /\ c \notin Singles
    BY <1>3, <1>5, Kinds DEF MessageOf
  <2>3. client' \in [Cmds -> {"idle", "waiting", "returned"}] /\ client'[c] = "waiting" /\ \A d \in Cmds : d # c => client'[d] = client[d]
    BY <1>4, <2>1
  <2>4. \A d : (InMailbox(d)' <=> InMailbox(d)) /\ (IsQueued(d)' <=> IsQueued(d))
    BY <1>2 DEF InMailbox, IsQueued
  <2>5. TypeOK'
    BY <1>1, <1>2, <2>1, <2>3 DEF TypeOK
  <2>6. NeverStuck'
    BY <1>2 DEF NeverStuck, IsoInv
  <2>7. QueueInv'
    BY <1>1, <1>2, <2>4 DEF QueueInv
  <2>8. MessageInv'
    BY <1>1, <1>3, <2>1, <2>2, <2>3, <2>4 DEF MessageInv, MessageOf
  <2>9. FilesInv'
    BY <1>1, <1>2, <2>1, <2>4 DEF FilesInv
  <2>10. ReadInv'
    BY <1>1, <1>2, <2>1, <2>4 DEF ReadInv
  <2>11. BufferInv'
    BY <1>1, <1>2, <2>1 DEF BufferInv, InFreeList, HeldBy, InRead
  <2>12. CursorInv'
    BY <1>1, <1>2, <2>1 DEF CursorInv
  <2>13. OrderInv'
    <3> SUFFICES ASSUME NEW d \in Singles PROVE OrderOf(d)'
      BY DEF OrderInv
    <3>1. d \in Cmds /\ OrderOf(d) /\ d # c
      BY <1>1, <2>2 DEF OrderInv, Singles
    <3> QED
      BY <1>1, <1>2, <2>1, <2>3, <2>4, <3>1, OrderFrame
  <2> QED
    BY <2>5, <2>6, <2>7, <2>8, <2>9, <2>10, <2>11, <2>12, <2>13 DEF IsoInv
<1>6. CASE ~(KindOf[c] = "dgo" /\ msg[c].status = "IN_PROGRESS")
  <2>1. /\ client' = [client EXCEPT ![c] = "idle"] /\ msg' = [msg EXCEPT ![c] = FreshMsg]
        /\ mem' = [mem EXCEPT ![c] = <<>>]
    BY <1>6 DEF Wake
  <2>2. ~IsQueued(c)
    <3> SUFFICES ASSUME IsQueued(c) PROVE FALSE
      OBVIOUS
    <3>1. c \in Loading
      <4>1. PICK i \in DOMAIN gPriStack[PriorityOf(c)] : gPriStack[PriorityOf(c)][i] = c
        BY DEF IsQueued, Has
      <4> QED
        BY <1>1, <4>1, Sizes DEF QueueInv
    <3>2. msg[c].status = "IN_PROGRESS" /\ (c \in Singles => client[c] = "waiting")
      BY <1>3 DEF MessageOf
    <3> QED
      BY <1>2, <1>6, <3>1, <3>2, Kinds
  <2>3. PICK m : m = FreshMsg
    OBVIOUS
  <2>4. m \in Message /\ m.status = "none" /\ m.bufs = <<>> /\ m.fd = 0
    <3>1. PICK e \in Seq(Waiting) : e = <<>>
      BY EmptySeq
    <3>2. FreshMsg \in Message
      BY <3>1, Sizes DEF FreshMsg, Message, Statuses
    <3> QED
      BY <2>3, <3>2 DEF FreshMsg
  <2>5. mem' \in [Cmds -> Seq(Pages)] /\ mem'[c] = <<>> /\ \A d \in Cmds : d # c => mem'[d] = mem[d]
    <3>1. PICK e \in Seq(Pages) : e = <<>>
      BY EmptySeq
    <3> QED
      BY <1>4, <2>1, <3>1
  <2>6. PICK x \in {"idle", "waiting"} : x = "idle"
    OBVIOUS
  <2>7. /\ client' = [client EXCEPT ![c] = x] /\ (x = "idle" => iso_mbx' = iso_mbx)
        /\ (x = "waiting" => iso_mbx' = Append(iso_mbx, c) /\ (c \in Singles => m.length > 0))
    BY <1>2, <2>1, <2>6
  <2> QED
    BY <1>2, <1>3, <2>1, <2>2, <2>3, <2>4, <2>5, <2>6, <2>7, RestStep
<1> QED
  BY <1>5, <1>6

-----------------------------------------------------------------------------
(* The theorems.                                                           *)

LEMMA NextInv == IsoInv /\ [Next]_vars => IsoInv'
<1> SUFFICES ASSUME IsoInv, [Next]_vars PROVE IsoInv'
  OBVIOUS
<1>1. pc \in {"receive", "begin", "delay", "exit"} => read = NoRead
  BY DEF IsoInv, ReadInv
<1>2. wantExit \in BOOLEAN
  BY DEF IsoInv, TypeOK
<1>3. CASE ReceiveExit
  BY <1>1, <1>2, <1>3, QuietStep DEF ReceiveExit, watched, fsVars, threadVars
<1>4. CASE ReceiveNothing
  BY <1>1, <1>2, <1>4, QuietStep DEF ReceiveNothing, watched, fsVars, threadVars
<1>5. CASE Delay
  BY <1>2, <1>5, QuietStep DEF Delay, watched, fsVars, threadVars
<1>6. CASE Resume
  BY <1>1, <1>2, <1>6, QuietStep DEF Resume, watched, fsVars, threadVars
<1>7. CASE WantExit
  <2>1. wantExit' \in BOOLEAN
    BY <1>7 DEF WantExit
  <2> QED
    BY <1>1, <1>7, <2>1, QuietStep DEF WantExit, watched, fsVars
<1>8. ASSUME NEW c \in Cmds, NEW a \in Asked(c), Request(c, a[1], a[2]) PROVE IsoInv'
  BY <1>8, RequestStep
<1>9. ASSUME NEW c \in Cmds, Wake(c) PROVE IsoInv'
  BY <1>9, WakeStep
<1>10. CASE UNCHANGED vars
  <2>1. /\ UNCHANGED <<iso_mbx, gPriStack, msg, sFreeBuffer, sLoadStack, read_in_progress, read, cursor, client, mem>>
        /\ UNCHANGED <<pc, wantExit>>
    BY <1>10 DEF vars
  <2>2. \A c : (InMailbox(c)' <=> InMailbox(c)) /\ (IsQueued(c)' <=> IsQueued(c))
    BY <2>1 DEF InMailbox, IsQueued
  <2>3. TypeOK' /\ NeverStuck'
    BY <2>1 DEF IsoInv, TypeOK, NeverStuck
  <2>4. QueueInv' /\ MessageInv' /\ FilesInv' /\ ReadInv'
    BY <2>1, <2>2 DEF IsoInv, QueueInv, MessageInv, MessageOf, FilesInv, ReadInv
  <2>5. BufferInv' /\ CursorInv'
    BY <2>1 DEF IsoInv, BufferInv, InFreeList, HeldBy, InRead, CursorInv
  <2>6. OrderInv'
    BY <2>1, <2>2 DEF IsoInv, OrderInv, OrderOf, PagesCopied, PagesToCome, PageFits, Progress, Copied, Location, LengthToCopy
  <2> QED
    BY <2>3, <2>4, <2>5, <2>6 DEF IsoInv
<1> QED
  BY <1>3, <1>4, <1>5, <1>6, <1>7, <1>8, <1>9, <1>10, ReceiveLoadStep, ReceiveBankStep, BeginReadStep,
     SkipCommandStep, CopyDataStep, DgoCallbackStep, SyncReadStep DEF Next, IsoStep

\* The inductive invariant holds in every state of the ISO thread.
THEOREM IsoSafety == Spec => []IsoInv
<1>1. Init => IsoInv
  BY InitInv
<1>2. IsoInv /\ [Next]_vars => IsoInv'
  BY NextInv
<1> QED
  BY <1>1, <1>2, PTL DEF Spec

\* AllocateBuffer and FS_Open never loop for ever: with four buffers, and one
\* file slot more than a priority stack has places, there is always one.
THEOREM IsoNeverStuck == Spec => []NeverStuck
<1>1. IsoInv => NeverStuck
  BY DEF IsoInv
<1> QED
  BY <1>1, IsoSafety, PTL

\* The sets that the properties use, and the predicates of the proof.
LEMMA QueuedLemma ==
    ASSUME IsoInv
    PROVE  /\ \A c \in Cmds : c \in Queued <=> IsQueued(c)
           /\ Queued \subseteq Cmds
           /\ \A c : c \in Range(iso_mbx) <=> InMailbox(c)
<1>1. TypeOK /\ QueueInv
  BY DEF IsoInv
<1>2. gPriStack \in Stacks
  BY <1>1, Types
<1>3. \A c : c \in Range(iso_mbx) <=> InMailbox(c)
  BY DEF Range, InMailbox, Has
<1>4. ASSUME NEW c \in Queued PROVE c \in Cmds /\ IsQueued(c)
  <2>1. PICK p \in Priorities : c \in Range(gPriStack[p])
    BY <1>4 DEF Queued
  <2>2. PICK i \in DOMAIN gPriStack[p] : c = gPriStack[p][i]
    BY <2>1 DEF Range
  <2>3. PriorityOf(c) = p /\ c \in Loading
    BY <1>1, <2>2 DEF QueueInv
  <2> QED
    BY <2>2, <2>3 DEF Loading, IsQueued, Has
<1>5. ASSUME NEW c \in Cmds, IsQueued(c) PROVE c \in Queued
  <2>1. PICK p \in Priorities : p = PriorityOf(c)
    BY Sizes
  <2>2. c \in Range(gPriStack[p])
    BY <1>5, <2>1 DEF IsQueued, Has, Range
  <2> QED
    BY <2>2 DEF Queued
<1> QED
  BY <1>3, <1>4, <1>5

\* No command is worked on, or given a page, after its caller has gone on.
THEOREM CommandsSafety == Spec => []CommandsLive
<1>1. ASSUME IsoInv PROVE CommandsLive
  <2>1. /\ \A c \in Cmds : c \in Queued <=> IsQueued(c)
        /\ \A c : c \in Range(iso_mbx) <=> InMailbox(c)
    BY <1>1, QueuedLemma
  <2>2. MessageInv /\ ReadInv
    BY <1>1 DEF IsoInv
  <2>3. NoDanglingCommand
    BY <2>1, <2>2 DEF NoDanglingCommand, MessageInv, MessageOf, Singles
  <2>4. ReadHasOwner
    BY <2>1, <2>2 DEF ReadHasOwner, ReadInv
  <2> QED
    BY <2>3, <2>4 DEF CommandsLive
<1> QED
  BY <1>1, IsoSafety, PTL

\* A load that reports success got the pages it asked for, in order.
THEOREM LoadOrderSafety == Spec => []LoadInOrder
<1>1. ASSUME IsoInv, NEW c \in Singles, msg[c].status = "DONE"
      PROVE  /\ \A i \in DOMAIN mem[c] : Own(mem[c][i]) => mem[c][i][1] = c /\ mem[c][i][2] >= msg[c].offset
             /\ \A i, j \in DOMAIN mem[c] : i < j /\ Own(mem[c][i]) /\ Own(mem[c][j]) => mem[c][i][2] < mem[c][j][2]
             /\ msg[c].done = Min({msg[c].length, FileLen[c]})
             /\ Len(mem[c]) = IF KindOf[c] = "ee" THEN msg[c].done ELSE 1
  <2>1. OrderOf(c) /\ TypeOK /\ c \in Cmds
    BY <1>1 DEF IsoInv, OrderInv, Singles
  <2>2. PagesCopied(c) /\ Copied(c)
    BY <1>1, <2>1 DEF OrderOf
  <2>3. PICK l \in Nat : l = msg[c].length
    <3>1. msg[c] \in Message
      BY <2>1, Types
    <3> QED
      BY <3>1, Fields
  <2>4. PICK f \in Nat : f = FileLen[c]
    BY <2>1, Sizes
  <2>5. PICK k \in {l, f} : k = (IF l < f THEN l ELSE f) /\ \A j \in {l, f} : k <= j
    BY <2>3, <2>4
  <2>6. Min({l, f}) = k
    <3>1. \E x \in {l, f} : \A j \in {l, f} : x <= j
      BY <2>5
    <3>2. Min({l, f}) \in {l, f} /\ \A j \in {l, f} : Min({l, f}) <= j
      BY <3>1 DEF Min
    <3> QED
      BY <2>3, <2>4, <2>5, <3>2
  <2>7. msg[c].done = Min({msg[c].length, FileLen[c]})
    BY <2>2, <2>3, <2>4, <2>5, <2>6 DEF Copied, LengthToCopy
  <2> QED
    BY <2>2, <2>7 DEF PagesCopied, Copied
<1>2. IsoInv => LoadInOrder
  BY <1>1 DEF LoadInOrder, Own
<1> QED
  BY <1>2, IsoSafety, PTL

\* Every buffer has one holder, in the sense of Holders.
LEMMA HoldersLemma ==
    ASSUME IsoInv, NEW b \in Buffers
    PROVE  Holders(b) = 1
<1> DEFINE inFree == {i \in DOMAIN sFreeBuffer : sFreeBuffer[i] = b}
           held == {x \in Cmds \X (1 .. N_BUFFERS) : x[2] <= Len(msg[x[1]].bufs) /\ msg[x[1]].bufs[x[2]].buf = b}
           inRead == IF read.buf = b THEN 1 ELSE 0
<1>1. BufferInv /\ CursorInv /\ TypeOK
  BY DEF IsoInv
<1>2. Holders(b) = Cardinality(inFree) + Cardinality(held) + inRead
  BY DEF Holders
<1>3. Cardinality({}) = 0 /\ \A x : Cardinality({x}) = 1
  BY FS_EmptySet, FS_Singleton
<1>4. ~InFreeList(b) => inFree = {}
  BY DEF InFreeList, Has
<1>5. InFreeList(b) => \E i : inFree = {i}
  <2> SUFFICES ASSUME InFreeList(b) PROVE \E i : inFree = {i}
    OBVIOUS
  <2>1. PICK i \in DOMAIN sFreeBuffer : sFreeBuffer[i] = b
    BY DEF InFreeList, Has
  <2>2. \A j \in DOMAIN sFreeBuffer : sFreeBuffer[j] = b => j = i
    BY <1>1, <2>1 DEF BufferInv, Once
  <2>3. inFree = {i}
    BY <2>1, <2>2
  <2> QED
    BY <2>3
<1>6. ASSUME NEW c \in Cmds
      PROVE  /\ \A i \in 1 .. N_BUFFERS : i <= Len(msg[c].bufs) /\ msg[c].bufs[i].buf = b
                                          => i \in DOMAIN Named(msg[c].bufs) /\ Named(msg[c].bufs)[i] = b
             /\ \A i \in DOMAIN Named(msg[c].bufs) : Named(msg[c].bufs)[i] = b
                                          => i \in 1 .. N_BUFFERS /\ i <= Len(msg[c].bufs) /\ msg[c].bufs[i].buf = b
  <2>1. PICK s \in Seq(Waiting) : s = msg[c].bufs
    <3>1. msg[c] \in Message
      BY <1>1, Types
    <3> QED
      BY <3>1, Fields
  <2>2. PICK n \in Seq(Buffers) : n = Named(s) /\ Len(n) = Len(s) /\ \A i \in 1 .. Len(s) : n[i] = s[i].buf
    BY NamedLemma
  <2>3. PICK l \in Nat : l = Len(s) /\ DOMAIN n = 1 .. l
    BY <2>2, LenProperties
  <2>4. l <= N_BUFFERS
    <3>1. l <= 2
      BY <1>1, <2>1, <2>3 DEF CursorInv
    <3> QED
      BY <3>1, Sizes
  <2>5. \A i \in 1 .. N_BUFFERS : i <= l => i \in 1 .. l
    BY Sizes
  <2>6. \A i \in 1 .. l : i \in 1 .. N_BUFFERS /\ i <= l
    BY <2>4, Sizes
  <2> QED
    BY <2>1, <2>2, <2>3, <2>5, <2>6
<1>7. (\A c \in Cmds : ~HeldBy(b, c)) => held = {}
  <2> SUFFICES ASSUME NEW x \in held PROVE \E c \in Cmds : HeldBy(b, c)
    OBVIOUS
  <2>1. x[1] \in Cmds /\ x[2] \in 1 .. N_BUFFERS /\ x[2] <= Len(msg[x[1]].bufs) /\ msg[x[1]].bufs[x[2]].buf = b
    OBVIOUS
  <2> QED
    BY <1>6, <2>1 DEF HeldBy, Has
<1>8. ASSUME NEW c \in Cmds, HeldBy(b, c) PROVE \E x : held = {x}
  <2>1. PICK i \in DOMAIN Named(msg[c].bufs) : Named(msg[c].bufs)[i] = b
    BY <1>8 DEF HeldBy, Has
  <2>2. PICK x : x = <<c, i>>
    OBVIOUS
  <2>3. x \in held
    BY <1>6, <2>1, <2>2
  <2>4. ASSUME NEW y \in held PROVE y = x
    <3>1. /\ y = <<y[1], y[2]>> /\ y[1] \in Cmds /\ y[2] \in 1 .. N_BUFFERS
          /\ y[2] <= Len(msg[y[1]].bufs) /\ msg[y[1]].bufs[y[2]].buf = b
      BY <2>4
    <3>2. y[2] \in DOMAIN Named(msg[y[1]].bufs) /\ Named(msg[y[1]].bufs)[y[2]] = b
      BY <1>6, <3>1
    <3>3. y[1] = c
      <4>1. HeldBy(b, y[1])
        BY <3>2 DEF HeldBy, Has
      <4> QED
        BY <1>1, <1>8, <3>1, <4>1 DEF BufferInv
    <3>4. y[2] = i
      BY <1>1, <2>1, <3>2, <3>3 DEF BufferInv, Once
    <3> QED
      BY <2>2, <3>1, <3>3, <3>4
  <2> HIDE DEF held
  <2>5. held = {x}
    BY <2>3, <2>4
  <2> QED
    BY <2>5
<1> HIDE DEF inFree, held
<1>9. CASE InFreeList(b)
  <2>1. inRead = 0 /\ \A c \in Cmds : ~HeldBy(b, c)
    BY <1>1, <1>9 DEF BufferInv, InRead
  <2>2. Cardinality(inFree) = 1 /\ Cardinality(held) = 0
    BY <1>3, <1>5, <1>7, <1>9, <2>1
  <2> QED
    BY <1>2, <2>1, <2>2
<1>10. CASE ~InFreeList(b) /\ InRead(b)
  <2>1. inRead = 1 /\ \A c \in Cmds : ~HeldBy(b, c)
    BY <1>1, <1>10 DEF BufferInv, InRead
  <2>2. Cardinality(inFree) = 0 /\ Cardinality(held) = 0
    BY <1>3, <1>4, <1>7, <1>10, <2>1
  <2> QED
    BY <1>2, <2>1, <2>2
<1>11. CASE ~InFreeList(b) /\ ~InRead(b)
  <2>1. inRead = 0
    BY <1>11 DEF InRead
  <2>2. PICK c \in Cmds : HeldBy(b, c)
    BY <1>1, <1>11 DEF BufferInv
  <2>3. Cardinality(inFree) = 0 /\ Cardinality(held) = 1
    BY <1>3, <1>4, <1>8, <1>11, <2>2
  <2> QED
    BY <1>2, <2>1, <2>3
<1> QED
  BY <1>9, <1>10, <1>11

\* Buffers, files and queue places come back, however loads end.
THEOREM ResourcesSafety == Spec => []ResourcesConserved
<1>1. ASSUME IsoInv PROVE ResourcesConserved
  <2>1. TypeOK /\ FilesInv
    BY <1>1 DEF IsoInv
  <2>2. BuffersConserved
    BY <1>1, HoldersLemma DEF BuffersConserved
  <2>3. \A c \in Cmds : c \in Queued <=> IsQueued(c)
    BY <1>1, QueuedLemma
  <2>4. Queued \subseteq Cmds
    BY <1>1, QueuedLemma
  <2>5. \A c \in Queued : msg[c].fd # 0 /\ sLoadStack[msg[c].fd].fr = c
    BY <2>1, <2>3, <2>4 DEF FilesInv
  <2>6. ASSUME NEW s \in Slots, sLoadStack[s].fr # NoCmd
        PROVE  sLoadStack[s].fr \in Queued /\ msg[sLoadStack[s].fr].fd = s
    <3>1. PICK d \in Cmds : d = sLoadStack[s].fr
      BY <2>1, <2>6, Types
    <3> QED
      BY <2>1, <2>3, <3>1 DEF FilesInv
  <2>7. OpenFilesOwned
    BY <2>5, <2>6 DEF OpenFilesOwned
  <2> QED
    BY <2>1, <2>2, <2>7 DEF ResourcesConserved
<1> QED
  BY <1>1, IsoSafety, PTL
=============================================================================
