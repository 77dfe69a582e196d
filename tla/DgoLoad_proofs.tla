---------------------------- MODULE DgoLoad_proofs ----------------------------
(***************************************************************************)
(* Loading a DGO file, for every file, every page size and every size of   *)
(* the heap: what the loader relies on (LoaderSound), that nothing is      *)
(* written under an object that is being linked and that the temporary     *)
(* memory is given back (HeapRespected), and that the linker is handed the *)
(* objects whole and in order (ImplementsObjectStream).                    *)
(***************************************************************************)
EXTENDS DgoLoad, SequenceTheorems, TLAPS

N == ObjectCount(file)
Prefix(n, m) == [k \in 1 .. m |-> <<n, k>>]

\* The state machine works on an object: on which, and in its own time (the
\* object has not been asked for yet).
Reading == {"Read_Obj_Header", "Read_Obj_data"}
Working == queued /\ scmd.state \in {"Read_Obj_Header", "Read_Obj_data", "Finish_Obj", "Read_Last_Obj"}
Current == IF scmd.state = "Finish_Obj" THEN scmd.loaded ELSE scmd.loaded + 1
Ahead == Working /\ scmd.first /\ scmd.toggle # 0

Rpcs == [phase : {"idle", "called"}, fno : {"LOAD", "NEXT", "CANCEL"},
         heap_top : Places \cup {Nowhere}, buffer1 : Places \cup {Nowhere},
         result : {"INIT", "MORE", "DONE", "ERROR", "ABORTED"}]

CmdOK ==
    scmd \in [cmd_id : BOOLEAN, status : {"DONE", "IN_PROGRESS"}, heaptop : Places \cup {Nowhere},
              selected : Places \cup {Nowhere}, toggle : {0, 1, 2}, dest : Places \cup {Nowhere},
              state : {"Init", "Read_Header", "Finish_Obj", "Read_Last_Obj", "Read_Obj_Header",
                       "Read_Obj_data", "Finish_Dgo"},
              processed : Nat, loaded : Nat, header : Nat, first : BOOLEAN, abort : BOOLEAN]

\* The state machine is where it should be in the file, and what it has copied
\* of the object is that object's.
Parse ==
    /\ ~ queued => pos = 0 /\ left = 0 /\ ~ running
    /\ queued => file \in Files \ Missing
    /\ queued /\ scmd.state = "Init" => pos = 0
    /\ queued /\ scmd.state = "Read_Header" => pos = scmd.processed /\ scmd.processed < HEADER
    /\ queued /\ scmd.state = "Read_Obj_Header" =>
           scmd.loaded < N /\ scmd.processed < HEADER /\ pos = file[scmd.loaded + 1] + scmd.processed
    /\ queued /\ scmd.state = "Read_Obj_data" =>
           /\ scmd.loaded < N /\ scmd.header = DataSize(file, scmd.loaded + 1)
           /\ scmd.processed < scmd.header /\ pos = file[scmd.loaded + 1] + HEADER + scmd.processed
           /\ mem[scmd.dest] = Prefix(scmd.loaded + 1, HEADER + scmd.processed)
    /\ queued /\ scmd.state = "Finish_Obj" =>
           /\ scmd.loaded > 0 /\ scmd.loaded < N /\ scmd.processed = 0 /\ pos = file[scmd.loaded + 1]
           /\ mem[scmd.dest] = Content(file, scmd.loaded)
    /\ queued /\ scmd.state = "Read_Last_Obj" =>
           scmd.loaded > 0 /\ scmd.loaded + 1 = N /\ scmd.processed = 0 /\ pos = file[scmd.loaded + 1]

\* Which memory it writes.
Buffers ==
    Working =>
        /\ scmd.toggle = 1 => scmd.dest = B1
        /\ scmd.toggle = 2 => scmd.dest = B2
        /\ scmd.toggle = 0 => scmd.state \in Reading /\ scmd.loaded + 1 = N /\ scmd.dest = scmd.heaptop
        /\ scmd.toggle # 0 /\ scmd.state \in Reading => scmd.loaded + 1 < N
        /\ ~ scmd.first => scmd.state # "Read_Last_Obj" /\ scmd.toggle # 2 /\ Current = 1

\* Whose turn it is: one message, or none, goes between the two IOP threads.
Turn ==
    /\ thread = "loop" => sync_mbx = 0 /\ dgo_mbx = 0 /\ (queued => Ahead)
    /\ thread = "wait" =>
           /\ rpc.phase = "called"
           /\ Ahead => (sync_mbx = 0 /\ dgo_mbx = 1) \/ (sync_mbx = 1 /\ dgo_mbx = 0)
           /\ queued /\ ~ Ahead => sync_mbx = 0 /\ dgo_mbx = 0
           /\ ~ queued => sync_mbx = 0 /\ dgo_mbx = 1
           /\ rpc.fno # "CANCEL" => scmd.heaptop = rpc.heap_top
           /\ rpc.fno = "CANCEL" => scmd.abort
           /\ rpc.fno = "LOAD" => sync_mbx = 0
    /\ scmd.cmd_id <=> queued \/ thread = "wait"
    /\ queued /\ scmd.abort /\ scmd.state # "Init" => thread = "wait" /\ rpc.fno = "CANCEL"
    /\ queued /\ rpc.fno = "CANCEL" => dgo_mbx = 0
    /\ queued /\ ~ Ahead /\ rpc.fno = "CANCEL" => scmd.state = "Finish_Dgo"
    /\ queued /\ ~ Ahead /\ rpc.fno = "NEXT" => scmd.state = "Finish_Dgo" \/ (scmd.toggle = 0 /\ Working)
    /\ queued /\ scmd.state = "Read_Header" => ~ scmd.first

\* The loader's state, and that of its call.
Calls ==
    /\ rpc.phase = "called" => ee = "waiting"
    /\ ee = "waiting" => rpc.heap_top = Top(heap)
    /\ ee = "idle" => ~ queued /\ file = NoFile /\ count = 0
    /\ ee # "idle" => file \in Files /\ count < N /\ heap + N <= MaxHeap + count
    /\ ee = "linked" => queued /\ Current = count + 1
    /\ rpc.phase = "called" /\ rpc.fno = "LOAD" => count = 0 /\ rpc.buffer1 = B1
    /\ rpc.phase = "called" /\ thread = "loop" /\ rpc.fno = "LOAD" => ~ queued
    /\ rpc.phase = "called" /\ rpc.fno = "NEXT" /\ thread = "loop" => queued
    /\ ee = "waiting" /\ rpc.fno = "CANCEL" => ~ temps /\ (rpc.phase = "idle" => ~ queued)
    /\ ee = "waiting" /\ rpc.phase = "idle" /\ rpc.fno # "CANCEL" =>
           rpc.result \in {"MORE", "DONE"} \/ (rpc.result = "ERROR" /\ file \in Missing /\ ~ queued)
    /\ rpc.phase = "called" /\ rpc.fno # "CANCEL" /\ Working /\ dgo_mbx = 0 => Current = count + 1

\* Object count + 1 is in a buffer that the state machine does not write ...
HandedOver ==
    \/ ee = "linking" /\ ~ last
    \/ ee = "waiting" /\ rpc.phase = "idle" /\ rpc.fno # "CANCEL" /\ rpc.result = "MORE"
    \/ thread = "wait" /\ dgo_mbx = 1 /\ queued
Given == IF ee = "linking" THEN obj ELSE IF rpc.phase = "idle" THEN rpc.buffer1 ELSE scmd.selected

InBuffer ==
    /\ HandedOver =>
           /\ Ahead /\ Current = count + 2
           /\ Given \in {B1, B2} /\ Given # scmd.dest /\ mem[Given] = Content(file, count + 1)
    /\ thread = "wait" /\ dgo_mbx = 1 /\ queued =>
           scmd.status = "IN_PROGRESS" /\ (rpc.fno = "LOAD" => scmd.selected = B1)

\* ... or it is the last one, at the top of the heap.
Finished ==
    \/ ee = "linking" /\ last
    \/ ee = "waiting" /\ rpc.phase = "idle" /\ rpc.fno # "CANCEL" /\ rpc.result = "DONE"
    \/ rpc.phase = "called" /\ rpc.fno # "CANCEL" /\ thread = "wait" /\ ~ queued
    \/ rpc.phase = "called" /\ rpc.fno # "CANCEL" /\ queued /\ scmd.state = "Finish_Dgo"

AtHeapTop ==
    /\ Finished => count + 1 = N /\ mem[Top(heap)] = Content(file, N)
    /\ ee = "linking" /\ last => obj = Top(heap) /\ ~ temps /\ ~ queued
    /\ ee = "waiting" /\ rpc.phase = "idle" /\ rpc.fno # "CANCEL" /\ rpc.result = "DONE" =>
           rpc.buffer1 = Top(heap) /\ ~ queued
    /\ thread = "wait" /\ ~ queued => scmd.status = "DONE"

DgoInv == TypeOK /\ CmdOK /\ Parse /\ Buffers /\ Turn /\ Calls /\ InBuffer /\ AtHeapTop

-------------------------------------------------------------------------------
(* Places, and the layout of a file.                                       *)

LEMMA PlacesDiffer ==
    /\ B1 # B2 /\ B1 \in Places /\ B2 \in Places /\ Nowhere \notin Places
    /\ \A h : Top(h) # B1 /\ Top(h) # B2 /\ Top(h) # Nowhere
    /\ \A h \in 0 .. MaxHeap : Top(h) \in Places
BY DEF B1, B2, Nowhere, Top, Places

\* What an object's place in a file says about its size.
LEMMA FileFacts ==
    ASSUME NEW f \in Files
    PROVE  /\ ObjectCount(f) \in Nat /\ ObjectCount(f) > 0 /\ ObjectCount(f) = Len(f) - 1
           /\ f[1] = HEADER /\ HEADER \in Nat /\ HEADER > 0
           /\ \A n \in 1 .. ObjectCount(f) :
                  /\ f[n] \in Nat /\ f[n + 1] \in Nat
                  /\ DataSize(f, n) \in Nat /\ DataSize(f, n) > 0
                  /\ f[n + 1] = f[n] + HEADER + DataSize(f, n)
<1>1. /\ f \in Seq(Nat) /\ Len(f) > 1 /\ f[1] = HEADER /\ HEADER \in Nat /\ HEADER > 0
      /\ \A m, n \in 1 .. Len(f) : m < n => f[m] + HEADER < f[n]
  BY DgoAssumption
<1>2. Len(f) \in Nat /\ \A n \in 1 .. Len(f) : f[n] \in Nat BY <1>1
<1>3. ObjectCount(f) = Len(f) - 1 BY DEF ObjectCount
<1>4. ASSUME NEW n \in 1 .. ObjectCount(f)
      PROVE  /\ f[n] \in Nat /\ f[n + 1] \in Nat /\ f[n] + HEADER < f[n + 1]
  <2>1. n \in 1 .. Len(f) /\ n + 1 \in 1 .. Len(f) /\ n < n + 1 BY <1>2, <1>3
  <2> QED BY <1>1, <1>2, <2>1
<1>5. ASSUME NEW n \in 1 .. ObjectCount(f)
      PROVE  /\ DataSize(f, n) \in Nat /\ DataSize(f, n) > 0
             /\ f[n + 1] = f[n] + HEADER + DataSize(f, n)
  BY <1>1, <1>4 DEF DataSize
<1> QED BY <1>1, <1>2, <1>3, <1>4, <1>5

\* The units of object n are found after those of the objects before it.
LEMMA UnitOf ==
    ASSUME NEW f \in Files, NEW n \in 1 .. ObjectCount(f), NEW k \in 1 .. HEADER + DataSize(f, n)
    PROVE  Unit(f, f[n] + k) = <<n, k>> /\ ObjectAt(f, f[n] + k) = n
<1>1. /\ ObjectCount(f) \in Nat /\ ObjectCount(f) = Len(f) - 1 /\ HEADER \in Nat /\ f[1] = HEADER
      /\ f[n] \in Nat /\ f[n + 1] \in Nat /\ f[n + 1] = f[n] + HEADER + DataSize(f, n)
      /\ DataSize(f, n) \in Nat
  BY FileFacts
<1>2. \A m, q \in 1 .. Len(f) : m < q => f[m] + HEADER < f[q] BY DgoAssumption
<1>3. \A m \in 1 .. Len(f) : f[m] \in Nat BY DgoAssumption
<1>4. f[n] + k \in Nat /\ f[n] < f[n] + k /\ f[n] + k <= f[n + 1] BY <1>1
<1>5. f[n] + k > HEADER
  <2>1. n = 1 \/ f[1] + HEADER < f[n] BY <1>1, <1>2
  <2> QED BY <1>1, <2>1
<1>6. ASSUME NEW m \in 1 .. ObjectCount(f), f[m] < f[n] + k, f[n] + k <= f[m + 1]
      PROVE  m = n
  <2>1. /\ m \in 1 .. Len(f) /\ m + 1 \in 1 .. Len(f) /\ n \in 1 .. Len(f) /\ n + 1 \in 1 .. Len(f)
    BY <1>1
  <2>2. f[m] \in Nat /\ f[m + 1] \in Nat BY <1>3, <2>1
  <2>3. CASE m < n
    <3>1. CASE m + 1 = n BY <1>1, <1>4, <1>6, <3>1
    <3>2. CASE m + 1 # n
      <4>1. m + 1 < n BY <2>3, <3>2
      <4>2. f[m + 1] + HEADER < f[n] BY <1>2, <2>1, <4>1
      <4> QED BY <1>1, <1>4, <1>6, <2>2, <4>2
    <3> QED BY <3>1, <3>2
  <2>4. CASE n < m
    <3>1. CASE n + 1 = m BY <1>1, <1>4, <1>6, <3>1
    <3>2. CASE n + 1 # m
      <4>1. n + 1 < m BY <2>4, <3>2
      <4>2. f[n + 1] + HEADER < f[m] BY <1>2, <2>1, <4>1
      <4>3. PICK a, b, i : a = f[n + 1] /\ b = f[m] /\ i = f[n] + k OBVIOUS
      <4>4. a \in Nat /\ b \in Nat /\ i \in Nat /\ HEADER \in Nat BY <1>1, <1>4, <2>2, <4>3
      <4>5. a + HEADER < b /\ b < i /\ i <= a BY <1>4, <1>6, <4>2, <4>3
      <4> QED BY <4>4, <4>5
    <3> QED BY <3>1, <3>2
  <2> QED BY <2>3, <2>4
<1>7. ObjectAt(f, f[n] + k) = n
  <2>1. PICK c : c = ObjectAt(f, f[n] + k) OBVIOUS
  <2>2. c \in 1 .. ObjectCount(f) /\ f[c] < f[n] + k /\ f[n] + k <= f[c + 1] BY <1>4, <2>1 DEF ObjectAt
  <2> QED BY <1>6, <2>1, <2>2
<1>8. PICK i : i = f[n] + k OBVIOUS
<1>9. ~ (i <= HEADER) /\ ObjectAt(f, i) = n /\ i - f[n] = k BY <1>1, <1>5, <1>7, <1>8
<1>10. Unit(f, i) = <<n, k>> BY <1>9 DEF Unit
<1> QED BY <1>7, <1>8, <1>10

LEMMA PrefixSeq ==
    ASSUME NEW n \in Nat, NEW m \in Nat
    PROVE  Prefix(n, m) \in Seq(Nat \X Nat) /\ Len(Prefix(n, m)) = m
BY DEF Prefix

\* Copying a header, and then data, gives the beginning of the object.
LEMMA HeaderCopied ==
    ASSUME file \in Files, NEW n \in 1 .. N
    PROVE  Data(file[n], HEADER) = Prefix(n, HEADER) /\ ObjectAt(file, file[n] + HEADER) = n
<1>1. HEADER \in Nat /\ HEADER > 0 /\ DataSize(file, n) \in Nat BY FileFacts DEF N
<1>2. \A k \in 1 .. HEADER : k \in 1 .. HEADER + DataSize(file, n) BY <1>1
<1>3. \A k \in 1 .. HEADER : Unit(file, file[n] + k) = <<n, k>> BY <1>2, UnitOf DEF N
<1>4. HEADER \in 1 .. HEADER + DataSize(file, n) BY <1>1
<1>5. ObjectAt(file, file[n] + HEADER) = n BY <1>4, UnitOf DEF N
<1> QED BY <1>3, <1>5 DEF Data, Prefix

LEMMA DataCopied ==
    ASSUME file \in Files, NEW n \in 1 .. N, NEW m \in Nat, NEW k \in Nat,
           m + k <= HEADER + DataSize(file, n)
    PROVE  Prefix(n, m) \o Data(file[n] + m, k) = Prefix(n, m + k)
<1>1. /\ HEADER \in Nat /\ HEADER > 0 /\ DataSize(file, n) \in Nat /\ file[n] \in Nat /\ N \in Nat
  BY FileFacts DEF N
<1>2. ASSUME NEW u \in 1 .. k PROVE Unit(file, file[n] + m + u) = <<n, m + u>>
  <2>1. m + u \in 1 .. HEADER + DataSize(file, n) BY <1>1
  <2>2. Unit(file, file[n] + (m + u)) = <<n, m + u>> BY <2>1, UnitOf DEF N
  <2> QED BY <1>1, <2>2
<1>3. PICK d : d = Data(file[n] + m, k) OBVIOUS
<1>4. d = [u \in 1 .. k |-> <<n, m + u>>] BY <1>2, <1>3 DEF Data
<1>5. d \in Seq(Nat \X Nat) /\ Len(d) = k /\ \A u \in 1 .. k : d[u] = <<n, m + u>> BY <1>4
<1>6. PICK p : p = Prefix(n, m) OBVIOUS
<1>7. n \in Nat BY <1>1
<1>8. p \in Seq(Nat \X Nat) /\ Len(p) = m /\ \A u \in 1 .. m : p[u] = <<n, u>>
  BY <1>6, <1>7, PrefixSeq DEF Prefix
<1>9. PICK c : c = p \o d OBVIOUS
<1>10. /\ c \in Seq(Nat \X Nat) /\ Len(c) = m + k
       /\ \A u \in 1 .. m + k : c[u] = IF u <= m THEN p[u] ELSE d[u - m]
  BY <1>5, <1>8, <1>9, ConcatProperties
<1>11. ASSUME NEW u \in 1 .. m + k PROVE c[u] = <<n, u>>
  <2>1. CASE u <= m
    <3>1. c[u] = p[u] BY <1>10, <2>1
    <3> QED BY <1>8, <2>1, <3>1
  <2>2. CASE ~ (u <= m)
    <3>1. u - m \in 1 .. k /\ m + (u - m) = u BY <2>2
    <3>2. c[u] = d[u - m] BY <1>10, <2>2
    <3> QED BY <1>5, <3>1, <3>2
  <2> QED BY <2>1, <2>2
<1>12. c = [u \in 1 .. m + k |-> <<n, u>>] BY <1>10, <1>11
<1> QED BY <1>3, <1>6, <1>9, <1>12 DEF Prefix

LEMMA ContentIsPrefix == \A f, n : Content(f, n) = Prefix(n, HEADER + DataSize(f, n))
BY DEF Content, Prefix

-------------------------------------------------------------------------------
(* The invariant.                                                          *)

LEMMA Basics ==
    ASSUME DgoInv
    PROVE  /\ HEADER \in Nat /\ HEADER > 0 /\ PAGE \in Nat /\ PAGE > 0 /\ MaxHeap \in Nat
           /\ NoFile \notin Files
           /\ file \in Files => N \in Nat /\ N > 0
           /\ running => queued
           /\ queued => ee # "idle" /\ file \in Files /\ N \in Nat /\ N > 0
           /\ Working => /\ Current \in Nat /\ Current > 0 /\ Current <= N
                         /\ scmd.dest \in Places /\ (scmd.toggle = 0 => scmd.dest = Top(heap))
<1> USE DEF DgoInv
<1>1. HEADER \in Nat /\ HEADER > 0 /\ PAGE \in Nat /\ PAGE > 0 /\ MaxHeap \in Nat /\ NoFile \notin Files
  BY DgoAssumption
<1>2. file \in Files => N \in Nat /\ N > 0 BY FileFacts DEF N
<1>3. running => queued BY DEF Parse
<1>4. queued => ee # "idle" /\ file \in Files BY DEF Parse, Calls
<1>5. scmd.loaded \in Nat BY DEF TypeOK
<1>6. Working => Current \in Nat /\ Current > 0 /\ Current <= N
  BY <1>2, <1>4, <1>5 DEF Working, Current, Parse
<1>7. Working /\ scmd.toggle = 0 => scmd.dest = Top(heap)
  BY DEF Buffers, Turn, Calls, Working, Ahead, TypeOK
<1>8. scmd.toggle = 0 \/ scmd.toggle = 1 \/ scmd.toggle = 2 BY DEF CmdOK
<1>9. Top(heap) \in Places BY PlacesDiffer DEF TypeOK
<1>10. Working => scmd.dest \in Places BY <1>7, <1>8, <1>9, PlacesDiffer DEF Buffers
<1> QED BY <1>1, <1>2, <1>3, <1>4, <1>6, <1>7, <1>10

LEMMA DgoInitInv == Init => DgoInv
<1> SUFFICES ASSUME Init PROVE DgoInv OBVIOUS
<1> USE DEF Init
<1>0. HEADER \in Nat /\ PAGE \in Nat /\ MaxHeap \in Nat BY DgoAssumption
<1>1. rpc \in Rpcs BY DEF Rpcs
<1>2. scmd.state = "Init" /\ scmd.dest = Nowhere /\ scmd.processed = 0 /\ scmd.loaded = 0 /\ ~ scmd.cmd_id
  BY DEF FreshCmd
<1>3. mem \in [Places -> Seq(Nat \X Nat)] OBVIOUS
<1>4. TypeOK
  <2>1. left \in 0 .. PAGE /\ pos \in Nat /\ heap \in 0 .. MaxHeap /\ sync_mbx \in 0 .. 1
                              /\ dgo_mbx \in 0 .. 1
    BY <1>0
  <2>2. count \in Nat /\ file \in Files \cup {NoFile} /\ obj \in Places \cup {Nowhere} OBVIOUS
  <2> QED BY <1>1, <1>2, <1>3, <2>1, <2>2 DEF TypeOK, Rpcs
<1>5. CmdOK BY DEF CmdOK, FreshCmd
<1>6. Parse BY DEF Parse
<1>7. Buffers BY DEF Buffers, Working
<1>8. Turn BY <1>2 DEF Turn
<1>9. Calls BY DEF Calls, Working
<1>10. InBuffer BY DEF InBuffer, HandedOver
<1>11. AtHeapTop BY DEF AtHeapTop, Finished
<1> QED BY <1>4, <1>5, <1>6, <1>7, <1>8, <1>9, <1>10, <1>11 DEF DgoInv

LEMMA DgoInvSuffices == DgoInv => LoaderSound
<1> SUFFICES ASSUME DgoInv PROVE LoaderSound OBVIOUS
<1> USE DEF DgoInv
<1>1. LastAtHeapTop BY DEF LastAtHeapTop, AtHeapTop
<1>2. CleanStart BY DEF CleanStart, Turn, Calls
<1> QED BY <1>1, <1>2 DEF LoaderSound

\* A load begins.
LEMMA BeginInv ==
    ASSUME DgoInv, \E f \in Files : BeginLoadingDGO(f)
    PROVE  DgoInv'
<1> USE DEF DgoInv
<1>0. /\ HEADER \in Nat /\ HEADER > 0 /\ PAGE \in Nat /\ PAGE > 0 /\ MaxHeap \in Nat /\ NoFile \notin Files
      /\ (file \in Files => N \in Nat /\ N > 0) /\ (running => queued)
      /\ (queued => ee # "idle" /\ file \in Files /\ N \in Nat /\ N > 0)
      /\ (Working => /\ Current \in Nat /\ Current > 0 /\ Current <= N
                     /\ scmd.dest \in Places /\ (scmd.toggle = 0 => scmd.dest = Top(heap)))
  BY Basics
<1>1. PICK f \in Files : BeginLoadingDGO(f) OBVIOUS
<1>2. DgoInv'
  <2>1. /\ ee = "idle" /\ rpc.phase = "idle" /\ heap + ObjectCount(f) <= MaxHeap /\ ee' = "waiting"
        /\ file' = f /\ temps' = TRUE /\ count' = 0
    BY <1>1 DEF BeginLoadingDGO, Call
  <2>2. /\ rpc'.phase = "called" /\ rpc'.fno = "LOAD" /\ rpc'.heap_top = Top(heap) /\ rpc'.result = "INIT"
        /\ rpc'.buffer1 = B1
    BY <1>1 DEF BeginLoadingDGO, Call, TypeOK
  <2>3. UNCHANGED <<obj, last, heap, thread, scmd, sync_mbx, dgo_mbx, queued, running, left, pos>>
    BY <1>1 DEF BeginLoadingDGO, Call, eeVars, isoVars, smVars
  <2>4. ~ queued /\ thread = "loop" /\ sync_mbx = 0 /\ dgo_mbx = 0 /\ heap \in 0 .. MaxHeap
    BY <2>1, <2>2, <2>3 DEF Calls, Turn, TypeOK
  <2>5. ObjectCount(f) \in Nat /\ ObjectCount(f) > 0
    BY FileFacts
  <2>6. Top(heap) \in Places /\ B1 \in Places /\ <<>> \in Seq(Nat \X Nat)
    BY <2>1, <2>2, <2>3, <2>4, <2>5, PlacesDiffer
  <2>7. mem' \in [Places -> Seq(Nat \X Nat)]
    BY <1>1 DEF BeginLoadingDGO
  <2>8. rpc' \in Rpcs
    BY <1>1, PlacesDiffer, <2>1, <2>2, <2>3, <2>4, <2>5, <2>6, <2>7
      DEF BeginLoadingDGO, Call, TypeOK, CmdOK, Rpcs
  <2>9. TypeOK' BY <2>1, <2>2, <2>3, <2>4, <2>5, <2>6, <2>7, <2>8 DEF TypeOK, Rpcs
  <2>10. CmdOK' BY <2>1, <2>2, <2>3, <2>4, <2>5, <2>6, <2>7, <2>8 DEF CmdOK
  <2>11. Parse' BY <2>1, <2>2, <2>3, <2>4, <2>5, <2>6, <2>7, <2>8 DEF Parse, N
  <2>12. Buffers' BY <2>1, <2>2, <2>3, <2>4, <2>5, <2>6, <2>7, <2>8
    DEF Buffers, Working, Current, Reading, N
  <2>13. Turn' BY <2>1, <2>2, <2>3, <2>4, <2>5, <2>6, <2>7, <2>8 DEF Turn, Ahead, Working
  <2>14. Calls' BY <2>1, <2>2, <2>3, <2>4, <2>5, <2>6, <2>7, <2>8, <1>0 DEF Calls, N, Working, Current
  <2>15. InBuffer' BY <2>1, <2>2, <2>3, <2>4, <2>5, <2>6, <2>7, <2>8
    DEF InBuffer, HandedOver, Given, Ahead, Working, Current
  <2>16. AtHeapTop' BY <2>1, <2>2, <2>3, <2>4, <2>5, <2>6, <2>7, <2>8 DEF AtHeapTop, Finished, N
  <2> QED BY <2>9, <2>10, <2>11, <2>12, <2>13, <2>14, <2>15, <2>16
<1> QED BY <1>2

\* The loader gets an object, or none.
LEMMA GetNextInv ==
    ASSUME DgoInv, GetNextDGO
    PROVE  DgoInv'
<1> USE DEF DgoInv
<1>0. /\ HEADER \in Nat /\ HEADER > 0 /\ PAGE \in Nat /\ PAGE > 0 /\ MaxHeap \in Nat /\ NoFile \notin Files
      /\ (file \in Files => N \in Nat /\ N > 0) /\ (running => queued)
      /\ (queued => ee # "idle" /\ file \in Files /\ N \in Nat /\ N > 0)
      /\ (Working => /\ Current \in Nat /\ Current > 0 /\ Current <= N
                     /\ scmd.dest \in Places /\ (scmd.toggle = 0 => scmd.dest = Top(heap)))
  BY Basics
<1>1. CASE rpc.result = "MORE"
  <2>1. /\ ee = "waiting" /\ rpc.phase = "idle" /\ rpc.fno # "CANCEL" /\ rpc.result = "MORE"
        /\ ee' = "linking" /\ obj' = rpc.buffer1 /\ ~ last' /\ temps' = TRUE
    BY <1>1 DEF GetNextDGO, TempsStay
  <2>2. UNCHANGED <<file, count, heap, mem, rpc, thread, scmd, sync_mbx, dgo_mbx, queued, running, left, pos>>
    BY <1>1 DEF GetNextDGO, TempsStay, eeVars, isoVars, smVars
  <2>3. HandedOver /\ thread = "loop"
    BY <2>1, <2>2 DEF HandedOver, Turn, TypeOK
  <2>4. /\ Ahead /\ Current = count + 2 /\ rpc.buffer1 \in {B1, B2} /\ rpc.buffer1 # scmd.dest
        /\ mem[rpc.buffer1] = Content(file, count + 1)
    BY <2>1, <2>2, <2>3 DEF InBuffer, Given
  <2>5. TypeOK' BY <2>1, <2>2, <2>3, <2>4, PlacesDiffer, <1>1 DEF GetNextDGO, TypeOK, Rpcs
  <2>6. CmdOK' BY <2>1, <2>2, <2>3, <2>4 DEF CmdOK
  <2>7. Parse' BY <2>1, <2>2, <2>3, <2>4 DEF Parse, N
  <2>8. Buffers' BY <2>1, <2>2, <2>3, <2>4 DEF Buffers, Working, Current, Reading, N
  <2>9. Turn' BY <2>1, <2>2, <2>3, <2>4 DEF Turn, Ahead, Working
  <2>10. Calls' BY <2>1, <2>2, <2>3, <2>4 DEF Calls, N, Working, Current
  <2>11. InBuffer' BY <2>1, <2>2, <2>3, <2>4 DEF InBuffer, HandedOver, Given, Ahead, Working, Current
  <2>12. AtHeapTop' BY <2>1, <2>2, <2>3, <2>4 DEF AtHeapTop, Finished, N
  <2> QED BY <2>5, <2>6, <2>7, <2>8, <2>9, <2>10, <2>11, <2>12
<1>2. CASE rpc.result = "DONE"
  <2>1. /\ ee = "waiting" /\ rpc.phase = "idle" /\ rpc.fno # "CANCEL" /\ rpc.result = "DONE"
        /\ ee' = "linking" /\ obj' = rpc.buffer1 /\ last' /\ temps' = FALSE
    BY <1>2 DEF GetNextDGO, TempsStay
  <2>2. UNCHANGED <<file, count, heap, mem, rpc, thread, scmd, sync_mbx, dgo_mbx, queued, running, left, pos>>
    BY <1>2 DEF GetNextDGO, TempsStay, eeVars, isoVars, smVars
  <2>3. Finished /\ thread = "loop"
    BY <2>1, <2>2 DEF Finished, Turn, TypeOK
  <2>4. /\ count + 1 = N /\ mem[Top(heap)] = Content(file, N) /\ rpc.buffer1 = Top(heap) /\ ~ queued
    BY <2>1, <2>2, <2>3 DEF AtHeapTop
  <2>5. TypeOK' BY <2>1, <2>2, <2>3, <2>4, PlacesDiffer, <1>2 DEF GetNextDGO, TypeOK, Rpcs
  <2>6. CmdOK' BY <2>1, <2>2, <2>3, <2>4 DEF CmdOK
  <2>7. Parse' BY <2>1, <2>2, <2>3, <2>4 DEF Parse, N
  <2>8. Buffers' BY <2>1, <2>2, <2>3, <2>4 DEF Buffers, Working, Current, Reading, N
  <2>9. Turn' BY <2>1, <2>2, <2>3, <2>4 DEF Turn, Ahead, Working
  <2>10. Calls' BY <2>1, <2>2, <2>3, <2>4 DEF Calls, N, Working, Current
  <2>11. InBuffer' BY <2>1, <2>2, <2>3, <2>4 DEF InBuffer, HandedOver, Given, Ahead, Working, Current
  <2>12. AtHeapTop' BY <2>1, <2>2, <2>3, <2>4 DEF AtHeapTop, Finished, N
  <2> QED BY <2>5, <2>6, <2>7, <2>8, <2>9, <2>10, <2>11, <2>12
<1>3. CASE rpc.result \notin {"MORE", "DONE"}
  <2>1. /\ ee = "waiting" /\ rpc.phase = "idle" /\ rpc.fno # "CANCEL"
        /\ rpc.result \notin {"MORE", "DONE"} /\ ee' = "idle" /\ file' = NoFile /\ count' = 0
        /\ last' \in BOOLEAN
    BY <1>3 DEF GetNextDGO
  <2>2. UNCHANGED <<obj, heap, temps, mem, rpc, thread, scmd, sync_mbx, dgo_mbx, queued, running, left, pos>>
    BY <1>3 DEF GetNextDGO, eeVars, isoVars, smVars
  <2>3. thread = "loop" /\ ~ queued
    BY <2>1, <2>2 DEF Calls, Turn, TypeOK
  <2>4. TypeOK' BY <2>1, <2>2, <2>3 DEF TypeOK, Rpcs
  <2>5. CmdOK' BY <2>1, <2>2, <2>3 DEF CmdOK
  <2>6. Parse' BY <2>1, <2>2, <2>3 DEF Parse, N
  <2>7. Buffers' BY <2>1, <2>2, <2>3 DEF Buffers, Working, Current, Reading, N
  <2>8. Turn' BY <2>1, <2>2, <2>3 DEF Turn, Ahead, Working
  <2>9. Calls' BY <2>1, <2>2, <2>3 DEF Calls, N, Working, Current
  <2>10. InBuffer' BY <2>1, <2>2, <2>3 DEF InBuffer, HandedOver, Given, Ahead, Working, Current
  <2>11. AtHeapTop' BY <2>1, <2>2, <2>3 DEF AtHeapTop, Finished, N
  <2> QED BY <2>4, <2>5, <2>6, <2>7, <2>8, <2>9, <2>10, <2>11
<1> QED BY <1>1, <1>2, <1>3

\* An object has been linked.
LEMMA FinishLinkInv ==
    ASSUME DgoInv, FinishLink
    PROVE  DgoInv'
<1> USE DEF DgoInv
<1>0. /\ HEADER \in Nat /\ HEADER > 0 /\ PAGE \in Nat /\ PAGE > 0 /\ MaxHeap \in Nat /\ NoFile \notin Files
      /\ (file \in Files => N \in Nat /\ N > 0) /\ (running => queued)
      /\ (queued => ee # "idle" /\ file \in Files /\ N \in Nat /\ N > 0)
      /\ (Working => /\ Current \in Nat /\ Current > 0 /\ Current <= N
                     /\ scmd.dest \in Places /\ (scmd.toggle = 0 => scmd.dest = Top(heap)))
  BY Basics
<1>1. CASE last
  <2>1. /\ ee = "linking" /\ ee' = "idle" /\ file' = NoFile /\ count' = 0 /\ obj' = Nowhere
        /\ heap' = heap + 1
    BY <1>1 DEF FinishLink
  <2>2. UNCHANGED <<last, temps, mem, rpc, thread, scmd, sync_mbx, dgo_mbx, queued, running, left, pos>>
    BY <1>1 DEF FinishLink, eeVars, isoVars, smVars
  <2>3. thread = "loop" /\ ~ queued /\ rpc.phase = "idle"
    BY <2>1, <2>2, <1>1 DEF Calls, Turn, AtHeapTop, TypeOK
  <2>4. heap' \in 0 .. MaxHeap
    BY <2>1, <2>2, <2>3, <1>0 DEF Calls, TypeOK
  <2>5. TypeOK' BY <2>1, <2>2, <2>3, <2>4 DEF TypeOK, Rpcs
  <2>6. CmdOK' BY <2>1, <2>2, <2>3, <2>4 DEF CmdOK
  <2>7. Parse' BY <2>1, <2>2, <2>3, <2>4 DEF Parse, N
  <2>8. Buffers' BY <2>1, <2>2, <2>3, <2>4 DEF Buffers, Working, Current, Reading, N
  <2>9. Turn' BY <2>1, <2>2, <2>3, <2>4 DEF Turn, Ahead, Working
  <2>10. Calls' BY <2>1, <2>2, <2>3, <2>4 DEF Calls, N, Working, Current
  <2>11. InBuffer' BY <2>1, <2>2, <2>3, <2>4 DEF InBuffer, HandedOver, Given, Ahead, Working, Current
  <2>12. AtHeapTop' BY <2>1, <2>2, <2>3, <2>4 DEF AtHeapTop, Finished, N
  <2> QED BY <2>5, <2>6, <2>7, <2>8, <2>9, <2>10, <2>11, <2>12
<1>2. CASE ~ last
  <2>1. /\ ee = "linking" /\ ee' = "linked" /\ count' = count + 1 /\ obj' = Nowhere /\ heap' = heap + 1
    BY <1>2 DEF FinishLink
  <2>2. UNCHANGED <<file, last, temps, mem, rpc, thread, scmd, sync_mbx, dgo_mbx, queued, running, left, pos>>
    BY <1>2 DEF FinishLink, eeVars, isoVars, smVars
  <2>3. thread = "loop" /\ rpc.phase = "idle" /\ HandedOver
    BY <2>1, <2>2, <1>2 DEF Calls, Turn, HandedOver, TypeOK
  <2>4. Ahead /\ Working /\ queued /\ Current = count + 2 /\ file \in Files
    BY <2>1, <2>2, <2>3, <1>0 DEF InBuffer, Ahead, Working
  <2>5. heap' \in 0 .. MaxHeap /\ count' < N /\ heap' + N <= MaxHeap + count' /\ count' \in Nat
    BY <2>1, <2>2, <2>3, <2>4, <1>0 DEF Calls, TypeOK
  <2>6. Current = count' + 1
    BY <2>1, <2>2, <2>3, <2>4, <2>5 DEF TypeOK
  <2>7. TypeOK' BY <2>1, <2>2, <2>3, <2>4, <2>5, <2>6 DEF TypeOK, Rpcs
  <2>8. CmdOK' BY <2>1, <2>2, <2>3, <2>4, <2>5, <2>6 DEF CmdOK
  <2>9. Parse' BY <2>1, <2>2, <2>3, <2>4, <2>5, <2>6 DEF Parse, N
  <2>10. Buffers' BY <2>1, <2>2, <2>3, <2>4, <2>5, <2>6 DEF Buffers, Working, Current, Reading, N
  <2>11. Turn' BY <2>1, <2>2, <2>3, <2>4, <2>5, <2>6 DEF Turn, Ahead, Working
  <2>12. Calls' BY <2>1, <2>2, <2>3, <2>4, <2>5, <2>6 DEF Calls, N, Working, Current
  <2>13. InBuffer' BY <2>1, <2>2, <2>3, <2>4, <2>5, <2>6
    DEF InBuffer, HandedOver, Given, Ahead, Working, Current
  <2>14. AtHeapTop' BY <2>1, <2>2, <2>3, <2>4, <2>5, <2>6 DEF AtHeapTop, Finished, N
  <2> QED BY <2>7, <2>8, <2>9, <2>10, <2>11, <2>12, <2>13, <2>14
<1> QED BY <1>1, <1>2

\* The loader asks for the next object.
LEMMA ContinueInv ==
    ASSUME DgoInv, ContinueLoadingDGO
    PROVE  DgoInv'
<1> USE DEF DgoInv
<1>0. /\ HEADER \in Nat /\ HEADER > 0 /\ PAGE \in Nat /\ PAGE > 0 /\ MaxHeap \in Nat /\ NoFile \notin Files
      /\ (file \in Files => N \in Nat /\ N > 0) /\ (running => queued)
      /\ (queued => ee # "idle" /\ file \in Files /\ N \in Nat /\ N > 0)
      /\ (Working => /\ Current \in Nat /\ Current > 0 /\ Current <= N
                     /\ scmd.dest \in Places /\ (scmd.toggle = 0 => scmd.dest = Top(heap)))
  BY Basics
<1>1. ContinueLoadingDGO OBVIOUS
<1>2. DgoInv'
  <2>1. /\ ee = "linked" /\ rpc.phase = "idle" /\ ee' = "waiting"
    BY <1>1 DEF ContinueLoadingDGO, Call
  <2>2. /\ rpc'.phase = "called" /\ rpc'.fno = "NEXT" /\ rpc'.heap_top = Top(heap) /\ rpc'.result = "INIT"
        /\ rpc'.buffer1 = Nowhere
    BY <1>1 DEF ContinueLoadingDGO, Call, TypeOK
  <2>3. UNCHANGED <<file, obj, last, count, heap, temps, mem, thread, scmd, sync_mbx, dgo_mbx,
                    queued, running, left, pos>>
    BY <1>1 DEF ContinueLoadingDGO, Call, eeVars, isoVars, smVars
  <2>4. thread = "loop" /\ queued /\ Ahead /\ Working /\ Current = count + 1 /\ sync_mbx = 0 /\ dgo_mbx = 0
    BY <2>1, <2>2, <2>3 DEF Calls, Turn, Ahead, TypeOK
  <2>5. Top(heap) \in Places
    BY PlacesDiffer DEF TypeOK
  <2>6. rpc' \in Rpcs
    BY <1>1, PlacesDiffer, <2>1, <2>2, <2>3, <2>4, <2>5 DEF ContinueLoadingDGO, Call, TypeOK, CmdOK, Rpcs
  <2>7. TypeOK' BY <2>1, <2>2, <2>3, <2>4, <2>5, <2>6 DEF TypeOK, Rpcs
  <2>8. CmdOK' BY <2>1, <2>2, <2>3, <2>4, <2>5, <2>6 DEF CmdOK
  <2>9. Parse' BY <2>1, <2>2, <2>3, <2>4, <2>5, <2>6 DEF Parse, N
  <2>10. Buffers' BY <2>1, <2>2, <2>3, <2>4, <2>5, <2>6 DEF Buffers, Working, Current, Reading, N
  <2>11. Turn' BY <2>1, <2>2, <2>3, <2>4, <2>5, <2>6 DEF Turn, Ahead, Working
  <2>12. Calls' BY <2>1, <2>2, <2>3, <2>4, <2>5, <2>6 DEF Calls, N, Working, Current
  <2>13. InBuffer' BY <2>1, <2>2, <2>3, <2>4, <2>5, <2>6
    DEF InBuffer, HandedOver, Given, Ahead, Working, Current
  <2>14. AtHeapTop' BY <2>1, <2>2, <2>3, <2>4, <2>5, <2>6 DEF AtHeapTop, Finished, N, Working
  <2> QED BY <2>7, <2>8, <2>9, <2>10, <2>11, <2>12, <2>13, <2>14
<1> QED BY <1>2

\* The loader cancels.
LEMMA CancelInv ==
    ASSUME DgoInv, DgoLoadCancel
    PROVE  DgoInv'
<1> USE DEF DgoInv
<1>0. /\ HEADER \in Nat /\ HEADER > 0 /\ PAGE \in Nat /\ PAGE > 0 /\ MaxHeap \in Nat /\ NoFile \notin Files
      /\ (file \in Files => N \in Nat /\ N > 0) /\ (running => queued)
      /\ (queued => ee # "idle" /\ file \in Files /\ N \in Nat /\ N > 0)
      /\ (Working => /\ Current \in Nat /\ Current > 0 /\ Current <= N
                     /\ scmd.dest \in Places /\ (scmd.toggle = 0 => scmd.dest = Top(heap)))
  BY Basics
<1>1. DgoLoadCancel OBVIOUS
<1>2. DgoInv'
  <2>1. /\ ee \in {"linking", "linked"} /\ rpc.phase = "idle" /\ ee' = "waiting" /\ obj' = Nowhere
        /\ temps' = FALSE
    BY <1>1 DEF DgoLoadCancel, Call
  <2>2. /\ rpc'.phase = "called" /\ rpc'.fno = "CANCEL" /\ rpc'.heap_top = Top(heap)
        /\ rpc'.result = "INIT" /\ rpc'.buffer1 = Nowhere
    BY <1>1 DEF DgoLoadCancel, Call, TypeOK
  <2>3. UNCHANGED <<file, last, count, heap, mem, thread, scmd, sync_mbx, dgo_mbx, queued, running, left, pos>>
    BY <1>1 DEF DgoLoadCancel, Call, eeVars, isoVars, smVars
  <2>4. thread = "loop" /\ sync_mbx = 0 /\ dgo_mbx = 0 /\ (queued => Ahead) /\ file \in Files
    BY <2>1, <2>2, <2>3 DEF Calls, Turn, TypeOK
  <2>5. Top(heap) \in Places
    BY PlacesDiffer DEF TypeOK
  <2>6. rpc' \in Rpcs
    BY <1>1, PlacesDiffer, <2>1, <2>2, <2>3, <2>4, <2>5 DEF DgoLoadCancel, Call, TypeOK, CmdOK, Rpcs
  <2>7. TypeOK' BY <2>1, <2>2, <2>3, <2>4, <2>5, <2>6 DEF TypeOK, Rpcs
  <2>8. CmdOK' BY <2>1, <2>2, <2>3, <2>4, <2>5, <2>6 DEF CmdOK
  <2>9. Parse' BY <2>1, <2>2, <2>3, <2>4, <2>5, <2>6 DEF Parse, N
  <2>10. Buffers' BY <2>1, <2>2, <2>3, <2>4, <2>5, <2>6 DEF Buffers, Working, Current, Reading, N
  <2>11. Turn' BY <2>1, <2>2, <2>3, <2>4, <2>5, <2>6 DEF Turn, Ahead, Working
  <2>12. Calls' BY <2>1, <2>2, <2>3, <2>4, <2>5, <2>6 DEF Calls, N, Working, Current
  <2>13. InBuffer' BY <2>1, <2>2, <2>3, <2>4, <2>5, <2>6
    DEF InBuffer, HandedOver, Given, Ahead, Working, Current
  <2>14. AtHeapTop' BY <2>1, <2>2, <2>3, <2>4, <2>5, <2>6 DEF AtHeapTop, Finished, N
  <2> QED BY <2>7, <2>8, <2>9, <2>10, <2>11, <2>12, <2>13, <2>14
<1> QED BY <1>2

\* A cancelled load has been answered.
LEMMA SyncInv ==
    ASSUME DgoInv, SyncAfterCancel
    PROVE  DgoInv'
<1> USE DEF DgoInv
<1>0. /\ HEADER \in Nat /\ HEADER > 0 /\ PAGE \in Nat /\ PAGE > 0 /\ MaxHeap \in Nat /\ NoFile \notin Files
      /\ (file \in Files => N \in Nat /\ N > 0) /\ (running => queued)
      /\ (queued => ee # "idle" /\ file \in Files /\ N \in Nat /\ N > 0)
      /\ (Working => /\ Current \in Nat /\ Current > 0 /\ Current <= N
                     /\ scmd.dest \in Places /\ (scmd.toggle = 0 => scmd.dest = Top(heap)))
  BY Basics
<1>1. SyncAfterCancel OBVIOUS
<1>2. DgoInv'
  <2>1. /\ ee = "waiting" /\ rpc.phase = "idle" /\ rpc.fno = "CANCEL" /\ ee' = "idle" /\ file' = NoFile
        /\ count' = 0
    BY <1>1 DEF SyncAfterCancel
  <2>2. UNCHANGED <<obj, last, heap, temps, mem, rpc, thread, scmd, sync_mbx, dgo_mbx, queued,
                    running, left, pos>>
    BY <1>1 DEF SyncAfterCancel, eeVars, isoVars, smVars
  <2>3. thread = "loop" /\ ~ queued
    BY <2>1, <2>2 DEF Calls, Turn, TypeOK
  <2>4. TypeOK' BY <2>1, <2>2, <2>3 DEF TypeOK, Rpcs
  <2>5. CmdOK' BY <2>1, <2>2, <2>3 DEF CmdOK
  <2>6. Parse' BY <2>1, <2>2, <2>3 DEF Parse, N
  <2>7. Buffers' BY <2>1, <2>2, <2>3 DEF Buffers, Working, Current, Reading, N
  <2>8. Turn' BY <2>1, <2>2, <2>3 DEF Turn, Ahead, Working
  <2>9. Calls' BY <2>1, <2>2, <2>3 DEF Calls, N, Working, Current
  <2>10. InBuffer' BY <2>1, <2>2, <2>3 DEF InBuffer, HandedOver, Given, Ahead, Working, Current
  <2>11. AtHeapTop' BY <2>1, <2>2, <2>3 DEF AtHeapTop, Finished, N
  <2> QED BY <2>4, <2>5, <2>6, <2>7, <2>8, <2>9, <2>10, <2>11
<1> QED BY <1>2

\* A heap is emptied.
LEMMA EmptyInv ==
    ASSUME DgoInv, EmptyHeap
    PROVE  DgoInv'
<1> USE DEF DgoInv
<1>0. /\ HEADER \in Nat /\ HEADER > 0 /\ PAGE \in Nat /\ PAGE > 0 /\ MaxHeap \in Nat /\ NoFile \notin Files
      /\ (file \in Files => N \in Nat /\ N > 0) /\ (running => queued)
      /\ (queued => ee # "idle" /\ file \in Files /\ N \in Nat /\ N > 0)
      /\ (Working => /\ Current \in Nat /\ Current > 0 /\ Current <= N
                     /\ scmd.dest \in Places /\ (scmd.toggle = 0 => scmd.dest = Top(heap)))
  BY Basics
<1>1. EmptyHeap OBVIOUS
<1>2. DgoInv'
  <2>1. /\ ee = "idle" /\ heap' = 0
    BY <1>1 DEF EmptyHeap
  <2>2. UNCHANGED <<ee, file, obj, last, count, temps, mem, rpc, thread, scmd, sync_mbx, dgo_mbx,
                    queued, running, left, pos>>
    BY <1>1 DEF EmptyHeap, eeVars, isoVars, smVars
  <2>3. thread = "loop" /\ ~ queued /\ rpc.phase = "idle"
    BY <2>1, <2>2 DEF Calls, Turn, TypeOK
  <2>4. TypeOK' BY <2>1, <2>2, <2>3, <1>0 DEF TypeOK, Rpcs
  <2>5. CmdOK' BY <2>1, <2>2, <2>3 DEF CmdOK
  <2>6. Parse' BY <2>1, <2>2, <2>3 DEF Parse, N
  <2>7. Buffers' BY <2>1, <2>2, <2>3 DEF Buffers, Working, Current, Reading, N
  <2>8. Turn' BY <2>1, <2>2, <2>3 DEF Turn, Ahead, Working
  <2>9. Calls' BY <2>1, <2>2, <2>3 DEF Calls, N, Working, Current
  <2>10. InBuffer' BY <2>1, <2>2, <2>3 DEF InBuffer, HandedOver, Given, Ahead, Working, Current
  <2>11. AtHeapTop' BY <2>1, <2>2, <2>3 DEF AtHeapTop, Finished, N
  <2> QED BY <2>4, <2>5, <2>6, <2>7, <2>8, <2>9, <2>10, <2>11
<1> QED BY <1>2

\* A load is refused, or sent to the ISO thread.
LEMMA LoadInv ==
    ASSUME DgoInv, LoadDGO
    PROVE  DgoInv'
<1> USE DEF DgoInv
<1>0. /\ HEADER \in Nat /\ HEADER > 0 /\ PAGE \in Nat /\ PAGE > 0 /\ MaxHeap \in Nat /\ NoFile \notin Files
      /\ (file \in Files => N \in Nat /\ N > 0) /\ (running => queued)
      /\ (queued => ee # "idle" /\ file \in Files /\ N \in Nat /\ N > 0)
      /\ (Working => /\ Current \in Nat /\ Current > 0 /\ Current <= N
                     /\ scmd.dest \in Places /\ (scmd.toggle = 0 => scmd.dest = Top(heap)))
  BY Basics
<1>1. CASE file \in Missing
  <2>1. /\ ~ running /\ thread = "loop" /\ rpc.phase = "called" /\ rpc.fno = "LOAD"
    BY <1>1 DEF LoadDGO, Called, DgoThreadMayRun, Reply
  <2>2. /\ rpc'.phase = "idle" /\ rpc'.result = "ERROR" /\ rpc'.fno = rpc.fno
        /\ rpc'.heap_top = rpc.heap_top /\ rpc'.buffer1 = rpc.buffer1
    BY <1>1 DEF LoadDGO, Called, DgoThreadMayRun, Reply, TypeOK
  <2>3. UNCHANGED <<ee, file, obj, last, count, heap, temps, mem, thread, scmd, sync_mbx, dgo_mbx,
                    queued, running, left, pos>>
    BY <1>1 DEF LoadDGO, Called, DgoThreadMayRun, Reply, eeVars, isoVars, smVars
  <2>4. ~ queued /\ ee = "waiting" /\ sync_mbx = 0 /\ dgo_mbx = 0
    BY <2>1, <2>2, <2>3 DEF Calls, Turn
  <2>5. rpc' \in Rpcs
    BY <1>1, PlacesDiffer, <2>1, <2>2, <2>3, <2>4
      DEF LoadDGO, Called, DgoThreadMayRun, Reply, TypeOK, CmdOK, Rpcs
  <2>6. TypeOK' BY <2>1, <2>2, <2>3, <2>4, <2>5 DEF TypeOK, Rpcs
  <2>7. CmdOK' BY <2>1, <2>2, <2>3, <2>4, <2>5 DEF CmdOK
  <2>8. Parse' BY <2>1, <2>2, <2>3, <2>4, <2>5 DEF Parse, N
  <2>9. Buffers' BY <2>1, <2>2, <2>3, <2>4, <2>5 DEF Buffers, Working, Current, Reading, N
  <2>10. Turn' BY <2>1, <2>2, <2>3, <2>4, <2>5 DEF Turn, Ahead, Working
  <2>11. Calls' BY <2>1, <2>2, <2>3, <2>4, <2>5, <1>1 DEF Calls, N, Working, Current
  <2>12. InBuffer' BY <2>1, <2>2, <2>3, <2>4, <2>5 DEF InBuffer, HandedOver, Given, Ahead, Working, Current
  <2>13. AtHeapTop' BY <2>1, <2>2, <2>3, <2>4, <2>5 DEF AtHeapTop, Finished, N
  <2> QED BY <2>6, <2>7, <2>8, <2>9, <2>10, <2>11, <2>12, <2>13
<1>2. CASE file \notin Missing
  <2>1. /\ ~ running /\ thread = "loop" /\ rpc.phase = "called" /\ rpc.fno = "LOAD" /\ queued'
        /\ thread' = "wait"
    BY <1>2 DEF LoadDGO, Called, DgoThreadMayRun, Reply
  <2>2. /\ scmd'.cmd_id /\ scmd'.heaptop = rpc.heap_top /\ scmd'.state = "Init"
        /\ scmd'.status = "IN_PROGRESS" /\ scmd'.selected = scmd.selected /\ scmd'.toggle = scmd.toggle
        /\ scmd'.dest = scmd.dest /\ scmd'.processed = scmd.processed /\ scmd'.loaded = scmd.loaded
        /\ scmd'.header = scmd.header /\ scmd'.first = scmd.first /\ scmd'.abort = scmd.abort
    BY <1>2 DEF LoadDGO, Called, DgoThreadMayRun, Reply, CmdOK
  <2>3. UNCHANGED <<ee, file, obj, last, count, heap, temps, mem, rpc, sync_mbx, dgo_mbx, running, left, pos>>
    BY <1>2 DEF LoadDGO, Called, DgoThreadMayRun, Reply, eeVars, isoVars, smVars
  <2>4. ~ queued /\ ee = "waiting" /\ sync_mbx = 0 /\ dgo_mbx = 0 /\ pos = 0 /\ left = 0
                    /\ file \in Files /\ count = 0 /\ rpc.buffer1 = B1
    BY <2>1, <2>2, <2>3 DEF Calls, Turn, Parse
  <2>5. TypeOK' BY <2>1, <2>2, <2>3, <2>4 DEF TypeOK, Rpcs
  <2>6. CmdOK' BY <1>2, <2>1, <2>2, <2>3, <2>4 DEF LoadDGO, CmdOK, TypeOK
  <2>7. Parse' BY <2>1, <2>2, <2>3, <2>4, <1>2 DEF Parse, N
  <2>8. Buffers' BY <2>1, <2>2, <2>3, <2>4 DEF Buffers, Working, Current, Reading, N
  <2>9. Turn' BY <2>1, <2>2, <2>3, <2>4 DEF Turn, Ahead, Working
  <2>10. Calls' BY <2>1, <2>2, <2>3, <2>4 DEF Calls, N, Working, Current
  <2>11. InBuffer' BY <2>1, <2>2, <2>3, <2>4 DEF InBuffer, HandedOver, Given, Ahead, Working, Current
  <2>12. AtHeapTop' BY <2>1, <2>2, <2>3, <2>4 DEF AtHeapTop, Finished, N
  <2> QED BY <2>5, <2>6, <2>7, <2>8, <2>9, <2>10, <2>11, <2>12
<1> QED BY <1>1, <1>2

\* The next object is asked for.
LEMMA NextInv ==
    ASSUME DgoInv, LoadNextDGO
    PROVE  DgoInv'
<1> USE DEF DgoInv
<1>0. /\ HEADER \in Nat /\ HEADER > 0 /\ PAGE \in Nat /\ PAGE > 0 /\ MaxHeap \in Nat /\ NoFile \notin Files
      /\ (file \in Files => N \in Nat /\ N > 0) /\ (running => queued)
      /\ (queued => ee # "idle" /\ file \in Files /\ N \in Nat /\ N > 0)
      /\ (Working => /\ Current \in Nat /\ Current > 0 /\ Current <= N
                     /\ scmd.dest \in Places /\ (scmd.toggle = 0 => scmd.dest = Top(heap)))
  BY Basics
<1>1. scmd.cmd_id /\ queued /\ Ahead /\ Working /\ sync_mbx = 0 /\ dgo_mbx = 0 /\ ee = "waiting"
                     /\ Current = count + 1
  BY DEF LoadNextDGO, Called, Calls, Turn, Ahead
<1>2. LoadNextDGO OBVIOUS
<1>3. DgoInv'
  <2>1. /\ ~ running /\ thread = "loop" /\ rpc.phase = "called" /\ rpc.fno = "NEXT" /\ thread' = "wait"
        /\ sync_mbx' = sync_mbx + 1
    BY <1>1, <1>2 DEF LoadNextDGO, Called, DgoThreadMayRun
  <2>2. /\ scmd'.heaptop = rpc.heap_top /\ scmd'.cmd_id = scmd.cmd_id /\ scmd'.status = scmd.status
        /\ scmd'.selected = scmd.selected /\ scmd'.toggle = scmd.toggle /\ scmd'.dest = scmd.dest
        /\ scmd'.state = scmd.state /\ scmd'.processed = scmd.processed /\ scmd'.loaded = scmd.loaded
        /\ scmd'.header = scmd.header /\ scmd'.first = scmd.first /\ scmd'.abort = scmd.abort
    BY <1>1, <1>2 DEF LoadNextDGO, Called, DgoThreadMayRun, CmdOK
  <2>3. UNCHANGED <<ee, file, obj, last, count, heap, temps, mem, rpc, dgo_mbx, queued, running, left, pos>>
    BY <1>1, <1>2 DEF LoadNextDGO, Called, DgoThreadMayRun, eeVars, isoVars, smVars
  <2>4. sync_mbx' = 1
    BY <2>1, <2>2, <2>3, <1>1
  <2>5. TypeOK' BY <2>1, <2>2, <2>3, <2>4 DEF TypeOK, Rpcs
  <2>6. CmdOK' BY <1>1, <1>2, <2>1, <2>2, <2>3, <2>4 DEF LoadNextDGO, CmdOK, TypeOK
  <2>7. Parse' BY <2>1, <2>2, <2>3, <2>4 DEF Parse, N
  <2>8. Buffers' BY <2>1, <2>2, <2>3, <2>4, <1>1 DEF Buffers, Working, Current, Reading, N, Ahead
  <2>9. Turn' BY <2>1, <2>2, <2>3, <2>4, <1>1 DEF Turn, Ahead, Working
  <2>10. Calls' BY <2>1, <2>2, <2>3, <2>4, <1>1 DEF Calls, N, Working, Current
  <2>11. InBuffer' BY <2>1, <2>2, <2>3, <2>4, <1>1 DEF InBuffer, HandedOver, Given, Ahead, Working, Current
  <2>12. AtHeapTop' BY <2>1, <2>2, <2>3, <2>4, <1>1 DEF AtHeapTop, Finished, N, Working
  <2> QED BY <2>5, <2>6, <2>7, <2>8, <2>9, <2>10, <2>11, <2>12
<1> QED BY <1>3

\* A load is cancelled, or there is none.
LEMMA CancelDgoInv ==
    ASSUME DgoInv, CancelDGO
    PROVE  DgoInv'
<1> USE DEF DgoInv
<1>0. /\ HEADER \in Nat /\ HEADER > 0 /\ PAGE \in Nat /\ PAGE > 0 /\ MaxHeap \in Nat /\ NoFile \notin Files
      /\ (file \in Files => N \in Nat /\ N > 0) /\ (running => queued)
      /\ (queued => ee # "idle" /\ file \in Files /\ N \in Nat /\ N > 0)
      /\ (Working => /\ Current \in Nat /\ Current > 0 /\ Current <= N
                     /\ scmd.dest \in Places /\ (scmd.toggle = 0 => scmd.dest = Top(heap)))
  BY Basics
<1>1. CASE scmd.cmd_id
  <2>1. /\ ~ running /\ thread = "loop" /\ rpc.phase = "called" /\ rpc.fno = "CANCEL" /\ thread' = "wait"
        /\ sync_mbx' = sync_mbx + 1
    BY <1>1 DEF CancelDGO, Called, DgoThreadMayRun, Reply
  <2>2. /\ scmd'.abort /\ scmd'.cmd_id = scmd.cmd_id /\ scmd'.status = scmd.status
        /\ scmd'.heaptop = scmd.heaptop /\ scmd'.selected = scmd.selected /\ scmd'.toggle = scmd.toggle
        /\ scmd'.dest = scmd.dest /\ scmd'.state = scmd.state /\ scmd'.processed = scmd.processed
        /\ scmd'.loaded = scmd.loaded /\ scmd'.header = scmd.header /\ scmd'.first = scmd.first
    BY <1>1 DEF CancelDGO, Called, DgoThreadMayRun, Reply, CmdOK
  <2>3. UNCHANGED <<ee, file, obj, last, count, heap, temps, mem, rpc, dgo_mbx, queued, running, left, pos>>
    BY <1>1 DEF CancelDGO, Called, DgoThreadMayRun, Reply, eeVars, isoVars, smVars
  <2>4. queued /\ Ahead /\ Working /\ sync_mbx = 0 /\ dgo_mbx = 0 /\ ee = "waiting"
    BY <2>1, <2>2, <2>3, <1>1 DEF Calls, Turn, Ahead
  <2>5. sync_mbx' = 1
    BY <2>1, <2>2, <2>3, <2>4
  <2>6. TypeOK' BY <2>1, <2>2, <2>3, <2>4, <2>5 DEF TypeOK, Rpcs
  <2>7. CmdOK' BY <1>1, <2>1, <2>2, <2>3, <2>4, <2>5 DEF CancelDGO, CmdOK
  <2>8. Parse' BY <2>1, <2>2, <2>3, <2>4, <2>5 DEF Parse, N
  <2>9. Buffers' BY <2>1, <2>2, <2>3, <2>4, <2>5 DEF Buffers, Working, Current, Reading, N
  <2>10. Turn' BY <2>1, <2>2, <2>3, <2>4, <2>5 DEF Turn, Ahead, Working
  <2>11. Calls' BY <2>1, <2>2, <2>3, <2>4, <2>5 DEF Calls, N, Working, Current
  <2>12. InBuffer' BY <2>1, <2>2, <2>3, <2>4, <2>5 DEF InBuffer, HandedOver, Given, Ahead, Working, Current
  <2>13. AtHeapTop' BY <2>1, <2>2, <2>3, <2>4, <2>5 DEF AtHeapTop, Finished, N, Working
  <2> QED BY <2>6, <2>7, <2>8, <2>9, <2>10, <2>11, <2>12, <2>13
<1>2. CASE ~ scmd.cmd_id
  <2>1. /\ ~ running /\ thread = "loop" /\ rpc.phase = "called" /\ rpc.fno = "CANCEL"
    BY <1>2 DEF CancelDGO, Called, DgoThreadMayRun, Reply
  <2>2. /\ rpc'.phase = "idle" /\ rpc'.fno = rpc.fno /\ rpc'.heap_top = rpc.heap_top
        /\ rpc'.result = rpc.result /\ rpc'.buffer1 = rpc.buffer1
    BY <1>2 DEF CancelDGO, Called, DgoThreadMayRun, Reply, TypeOK
  <2>3. UNCHANGED <<ee, file, obj, last, count, heap, temps, mem, thread, scmd, sync_mbx, dgo_mbx,
                    queued, running, left, pos>>
    BY <1>2 DEF CancelDGO, Called, DgoThreadMayRun, Reply, eeVars, isoVars, smVars
  <2>4. ~ queued /\ ee = "waiting" /\ sync_mbx = 0 /\ dgo_mbx = 0
    BY <2>1, <2>2, <2>3, <1>2 DEF Calls, Turn
  <2>5. rpc' \in Rpcs
    BY <1>2, PlacesDiffer, <2>1, <2>2, <2>3, <2>4
      DEF CancelDGO, Called, DgoThreadMayRun, Reply, TypeOK, CmdOK, Rpcs
  <2>6. TypeOK' BY <2>1, <2>2, <2>3, <2>4, <2>5 DEF TypeOK, Rpcs
  <2>7. CmdOK' BY <2>1, <2>2, <2>3, <2>4, <2>5 DEF CmdOK
  <2>8. Parse' BY <2>1, <2>2, <2>3, <2>4, <2>5 DEF Parse, N
  <2>9. Buffers' BY <2>1, <2>2, <2>3, <2>4, <2>5 DEF Buffers, Working, Current, Reading, N
  <2>10. Turn' BY <2>1, <2>2, <2>3, <2>4, <2>5 DEF Turn, Ahead, Working
  <2>11. Calls' BY <2>1, <2>2, <2>3, <2>4, <2>5 DEF Calls, N, Working, Current
  <2>12. InBuffer' BY <2>1, <2>2, <2>3, <2>4, <2>5 DEF InBuffer, HandedOver, Given, Ahead, Working, Current
  <2>13. AtHeapTop' BY <2>1, <2>2, <2>3, <2>4, <2>5 DEF AtHeapTop, Finished, N
  <2> QED BY <2>6, <2>7, <2>8, <2>9, <2>10, <2>11, <2>12, <2>13
<1> QED BY <1>1, <1>2

\* The EE is answered.
LEMMA AnswerInv ==
    ASSUME DgoInv, Answer
    PROVE  DgoInv'
<1> USE DEF DgoInv
<1>0. /\ HEADER \in Nat /\ HEADER > 0 /\ PAGE \in Nat /\ PAGE > 0 /\ MaxHeap \in Nat /\ NoFile \notin Files
      /\ (file \in Files => N \in Nat /\ N > 0) /\ (running => queued)
      /\ (queued => ee # "idle" /\ file \in Files /\ N \in Nat /\ N > 0)
      /\ (Working => /\ Current \in Nat /\ Current > 0 /\ Current <= N
                     /\ scmd.dest \in Places /\ (scmd.toggle = 0 => scmd.dest = Top(heap)))
  BY Basics
<1>1. Answer /\ thread = "wait" /\ dgo_mbx = 1 /\ sync_mbx = 0 /\ rpc.phase = "called" /\ ee = "waiting"
  BY DEF Answer, Turn, Calls, TypeOK
<1>2. CASE rpc.fno = "CANCEL"
  <2>1. /\ ~ running /\ dgo_mbx' = dgo_mbx - 1 /\ thread' = "loop"
    BY <1>1, <1>2 DEF Answer, DgoThreadMayRun, Reply
  <2>2. /\ ~ scmd'.cmd_id /\ scmd'.status = scmd.status /\ scmd'.heaptop = scmd.heaptop
        /\ scmd'.selected = scmd.selected /\ scmd'.toggle = scmd.toggle /\ scmd'.dest = scmd.dest
        /\ scmd'.state = scmd.state /\ scmd'.processed = scmd.processed /\ scmd'.loaded = scmd.loaded
        /\ scmd'.header = scmd.header /\ scmd'.first = scmd.first /\ scmd'.abort = scmd.abort
    BY <1>1, <1>2 DEF Answer, DgoThreadMayRun, Reply, CmdOK
  <2>3. /\ rpc'.phase = "idle" /\ rpc'.result = "ABORTED" /\ rpc'.fno = rpc.fno
        /\ rpc'.heap_top = rpc.heap_top /\ rpc'.buffer1 = rpc.buffer1
    BY <1>1, <1>2 DEF Answer, DgoThreadMayRun, Reply, TypeOK
  <2>4. UNCHANGED <<ee, file, obj, last, count, heap, temps, mem, sync_mbx, queued, running, left, pos>>
    BY <1>1, <1>2 DEF Answer, DgoThreadMayRun, Reply, eeVars, isoVars, smVars
  <2>5. dgo_mbx' = 0 /\ ~ queued
    BY <2>1, <2>2, <2>3, <2>4, <1>1, <1>2 DEF Turn
  <2>6. rpc' \in Rpcs
    BY <1>1, <1>2, PlacesDiffer, <2>1, <2>2, <2>3, <2>4, <2>5
      DEF Answer, DgoThreadMayRun, Reply, TypeOK, CmdOK, Rpcs
  <2>7. TypeOK' BY <2>1, <2>2, <2>3, <2>4, <2>5, <2>6, <1>1, <1>2 DEF TypeOK, Rpcs
  <2>8. CmdOK' BY <1>1, <1>2, <2>1, <2>2, <2>3, <2>4, <2>5, <2>6, PlacesDiffer
    DEF Answer, DgoThreadMayRun, Reply, CmdOK
  <2>9. Parse' BY <2>1, <2>2, <2>3, <2>4, <2>5, <2>6 DEF Parse, N
  <2>10. Buffers' BY <2>1, <2>2, <2>3, <2>4, <2>5, <2>6 DEF Buffers, Working, Current, Reading, N
  <2>11. Turn' BY <2>1, <2>2, <2>3, <2>4, <2>5, <2>6, <1>1, <1>2 DEF Turn, Ahead, Working
  <2>12. Calls' BY <2>1, <2>2, <2>3, <2>4, <2>5, <2>6, <1>1, <1>2 DEF Calls, N, Working, Current
  <2>13. InBuffer' BY <2>1, <2>2, <2>3, <2>4, <2>5, <2>6, <1>1, <1>2
    DEF InBuffer, HandedOver, Given, Ahead, Working, Current
  <2>14. AtHeapTop' BY <2>1, <2>2, <2>3, <2>4, <2>5, <2>6, <1>1, <1>2 DEF AtHeapTop, Finished, N
  <2> QED BY <2>7, <2>8, <2>9, <2>10, <2>11, <2>12, <2>13, <2>14
<1>3. CASE rpc.fno # "CANCEL" /\ scmd.status = "IN_PROGRESS"
  <2>1. /\ ~ running /\ dgo_mbx' = dgo_mbx - 1 /\ thread' = "loop" /\ UNCHANGED scmd
    BY <1>1, <1>3 DEF Answer, DgoThreadMayRun, Reply
  <2>2. /\ rpc'.phase = "idle" /\ rpc'.result = "MORE"
        /\ rpc'.buffer1 = (IF rpc.fno = "NEXT" THEN scmd.selected ELSE rpc.buffer1) /\ rpc'.fno = rpc.fno
        /\ rpc'.heap_top = rpc.heap_top
    BY <1>1, <1>3 DEF Answer, DgoThreadMayRun, Reply, TypeOK
  <2>3. UNCHANGED <<ee, file, obj, last, count, heap, temps, mem, sync_mbx, queued, running, left, pos>>
    BY <1>1, <1>3 DEF Answer, DgoThreadMayRun, Reply, eeVars, isoVars, smVars
  <2>4. dgo_mbx' = 0 /\ queued /\ HandedOver
    BY <2>1, <2>2, <2>3, <1>1, <1>3 DEF AtHeapTop, HandedOver
  <2>5. /\ Ahead /\ Current = count + 2 /\ scmd.selected \in {B1, B2} /\ scmd.selected # scmd.dest
        /\ mem[scmd.selected] = Content(file, count + 1)
    BY <2>1, <2>2, <2>3, <2>4, <1>1, <1>3 DEF InBuffer, Given
  <2>6. rpc'.buffer1 = scmd.selected
    BY <2>1, <2>2, <2>3, <2>4, <2>5, <1>1, <1>3 DEF InBuffer, Calls, TypeOK
  <2>7. rpc' \in Rpcs
    BY <1>1, <1>3, PlacesDiffer, <2>1, <2>2, <2>3, <2>4, <2>5, <2>6
      DEF Answer, DgoThreadMayRun, Reply, TypeOK, CmdOK, Rpcs
  <2>8. TypeOK' BY <2>1, <2>2, <2>3, <2>4, <2>5, <2>6, <2>7, <1>1, <1>3 DEF TypeOK, Rpcs
  <2>9. CmdOK' BY <2>1, <2>2, <2>3, <2>4, <2>5, <2>6, <2>7 DEF CmdOK
  <2>10. Parse' BY <2>1, <2>2, <2>3, <2>4, <2>5, <2>6, <2>7 DEF Parse, N
  <2>11. Buffers' BY <2>1, <2>2, <2>3, <2>4, <2>5, <2>6, <2>7 DEF Buffers, Working, Current, Reading, N
  <2>12. Turn' BY <2>1, <2>2, <2>3, <2>4, <2>5, <2>6, <2>7, <1>1, <1>3 DEF Turn, Ahead, Working
  <2>13. Calls' BY <2>1, <2>2, <2>3, <2>4, <2>5, <2>6, <2>7, <1>1, <1>3 DEF Calls, N, Working, Current
  <2>14. InBuffer' BY <2>1, <2>2, <2>3, <2>4, <2>5, <2>6, <2>7, <1>1, <1>3
    DEF InBuffer, HandedOver, Given, Ahead, Working, Current
  <2>15. AtHeapTop' BY <2>1, <2>2, <2>3, <2>4, <2>5, <2>6, <2>7, <1>1, <1>3 DEF AtHeapTop, Finished, N
  <2> QED BY <2>8, <2>9, <2>10, <2>11, <2>12, <2>13, <2>14, <2>15
<1>4. CASE rpc.fno # "CANCEL" /\ scmd.status = "DONE"
  <2>1. /\ ~ running /\ dgo_mbx' = dgo_mbx - 1 /\ thread' = "loop"
    BY <1>1, <1>4 DEF Answer, DgoThreadMayRun, Reply
  <2>2. /\ ~ scmd'.cmd_id /\ scmd'.status = scmd.status /\ scmd'.heaptop = scmd.heaptop
        /\ scmd'.selected = scmd.selected /\ scmd'.toggle = scmd.toggle /\ scmd'.dest = scmd.dest
        /\ scmd'.state = scmd.state /\ scmd'.processed = scmd.processed /\ scmd'.loaded = scmd.loaded
        /\ scmd'.header = scmd.header /\ scmd'.first = scmd.first /\ scmd'.abort = scmd.abort
    BY <1>1, <1>4 DEF Answer, DgoThreadMayRun, Reply, CmdOK
  <2>3. /\ rpc'.phase = "idle" /\ rpc'.result = "DONE" /\ rpc'.buffer1 = rpc.heap_top
        /\ rpc'.fno = rpc.fno /\ rpc'.heap_top = rpc.heap_top
    BY <1>1, <1>4 DEF Answer, DgoThreadMayRun, Reply, TypeOK
  <2>4. UNCHANGED <<ee, file, obj, last, count, heap, temps, mem, sync_mbx, queued, running, left, pos>>
    BY <1>1, <1>4 DEF Answer, DgoThreadMayRun, Reply, eeVars, isoVars, smVars
  <2>5. dgo_mbx' = 0 /\ ~ queued /\ Finished
    BY <2>1, <2>2, <2>3, <2>4, <1>1, <1>4 DEF InBuffer, Finished
  <2>6. count + 1 = N /\ mem[Top(heap)] = Content(file, N) /\ rpc.heap_top = Top(heap)
    BY <2>1, <2>2, <2>3, <2>4, <2>5, <1>1, <1>4 DEF AtHeapTop, Calls
  <2>7. rpc' \in Rpcs
    BY <1>1, <1>4, PlacesDiffer, <2>1, <2>2, <2>3, <2>4, <2>5, <2>6
      DEF Answer, DgoThreadMayRun, Reply, TypeOK, CmdOK, Rpcs
  <2>8. TypeOK' BY <2>1, <2>2, <2>3, <2>4, <2>5, <2>6, <2>7, <1>1, <1>4 DEF TypeOK, Rpcs
  <2>9. CmdOK' BY <1>1, <1>4, <2>1, <2>2, <2>3, <2>4, <2>5, <2>6, <2>7, PlacesDiffer
    DEF Answer, DgoThreadMayRun, Reply, CmdOK
  <2>10. Parse' BY <2>1, <2>2, <2>3, <2>4, <2>5, <2>6, <2>7 DEF Parse, N
  <2>11. Buffers' BY <2>1, <2>2, <2>3, <2>4, <2>5, <2>6, <2>7 DEF Buffers, Working, Current, Reading, N
  <2>12. Turn' BY <2>1, <2>2, <2>3, <2>4, <2>5, <2>6, <2>7, <1>1, <1>4 DEF Turn, Ahead, Working
  <2>13. Calls' BY <2>1, <2>2, <2>3, <2>4, <2>5, <2>6, <2>7, <1>1, <1>4 DEF Calls, N, Working, Current
  <2>14. InBuffer' BY <2>1, <2>2, <2>3, <2>4, <2>5, <2>6, <2>7, <1>1, <1>4
    DEF InBuffer, HandedOver, Given, Ahead, Working, Current
  <2>15. AtHeapTop' BY <2>1, <2>2, <2>3, <2>4, <2>5, <2>6, <2>7, <1>1, <1>4 DEF AtHeapTop, Finished, N
  <2> QED BY <2>8, <2>9, <2>10, <2>11, <2>12, <2>13, <2>14, <2>15
<1> QED BY <1>2, <1>3, <1>4 DEF CmdOK

\* The state machine is called, with data.
LEMMA EnterInv ==
    ASSUME DgoInv, EnterStateMachine
    PROVE  DgoInv'
<1> USE DEF DgoInv
<1>0. /\ HEADER \in Nat /\ HEADER > 0 /\ PAGE \in Nat /\ PAGE > 0 /\ MaxHeap \in Nat /\ NoFile \notin Files
      /\ (file \in Files => N \in Nat /\ N > 0) /\ (running => queued)
      /\ (queued => ee # "idle" /\ file \in Files /\ N \in Nat /\ N > 0)
      /\ (Working => /\ Current \in Nat /\ Current > 0 /\ Current <= N
                     /\ scmd.dest \in Places /\ (scmd.toggle = 0 => scmd.dest = Top(heap)))
  BY Basics
<1>1. EnterStateMachine OBVIOUS
<1>2. DgoInv'
  <2>1. /\ queued /\ running'
    BY <1>1 DEF EnterStateMachine
  <2>2. UNCHANGED <<ee, file, obj, last, count, heap, temps, mem, rpc, thread, scmd, sync_mbx,
                    dgo_mbx, queued, pos>>
    BY <1>1 DEF EnterStateMachine, eeVars, isoVars, smVars
  <2>3. left' \in 0 .. PAGE
    BY <2>1, <2>2, <1>0, <1>1 DEF EnterStateMachine, TypeOK
  <2>4. TypeOK' BY <2>1, <2>2, <2>3 DEF TypeOK, Rpcs
  <2>5. CmdOK' BY <2>1, <2>2, <2>3 DEF CmdOK
  <2>6. Parse' BY <2>1, <2>2, <2>3 DEF Parse, N
  <2>7. Buffers' BY <2>1, <2>2, <2>3 DEF Buffers, Working, Current, Reading, N
  <2>8. Turn' BY <2>1, <2>2, <2>3 DEF Turn, Ahead, Working
  <2>9. Calls' BY <2>1, <2>2, <2>3 DEF Calls, N, Working, Current
  <2>10. InBuffer' BY <2>1, <2>2, <2>3 DEF InBuffer, HandedOver, Given, Ahead, Working, Current
  <2>11. AtHeapTop' BY <2>1, <2>2, <2>3 DEF AtHeapTop, Finished, N
  <2> QED BY <2>4, <2>5, <2>6, <2>7, <2>8, <2>9, <2>10, <2>11
<1> QED BY <1>2

\* The state machine has used up its data.
LEMMA OutOfDataInv ==
    ASSUME DgoInv, OutOfData
    PROVE  DgoInv'
<1> USE DEF DgoInv
<1>0. /\ HEADER \in Nat /\ HEADER > 0 /\ PAGE \in Nat /\ PAGE > 0 /\ MaxHeap \in Nat /\ NoFile \notin Files
      /\ (file \in Files => N \in Nat /\ N > 0) /\ (running => queued)
      /\ (queued => ee # "idle" /\ file \in Files /\ N \in Nat /\ N > 0)
      /\ (Working => /\ Current \in Nat /\ Current > 0 /\ Current <= N
                     /\ scmd.dest \in Places /\ (scmd.toggle = 0 => scmd.dest = Top(heap)))
  BY Basics
<1>1. OutOfData OBVIOUS
<1>2. DgoInv'
  <2>1. /\ running /\ running' = FALSE
    BY <1>1 DEF OutOfData, Leave
  <2>2. UNCHANGED <<ee, file, obj, last, count, heap, temps, mem, rpc, thread, scmd, sync_mbx,
                    dgo_mbx, queued, left, pos>>
    BY <1>1 DEF OutOfData, Leave, eeVars, isoVars, smVars
  <2>3. running' \in BOOLEAN
    BY <2>1
  <2>4. TypeOK' BY <2>1, <2>2, <2>3 DEF TypeOK, Rpcs
  <2>5. CmdOK' BY <2>1, <2>2, <2>3 DEF CmdOK
  <2>6. Parse' BY <2>1, <2>2, <2>3, <1>0 DEF Parse, N
  <2>7. Buffers' BY <2>1, <2>2, <2>3 DEF Buffers, Working, Current, Reading, N
  <2>8. Turn' BY <2>1, <2>2, <2>3 DEF Turn, Ahead, Working
  <2>9. Calls' BY <2>1, <2>2, <2>3 DEF Calls, N, Working, Current
  <2>10. InBuffer' BY <2>1, <2>2, <2>3 DEF InBuffer, HandedOver, Given, Ahead, Working, Current
  <2>11. AtHeapTop' BY <2>1, <2>2, <2>3 DEF AtHeapTop, Finished, N
  <2> QED BY <2>4, <2>5, <2>6, <2>7, <2>8, <2>9, <2>10, <2>11
<1> QED BY <1>2

\* The command is new.
LEMMA SmInitInv ==
    ASSUME DgoInv, SM_Init
    PROVE  DgoInv'
<1> USE DEF DgoInv
<1>0. /\ HEADER \in Nat /\ HEADER > 0 /\ PAGE \in Nat /\ PAGE > 0 /\ MaxHeap \in Nat /\ NoFile \notin Files
      /\ (file \in Files => N \in Nat /\ N > 0) /\ (running => queued)
      /\ (queued => ee # "idle" /\ file \in Files /\ N \in Nat /\ N > 0)
      /\ (Working => /\ Current \in Nat /\ Current > 0 /\ Current <= N
                     /\ scmd.dest \in Places /\ (scmd.toggle = 0 => scmd.dest = Top(heap)))
  BY Basics
<1>1. SM_Init OBVIOUS
<1>2. DgoInv'
  <2>1. /\ running /\ scmd.state = "Init"
    BY <1>1 DEF SM_Init, InState
  <2>2. /\ scmd'.processed = 0 /\ ~ scmd'.first /\ ~ scmd'.abort /\ scmd'.state = "Read_Header"
        /\ scmd'.cmd_id = scmd.cmd_id /\ scmd'.status = scmd.status /\ scmd'.heaptop = scmd.heaptop
        /\ scmd'.selected = scmd.selected /\ scmd'.toggle = scmd.toggle /\ scmd'.dest = scmd.dest
        /\ scmd'.loaded = scmd.loaded /\ scmd'.header = scmd.header
    BY <1>1 DEF SM_Init, InState, CmdOK
  <2>3. UNCHANGED <<ee, file, obj, last, count, heap, temps, mem, rpc, thread, sync_mbx, dgo_mbx,
                    queued, running, left, pos>>
    BY <1>1 DEF SM_Init, InState, eeVars, isoVars, smVars
  <2>4. queued /\ ~ Ahead
    BY <2>1, <2>2, <2>3, <1>0 DEF Ahead, Working
  <2>5. thread = "wait" /\ sync_mbx = 0 /\ dgo_mbx = 0 /\ rpc.phase = "called" /\ ee = "waiting"
    BY <2>1, <2>2, <2>3, <2>4 DEF Turn, Calls, TypeOK
  <2>6. rpc.fno = "LOAD"
    BY <2>1, <2>2, <2>3, <2>4, <2>5 DEF Turn, TypeOK, Working
  <2>7. TypeOK' BY <2>1, <2>2, <2>3, <2>4, <2>5, <2>6 DEF TypeOK, Rpcs
  <2>8. CmdOK'
    <3>1. scmd.first \in BOOLEAN /\ scmd.abort \in BOOLEAN BY DEF CmdOK
    <3>2. PICK a \in BOOLEAN : a = FALSE OBVIOUS
    <3>3. scmd' = [scmd EXCEPT !.processed = 0, !.first = a, !.abort = a, !.state = "Read_Header"]
      BY <1>1, <3>2 DEF SM_Init
    <3> QED BY <3>3 DEF CmdOK
  <2>9. Parse' BY <2>1, <2>2, <2>3, <2>4, <2>5, <2>6, <1>0 DEF Parse, N
  <2>10. Buffers' BY <2>1, <2>2, <2>3, <2>4, <2>5, <2>6 DEF Buffers, Working, Current, Reading, N
  <2>11. Turn' BY <2>1, <2>2, <2>3, <2>4, <2>5, <2>6 DEF Turn, Ahead, Working
  <2>12. Calls' BY <2>1, <2>2, <2>3, <2>4, <2>5, <2>6 DEF Calls, N, Working, Current
  <2>13. InBuffer' BY <2>1, <2>2, <2>3, <2>4, <2>5, <2>6
    DEF InBuffer, HandedOver, Given, Ahead, Working, Current
  <2>14. AtHeapTop' BY <2>1, <2>2, <2>3, <2>4, <2>5, <2>6 DEF AtHeapTop, Finished, N
  <2> QED BY <2>7, <2>8, <2>9, <2>10, <2>11, <2>12, <2>13, <2>14
<1> QED BY <1>2

\* A part of the file's header, or the rest of it.
LEMMA SmHeaderInv ==
    ASSUME DgoInv, SM_ReadHeader
    PROVE  DgoInv'
<1> USE DEF DgoInv
<1>0. /\ HEADER \in Nat /\ HEADER > 0 /\ PAGE \in Nat /\ PAGE > 0 /\ MaxHeap \in Nat /\ NoFile \notin Files
      /\ (file \in Files => N \in Nat /\ N > 0) /\ (running => queued)
      /\ (queued => ee # "idle" /\ file \in Files /\ N \in Nat /\ N > 0)
      /\ (Working => /\ Current \in Nat /\ Current > 0 /\ Current <= N
                     /\ scmd.dest \in Places /\ (scmd.toggle = 0 => scmd.dest = Top(heap)))
  BY Basics
<1>1. /\ SM_ReadHeader /\ running /\ left > 0 /\ scmd.state = "Read_Header" /\ queued /\ ~ Ahead
      /\ file \in Files /\ pos = scmd.processed /\ scmd.processed < HEADER /\ ~ scmd.first
  BY <1>0 DEF SM_ReadHeader, InState, Ahead, Working, Parse, Turn
<1>2. /\ thread = "wait" /\ sync_mbx = 0 /\ dgo_mbx = 0 /\ rpc.phase = "called" /\ ee = "waiting"
      /\ left \in 0 .. PAGE /\ pos \in Nat /\ scmd.processed \in Nat
  BY <1>1 DEF Turn, Calls, TypeOK
<1>3. rpc.fno = "LOAD" BY <1>1 DEF Turn, TypeOK, Working
<1>4. PICK k : k = AtMost(HEADER - scmd.processed) OBVIOUS
<1>5. k \in Nat /\ k > 0 /\ k <= left /\ scmd.processed + k <= HEADER BY <1>0, <1>1, <1>2, <1>4 DEF AtMost
<1>6. CASE scmd.processed + k < HEADER
  <2>1. /\ left' = left - k /\ pos' = pos + k
    BY <1>1, <1>4, <1>6 DEF SM_ReadHeader, Consume
  <2>2. /\ scmd'.processed = scmd.processed + k /\ scmd'.cmd_id = scmd.cmd_id
        /\ scmd'.status = scmd.status /\ scmd'.heaptop = scmd.heaptop /\ scmd'.selected = scmd.selected
        /\ scmd'.toggle = scmd.toggle /\ scmd'.dest = scmd.dest /\ scmd'.state = scmd.state
        /\ scmd'.loaded = scmd.loaded /\ scmd'.header = scmd.header /\ scmd'.first = scmd.first
        /\ scmd'.abort = scmd.abort
    BY <1>1, <1>4, <1>6 DEF SM_ReadHeader, Consume, CmdOK
  <2>3. UNCHANGED <<ee, file, obj, last, count, heap, temps, mem, rpc, thread, sync_mbx, dgo_mbx,
                    queued, running>>
    BY <1>1, <1>4, <1>6 DEF SM_ReadHeader, Consume, eeVars, isoVars, smVars
  <2>4. left' \in 0 .. PAGE /\ pos' \in Nat /\ scmd'.processed \in Nat
    BY <2>1, <2>2, <2>3, <1>0, <1>2, <1>5
  <2>5. TypeOK' BY <2>1, <2>2, <2>3, <2>4 DEF TypeOK, Rpcs
  <2>6. CmdOK' BY <2>1, <2>2, <2>3, <2>4, <1>1, <1>4, <1>6 DEF SM_ReadHeader, CmdOK
  <2>7. Parse' BY <2>1, <2>2, <2>3, <2>4, <1>0, <1>1, <1>6 DEF Parse, N
  <2>8. Buffers' BY <2>1, <2>2, <2>3, <2>4 DEF Buffers, Working, Current, Reading, N
  <2>9. Turn' BY <2>1, <2>2, <2>3, <2>4, <1>1, <1>2, <1>3 DEF Turn, Ahead, Working
  <2>10. Calls' BY <2>1, <2>2, <2>3, <2>4 DEF Calls, N, Working, Current
  <2>11. InBuffer' BY <2>1, <2>2, <2>3, <2>4 DEF InBuffer, HandedOver, Given, Ahead, Working, Current
  <2>12. AtHeapTop' BY <2>1, <2>2, <2>3, <2>4 DEF AtHeapTop, Finished, N
  <2> QED BY <2>5, <2>6, <2>7, <2>8, <2>9, <2>10, <2>11, <2>12
<1>7. CASE ~ (scmd.processed + k < HEADER)
  <2>1. /\ left' = left - k /\ pos' = pos + k
    BY <1>1, <1>4, <1>7 DEF SM_ReadHeader, Consume
  <2>2. /\ scmd'.processed = 0 /\ scmd'.loaded = 0 /\ scmd'.state = "Read_Obj_Header"
        /\ scmd'.toggle = (IF ObjectCount(file) = 1 THEN 0 ELSE 1)
        /\ scmd'.dest = (IF ObjectCount(file) = 1 THEN scmd.heaptop ELSE B1) /\ scmd'.cmd_id = scmd.cmd_id
        /\ scmd'.status = scmd.status /\ scmd'.heaptop = scmd.heaptop /\ scmd'.selected = scmd.selected
        /\ scmd'.header = scmd.header /\ scmd'.first = scmd.first /\ scmd'.abort = scmd.abort
    BY <1>1, <1>4, <1>7 DEF SM_ReadHeader, Consume, CmdOK
  <2>3. UNCHANGED <<ee, file, obj, last, count, heap, temps, mem, rpc, thread, sync_mbx, dgo_mbx,
                    queued, running>>
    BY <1>1, <1>4, <1>7 DEF SM_ReadHeader, Consume, eeVars, isoVars, smVars
  <2>4. left' \in 0 .. PAGE /\ pos' \in Nat
    BY <2>1, <2>2, <2>3, <1>0, <1>2, <1>5
  <2>5. pos' = file[1]
    BY <2>1, <2>2, <2>3, <2>4, <1>1, <1>2, <1>5, <1>7, <1>0, FileFacts
  <2>6. N \in Nat /\ N > 0 /\ N = ObjectCount(file)
    BY <1>1, <1>0 DEF N
  <2>7. count = 0 /\ scmd.heaptop = rpc.heap_top /\ rpc.heap_top = Top(heap)
    BY <1>2, <1>3 DEF Calls, Turn
  <2>8. ~ Ahead' /\ Current' = 1
    BY <2>1, <2>2, <2>3, <2>4, <2>5, <2>6, <2>7, <1>1 DEF Ahead, Current
  <2>9. TypeOK' BY <2>1, <2>2, <2>3, <2>4, <2>5, <2>6, <2>7, <2>8, PlacesDiffer DEF TypeOK, Rpcs, CmdOK
  <2>10. CmdOK'
    <3>1. PICK t, d : t = (IF ObjectCount(file) = 1 THEN 0 ELSE 1)
          /\ d = (IF ObjectCount(file) = 1 THEN scmd.heaptop ELSE B1)
      OBVIOUS
    <3>2. t \in {0, 1, 2} /\ d \in Places \cup {Nowhere} BY <3>1, PlacesDiffer DEF CmdOK
    <3>3. scmd' = [scmd EXCEPT !.processed = 0, !.loaded = 0, !.state = "Read_Obj_Header", !.toggle = t, !.dest = d]
      BY <1>1, <1>4, <1>7, <3>1 DEF SM_ReadHeader
    <3> QED BY <3>2, <3>3 DEF CmdOK
  <2>11. Parse' BY <2>1, <2>2, <2>3, <2>4, <2>5, <2>6, <2>7, <2>8, <1>0, <1>1 DEF Parse, N
  <2>12. Buffers' BY <2>1, <2>2, <2>3, <2>4, <2>5, <2>6, <2>7, <2>8, <1>1
    DEF Buffers, Working, Current, Reading, N
  <2>13. Turn' BY <2>1, <2>2, <2>3, <2>4, <2>5, <2>6, <2>7, <2>8, <1>1, <1>2, <1>3 DEF Turn, Working
  <2>14. Calls' BY <2>1, <2>2, <2>3, <2>4, <2>5, <2>6, <2>7, <2>8, <1>1, <1>2, <1>3 DEF Calls, Working, N
  <2>15. InBuffer' BY <2>1, <2>2, <2>3, <2>4, <2>5, <2>6, <2>7, <2>8, <1>2 DEF InBuffer, HandedOver
  <2>16. AtHeapTop' BY <2>1, <2>2, <2>3, <2>4, <2>5, <2>6, <2>7, <2>8, <1>2 DEF AtHeapTop, Finished, N
  <2> QED BY <2>9, <2>10, <2>11, <2>12, <2>13, <2>14, <2>15, <2>16
<1> QED BY <1>6, <1>7

\* An object is complete: it is reported, or has to wait, or the load is cancelled.
LEMMA SmFinishObjInv ==
    ASSUME DgoInv, SM_FinishObj
    PROVE  DgoInv'
<1> USE DEF DgoInv
<1>0. /\ HEADER \in Nat /\ HEADER > 0 /\ PAGE \in Nat /\ PAGE > 0 /\ MaxHeap \in Nat /\ NoFile \notin Files
      /\ (file \in Files => N \in Nat /\ N > 0) /\ (running => queued)
      /\ (queued => ee # "idle" /\ file \in Files /\ N \in Nat /\ N > 0)
      /\ (Working => /\ Current \in Nat /\ Current > 0 /\ Current <= N
                     /\ scmd.dest \in Places /\ (scmd.toggle = 0 => scmd.dest = Top(heap)))
  BY Basics
<1>1. /\ SM_FinishObj /\ running /\ scmd.state = "Finish_Obj" /\ queued /\ Working /\ Current = scmd.loaded
      /\ file \in Files /\ mem[scmd.dest] = Content(file, scmd.loaded) /\ scmd.processed = 0
      /\ scmd.loaded \in Nat /\ scmd.loaded > 0 /\ scmd.loaded < N /\ pos = file[scmd.loaded + 1]
  BY <1>0 DEF SM_FinishObj, InState, Working, Current, Parse, TypeOK
<1>2. (scmd.toggle = 1 /\ scmd.dest = B1) \/ (scmd.toggle = 2 /\ scmd.dest = B2)
  BY <1>1 DEF Buffers, Reading, CmdOK
<1> DEFINE Reported ==
        /\ dgo_mbx' = dgo_mbx + 1 /\ sync_mbx' = 0 /\ Report
        /\ thread = "wait" /\ dgo_mbx = 0 /\ rpc.phase = "called" /\ ee = "waiting"
        /\ rpc.fno # "CANCEL" /\ ~ scmd.abort /\ (rpc.fno = "LOAD" => scmd.toggle = 1)
        /\ UNCHANGED <<ee, file, obj, last, count, heap, temps, mem, rpc, thread, queued, running, left, pos>>
<1>3. ASSUME Reported PROVE DgoInv'
  <2>1. /\ sync_mbx' = 0 /\ dgo_mbx' = dgo_mbx + 1
    BY <1>3 DEF Report
  <2>2. /\ scmd'.first /\ scmd'.status = "IN_PROGRESS"
        /\ scmd'.selected = (IF scmd.toggle = 1 THEN B1 ELSE B2)
        /\ scmd'.dest = (IF scmd.toggle = 1 THEN B2 ELSE B1)
        /\ scmd'.toggle = (IF scmd.toggle = 1 THEN 2 ELSE 1)
        /\ scmd'.state = (IF scmd.loaded + 1 = ObjectCount(file) THEN "Read_Last_Obj" ELSE "Read_Obj_Header")
        /\ scmd'.cmd_id = scmd.cmd_id /\ scmd'.heaptop = scmd.heaptop /\ scmd'.processed = scmd.processed
        /\ scmd'.loaded = scmd.loaded /\ scmd'.header = scmd.header /\ scmd'.abort = scmd.abort
    BY <1>3 DEF Report, CmdOK
  <2>3. UNCHANGED <<ee, file, obj, last, count, heap, temps, mem, rpc, thread, queued, running, left, pos>>
    BY <1>3 DEF Report, eeVars, isoVars, smVars
  <2>4. dgo_mbx' = 1 /\ Current = count + 1
    BY <2>1, <2>2, <2>3, <1>1, <1>3 DEF Calls
  <2>5. scmd'.selected = scmd.dest /\ scmd'.selected # scmd'.dest /\ scmd'.selected \in {B1, B2}
                                      /\ scmd'.dest \in {B1, B2}
    BY <2>1, <2>2, <2>3, <2>4, <1>2, PlacesDiffer
  <2>6. scmd'.toggle # 0 /\ (scmd'.toggle = 1 => scmd'.dest = B1) /\ (scmd'.toggle = 2 => scmd'.dest = B2)
    BY <2>1, <2>2, <2>3, <2>4, <2>5, <1>2
  <2>7. Ahead' /\ Working' /\ Current' = count + 2
    BY <2>1, <2>2, <2>3, <2>4, <2>5, <2>6, <1>1 DEF Ahead, Working, Current, TypeOK
  <2>8. TypeOK' BY <2>1, <2>2, <2>3, <2>4, <2>5, <2>6, <2>7, PlacesDiffer DEF TypeOK, Rpcs, CmdOK
  <2>9. CmdOK' BY <2>1, <2>2, <2>3, <2>4, <2>5, <2>6, <2>7, <1>3, PlacesDiffer DEF Report, CmdOK
  <2>10. Parse' BY <2>1, <2>2, <2>3, <2>4, <2>5, <2>6, <2>7, <1>0, <1>1 DEF Parse, N, TypeOK
  <2>11. Buffers' BY <2>1, <2>2, <2>3, <2>4, <2>5, <2>6, <2>7, <1>0, <1>1
    DEF Buffers, Working, Current, Reading, N, Ahead
  <2>12. Turn' BY <2>1, <2>2, <2>3, <2>4, <2>5, <2>6, <2>7, <1>1, <1>3 DEF Turn
  <2>13. Calls' BY <2>1, <2>2, <2>3, <2>4, <2>5, <2>6, <2>7, <1>1, <1>3 DEF Calls, N
  <2>14. InBuffer' BY <2>1, <2>2, <2>3, <2>4, <2>5, <2>6, <2>7, <1>1, <1>2, <1>3
    DEF InBuffer, HandedOver, Given
  <2>15. AtHeapTop' BY <2>1, <2>2, <2>3, <2>4, <2>5, <2>6, <2>7, <1>1, <1>3
    DEF AtHeapTop, Finished, N, Working
  <2> QED BY <2>8, <2>9, <2>10, <2>11, <2>12, <2>13, <2>14, <2>15
<1>4. CASE ~ scmd.first
  <2>1. ~ Ahead BY <1>4 DEF Ahead
  <2>2. thread = "wait" /\ sync_mbx = 0 /\ dgo_mbx = 0 /\ rpc.phase = "called" /\ ee = "waiting"
    BY <1>1, <2>1 DEF Turn, Calls, TypeOK
  <2>3. rpc.fno = "LOAD" /\ ~ scmd.abort BY <1>1, <1>2, <2>1 DEF Turn, TypeOK
  <2>4. scmd.toggle = 1 BY <1>1, <1>2, <1>4 DEF Buffers
  <2>5. Reported BY <1>1, <1>4, <2>2, <2>3, <2>4 DEF SM_FinishObj, Report, eeVars
  <2> QED BY <1>3, <2>5
<1>5. CASE scmd.first /\ LookSync
  <2>1. Ahead BY <1>1, <1>2, <1>5 DEF Ahead
  <2>2. thread = "wait" /\ sync_mbx = 1 /\ dgo_mbx = 0 /\ rpc.phase = "called" /\ ee = "waiting"
    BY <1>1, <1>5, <2>1 DEF Turn, Calls, TypeOK, LookSync
  <2>3. CASE ~ scmd.abort
    <3>1. rpc.fno = "NEXT" BY <2>2, <2>3 DEF Turn, TypeOK
    <3>2. Reported BY <1>1, <1>5, <2>2, <2>3, <3>1 DEF SM_FinishObj, Report, eeVars
    <3> QED BY <1>3, <3>2
  <2>4. CASE scmd.abort
    <3>1. rpc.fno = "CANCEL" BY <1>1, <2>4 DEF Turn
    <3>2. DgoInv'
      <4>1. /\ sync_mbx' = sync_mbx - 1
        BY <1>1, <1>5, <2>4 DEF SM_FinishObj
      <4>2. /\ scmd'.state = "Finish_Dgo" /\ scmd'.cmd_id = scmd.cmd_id /\ scmd'.status = scmd.status
            /\ scmd'.heaptop = scmd.heaptop /\ scmd'.selected = scmd.selected /\ scmd'.toggle = scmd.toggle
            /\ scmd'.dest = scmd.dest /\ scmd'.processed = scmd.processed /\ scmd'.loaded = scmd.loaded
            /\ scmd'.header = scmd.header /\ scmd'.first = scmd.first /\ scmd'.abort = scmd.abort
        BY <1>1, <1>5, <2>4 DEF SM_FinishObj, CmdOK
      <4>3. UNCHANGED <<ee, file, obj, last, count, heap, temps, mem, rpc, thread, dgo_mbx, queued,
                        running, left, pos>>
        BY <1>1, <1>5, <2>4 DEF SM_FinishObj, eeVars, isoVars, smVars
      <4>4. sync_mbx' = 0 /\ ~ Ahead' /\ ~ Working'
        BY <4>1, <4>2, <4>3, <2>2 DEF Ahead, Working
      <4>5. TypeOK' BY <4>1, <4>2, <4>3, <4>4 DEF TypeOK, Rpcs
      <4>6. CmdOK' BY <4>1, <4>2, <4>3, <4>4, <1>1, <1>5, <2>4 DEF SM_FinishObj, CmdOK
      <4>7. Parse' BY <4>1, <4>2, <4>3, <4>4, <1>0, <1>1 DEF Parse, N
      <4>8. Buffers' BY <4>1, <4>2, <4>3, <4>4 DEF Buffers
      <4>9. Turn' BY <4>1, <4>2, <4>3, <4>4, <1>1, <2>2, <3>1 DEF Turn
      <4>10. Calls' BY <4>1, <4>2, <4>3, <4>4, <1>1, <2>2, <3>1 DEF Calls, N
      <4>11. InBuffer' BY <4>1, <4>2, <4>3, <4>4, <1>1, <2>2, <3>1 DEF InBuffer, HandedOver
      <4>12. AtHeapTop' BY <4>1, <4>2, <4>3, <4>4, <1>1, <2>2, <3>1 DEF AtHeapTop, Finished, N
      <4> QED BY <4>5, <4>6, <4>7, <4>8, <4>9, <4>10, <4>11, <4>12
    <3> QED BY <3>2
  <2> QED BY <2>3, <2>4
<1>6. CASE scmd.first /\ ~ LookSync
  <2>1. /\ running' = FALSE
    BY <1>1, <1>6 DEF SM_FinishObj
  <2>2. UNCHANGED <<ee, file, obj, last, count, heap, temps, mem, rpc, thread, scmd, sync_mbx,
                    dgo_mbx, queued, left, pos>>
    BY <1>1, <1>6 DEF SM_FinishObj, eeVars, isoVars, smVars
  <2>3. running' \in BOOLEAN
    BY <2>1
  <2>4. TypeOK' BY <2>1, <2>2, <2>3 DEF TypeOK, Rpcs
  <2>5. CmdOK' BY <2>1, <2>2, <2>3 DEF CmdOK
  <2>6. Parse' BY <2>1, <2>2, <2>3, <1>1 DEF Parse, N
  <2>7. Buffers' BY <2>1, <2>2, <2>3 DEF Buffers, Working, Current, Reading, N
  <2>8. Turn' BY <2>1, <2>2, <2>3 DEF Turn, Ahead, Working
  <2>9. Calls' BY <2>1, <2>2, <2>3 DEF Calls, N, Working, Current
  <2>10. InBuffer' BY <2>1, <2>2, <2>3 DEF InBuffer, HandedOver, Given, Ahead, Working, Current
  <2>11. AtHeapTop' BY <2>1, <2>2, <2>3 DEF AtHeapTop, Finished, N
  <2> QED BY <2>4, <2>5, <2>6, <2>7, <2>8, <2>9, <2>10, <2>11
<1> QED BY <1>4, <1>5, <1>6

\* The last object waits for the EE.
LEMMA SmLastInv ==
    ASSUME DgoInv, SM_ReadLastObj
    PROVE  DgoInv'
<1> USE DEF DgoInv
<1>0. /\ HEADER \in Nat /\ HEADER > 0 /\ PAGE \in Nat /\ PAGE > 0 /\ MaxHeap \in Nat /\ NoFile \notin Files
      /\ (file \in Files => N \in Nat /\ N > 0) /\ (running => queued)
      /\ (queued => ee # "idle" /\ file \in Files /\ N \in Nat /\ N > 0)
      /\ (Working => /\ Current \in Nat /\ Current > 0 /\ Current <= N
                     /\ scmd.dest \in Places /\ (scmd.toggle = 0 => scmd.dest = Top(heap)))
  BY Basics
<1>1. /\ SM_ReadLastObj /\ running /\ scmd.state = "Read_Last_Obj" /\ queued /\ Working
         /\ Current = scmd.loaded + 1
      /\ file \in Files /\ scmd.loaded \in Nat /\ scmd.loaded > 0 /\ scmd.loaded + 1 = N
         /\ scmd.processed = 0
      /\ pos = file[scmd.loaded + 1] /\ pos \in Nat
  BY <1>0 DEF SM_ReadLastObj, InState, Working, Current, Parse, TypeOK
<1>2. scmd.first /\ scmd.toggle # 0 BY <1>1 DEF Buffers, Reading
<1>3. Ahead BY <1>1, <1>2 DEF Ahead
<1>4. CASE LookSync
  <2>2. thread = "wait" /\ sync_mbx = 1 /\ dgo_mbx = 0 /\ rpc.phase = "called" /\ ee = "waiting"
    BY <1>1, <1>3, <1>4 DEF Turn, Calls, TypeOK, LookSync
  <2>3. CASE ~ scmd.abort
    <3>1. rpc.fno = "NEXT" /\ scmd.heaptop = rpc.heap_top /\ rpc.heap_top = Top(heap) /\ Current = count + 1
      BY <1>1, <2>2, <2>3 DEF Turn, TypeOK, Calls
    <3>2. DgoInv'
      <4>1. /\ sync_mbx' = sync_mbx - 1
        BY <1>1, <1>4, <2>3 DEF SM_ReadLastObj
      <4>2. /\ scmd'.state = "Read_Obj_Header" /\ scmd'.toggle = 0 /\ scmd'.dest = scmd.heaptop
            /\ scmd'.cmd_id = scmd.cmd_id /\ scmd'.status = scmd.status /\ scmd'.heaptop = scmd.heaptop
            /\ scmd'.selected = scmd.selected /\ scmd'.processed = scmd.processed
            /\ scmd'.loaded = scmd.loaded /\ scmd'.header = scmd.header /\ scmd'.first = scmd.first
            /\ scmd'.abort = scmd.abort
        BY <1>1, <1>4, <2>3 DEF SM_ReadLastObj, CmdOK
      <4>3. UNCHANGED <<ee, file, obj, last, count, heap, temps, mem, rpc, thread, dgo_mbx, queued,
                        running, left, pos>>
        BY <1>1, <1>4, <2>3 DEF SM_ReadLastObj, eeVars, isoVars, smVars
      <4>4. sync_mbx' = 0 /\ ~ Ahead' /\ Working' /\ Current' = Current
        BY <4>1, <4>2, <4>3, <1>1, <2>2 DEF Ahead, Working, Current
      <4>5. TypeOK' BY <4>1, <4>2, <4>3, <4>4 DEF TypeOK, Rpcs, CmdOK
      <4>6. CmdOK' BY <4>1, <4>2, <4>3, <4>4, <1>1, <1>4, <2>3 DEF SM_ReadLastObj, CmdOK
      <4>7. Parse' BY <4>1, <4>2, <4>3, <4>4, <1>0, <1>1 DEF Parse, N
      <4>8. Buffers' BY <4>1, <4>2, <4>3, <4>4, <1>1, <1>2 DEF Buffers, Working, Current, Reading, N
      <4>9. Turn' BY <4>1, <4>2, <4>3, <4>4, <1>1, <2>2, <2>3, <3>1 DEF Turn
      <4>10. Calls' BY <4>1, <4>2, <4>3, <4>4, <1>1, <2>2, <3>1 DEF Calls, N
      <4>11. InBuffer' BY <4>1, <4>2, <4>3, <4>4, <1>1, <2>2, <3>1 DEF InBuffer, HandedOver
      <4>12. AtHeapTop' BY <4>1, <4>2, <4>3, <4>4, <1>1, <2>2, <3>1 DEF AtHeapTop, Finished, N
      <4> QED BY <4>5, <4>6, <4>7, <4>8, <4>9, <4>10, <4>11, <4>12
    <3> QED BY <3>2
  <2>4. CASE scmd.abort
    <3>1. rpc.fno = "CANCEL" BY <1>1, <2>4 DEF Turn
    <3>2. DgoInv'
      <4>1. /\ sync_mbx' = sync_mbx - 1
        BY <1>1, <1>4, <2>4 DEF SM_ReadLastObj
      <4>2. /\ scmd'.state = "Finish_Dgo" /\ scmd'.cmd_id = scmd.cmd_id /\ scmd'.status = scmd.status
            /\ scmd'.heaptop = scmd.heaptop /\ scmd'.selected = scmd.selected /\ scmd'.toggle = scmd.toggle
            /\ scmd'.dest = scmd.dest /\ scmd'.processed = scmd.processed /\ scmd'.loaded = scmd.loaded
            /\ scmd'.header = scmd.header /\ scmd'.first = scmd.first /\ scmd'.abort = scmd.abort
        BY <1>1, <1>4, <2>4 DEF SM_ReadLastObj, CmdOK
      <4>3. UNCHANGED <<ee, file, obj, last, count, heap, temps, mem, rpc, thread, dgo_mbx, queued,
                        running, left, pos>>
        BY <1>1, <1>4, <2>4 DEF SM_ReadLastObj, eeVars, isoVars, smVars
      <4>4. sync_mbx' = 0 /\ ~ Ahead' /\ ~ Working'
        BY <4>1, <4>2, <4>3, <2>2 DEF Ahead, Working
      <4>5. TypeOK' BY <4>1, <4>2, <4>3, <4>4 DEF TypeOK, Rpcs
      <4>6. CmdOK' BY <4>1, <4>2, <4>3, <4>4, <1>1, <1>4, <2>4 DEF SM_ReadLastObj, CmdOK
      <4>7. Parse' BY <4>1, <4>2, <4>3, <4>4, <1>0, <1>1 DEF Parse, N
      <4>8. Buffers' BY <4>1, <4>2, <4>3, <4>4 DEF Buffers
      <4>9. Turn' BY <4>1, <4>2, <4>3, <4>4, <1>1, <2>2, <3>1 DEF Turn
      <4>10. Calls' BY <4>1, <4>2, <4>3, <4>4, <1>1, <2>2, <3>1 DEF Calls, N
      <4>11. InBuffer' BY <4>1, <4>2, <4>3, <4>4, <1>1, <2>2, <3>1 DEF InBuffer, HandedOver
      <4>12. AtHeapTop' BY <4>1, <4>2, <4>3, <4>4, <1>1, <2>2, <3>1 DEF AtHeapTop, Finished, N
      <4> QED BY <4>5, <4>6, <4>7, <4>8, <4>9, <4>10, <4>11, <4>12
    <3> QED BY <3>2
  <2> QED BY <2>3, <2>4
<1>5. CASE ~ LookSync
  <2>1. /\ running' = FALSE
    BY <1>1, <1>5 DEF SM_ReadLastObj
  <2>2. UNCHANGED <<ee, file, obj, last, count, heap, temps, mem, rpc, thread, scmd, sync_mbx,
                    dgo_mbx, queued, left, pos>>
    BY <1>1, <1>5 DEF SM_ReadLastObj, eeVars, isoVars, smVars
  <2>3. running' \in BOOLEAN
    BY <2>1
  <2>4. TypeOK' BY <2>1, <2>2, <2>3 DEF TypeOK, Rpcs
  <2>5. CmdOK' BY <2>1, <2>2, <2>3 DEF CmdOK
  <2>6. Parse' BY <2>1, <2>2, <2>3, <1>1 DEF Parse, N
  <2>7. Buffers' BY <2>1, <2>2, <2>3 DEF Buffers, Working, Current, Reading, N
  <2>8. Turn' BY <2>1, <2>2, <2>3 DEF Turn, Ahead, Working
  <2>9. Calls' BY <2>1, <2>2, <2>3 DEF Calls, N, Working, Current
  <2>10. InBuffer' BY <2>1, <2>2, <2>3 DEF InBuffer, HandedOver, Given, Ahead, Working, Current
  <2>11. AtHeapTop' BY <2>1, <2>2, <2>3 DEF AtHeapTop, Finished, N
  <2> QED BY <2>4, <2>5, <2>6, <2>7, <2>8, <2>9, <2>10, <2>11
<1> QED BY <1>4, <1>5

\* A part of an object's header, or the rest of it.
LEMMA SmObjHeaderInv ==
    ASSUME DgoInv, SM_ReadObjHeader
    PROVE  DgoInv'
<1> USE DEF DgoInv
<1>0. /\ HEADER \in Nat /\ HEADER > 0 /\ PAGE \in Nat /\ PAGE > 0 /\ MaxHeap \in Nat /\ NoFile \notin Files
      /\ (file \in Files => N \in Nat /\ N > 0) /\ (running => queued)
      /\ (queued => ee # "idle" /\ file \in Files /\ N \in Nat /\ N > 0)
      /\ (Working => /\ Current \in Nat /\ Current > 0 /\ Current <= N
                     /\ scmd.dest \in Places /\ (scmd.toggle = 0 => scmd.dest = Top(heap)))
  BY Basics
<1>1. /\ SM_ReadObjHeader /\ running /\ left > 0 /\ scmd.state = "Read_Obj_Header" /\ queued /\ Working
      /\ Current = scmd.loaded + 1 /\ file \in Files /\ scmd.loaded \in Nat /\ scmd.loaded < N
      /\ scmd.processed \in Nat /\ scmd.processed < HEADER /\ pos = file[scmd.loaded + 1] + scmd.processed
      /\ left \in 0 .. PAGE /\ pos \in Nat
  BY <1>0 DEF SM_ReadObjHeader, InState, Working, Current, Parse, TypeOK
<1>2. PICK k : k = AtMost(HEADER - scmd.processed) OBVIOUS
<1>3. k \in Nat /\ k > 0 /\ k <= left /\ scmd.processed + k <= HEADER BY <1>0, <1>1, <1>2 DEF AtMost
<1>4. CASE scmd.processed + k < HEADER
  <2>1. /\ left' = left - k /\ pos' = pos + k
    BY <1>1, <1>2, <1>4 DEF SM_ReadObjHeader, Consume
  <2>2. /\ scmd'.processed = scmd.processed + k /\ scmd'.cmd_id = scmd.cmd_id
        /\ scmd'.status = scmd.status /\ scmd'.heaptop = scmd.heaptop /\ scmd'.selected = scmd.selected
        /\ scmd'.toggle = scmd.toggle /\ scmd'.dest = scmd.dest /\ scmd'.state = scmd.state
        /\ scmd'.loaded = scmd.loaded /\ scmd'.header = scmd.header /\ scmd'.first = scmd.first
        /\ scmd'.abort = scmd.abort
    BY <1>1, <1>2, <1>4 DEF SM_ReadObjHeader, Consume, CmdOK
  <2>3. UNCHANGED <<ee, file, obj, last, count, heap, temps, mem, rpc, thread, sync_mbx, dgo_mbx,
                    queued, running>>
    BY <1>1, <1>2, <1>4 DEF SM_ReadObjHeader, Consume, eeVars, isoVars, smVars
  <2>4. left' \in 0 .. PAGE /\ pos' \in Nat /\ scmd'.processed \in Nat
    BY <2>1, <2>2, <2>3, <1>0, <1>1, <1>3
  <2>5. pos' = file[scmd.loaded + 1] + scmd'.processed

    <3>1. PICK a : a = file[scmd.loaded + 1] OBVIOUS
    <3>2. scmd.loaded + 1 \in 1 .. N BY <1>0, <1>1
    <3>3. a \in Nat BY <1>1, <3>1, <3>2, FileFacts DEF N
    <3> QED BY <1>1, <1>3, <2>1, <2>2, <3>1, <3>3
  <2>6. TypeOK' BY <2>1, <2>2, <2>3, <2>4, <2>5 DEF TypeOK, Rpcs
  <2>7. CmdOK' BY <2>1, <2>2, <2>3, <2>4, <2>5, <1>1, <1>2, <1>4 DEF SM_ReadObjHeader, CmdOK
  <2>8. Parse' BY <2>1, <2>2, <2>3, <2>4, <2>5, <1>0, <1>1, <1>4 DEF Parse, N
  <2>9. Buffers' BY <2>1, <2>2, <2>3, <2>4, <2>5 DEF Buffers, Working, Current, Reading, N
  <2>10. Turn' BY <2>1, <2>2, <2>3, <2>4, <2>5 DEF Turn, Ahead, Working
  <2>11. Calls' BY <2>1, <2>2, <2>3, <2>4, <2>5 DEF Calls, N, Working, Current
  <2>12. InBuffer' BY <2>1, <2>2, <2>3, <2>4, <2>5 DEF InBuffer, HandedOver, Given, Ahead, Working, Current
  <2>13. AtHeapTop' BY <2>1, <2>2, <2>3, <2>4, <2>5 DEF AtHeapTop, Finished, N
  <2> QED BY <2>6, <2>7, <2>8, <2>9, <2>10, <2>11, <2>12, <2>13
<1>5. CASE ~ (scmd.processed + k < HEADER)
  <2>1. /\ left' = left - k /\ pos' = pos + k
        /\ mem' = [mem EXCEPT ![scmd.dest] = Data(pos + k - HEADER, HEADER)]
    BY <1>1, <1>2, <1>5 DEF SM_ReadObjHeader, Consume
  <2>2. /\ scmd'.processed = 0 /\ scmd'.state = "Read_Obj_data"
        /\ scmd'.header = DataSize(file, ObjectAt(file, pos + k)) /\ scmd'.cmd_id = scmd.cmd_id
        /\ scmd'.status = scmd.status /\ scmd'.heaptop = scmd.heaptop /\ scmd'.selected = scmd.selected
        /\ scmd'.toggle = scmd.toggle /\ scmd'.dest = scmd.dest /\ scmd'.loaded = scmd.loaded
        /\ scmd'.first = scmd.first /\ scmd'.abort = scmd.abort
    BY <1>1, <1>2, <1>5 DEF SM_ReadObjHeader, Consume, CmdOK
  <2>3. UNCHANGED <<ee, file, obj, last, count, heap, temps, rpc, thread, sync_mbx, dgo_mbx, queued, running>>
    BY <1>1, <1>2, <1>5 DEF SM_ReadObjHeader, Consume, eeVars, isoVars, smVars
  <2>4. left' \in 0 .. PAGE /\ pos' \in Nat
    BY <2>1, <2>2, <2>3, <1>0, <1>1, <1>3
  <2>5. /\ pos + k = file[scmd.loaded + 1] + HEADER /\ pos + k - HEADER = file[scmd.loaded + 1]
        /\ scmd.loaded + 1 \in 1 .. N

    <3>1. PICK a : a = file[scmd.loaded + 1] OBVIOUS
    <3>2. scmd.loaded + 1 \in 1 .. N BY <1>0, <1>1
    <3>3. a \in Nat BY <1>1, <3>1, <3>2, FileFacts DEF N
    <3>4. scmd.processed + k = HEADER BY <1>0, <1>1, <1>3, <1>5
    <3> QED BY <1>0, <1>1, <1>3, <3>1, <3>2, <3>3, <3>4
  <2>6. /\ scmd'.header = DataSize(file, scmd.loaded + 1) /\ scmd'.header \in Nat /\ scmd'.header > 0
        /\ mem' = [mem EXCEPT ![scmd.dest] = Prefix(scmd.loaded + 1, HEADER)]

    <3>1. DataSize(file, scmd.loaded + 1) \in Nat /\ DataSize(file, scmd.loaded + 1) > 0
      BY <1>1, <2>5, FileFacts DEF N
    <3>2. Data(file[scmd.loaded + 1], HEADER) = Prefix(scmd.loaded + 1, HEADER)
      BY <1>1, <2>5, HeaderCopied
    <3>3. ObjectAt(file, pos + k) = scmd.loaded + 1 BY <1>1, <2>5, HeaderCopied
    <3> QED BY <2>1, <2>2, <2>5, <3>1, <3>2, <3>3
  <2>7. /\ \A q \in Places : q # scmd.dest => mem'[q] = mem[q]
        /\ mem'[scmd.dest] = Prefix(scmd.loaded + 1, HEADER) /\ mem' \in [Places -> Seq(Nat \X Nat)]

    <3>1. scmd.dest \in Places /\ scmd.loaded + 1 \in Nat BY <1>0, <1>1
    <3>2. Prefix(scmd.loaded + 1, HEADER) \in Seq(Nat \X Nat) BY <1>0, <3>1, PrefixSeq
    <3> QED BY <2>6, <3>1, <3>2 DEF TypeOK
  <2>8. Working' /\ Current' = Current /\ (Ahead' <=> Ahead) /\ ~ Finished /\ ~ Finished'
    BY <2>1, <2>2, <2>3, <2>4, <2>5, <2>6, <2>7, <1>1 DEF Working, Current, Ahead, Finished, AtHeapTop
  <2>9. TypeOK' BY <2>1, <2>2, <2>3, <2>4, <2>5, <2>6, <2>7, <2>8 DEF TypeOK, Rpcs
  <2>10. CmdOK'
    <3>1. PICK d \in Nat : d = DataSize(file, ObjectAt(file, pos + k)) BY <2>2, <2>6
    <3>2. scmd' = [scmd EXCEPT !.processed = 0, !.state = "Read_Obj_data", !.header = d]
      BY <1>1, <1>2, <1>5, <3>1 DEF SM_ReadObjHeader
    <3> QED BY <3>2 DEF CmdOK
  <2>11. Parse' BY <2>1, <2>2, <2>3, <2>4, <2>5, <2>6, <2>7, <2>8, <1>0, <1>1 DEF Parse, N
  <2>12. Buffers' BY <2>1, <2>2, <2>3, <2>4, <2>5, <2>6, <2>7, <2>8, <1>1 DEF Buffers, Reading, N
  <2>13. Turn' BY <2>1, <2>2, <2>3, <2>4, <2>5, <2>6, <2>7, <2>8, <1>1 DEF Turn
  <2>14. Calls' BY <2>1, <2>2, <2>3, <2>4, <2>5, <2>6, <2>7, <2>8, <1>1 DEF Calls, N
  <2>15. InBuffer'
    <3>1. HandedOver' <=> HandedOver BY <2>2, <2>3, <2>8 DEF HandedOver
    <3>2. Given' = Given BY <2>2, <2>3, <2>8 DEF Given
    <3>3. HandedOver => mem'[Given] = mem[Given] BY <2>7, PlacesDiffer DEF InBuffer
    <3> QED BY <2>2, <2>3, <2>8, <3>1, <3>2, <3>3 DEF InBuffer
  <2>16. AtHeapTop' BY <2>1, <2>2, <2>3, <2>4, <2>5, <2>6, <2>7, <2>8, <1>1 DEF AtHeapTop
  <2> QED BY <2>9, <2>10, <2>11, <2>12, <2>13, <2>14, <2>15, <2>16
<1> QED BY <1>4, <1>5

\* A part of an object's data, or the rest of it.
LEMMA SmObjDataInv ==
    ASSUME DgoInv, SM_ReadObjData
    PROVE  DgoInv'
<1> USE DEF DgoInv
<1>0. /\ HEADER \in Nat /\ HEADER > 0 /\ PAGE \in Nat /\ PAGE > 0 /\ MaxHeap \in Nat /\ NoFile \notin Files
      /\ (file \in Files => N \in Nat /\ N > 0) /\ (running => queued)
      /\ (queued => ee # "idle" /\ file \in Files /\ N \in Nat /\ N > 0)
      /\ (Working => /\ Current \in Nat /\ Current > 0 /\ Current <= N
                     /\ scmd.dest \in Places /\ (scmd.toggle = 0 => scmd.dest = Top(heap)))
  BY Basics
<1>1. /\ SM_ReadObjData /\ running /\ left > 0 /\ scmd.state = "Read_Obj_data" /\ queued /\ Working
      /\ Current = scmd.loaded + 1 /\ file \in Files /\ scmd.loaded \in Nat /\ scmd.loaded < N
      /\ scmd.processed \in Nat /\ scmd.processed < scmd.header
         /\ scmd.header = DataSize(file, scmd.loaded + 1)
      /\ pos = file[scmd.loaded + 1] + HEADER + scmd.processed
      /\ mem[scmd.dest] = Prefix(scmd.loaded + 1, HEADER + scmd.processed)
      /\ left \in 0 .. PAGE /\ pos \in Nat
  BY <1>0 DEF SM_ReadObjData, InState, Working, Current, Parse, TypeOK
<1>2. PICK k : k = AtMost(scmd.header - scmd.processed) OBVIOUS
<1>3. PICK n, a, h : n = scmd.loaded + 1 /\ a = file[n] /\ h = scmd.header OBVIOUS
<1>4. n \in 1 .. N /\ n \in Nat BY <1>0, <1>1, <1>3
<1>5. a \in Nat /\ h \in Nat /\ file[n + 1] = a + HEADER + h BY <1>1, <1>3, <1>4, FileFacts DEF N
<1>6. k \in Nat /\ k > 0 /\ k <= left /\ scmd.processed + k <= h BY <1>1, <1>2, <1>3, <1>5 DEF AtMost
<1>7. /\ left' = left - k /\ pos' = pos + k /\ mem' = [mem EXCEPT ![scmd.dest] = @ \o Data(pos, k)]
      /\ UNCHANGED <<ee, file, obj, last, count, heap, temps, rpc, thread, sync_mbx, dgo_mbx, queued, running>>
  BY <1>1, <1>2 DEF SM_ReadObjData, Consume, eeVars
<1>8. left' \in 0 .. PAGE /\ pos' \in Nat /\ pos' = a + HEADER + (scmd.processed + k)
  <2>1. left' \in 0 .. PAGE /\ pos' \in Nat BY <1>0, <1>1, <1>6, <1>7
  <2>2. pos = a + HEADER + scmd.processed BY <1>1, <1>3
  <2> QED BY <1>0, <1>1, <1>5, <1>6, <1>7, <2>1, <2>2
<1>9. Prefix(n, HEADER + scmd.processed) \o Data(pos, k) = Prefix(n, HEADER + (scmd.processed + k))
  <2>1. PICK m \in Nat : m = HEADER + scmd.processed BY <1>0, <1>1
  <2>2. m + k <= HEADER + DataSize(file, n) BY <1>0, <1>1, <1>3, <1>5, <1>6, <2>1
  <2>3. Prefix(n, m) \o Data(file[n] + m, k) = Prefix(n, m + k) BY <1>1, <1>4, <1>6, <2>2, DataCopied
  <2>4. pos = file[n] + m BY <1>0, <1>1, <1>3, <1>5, <2>1
  <2>5. m + k = HEADER + (scmd.processed + k) BY <1>0, <1>1, <1>6, <2>1
  <2> QED BY <2>1, <2>3, <2>4, <2>5
<1>10. /\ \A q \in Places : q # scmd.dest => mem'[q] = mem[q]
       /\ mem'[scmd.dest] = Prefix(n, HEADER + (scmd.processed + k)) /\ mem' \in [Places -> Seq(Nat \X Nat)]
  <2>1. scmd.dest \in Places /\ mem \in [Places -> Seq(Nat \X Nat)] BY <1>0, <1>1 DEF TypeOK
  <2>2. HEADER + (scmd.processed + k) \in Nat BY <1>0, <1>1, <1>6
  <2>3. Prefix(n, HEADER + (scmd.processed + k)) \in Seq(Nat \X Nat) BY <1>4, <2>2, PrefixSeq
  <2>4. mem' = [mem EXCEPT ![scmd.dest] = Prefix(n, HEADER + (scmd.processed + k))]
    BY <1>1, <1>3, <1>7, <1>9
  <2> QED BY <2>1, <2>3, <2>4
<1>11. CASE scmd.processed + k < h
  <2>1. /\ scmd'.processed = scmd.processed + k /\ scmd'.cmd_id = scmd.cmd_id
        /\ scmd'.status = scmd.status /\ scmd'.heaptop = scmd.heaptop /\ scmd'.selected = scmd.selected
        /\ scmd'.toggle = scmd.toggle /\ scmd'.dest = scmd.dest /\ scmd'.state = scmd.state
        /\ scmd'.loaded = scmd.loaded /\ scmd'.header = scmd.header /\ scmd'.first = scmd.first
        /\ scmd'.abort = scmd.abort
    BY <1>1, <1>2, <1>3, <1>11 DEF SM_ReadObjData, Consume, CmdOK
  <2>2. UNCHANGED <<ee, file, obj, last, count, heap, temps, rpc, thread, sync_mbx, dgo_mbx, queued, running>>
    BY <1>1, <1>2, <1>3, <1>11 DEF SM_ReadObjData, Consume, eeVars, isoVars, smVars
  <2>3. Working' /\ Current' = Current /\ (Ahead' <=> Ahead) /\ ~ Finished /\ ~ Finished'
    BY <2>1, <2>2, <1>1, <1>7 DEF Working, Current, Ahead, Finished, AtHeapTop
  <2>4. scmd'.processed \in Nat
    BY <2>1, <1>1, <1>6
  <2>5. TypeOK' BY <2>1, <2>2, <2>3, <2>4, <1>7, <1>8, <1>10 DEF TypeOK, Rpcs
  <2>6. CmdOK'
    <3>1. PICK d \in Nat : d = scmd.processed + k BY <1>1, <1>6
    <3>2. scmd' = [scmd EXCEPT !.processed = d] BY <1>1, <1>2, <1>3, <1>11, <3>1 DEF SM_ReadObjData
    <3> QED BY <3>2 DEF CmdOK
  <2>7. Parse' BY <2>1, <2>2, <2>3, <2>4, <1>7, <1>8, <1>10, <1>1, <1>3, <1>5, <1>11 DEF Parse, N
  <2>8. Buffers' BY <2>1, <2>2, <2>3, <2>4, <1>7, <1>8, <1>10, <1>1 DEF Buffers, Reading, N
  <2>9. Turn' BY <2>1, <2>2, <2>3, <2>4, <1>7, <1>8, <1>10, <1>1 DEF Turn
  <2>10. Calls' BY <2>1, <2>2, <2>3, <2>4, <1>7, <1>8, <1>10, <1>1 DEF Calls, N
  <2>11. InBuffer'
    <3>1. HandedOver' <=> HandedOver BY <1>7, <2>1, <2>2, <2>3 DEF HandedOver
    <3>2. Given' = Given BY <1>7, <2>1, <2>2, <2>3 DEF Given
    <3>3. HandedOver => mem'[Given] = mem[Given] BY <1>10, PlacesDiffer DEF InBuffer
    <3> QED BY <1>7, <2>1, <2>2, <2>3, <3>1, <3>2, <3>3 DEF InBuffer
  <2>12. AtHeapTop' BY <2>1, <2>2, <2>3, <2>4, <1>1 DEF AtHeapTop
  <2> QED BY <2>5, <2>6, <2>7, <2>8, <2>9, <2>10, <2>11, <2>12
<1>12. CASE ~ (scmd.processed + k < h) /\ n # N
  <2>1. scmd.processed + k = h BY <1>1, <1>5, <1>6, <1>12
  <2>2. mem'[scmd.dest] = Content(file, n) /\ pos' = file[n + 1]
    BY <1>1, <1>3, <1>5, <1>8, <1>10, <2>1, ContentIsPrefix
  <2>3. DgoInv'
    <3>1. /\ scmd'.processed = 0 /\ scmd'.loaded = n /\ scmd'.state = "Finish_Obj"
          /\ scmd'.cmd_id = scmd.cmd_id /\ scmd'.status = scmd.status /\ scmd'.heaptop = scmd.heaptop
          /\ scmd'.selected = scmd.selected /\ scmd'.toggle = scmd.toggle /\ scmd'.dest = scmd.dest
          /\ scmd'.header = scmd.header /\ scmd'.first = scmd.first /\ scmd'.abort = scmd.abort
      BY <1>1, <1>2, <1>3, <1>12 DEF SM_ReadObjData, N, CmdOK
    <3>2. UNCHANGED <<ee, file, obj, last, count, heap, temps, rpc, thread, sync_mbx, dgo_mbx, queued, running>>
      BY <1>1, <1>2, <1>3, <1>12 DEF SM_ReadObjData, N, eeVars, isoVars, smVars
    <3>3. scmd'.loaded \in Nat /\ scmd.toggle # 0 /\ n < N
      BY <1>0, <1>1, <1>3, <1>4, <1>12, <3>1, <3>2 DEF Buffers, Reading
    <3>4. Working' /\ Current' = Current /\ (Ahead' <=> Ahead) /\ ~ Finished /\ ~ Finished'
      BY <3>1, <3>2, <3>3, <1>1, <1>3, <1>7 DEF Working, Current, Ahead, Finished, AtHeapTop
    <3>5. TypeOK' BY <3>1, <3>2, <3>3, <3>4, <1>7, <1>8, <1>10 DEF TypeOK, Rpcs
    <3>6. CmdOK'
      <4>1. scmd' = [scmd EXCEPT !.processed = 0, !.loaded = n, !.state = "Finish_Obj"]
        BY <1>1, <1>2, <1>3, <1>12 DEF SM_ReadObjData, N
      <4> QED BY <1>4, <4>1 DEF CmdOK
    <3>7. Parse' BY <3>1, <3>2, <3>3, <3>4, <1>7, <1>8, <1>10, <1>1, <1>3, <1>4, <2>2 DEF Parse, N
    <3>8. Buffers' BY <3>1, <3>2, <3>3, <3>4, <1>7, <1>8, <1>10, <1>1 DEF Buffers, Reading, N
    <3>9. Turn' BY <3>1, <3>2, <3>3, <3>4, <1>7, <1>8, <1>10, <1>1 DEF Turn
    <3>10. Calls' BY <3>1, <3>2, <3>3, <3>4, <1>7, <1>8, <1>10, <1>1 DEF Calls, N
    <3>11. InBuffer'
      <4>1. HandedOver' <=> HandedOver BY <1>7, <3>1, <3>2, <3>3, <3>4 DEF HandedOver
      <4>2. Given' = Given BY <1>7, <3>1, <3>2, <3>3, <3>4 DEF Given
      <4>3. HandedOver => mem'[Given] = mem[Given] BY <1>10, PlacesDiffer DEF InBuffer
      <4> QED BY <1>7, <3>1, <3>2, <3>3, <3>4, <4>1, <4>2, <4>3 DEF InBuffer
    <3>12. AtHeapTop' BY <3>1, <3>2, <3>3, <3>4, <1>1 DEF AtHeapTop
    <3> QED BY <3>5, <3>6, <3>7, <3>8, <3>9, <3>10, <3>11, <3>12
  <2> QED BY <2>3
<1>13. CASE ~ (scmd.processed + k < h) /\ n = N
  <2>1. scmd.processed + k = h BY <1>1, <1>5, <1>6, <1>13
  <2>2. mem'[scmd.dest] = Content(file, n) /\ pos' = file[n + 1]
    BY <1>1, <1>3, <1>5, <1>8, <1>10, <2>1, ContentIsPrefix
  <2>3. scmd.toggle = 0 /\ ~ Ahead /\ scmd.dest = Top(heap) /\ scmd.dest = scmd.heaptop
    BY <1>0, <1>1, <1>3, <1>13 DEF Buffers, Reading, Ahead
  <2>4. thread = "wait" /\ sync_mbx = 0 /\ dgo_mbx = 0 /\ rpc.phase = "called" /\ ee = "waiting"
    BY <1>1, <2>3 DEF Turn, Calls, TypeOK
  <2>5. rpc.fno # "CANCEL" /\ ~ scmd.abort BY <1>1, <2>3 DEF Turn
  <2>6. count + 1 = N BY <1>1, <1>3, <1>13, <2>4, <2>5 DEF Calls, TypeOK
  <2>7. DgoInv'
    <3>1. /\ scmd'.processed = h /\ scmd'.loaded = n /\ scmd'.state = "Finish_Dgo"
          /\ scmd'.cmd_id = scmd.cmd_id /\ scmd'.status = scmd.status /\ scmd'.heaptop = scmd.heaptop
          /\ scmd'.selected = scmd.selected /\ scmd'.toggle = scmd.toggle /\ scmd'.dest = scmd.dest
          /\ scmd'.header = scmd.header /\ scmd'.first = scmd.first /\ scmd'.abort = scmd.abort
      BY <1>1, <1>2, <1>3, <1>13, <2>1 DEF SM_ReadObjData, N, CmdOK
    <3>2. UNCHANGED <<ee, file, obj, last, count, heap, temps, rpc, thread, sync_mbx, dgo_mbx, queued, running>>
      BY <1>1, <1>2, <1>3, <1>13 DEF SM_ReadObjData, N, eeVars, isoVars, smVars
    <3>3. ~ Working' /\ ~ Ahead' /\ scmd'.loaded \in Nat
      BY <3>1, <3>2, <1>4 DEF Working, Ahead
    <3>4. TypeOK' BY <1>5, <3>1, <3>2, <3>3, <1>7, <1>8, <1>10 DEF TypeOK, Rpcs
    <3>5. CmdOK'
      <4>1. scmd' = [scmd EXCEPT !.processed = h, !.loaded = n, !.state = "Finish_Dgo"]
        BY <1>1, <1>2, <1>3, <1>13, <2>1 DEF SM_ReadObjData, N
      <4> QED BY <1>4, <1>5, <4>1 DEF CmdOK
    <3>6. Parse' BY <3>1, <3>2, <3>3, <1>7, <1>8, <1>10, <1>1 DEF Parse, N
    <3>7. Buffers' BY <3>1, <3>2, <3>3 DEF Buffers
    <3>8. Turn' BY <3>1, <3>2, <3>3, <1>7, <1>8, <1>10, <1>1, <2>4, <2>5, <2>3 DEF Turn
    <3>9. Calls' BY <3>1, <3>2, <3>3, <1>7, <1>8, <1>10, <1>1, <2>4, <2>5 DEF Calls, N
    <3>10. InBuffer' BY <3>1, <3>2, <3>3, <2>4 DEF InBuffer, HandedOver
    <3>11. AtHeapTop' BY <3>1, <3>2, <3>3, <1>13, <2>2, <2>3, <2>4, <2>5, <2>6 DEF AtHeapTop, Finished, N
    <3> QED BY <3>4, <3>5, <3>6, <3>7, <3>8, <3>9, <3>10, <3>11
  <2> QED BY <2>7
<1> QED BY <1>11, <1>12, <1>13

\* The command is done.
LEMMA SmFinishDgoInv ==
    ASSUME DgoInv, SM_FinishDgo
    PROVE  DgoInv'
<1> USE DEF DgoInv
<1>0. /\ HEADER \in Nat /\ HEADER > 0 /\ PAGE \in Nat /\ PAGE > 0 /\ MaxHeap \in Nat /\ NoFile \notin Files
      /\ (file \in Files => N \in Nat /\ N > 0) /\ (running => queued)
      /\ (queued => ee # "idle" /\ file \in Files /\ N \in Nat /\ N > 0)
      /\ (Working => /\ Current \in Nat /\ Current > 0 /\ Current <= N
                     /\ scmd.dest \in Places /\ (scmd.toggle = 0 => scmd.dest = Top(heap)))
  BY Basics
<1>1. /\ SM_FinishDgo /\ running /\ scmd.state = "Finish_Dgo" /\ queued /\ ~ Ahead /\ ~ Working
  BY <1>0 DEF SM_FinishDgo, InState, Working, Ahead
<1>2. thread = "wait" /\ sync_mbx = 0 /\ dgo_mbx = 0 /\ rpc.phase = "called" /\ ee = "waiting"
  BY <1>1 DEF Turn, Calls, TypeOK
<1>3. DgoInv'
  <2>1. /\ dgo_mbx' = dgo_mbx + 1 /\ queued' = FALSE /\ running' = FALSE /\ left' = 0 /\ pos' = 0
    BY <1>1 DEF SM_FinishDgo
  <2>2. /\ scmd'.status = "DONE" /\ scmd'.cmd_id = scmd.cmd_id /\ scmd'.heaptop = scmd.heaptop
        /\ scmd'.selected = scmd.selected /\ scmd'.toggle = scmd.toggle /\ scmd'.dest = scmd.dest
        /\ scmd'.state = scmd.state /\ scmd'.processed = scmd.processed /\ scmd'.loaded = scmd.loaded
        /\ scmd'.header = scmd.header /\ scmd'.first = scmd.first /\ scmd'.abort = scmd.abort
    BY <1>1 DEF SM_FinishDgo, CmdOK
  <2>3. UNCHANGED <<ee, file, obj, last, count, heap, temps, mem, rpc, thread, sync_mbx>>
    BY <1>1 DEF SM_FinishDgo, eeVars, isoVars, smVars
  <2>4. dgo_mbx' = 1 /\ left' \in 0 .. PAGE
    BY <2>1, <2>2, <2>3, <1>0, <1>2
  <2>5. running' \in BOOLEAN /\ queued' \in BOOLEAN
    BY <2>1
  <2>6. ~ queued' /\ ~ running'
    BY <2>1
  <2>7. ~ Working' /\ ~ Ahead'
    BY <2>1, <2>2, <2>3, <2>4, <2>5, <2>6 DEF Working, Ahead
  <2>8. TypeOK' BY <2>1, <2>2, <2>3, <2>4, <2>5, <2>6, <2>7 DEF TypeOK, Rpcs
  <2>9. CmdOK' BY <1>1 DEF SM_FinishDgo, CmdOK
  <2>10. Parse' BY <2>1, <2>2, <2>3, <2>4, <2>5, <2>6, <2>7 DEF Parse, N
  <2>11. Buffers' BY <2>1, <2>2, <2>3, <2>4, <2>5, <2>6, <2>7 DEF Buffers
  <2>12. Turn' BY <2>1, <2>2, <2>3, <2>4, <2>5, <2>6, <2>7, <1>1, <1>2 DEF Turn
  <2>13. Calls' BY <2>1, <2>2, <2>3, <2>4, <2>5, <2>6, <2>7, <1>2 DEF Calls, N
  <2>14. InBuffer' BY <2>1, <2>2, <2>3, <2>4, <2>5, <2>6, <2>7, <1>2 DEF InBuffer, HandedOver
  <2>15. AtHeapTop' BY <2>1, <2>2, <2>3, <2>4, <2>5, <2>6, <2>7, <1>1, <1>2 DEF AtHeapTop, Finished, N
  <2> QED BY <2>8, <2>9, <2>10, <2>11, <2>12, <2>13, <2>14, <2>15
<1> QED BY <1>3

\* DgoInv is inductive.
LEMMA DgoNextInv == DgoInv /\ [Next]_vars => DgoInv'
<1>1. ASSUME DgoInv, Next PROVE DgoInv'
  BY <1>1, BeginInv, GetNextInv, FinishLinkInv, ContinueInv, CancelInv, SyncInv, EmptyInv, LoadInv, NextInv,
     CancelDgoInv, AnswerInv, EnterInv, OutOfDataInv, SmInitInv, SmHeaderInv, SmFinishObjInv, SmLastInv,
     SmObjHeaderInv, SmObjDataInv, SmFinishDgoInv
  DEF Next, StateMachine, DgoThread, Loader
<1>2. ASSUME DgoInv, UNCHANGED vars PROVE DgoInv'
  <2> USE <1>2 DEF DgoInv, vars, eeVars, smVars, isoVars
  <2>1. TypeOK' /\ CmdOK' BY DEF TypeOK, CmdOK
  <2>2. Parse' BY DEF Parse, N
  <2>3. Buffers' BY DEF Buffers, Working, Current, N
  <2>4. Turn' BY DEF Turn, Ahead, Working
  <2>5. Calls' BY DEF Calls, Working, Current, N
  <2>6. InBuffer' BY DEF InBuffer, HandedOver, Given, Ahead, Working, Current
  <2>7. AtHeapTop' BY DEF AtHeapTop, Finished, N
  <2> QED BY <2>1, <2>2, <2>3, <2>4, <2>5, <2>6, <2>7
<1> QED BY <1>1, <1>2

\* The loader finds the last object at the top of the heap as it is then, and
\* no load starts while another is active or with a message of it left.
THEOREM LoaderSafety == Spec => []LoaderSound
<1> QED BY DgoInitInv, DgoNextInv, DgoInvSuffices, PTL DEF Spec

-------------------------------------------------------------------------------
(* The heap belongs to the linker.                                         *)

\* The IOP's two threads leave the loader and its question alone.
LEMMA IopFrame ==
    ASSUME DgoInv, StateMachine \/ DgoThread
    PROVE  UNCHANGED <<ee, file, obj, last, count, heap, temps>> /\ rpc'.fno = rpc.fno
<1> USE DEF DgoInv, eeVars, TypeOK
<1>1. CASE StateMachine
  BY <1>1 DEF StateMachine, EnterStateMachine, OutOfData, SM_Init, SM_ReadHeader, SM_FinishObj,
     SM_ReadLastObj, SM_ReadObjHeader, SM_ReadObjData, SM_FinishDgo
<1>2. CASE LoadDGO BY <1>2 DEF LoadDGO, Reply
<1>3. CASE LoadNextDGO BY <1>3 DEF LoadNextDGO, Reply
<1>4. CASE CancelDGO BY <1>4 DEF CancelDGO, Reply
<1>5. CASE Answer BY <1>5 DEF Answer, Reply
<1> QED BY <1>1, <1>2, <1>3, <1>4, <1>5 DEF DgoThread

\* While an object is linked, the IOP writes only to a buffer that the object
\* is not in, and only when there are objects after it.
LEMMA WritesWhileLinking ==
    ASSUME DgoInv, [Next]_vars, ee = "linking", NEW p \in Places
    PROVE  mem'[p] = mem[p] \/ (p = scmd.dest /\ p \in {B1, B2} /\ p # obj)
<1> USE DEF DgoInv
<1>1. mem' = mem \/ SM_ReadObjHeader \/ SM_ReadObjData
  <2>1. CASE StateMachine
    BY <2>1 DEF StateMachine, EnterStateMachine, OutOfData, SM_Init, SM_ReadHeader, SM_FinishObj,
       SM_ReadLastObj, SM_FinishDgo, Leave
  <2>2. CASE DgoThread BY <2>2 DEF DgoThread, LoadDGO, LoadNextDGO, CancelDGO, Answer
  <2>3. CASE Loader
    BY <2>3 DEF Loader, GetNextDGO, FinishLink, ContinueLoadingDGO, SyncAfterCancel, smVars
  <2>4. CASE DgoLoadCancel \/ EmptyHeap BY <2>4 DEF DgoLoadCancel, EmptyHeap, smVars
  <2>5. ~ \E f \in Files : BeginLoadingDGO(f) BY DEF BeginLoadingDGO
  <2>6. CASE UNCHANGED vars BY <2>6 DEF vars, smVars
  <2> QED BY <2>1, <2>2, <2>3, <2>4, <2>5, <2>6 DEF Next
<1>2. CASE SM_ReadObjHeader \/ SM_ReadObjData
  <2>1. running /\ scmd.state \in Reading
    BY <1>2 DEF SM_ReadObjHeader, SM_ReadObjData, InState, Reading
  <2>2. queued BY <2>1 DEF Parse
  <2>3. thread = "loop" /\ Ahead BY <2>2 DEF Turn, Calls, TypeOK
  <2>4. ~ last /\ Working /\ scmd.toggle \in {1, 2} BY <2>2, <2>3 DEF AtHeapTop, Ahead, TypeOK, CmdOK
  <2>5. scmd.dest \in {B1, B2} BY <2>4 DEF Buffers
  <2>6. obj # scmd.dest BY <2>4 DEF InBuffer, HandedOver, Given
  <2>7. \E v : mem' = [mem EXCEPT ![scmd.dest] = v] \/ mem' = mem
    BY <1>2 DEF SM_ReadObjHeader, SM_ReadObjData
  <2>8. p = scmd.dest \/ mem'[p] = mem[p] BY <2>7 DEF TypeOK
  <2> QED BY <2>5, <2>6, <2>8
<1> QED BY <1>1, <1>2

LEMMA HeapFreeStep ==
    ASSUME DgoInv, [Next]_vars, ee = "linking", NEW h \in heap .. MaxHeap
    PROVE  mem'[Top(h)] = mem[Top(h)]
<1>1. heap \in 0 .. MaxHeap /\ MaxHeap \in Nat BY DgoAssumption DEF DgoInv, TypeOK
<1>2. h \in 0 .. MaxHeap BY <1>1
<1>3. Top(h) \in Places /\ Top(h) # B1 /\ Top(h) # B2 BY <1>2, PlacesDiffer
<1> QED BY <1>3, WritesWhileLinking

\* A load ends with the last object, with a cancelled call, or without a file.
LEMMA ClearedStep ==
    ASSUME DgoInv, [Next]_vars, ee # "idle", ee' = "idle", file \notin Missing
    PROVE  ~ temps'
<1> USE DEF DgoInv
<1>1. CASE StateMachine \/ DgoThread BY <1>1, IopFrame
<1>2. CASE GetNextDGO
  <2>1. ee = "waiting" /\ rpc.phase = "idle" /\ rpc.fno # "CANCEL" /\ rpc.result \notin {"MORE", "DONE"}
    BY <1>2 DEF GetNextDGO
  <2> QED BY <2>1 DEF Calls
<1>3. CASE FinishLink BY <1>3 DEF FinishLink, AtHeapTop
<1>4. CASE SyncAfterCancel BY <1>4 DEF SyncAfterCancel, Calls
<1>5. CASE ContinueLoadingDGO \/ DgoLoadCancel \/ EmptyHeap \/ (\E f \in Files : BeginLoadingDGO(f))
  BY <1>5 DEF ContinueLoadingDGO, DgoLoadCancel, EmptyHeap, BeginLoadingDGO
<1>6. CASE UNCHANGED vars BY <1>6 DEF vars, eeVars
<1> QED BY <1>1, <1>2, <1>3, <1>4, <1>5, <1>6 DEF Next, Loader

\* Nothing is written at or above the top of the heap while the linker
\* allocates there, and a load that found its file leaves no temporary memory.
THEOREM LoadHeapSafety == Spec => HeapRespected
<1>1. DgoInv /\ [Next]_vars =>
        [ee = "linking" /\ ee' = "linking" => \A h \in heap .. MaxHeap : mem'[Top(h)] = mem[Top(h)]]_vars
  BY HeapFreeStep
<1>2. DgoInv /\ [Next]_vars => [ee # "idle" /\ ee' = "idle" /\ file \notin Missing => ~temps']_vars
  BY ClearedStep
<1> QED BY DgoInitInv, DgoNextInv, <1>1, <1>2, PTL
  DEF Spec, HeapRespected, HeapFreeWhileLinking, TemporariesCleared

-------------------------------------------------------------------------------
(* The linker is handed the objects of the file, whole and in order.       *)

LEMMA StreamInitRefines == Init => Stream!StreamInit
BY DEF Init, Stream!StreamInit, Cancelling

\* What the linker works on is the next object of the file.
LEMMA LinkingIsWhole ==
    ASSUME DgoInv, ee = "linking"
    PROVE  /\ obj \in Places /\ mem[obj] = Content(file, count + 1) /\ mem[obj] # <<>>
           /\ file \in Files /\ count \in Nat /\ N \in Nat
           /\ IF last THEN count + 1 = N ELSE count + 1 < N
<1> USE DEF DgoInv
<1>1. file \in Files /\ count \in Nat /\ N \in Nat /\ count < N BY Basics DEF Calls, TypeOK
<1>2. obj \in Places /\ mem[obj] = Content(file, count + 1)
                        /\ (IF last THEN count + 1 = N ELSE count + 1 < N)
  <2>1. CASE last
    <3>1. Finished /\ obj = Top(heap) BY <2>1 DEF Finished, AtHeapTop
    <3>2. Top(heap) \in Places BY PlacesDiffer DEF TypeOK
    <3> QED BY <2>1, <3>1, <3>2 DEF AtHeapTop
  <2>2. CASE ~ last
    <3>1. HandedOver /\ Given = obj BY <2>2 DEF HandedOver, Given
    <3>2. Working /\ Current = count + 2 BY <3>1 DEF InBuffer, Ahead
    <3>3. Current <= N BY <3>2, Basics
    <3> QED BY <1>1, <2>2, <3>1, <3>2, <3>3, PlacesDiffer DEF InBuffer
  <2> QED BY <2>1, <2>2 DEF TypeOK
<1>3. Content(file, count + 1) # <<>>
  <2>1. PICK n \in 1 .. ObjectCount(file) : n = count + 1 BY <1>1 DEF N
  <2>2. HEADER + DataSize(file, n) \in Nat /\ HEADER + DataSize(file, n) > 0 BY <1>1, FileFacts
  <2>3. Len(Content(file, n)) # 0 BY <2>2 DEF Content
  <2> QED BY <2>1, <2>3
<1> QED BY <1>1, <1>2, <1>3

LEMMA StreamStep ==
    ASSUME DgoInv, [Next]_vars
    PROVE  [Stream!StreamNext]_(Stream!streamVars)
<1> USE DEF DgoInv
<1>0. NoFile \notin Files /\ (file \in Files => N \in Nat /\ N > 0) BY Basics
\* These leave everything that ObjectStream sees as it is.
<1>1. CASE StateMachine \/ DgoThread \/ UNCHANGED vars
  <2>1. UNCHANGED <<ee, file, obj, count>> /\ rpc'.fno = rpc.fno
    BY <1>1, IopFrame DEF vars, eeVars
  <2>2. ee = "linking" => mem'[obj'] = mem[obj]
    <3>1. ASSUME ee = "linking" PROVE mem'[obj] = mem[obj]
      BY <3>1, LinkingIsWhole, WritesWhileLinking
    <3> QED BY <2>1, <3>1
  <2> QED BY <2>1, <2>2 DEF Stream!streamVars, Cancelling
<1>2. CASE ContinueLoadingDGO
  BY <1>2 DEF ContinueLoadingDGO, Call, Stream!streamVars, Cancelling
<1>3. CASE SyncAfterCancel
  BY <1>3 DEF SyncAfterCancel, Stream!streamVars, Cancelling
<1>4. CASE EmptyHeap
  BY <1>4 DEF EmptyHeap, Stream!streamVars, Cancelling
<1>5. ASSUME NEW f \in Files, BeginLoadingDGO(f) PROVE Stream!BeginLoad(f)
  <2>1. ee = "idle" /\ file = NoFile /\ count = 0 BY <1>5 DEF BeginLoadingDGO, Calls
  <2> QED BY <1>5, <2>1 DEF BeginLoadingDGO, Call, Stream!BeginLoad, Cancelling
<1>6. CASE GetNextDGO
  <2>1. /\ ee = "waiting" /\ rpc.phase = "idle" /\ rpc.fno # "CANCEL" /\ ~ Cancelling
        /\ UNCHANGED <<rpc, mem, heap>>
    BY <1>6 DEF GetNextDGO, Cancelling, smVars
  <2>2. file \in Files /\ count \in Nat /\ count < N BY <2>1 DEF Calls, TypeOK
  <2>3. CASE rpc.result \in {"MORE", "DONE"}
    <3>1. ee' = "linking" /\ obj' = rpc.buffer1 /\ UNCHANGED <<file, count>> /\ ~ Cancelling'
      BY <1>6, <2>3 DEF GetNextDGO, Cancelling
    <3>2. DgoInv' BY <1>6, GetNextInv
    <3>3. mem'[obj'] = Content(file, count + 1)
      <4>1. CASE rpc.result = "MORE"
        <5>1. HandedOver /\ Given = rpc.buffer1 BY <2>1, <4>1 DEF HandedOver, Given
        <5> QED BY <2>1, <3>1, <5>1 DEF InBuffer
      <4>2. CASE rpc.result = "DONE"
        <5>1. Finished /\ rpc.buffer1 = Top(heap) BY <2>1, <4>2 DEF Finished, AtHeapTop
        <5> QED BY <2>1, <3>1, <5>1 DEF AtHeapTop
      <4> QED BY <2>3, <4>1, <4>2
    <3>4. Stream!HandOver
      BY <1>0, <2>1, <2>2, <3>1, <3>3 DEF Stream!HandOver, N
    <3> QED BY <3>4 DEF Stream!StreamNext
  <2>4. CASE rpc.result \notin {"MORE", "DONE"}
    <3>1. ee' = "idle" /\ file' = NoFile /\ count' = 0 /\ ~ Cancelling'
      BY <1>6, <2>4 DEF GetNextDGO, Cancelling
    <3>2. Stream!GiveUp BY <1>0, <2>1, <2>2, <3>1 DEF Stream!GiveUp
    <3> QED BY <3>2 DEF Stream!StreamNext
  <2> QED BY <2>3, <2>4
<1>7. CASE FinishLink
  <2>1. ee = "linking" /\ ~ Cancelling /\ UNCHANGED rpc BY <1>7 DEF FinishLink, Cancelling
  <2>2. /\ mem[obj] # <<>> /\ file \in Files /\ count \in Nat /\ N \in Nat
        /\ IF last THEN count + 1 = N ELSE count + 1 < N
    BY <2>1, LinkingIsWhole
  <2>3. CASE last
    <3>1. ee' = "idle" /\ file' = NoFile /\ count' = 0 /\ ~ Cancelling'
      BY <1>7, <2>3 DEF FinishLink, Cancelling
    <3>2. Stream!LinkLast BY <2>1, <2>2, <2>3, <3>1 DEF Stream!LinkLast, N
    <3> QED BY <3>2 DEF Stream!StreamNext
  <2>4. CASE ~ last
    <3>1. ee' = "linked" /\ file' = file /\ count' = count + 1 /\ ~ Cancelling'
      BY <1>7, <2>4 DEF FinishLink, Cancelling
    <3>2. Stream!LinkNext BY <2>1, <2>2, <2>4, <3>1 DEF Stream!LinkNext, N
    <3> QED BY <3>2 DEF Stream!StreamNext
  <2> QED BY <2>3, <2>4
<1>8. CASE DgoLoadCancel
  <2>1. ee \in {"linking", "linked"} /\ ee' = "waiting" /\ ~ Cancelling /\ Cancelling'
    BY <1>8 DEF DgoLoadCancel, Call, Cancelling
  <2>2. file \in Files BY <2>1 DEF Calls
  <2>3. Stream!GiveUp BY <1>0, <2>1, <2>2 DEF Stream!GiveUp
  <2> QED BY <2>3 DEF Stream!StreamNext
<1> QED BY <1>1, <1>2, <1>3, <1>4, <1>5, <1>6, <1>7, <1>8 DEF Next, Loader, Stream!StreamNext

\* However the file is laid out and wherever its pages break, the loader
\* implements ObjectStream.
THEOREM LoadImplementsObjectStream == Spec => ImplementsObjectStream
<1>1. DgoInv /\ [Next]_vars => [Stream!StreamNext]_(Stream!streamVars) BY StreamStep
<1> QED BY DgoInitInv, DgoNextInv, StreamInitRefines, <1>1, PTL
    DEF Spec, ImplementsObjectStream, Stream!StreamSpec
===============================================================================
