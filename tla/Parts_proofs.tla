----------------------------- MODULE Parts_proofs -----------------------------
(***************************************************************************)
(* The sequential parts that keep state between calls, for any sizes of    *)
(* their tables and any number of calls: the services answer with the file *)
(* they were asked about and their caches never go back to older contents  *)
(* (Services); a symbol keeps its slot for ever (SymbolTable); a type has  *)
(* the methods it inherits and keeps those it overrides (TypeTable); the   *)
(* two ends of a heap never cross and two live blocks never share an       *)
(* address, provided that no request is larger than the heaps' base        *)
(* addresses, RequestsBelowBase (KHeap).                                   *)
(***************************************************************************)
EXTENDS KHeap, Services, SymbolTable, TypeTable, SequenceTheorems, FiniteSetTheorems, WellFoundedInduction, TLAPS

-------------------------------------------------------------------------------
(* Least elements.                                                         *)

\* A set of subsets of a finite set has a member that contains no other.
LEMMA MinimalMember ==
    ASSUME NEW S, IsFiniteSet(S), NEW F \in SUBSET (SUBSET S), F # {}
    PROVE  \E x \in F : \A y \in F : y \subseteq x => y = x
<1>1. IsWellFoundedOn(StrictSubsetOrdering(S), SUBSET S)
  BY FS_StrictSubsetOrderingWellFounded, FS_FiniteSubsetsOfFinite
<1>2. PICK x \in F : \A y \in F : ~ (<<y, x>> \in StrictSubsetOrdering(S))
  BY <1>1, WFMin
<1>3. ASSUME NEW y \in F, y \subseteq x PROVE y = x
  <2>1. <<y, x>> \in (SUBSET S) \X (SUBSET S) OBVIOUS
  <2> QED BY <1>2, <1>3, <2>1 DEF StrictSubsetOrdering
<1> QED BY <1>3

\* A non-empty set of numbers from an interval has a least one.
LEMMA LeastElement ==
    ASSUME NEW a \in Int, NEW b \in Int, NEW T, T \subseteq a .. b, T # {}
    PROVE  \E x \in T : \A y \in T : x <= y
<1> DEFINE UpTo(x) == {y \in T : y <= x}
           F == {UpTo(x) : x \in T}
           S == a .. b
<1>0. \A z \in T : z \in Int OBVIOUS
<1>1. F \in SUBSET (SUBSET S) /\ F # {} OBVIOUS
<1>2. IsFiniteSet(S) BY FS_Interval
<1>3. \E u \in F : \A v \in F : v \subseteq u => v = u
  <2> HIDE DEF F, S
  <2> QED BY <1>1, <1>2, MinimalMember
<1>4. PICK x \in T : \A y \in T : UpTo(y) \subseteq UpTo(x) => UpTo(y) = UpTo(x)
  <2>1. PICK u \in F : \A v \in F : v \subseteq u => v = u BY <1>3
  <2>2. PICK x \in T : u = UpTo(x) BY <2>1
  <2>3. \A y \in T : UpTo(y) \in F OBVIOUS
  <2> HIDE DEF UpTo, F
  <2> QED BY <2>1, <2>2, <2>3
<1>5. ASSUME NEW y \in T, ~ (x <= y) PROVE FALSE
  <2>1. x \in Int /\ y \in Int BY <1>0
  <2>2. \A z \in T : z <= y => z <= x BY <1>0, <1>5, <2>1
  <2>3. x <= x /\ ~ (x <= y) BY <1>5, <2>1
  <2>4. UpTo(y) \subseteq UpTo(x) /\ x \in UpTo(x) /\ x \notin UpTo(y) BY <1>4, <2>2, <2>3, Zenon
  <2> QED BY <1>4, <2>4
<1> QED BY <1>5

-------------------------------------------------------------------------------
(* The cache of chunk headers.                                             *)

Entry == [fr : DiscFiles \cup {NoFile}, countdown : Int, header : DiscFiles \cup {NoFile}, failed : BOOLEAN]

StrTypeOK ==
    /\ sCache \in [Entries -> Entry]
    /\ newest \in 0 .. STR_INDEX_CACHE_SIZE

\* An entry has the header of the file that it is recorded for, unless its load failed.
HeadersMatch == \A i \in Entries : sCache[i].failed \/ sCache[i].header = sCache[i].fr

\* The entry that was just filled has the highest count, alone.
NewestIsFresh ==
    /\ \A i \in Entries : sCache[i].countdown <= Fresh
    /\ newest # 0 => \A i \in Entries \ {newest} : sCache[i].countdown < sCache[newest].countdown

StrInv == StrTypeOK /\ HeadersMatch /\ NewestIsFresh /\ ChunkUsesItsHeader

\* The sizes are positive numbers, and the cache has more than one entry.
LEMMA ServicesSizes ==
    /\ STR_INDEX_CACHE_SIZE \in Nat /\ STR_INDEX_CACHE_SIZE > 1
    /\ Fresh \in Nat /\ Fresh > 0
    /\ RAMDISK_SIZE \in Nat /\ RAMDISK_SIZE > 0 /\ CommandSize \in Nat
BY ServicesAssumption

\* The entry that makes room is one with the lowest count.
LEMMA OldestEntry ==
    ASSUME NEW cache \in [Entries -> Entry]
    PROVE  /\ Oldest(cache) \in Entries
           /\ \A j \in Entries : cache[Oldest(cache)].countdown <= cache[j].countdown
<1> DEFINE Less(j, i) == \/ cache[j].countdown < cache[i].countdown
                         \/ cache[j].countdown = cache[i].countdown /\ j < i
           Below(i) == {j \in Entries : Less(j, i)}
           F == {Below(i) : i \in Entries}
           S == Entries
<1>1. \A i \in Entries : i \in Int /\ cache[i].countdown \in Int BY ServicesSizes DEF Entries, Entry
<1>2. F \in SUBSET (SUBSET S) /\ F # {} /\ IsFiniteSet(S)
  <2>1. 1 \in Entries BY ServicesSizes DEF Entries
  <2>2. IsFiniteSet(Entries) BY FS_Interval, ServicesSizes DEF Entries
  <2> QED BY <2>1, <2>2
<1>3. PICK u \in F : \A v \in F : v \subseteq u => v = u
  <2> HIDE DEF F, S
  <2> QED BY <1>2, MinimalMember
<1>4. PICK i \in Entries : u = Below(i) BY <1>3
<1>5. ASSUME NEW j \in Entries PROVE ~ Less(j, i)
  <2> SUFFICES ASSUME Less(j, i) PROVE FALSE OBVIOUS
  <2>1. \A k \in Entries : Less(k, j) => Less(k, i) BY <1>1, <1>4
  <2>2. ~ Less(j, j) BY <1>1
  <2> HIDE DEF Less
  <2>3. Below(j) \subseteq Below(i) /\ Below(j) # Below(i) BY <2>1, <2>2
  <2> QED BY <1>3, <1>4, <2>3
<1>6. \E k \in Entries : \A j \in Entries :
          \/ cache[k].countdown < cache[j].countdown
          \/ cache[k].countdown = cache[j].countdown /\ k <= j
  BY <1>1, <1>4, <1>5
<1>7. /\ Oldest(cache) \in Entries
      /\ \A j \in Entries : \/ cache[Oldest(cache)].countdown < cache[j].countdown
                            \/ cache[Oldest(cache)].countdown = cache[j].countdown /\ Oldest(cache) <= j
  <2> DEFINE P(k) == \A j \in Entries : \/ cache[k].countdown < cache[j].countdown
                                        \/ cache[k].countdown = cache[j].countdown /\ k <= j
  <2>1. \E k \in Entries : P(k) BY <1>6
  <2>2. Oldest(cache) = CHOOSE k \in Entries : P(k) BY DEF Oldest
  <2> HIDE DEF P
  <2>3. Oldest(cache) \in Entries /\ P(Oldest(cache)) BY <2>1, <2>2, Zenon
  <2> QED BY <2>3 DEF P
<1> QED BY <1>1, <1>7

\* Counting down changes no file and no header.
LEMMA CountedEntries ==
    ASSUME StrTypeOK, NEW file
    PROVE  /\ Counted(file) \in [Entries -> Entry]
           /\ \A i \in Entries : /\ Counted(file)[i].fr = sCache[i].fr
                                 /\ Counted(file)[i].header = sCache[i].header
                                 /\ Counted(file)[i].failed = sCache[i].failed
                                 /\ Counted(file)[i].countdown <= sCache[i].countdown
                                 /\ Passed(file) = Entries =>
                                        Counted(file)[i].countdown = sCache[i].countdown - 1
BY DEF StrTypeOK, Counted, Entry

\* A chunk of a file in the cache.
LEMMA HitInv ==
    ASSUME StrInv, NEW file \in DiscFiles, str_hit(file)
    PROVE  StrInv' /\ \A i \in Entries : sCache'[i].fr = sCache[i].fr
<1>1. sCache' = Counted(file) /\ newest' = 0 BY DEF str_hit
<1>2. StrTypeOK' BY <1>1, CountedEntries, ServicesSizes DEF StrInv, StrTypeOK
<1>3. \A i \in Entries : sCache[i].countdown \in Int /\ Counted(file)[i].countdown \in Int
  BY CountedEntries DEF StrInv, StrTypeOK, Entry
<1>4. HeadersMatch' BY <1>1, CountedEntries DEF StrInv, HeadersMatch
<1>5. NewestIsFresh' BY <1>1, <1>3, CountedEntries, ServicesSizes DEF StrInv, NewestIsFresh
<1>6. ChunkUsesItsHeader'
  BY DEF StrInv, StrTypeOK, HeadersMatch, ChunkUsesItsHeader, str_hit, Chunk
<1> QED BY <1>1, <1>2, <1>4, <1>5, <1>6, CountedEntries DEF StrInv

\* A chunk of a file that is not: the entry that makes room is not the newest.
LEMMA MissInv ==
    ASSUME StrInv, NEW file \in DiscFiles, str_miss(file)
    PROVE  StrInv' /\ (newest # 0 => sCache'[newest].fr = sCache[newest].fr)
<1> DEFINE cache == Counted(file)
           i == Oldest(cache)
<1>1. /\ cache \in [Entries -> Entry] /\ i \in Entries
      /\ \A j \in Entries : /\ cache[i].countdown <= cache[j].countdown
                             /\ cache[j].countdown = sCache[j].countdown - 1
                             /\ cache[j].fr = sCache[j].fr /\ cache[j].header = sCache[j].header
                             /\ cache[j].failed = sCache[j].failed
  BY CountedEntries, OldestEntry DEF StrInv, str_miss
<1>2. /\ newest' = i
      /\ \E new \in Entry : /\ new.fr = file /\ new.countdown = Fresh /\ (new.failed \/ new.header = file)
                            /\ sCache' = [cache EXCEPT ![i] = new]
                            /\ chunk' = Chunk(file, new) \/ chunk' = chunk
  <2>1. cache[i] \in Entry BY <1>1
  <2>2. newest' = i BY DEF str_miss
  <2>3. ASSUME NEW header \in DiscFiles \cup {NoFile}, NEW failed \in BOOLEAN, failed \/ header = file,
               LET new == [Recorded(cache[i], file) EXCEPT !.header = header, !.failed = failed]
               IN  sCache' = [cache EXCEPT ![i] = new] /\ (chunk' = Chunk(file, new) \/ chunk' = chunk)
        PROVE  \E new \in Entry : /\ new.fr = file /\ new.countdown = Fresh /\ (new.failed \/ new.header = file)
                                  /\ sCache' = [cache EXCEPT ![i] = new]
                                  /\ chunk' = Chunk(file, new) \/ chunk' = chunk
    <3>0. PICK entry \in Entry : entry = cache[i] BY <2>1
    <3>r. PICK rec : rec = Recorded(entry, file) OBVIOUS
    <3>1. PICK new : new = [rec EXCEPT !.header = header, !.failed = failed] OBVIOUS
    <3>2. sCache' = [cache EXCEPT ![i] = new] /\ (chunk' = Chunk(file, new) \/ chunk' = chunk)
      BY <2>3, <3>0, <3>r, <3>1
    <3> HIDE DEF cache, i
    <3>3. /\ new \in Entry /\ new.fr = file /\ new.countdown = Fresh
          /\ new.header = header /\ new.failed = failed
      <4>0. file \in DiscFiles \cup {NoFile} /\ Fresh \in Int BY ServicesSizes
      <4>1. rec \in Entry BY <3>r, <4>0 DEF Recorded, Entry
      <4>2. rec.fr = file /\ rec.countdown = Fresh BY <3>r DEF Recorded, Entry
      <4>3. new \in Entry BY <3>1, <4>1 DEF Entry
      <4>4. new.fr = rec.fr /\ new.countdown = rec.countdown BY <3>1, <4>1 DEF Entry
      <4>5. new.header = header /\ new.failed = failed BY <3>1, <4>1 DEF Entry
      <4> QED BY <4>2, <4>3, <4>4, <4>5
    <3> QED BY <2>3, <3>2, <3>3
  <2>4. cache[i].header \in DiscFiles \cup {NoFile} BY <2>1 DEF Entry
  <2>5. \/ LET new == [Recorded(cache[i], file) EXCEPT !.header = file, !.failed = FALSE]
           IN  sCache' = [cache EXCEPT ![i] = new] /\ (chunk' = Chunk(file, new) \/ chunk' = chunk)
        \/ \E header \in {cache[i].header, NoFile} :
               LET new == [Recorded(cache[i], file) EXCEPT !.header = header, !.failed = TRUE]
               IN  sCache' = [cache EXCEPT ![i] = new] /\ (chunk' = Chunk(file, new) \/ chunk' = chunk)
    BY DEF str_miss
  <2> QED BY <2>2, <2>3, <2>4, <2>5
<1>3. \A j \in Entries : sCache[j].countdown \in Int /\ j \in Int
  BY ServicesSizes DEF StrInv, StrTypeOK, Entry, Entries
<1> HIDE DEF cache, i
<1>4. StrTypeOK'
  BY <1>1, <1>2, ServicesSizes DEF StrTypeOK, Entry, Entries
<1>5. HeadersMatch' BY <1>1, <1>2 DEF StrInv, HeadersMatch
<1>6. NewestIsFresh'
  <2>1. \A j \in Entries : sCache'[j].countdown = IF j = i THEN Fresh ELSE sCache[j].countdown - 1
    BY <1>1, <1>2
  <2>2. \A j \in Entries : sCache[j].countdown <= Fresh BY DEF StrInv, NewestIsFresh
  <2> QED BY <1>1, <1>2, <1>3, <2>1, <2>2, ServicesSizes DEF NewestIsFresh
<1>7. ChunkUsesItsHeader' BY <1>2 DEF StrInv, ChunkUsesItsHeader, Chunk
<1>8. newest # 0 => newest # i
  <2> SUFFICES ASSUME newest # 0, newest = i PROVE FALSE OBVIOUS
  <2>1. PICK j \in Entries : j # newest BY ServicesSizes DEF Entries
  <2>2. sCache[j].countdown < sCache[newest].countdown BY <2>1 DEF StrInv, NewestIsFresh
  <2> QED BY <1>1, <1>3, <2>1, <2>2
<1>9. newest # 0 => newest \in Entries BY ServicesSizes DEF StrInv, StrTypeOK, Entries
<1> QED BY <1>1, <1>2, <1>4, <1>5, <1>6, <1>7, <1>8, <1>9 DEF StrInv

\* STR keeps its invariant, and a step of another service leaves its state alone.
LEMMA StrStep ==
    ASSUME StrInv, [ServicesNext]_servicesVars
    PROVE  StrInv' /\ (newest # 0 => sCache'[newest].fr = sCache[newest].fr)
<1>1. CASE UNCHANGED strVars
  BY <1>1 DEF strVars, StrInv, StrTypeOK, HeadersMatch, NewestIsFresh, ChunkUsesItsHeader
<1>2. ASSUME NEW file \in DiscFiles, str_hit(file) PROVE StrInv' /\ (newest # 0 => sCache'[newest].fr = sCache[newest].fr)
  <2>1. newest # 0 => newest \in Entries BY ServicesSizes DEF StrInv, StrTypeOK, Entries
  <2> QED BY <1>2, <2>1, HitInv
<1>3. ASSUME NEW file \in DiscFiles, str_miss(file) PROVE StrInv' /\ (newest # 0 => sCache'[newest].fr = sCache[newest].fr)
  BY <1>3, MissInv
<1>4. UNCHANGED strVars \/ \E file \in DiscFiles : str_hit(file) \/ str_miss(file)
  BY DEF ServicesNext, StrNext, RamdiskNext, HostNext, str_whole, servicesVars
<1> QED BY <1>1, <1>2, <1>3, <1>4

-------------------------------------------------------------------------------
(* The ramdisk.                                                            *)

\* The file that was loaded last is the only one, from the start of the memory.
RamdiskInv ==
    /\ DOMAIN gMem = 0 .. RAMDISK_SIZE - 1 /\ DOMAIN gFiles = Slots
    /\ stored.file # NoFile =>
          /\ stored.file \in DiscFiles /\ FileLength[stored.file] <= RAMDISK_SIZE
          /\ gNumFiles = 1 /\ gFiles[0].id = stored.id
          /\ \A a \in 0 .. FileLength[stored.file] - 1 : gMem[a] = <<stored.file, a>>

LEMMA LoadInv ==
    ASSUME RamdiskInv, NEW id \in RamdiskIds, NEW file \in DiscFiles, RESET_AND_LOAD(id, file)
    PROVE  RamdiskInv'
<1>0. /\ RAMDISK_SIZE \in Nat /\ FileLength[file] \in Nat /\ NoFile \notin DiscFiles /\ 0 \in Slots
  BY ServicesAssumption DEF Slots
<1>1. CASE stored'.file = NoFile
  <2>1. DOMAIN gFiles' = Slots BY <1>1 DEF RamdiskInv, RESET_AND_LOAD
  <2>2. DOMAIN gMem' = 0 .. RAMDISK_SIZE - 1 BY <1>1 DEF RamdiskInv, RESET_AND_LOAD, Loaded
  <2> QED BY <1>1, <2>1, <2>2 DEF RamdiskInv
<1>2. CASE stored'.file # NoFile
  <2>1. /\ FileLength[file] <= RAMDISK_SIZE
        /\ gFiles' = [gFiles EXCEPT ![0] = [size |-> RoundUp(FileLength[file]), id |-> id]]
        /\ gNumFiles' = 1 /\ gMem' = Loaded(file, 0) /\ stored' = [id |-> id, file |-> file]
    BY <1>2 DEF RESET_AND_LOAD, ramdisk_reset
  <2>2. DOMAIN gFiles' = Slots /\ gFiles'[0].id = id BY <1>0, <2>1 DEF RamdiskInv
  <2>3. DOMAIN gMem' = 0 .. RAMDISK_SIZE - 1 BY <2>1 DEF RamdiskInv, Loaded
  <2>4. \A a \in 0 .. FileLength[file] - 1 : gMem'[a] = <<file, a>>
    <3> TAKE a \in 0 .. FileLength[file] - 1
    <3>1. a \in DOMAIN gMem /\ a - 0 = a BY <1>0, <2>1 DEF RamdiskInv
    <3> QED BY <2>1, <3>1 DEF Loaded
  <2>5. stored'.file = file /\ stored'.id = id BY <2>1
  <2> QED BY <1>0, <2>1, <2>2, <2>3, <2>4, <2>5 DEF RamdiskInv
<1> QED BY <1>1, <1>2

\* What a request gets: the file that was loaded last.
LEMMA GetServesLatest ==
    ASSUME RamdiskInv, NEW id \in RamdiskIds, NEW offset \in 0 .. 1, GET_DATA(id, offset), stored.file # NoFile
    PROVE  /\ served'.id = stored.id
           /\ \A k \in 1 .. CommandSize :
                 served'.offset + k <= FileLength[stored.file] =>
                     served'.bytes[k] = <<stored.file, served'.offset + k - 1>>
<1>0. /\ RAMDISK_SIZE \in Nat /\ FileLength[stored.file] \in Nat /\ CommandSize \in Nat
  BY ServicesAssumption DEF RamdiskInv
<1>1. PICK slot \in Slots :
          /\ slot < gNumFiles /\ gFiles[slot].id = id
          /\ served' = [id |-> id, offset |-> offset,
                        bytes |-> [k \in 1 .. CommandSize |->
                                      LET a == offset + Before(slot) + k - 1
                                      IN IF a \in DOMAIN gMem THEN gMem[a] ELSE NoByte]]
  BY DEF GET_DATA
<1>2. slot = 0 BY <1>1 DEF Slots, RamdiskInv
<1>3. served'.id = id /\ served'.offset = offset BY <1>1
<1>4. ASSUME NEW k \in 1 .. CommandSize, offset + k <= FileLength[stored.file]
      PROVE  served'.bytes[k] = <<stored.file, offset + k - 1>>
  <2>1. offset + Before(slot) + k - 1 = offset + k - 1 BY <1>0, <1>2 DEF Before
  <2>2. offset + k - 1 \in 0 .. FileLength[stored.file] - 1 BY <1>0, <1>4
  <2>3. offset + k - 1 \in DOMAIN gMem BY <1>0, <2>2 DEF RamdiskInv
  <2>4. served'.bytes[k] = gMem[offset + k - 1] BY <1>1, <2>1, <2>3
  <2> QED BY <2>2, <2>4 DEF RamdiskInv
<1> QED BY <1>1, <1>2, <1>3, <1>4 DEF RamdiskInv

LEMMA RamdiskStep ==
    ASSUME RamdiskInv, [ServicesNext]_servicesVars
    PROVE  /\ RamdiskInv'
           /\ served' # served /\ stored.file # NoFile =>
                 /\ served'.id = stored.id
                 /\ \A k \in 1 .. CommandSize :
                       served'.offset + k <= FileLength[stored.file] =>
                           served'.bytes[k] = <<stored.file, served'.offset + k - 1>>
<1>1. CASE UNCHANGED ramdiskVars BY <1>1 DEF ramdiskVars, RamdiskInv
<1>2. CASE RESET_ONLY BY <1>2 DEF RESET_ONLY, RamdiskInv
<1>3. ASSUME NEW id \in RamdiskIds, NEW file \in DiscFiles, RESET_AND_LOAD(id, file)
      PROVE  RamdiskInv' /\ served' = served
  BY <1>3, LoadInv DEF RESET_AND_LOAD
<1>4. ASSUME NEW id \in RamdiskIds, NEW offset \in 0 .. 1, GET_DATA(id, offset)
      PROVE  RamdiskInv'
  BY <1>4 DEF GET_DATA, RamdiskInv
<1>5. \/ UNCHANGED ramdiskVars \/ RESET_ONLY
      \/ \E id \in RamdiskIds, file \in DiscFiles : RESET_AND_LOAD(id, file)
      \/ \E id \in RamdiskIds, offset \in 0 .. 1 : GET_DATA(id, offset)
  BY DEF ServicesNext, StrNext, RamdiskNext, HostNext, ramdisk_other, servicesVars
<1> QED BY <1>1, <1>2, <1>3, <1>4, <1>5, GetServesLatest

-------------------------------------------------------------------------------
(* Host files.                                                             *)

\* A number that two streams share would be closed under one of them.
HostInv ==
    /\ IsFiniteSet(Fds)
    /\ stream \in [Streams -> [file : Int, name : DiscFiles \cup {NoFile}, flags : {0, 1}]]
    /\ nested => /\ Fds = 1 .. Cardinality(Fds)
                 /\ \A s, t \in Streams : s # t /\ stream[s].file # -1 => stream[s].file # stream[t].file
    /\ StreamReadsItsFile

\* The next number is one that no file has, while files are closed in order.
LEMMA NextNumber ==
    ASSUME HostInv
    PROVE  sceOpen \in Nat \ {0} /\ (nested => sceOpen \notin Fds)
<1>1. Cardinality(Fds) \in Nat BY FS_CardinalityType DEF HostInv
<1> QED BY <1>1 DEF HostInv, sceOpen

LEMMA OpenInv ==
    ASSUME HostInv, NEW s \in Streams, NEW name \in DiscFiles, kopen(s, name),
           nested' => nested /\ Fds' = 1 .. Cardinality(Fds')
    PROVE  HostInv'
<1>0. sceOpen \in Int /\ sceOpen # -1 /\ (nested => sceOpen \notin Fds) BY NextNumber
<1>1. PICK fd \in {sceOpen, -1} :
         /\ stream' = [stream EXCEPT ![s] = [file |-> fd, name |-> name, flags |-> 0]]
         /\ sce_fds' = IF fd = -1 THEN sce_fds ELSE OpenAs(fd, name)
  BY <1>0 DEF kopen
<1> HIDE DEF sceOpen
<1>2. IsFiniteSet(Fds')
  BY <1>1, FS_AddElement DEF HostInv, OpenAs, Fds
<1>3. stream' \in [Streams -> [file : Int, name : DiscFiles \cup {NoFile}, flags : {0, 1}]]
  BY <1>0, <1>1 DEF HostInv
<1>4. ASSUME nested', NEW t \in Streams, stream'[t].file # -1
      PROVE  /\ stream'[t].file \in Fds' /\ sce_fds'[stream'[t].file] = stream'[t].name
             /\ \A u \in Streams : u # t => stream'[t].file # stream'[u].file
  <2>1. /\ \A u \in Streams \ {s} : stream'[u] = stream[u]
        /\ stream'[s].file = fd /\ stream'[s].name = name
    BY <1>1 DEF HostInv
  <2>2. \A u \in Streams : stream[u].file # -1 => stream[u].file \in Fds /\ sce_fds[stream[u].file] = stream[u].name
    BY <1>4 DEF HostInv, StreamReadsItsFile
  <2>3. fd # -1 => fd \notin Fds BY <1>0, <1>1, <1>4
  <2>4. \A f \in Fds : f \in Fds' /\ sce_fds'[f] = sce_fds[f] BY <1>1, <2>3 DEF OpenAs, Fds
  <2>5. fd # -1 => fd \in Fds' /\ sce_fds'[fd] = name BY <1>1 DEF OpenAs, Fds
  <2>6. \A u \in Streams : stream[u].file # fd \/ fd = -1 BY <2>2, <2>3
  <2>7. stream'[t].file \in Fds' /\ sce_fds'[stream'[t].file] = stream'[t].name
    BY <1>4, <2>1, <2>2, <2>4, <2>5
  <2>8. ASSUME NEW u \in Streams, u # t PROVE stream'[t].file # stream'[u].file
    BY <1>4, <2>1, <2>6, <2>8 DEF HostInv
  <2> QED BY <2>7, <2>8
<1> QED BY <1>2, <1>3, <1>4 DEF HostInv, StreamReadsItsFile

LEMMA CloseInv ==
    ASSUME HostInv, NEW s \in Streams, kclose(s),
           nested' => nested /\ Fds' = 1 .. Cardinality(Fds')
    PROVE  HostInv'
<1>1. CASE stream[s].flags # 0
  <2>1. sce_fds' = sce_fds /\ stream' = [stream EXCEPT ![s].flags = 0] BY <1>1 DEF kclose
  <2>2. \A u \in Streams : stream'[u].file = stream[u].file /\ stream'[u].name = stream[u].name
    BY <2>1 DEF HostInv
  <2>3. stream' \in [Streams -> [file : Int, name : DiscFiles \cup {NoFile}, flags : {0, 1}]]
    BY <2>1 DEF HostInv
  <2> QED BY <2>1, <2>2, <2>3 DEF HostInv, StreamReadsItsFile, Fds
<1>2. CASE stream[s].flags = 0
  <2>1. sce_fds' = Without(stream[s].file) /\ stream' = [stream EXCEPT ![s].file = -1] BY <1>2 DEF kclose
  <2>2. /\ \A u \in Streams \ {s} : stream'[u] = stream[u]
        /\ stream'[s].file = -1
    BY <2>1 DEF HostInv
  <2>3. stream' \in [Streams -> [file : Int, name : DiscFiles \cup {NoFile}, flags : {0, 1}]]
    BY <2>1 DEF HostInv
  <2>4. IsFiniteSet(Fds') BY <2>1, FS_RemoveElement DEF HostInv, Without, Fds
  <2>5. \A f \in Fds \ {stream[s].file} : f \in Fds' /\ sce_fds'[f] = sce_fds[f]
    BY <2>1 DEF Without, Fds
  <2>6. ASSUME nested', NEW t \in Streams, stream'[t].file # -1
        PROVE  /\ stream'[t].file \in Fds' /\ sce_fds'[stream'[t].file] = stream'[t].name
               /\ \A u \in Streams : u # t => stream'[t].file # stream'[u].file
    BY <2>2, <2>5, <2>6 DEF HostInv, StreamReadsItsFile
  <2> QED BY <2>3, <2>4, <2>6 DEF HostInv, StreamReadsItsFile
<1> QED BY <1>1, <1>2

LEMMA ReadInv ==
    ASSUME HostInv, NEW s \in Streams, kread(s), nested' => nested
    PROVE  HostInv'
<1>1. sce_fds' = sce_fds /\ stream' = [stream EXCEPT ![s].flags = 1] BY DEF kread
<1>2. \A u \in Streams : stream'[u].file = stream[u].file /\ stream'[u].name = stream[u].name
  BY <1>1 DEF HostInv
<1>3. stream' \in [Streams -> [file : Int, name : DiscFiles \cup {NoFile}, flags : {0, 1}]]
  BY <1>1 DEF HostInv
<1> QED BY <1>1, <1>2, <1>3 DEF HostInv, StreamReadsItsFile, Fds

LEMMA FileLoadInv ==
    ASSUME HostInv, NEW name \in DiscFiles, FileLoad(name),
           nested' => nested /\ Fds' = 1 .. Cardinality(Fds')
    PROVE  HostInv'
<1>0. nested => sceOpen \notin Fds BY NextNumber
<1>1. stream' = stream /\ sce_fds' \in {sce_fds, OpenAs(sceOpen, name)} BY DEF FileLoad
<1> HIDE DEF sceOpen
<1>2. IsFiniteSet(Fds')
  <2>1. IsFiniteSet(Fds \cup {sceOpen}) BY FS_AddElement DEF HostInv
  <2>2. Fds' = Fds \/ Fds' = Fds \cup {sceOpen} BY <1>1 DEF OpenAs, Fds
  <2> QED BY <2>1, <2>2 DEF HostInv
<1>3. nested => \A f \in Fds : f \in Fds' /\ sce_fds'[f] = sce_fds[f] BY <1>0, <1>1 DEF OpenAs, Fds
<1> QED BY <1>1, <1>2, <1>3 DEF HostInv, StreamReadsItsFile

LEMMA HostStep ==
    ASSUME HostInv, [ServicesNext]_servicesVars
    PROVE  HostInv'
<1>1. CASE UNCHANGED hostVars BY <1>1 DEF hostVars, HostInv, StreamReadsItsFile, Fds
<1>2. CASE HostNext
  <2>1. nested' => nested /\ Fds' = 1 .. Cardinality(Fds') BY <1>2 DEF HostNext
  <2>2. \/ \E s \in Streams : kread(s) \/ kclose(s) \/ \E name \in DiscFiles : kopen(s, name)
        \/ \E name \in DiscFiles : FileLoad(name)
    BY <1>2 DEF HostNext
  <2> QED BY <2>1, <2>2, OpenInv, CloseInv, ReadInv, FileLoadInv
<1> QED BY <1>1, <1>2 DEF ServicesNext, StrNext, RamdiskNext, servicesVars

-------------------------------------------------------------------------------
(* The three services together.                                            *)

ServicesInv == StrInv /\ RamdiskInv /\ HostInv

LEMMA ServicesInitially == ServicesInit => ServicesInv
<1> SUFFICES ASSUME ServicesInit PROVE ServicesInv OBVIOUS
<1>1. StrInv
  BY ServicesSizes DEF ServicesInit, StrInit, StrInv, StrTypeOK, Entry, HeadersMatch, NewestIsFresh, ChunkUsesItsHeader
<1>2. RamdiskInv BY DEF ServicesInit, InitRamdisk, RamdiskInv
<1>3. HostInv
  <2>1. Fds = {} /\ IsFiniteSet({}) /\ Cardinality({}) = 0
    BY FS_EmptySet DEF ServicesInit, HostInit, Fds
  <2> QED BY <2>1 DEF ServicesInit, HostInit, HostInv, NoStream, StreamReadsItsFile
<1> QED BY <1>1, <1>2, <1>3 DEF ServicesInv

\* RPC_STR and the file streams answer with the file they were asked about,
\* for any number of cached headers, files, streams and calls.
THEOREM ServicesSafety == ServicesSpec => []ServedAsAsked
<1>1. ServicesInv /\ [ServicesNext]_servicesVars => ServicesInv'
  BY StrStep, RamdiskStep, HostStep DEF ServicesInv
<1>2. ServicesInv => ServedAsAsked BY DEF ServicesInv, StrInv, HostInv, ServedAsAsked
<1> QED BY ServicesInitially, <1>1, <1>2, PTL DEF ServicesSpec

\* No step of the services throws out the header that the step before it
\* loaded, and what the ramdisk serves is what was loaded into it last.
THEOREM CachesSafety == ServicesSpec => CachesServeLatest
<1>1. ServicesInv /\ [ServicesNext]_servicesVars => ServicesInv'
  BY StrStep, RamdiskStep, HostStep DEF ServicesInv
<1>2. ServicesInv /\ [ServicesNext]_servicesVars =>
          [newest # 0 => sCache'[newest].fr = sCache[newest].fr]_servicesVars
  BY StrStep DEF ServicesInv
<1>3. ServicesInv /\ [ServicesNext]_servicesVars =>
          [served' # served /\ stored.file # NoFile =>
              /\ served'.id = stored.id
              /\ \A k \in 1 .. CommandSize :
                    served'.offset + k <= FileLength[stored.file] =>
                        served'.bytes[k] = <<stored.file, served'.offset + k - 1>>]_servicesVars
  BY RamdiskStep DEF ServicesInv
<1> QED BY ServicesInitially, <1>1, <1>2, <1>3, PTL
        DEF ServicesSpec, CachesServeLatest, NewestHeaderStays, RamdiskServesLatest

-------------------------------------------------------------------------------
(* The symbol table.                                                       *)

\* The slots where a search looks first, and those where it goes on.
FirstArea(name) == hashed[name] .. (IF hashed[name] > 0 THEN LastSymbol ELSE LowerEnd) - 1
SecondArea(name) ==
    SecondStart(hashed[name]) .. (IF SecondStart(hashed[name]) < 0 THEN LowerEnd ELSE LastSymbol) - 1

Passes(name, s) == table[s] # name /\ table[s] # NoName

\* A search for the name gets as far as this slot.
Reaches(name, s) ==
    \/ s \in FirstArea(name) /\ \A t \in FirstArea(name) : t < s => Passes(name, t)
    \/ /\ \A t \in FirstArea(name) : Passes(name, t)
       /\ s \in SecondArea(name) /\ \A t \in SecondArea(name) : t < s => Passes(name, t)

TableTypeOK ==
    /\ hashed \in [Names \cup Fixed -> TableSlots]
    /\ table \in [TableSlots -> Names \cup Fixed \cup {NoName}]
    /\ interned \in [Names -> TableSlots \cup {Null}]

\* The fixed symbols are where compiled code expects them, and nowhere else.
FixedInPlace ==
    /\ \A s \in 0 .. FixedEnd - 1 : table[s] = FixedNames[s + 1]
    /\ \A s \in TableSlots : table[s] \in Fixed => s \in 0 .. FixedEnd - 1

\* A name is in the table exactly where intern_from_c put it, and no slot that
\* a search passes on the way there is open.
NamesInPlace ==
    /\ \A n \in Names : interned[n] # Null => table[interned[n]] = n /\ Reaches(n, interned[n])
    /\ \A s \in TableSlots : table[s] \in Names => interned[table[s]] = s

UsedSlots == \A s \in TableSlots : table[s] # NoName => s \notin {-1, -2} /\ s < LastSymbol

TableInv == TableTypeOK /\ FixedInPlace /\ NamesInPlace /\ UsedSlots

\* The numbers of the slots.
LEMMA TableSizes ==
    /\ Half \in Int /\ Half > 2 /\ LastSymbol \in Int /\ LastSymbol <= Half
    /\ FixedEnd \in Int /\ 0 <= FixedEnd /\ FixedEnd <= LastSymbol
    /\ LowerEnd = -2 /\ SymbolTable2 = -Half
    /\ Null \notin TableSlots /\ RanOut \notin TableSlots /\ Null # RanOut
    /\ 0 .. FixedEnd - 1 \subseteq TableSlots
    /\ \A s \in TableSlots : s \in Int
BY SymbolTableAssumption DEF LastSymbol, LowerEnd, SymbolTable2, TableSlots, Null, RanOut

LEMMA TableNames ==
    /\ NoName \notin Names /\ NoName \notin Fixed
    /\ \A n \in Names : n \notin Fixed
    /\ \A s \in 0 .. FixedEnd - 1 : FixedNames[s + 1] \in Fixed
    /\ \A s, t \in 0 .. FixedEnd - 1 : FixedNames[s + 1] = FixedNames[t + 1] => s = t
<1>1. \A s \in 0 .. FixedEnd - 1 : s + 1 \in DOMAIN FixedNames BY SymbolTableAssumption
<1>2. \A s, t \in 0 .. FixedEnd - 1 : FixedNames[s + 1] = FixedNames[t + 1] => s = t
  <2> TAKE s, t \in 0 .. FixedEnd - 1
  <2> HAVE FixedNames[s + 1] = FixedNames[t + 1]
  <2>1. s + 1 = t + 1 BY <1>1, SymbolTableAssumption
  <2>2. s \in Int /\ t \in Int BY SymbolTableAssumption
  <2> QED BY <2>1, <2>2
<1>3. \A s \in 0 .. FixedEnd - 1 : FixedNames[s + 1] \in Fixed BY <1>1 DEF Fixed
<1>4. NoName \notin Names /\ NoName \notin Fixed /\ \A n \in Names : n \notin Fixed
  BY SymbolTableAssumption DEF Fixed
<1> QED BY <1>2, <1>3, <1>4

\* What a search of one area finds.
LEMMA AreaSearch ==
    ASSUME NEW name, NEW start \in Int, NEW end \in Int,
           NEW found, found = find_symbol_in_area(name, start, end)
    PROVE  \/ /\ \A s \in start .. end - 1 : Passes(name, s)
              /\ found.symbol = RanOut /\ found.slot = Null
           \/ \E s \in start .. end - 1 :
                 /\ \A t \in start .. end - 1 : t < s => Passes(name, t)
                 /\ \/ table[s] = name /\ found.symbol = s /\ found.slot = Null
                    \/ /\ table[s] = NoName /\ table[s] # name
                       /\ found.symbol = find_symbol_in_fixed_area(name) /\ found.slot = s
<1> DEFINE stops == {s \in start .. end - 1 : table[s] \in {name, NoName}}
           first == CHOOSE s \in stops : \A t \in stops : s <= t
<1>1. CASE stops = {}
  <2>1. \A s \in start .. end - 1 : Passes(name, s) BY <1>1 DEF Passes
  <2>2. found = [symbol |-> RanOut, slot |-> Null] BY <1>1 DEF find_symbol_in_area
  <2> QED BY <2>1, <2>2
<1>2. CASE stops # {}
  <2>1. stops \subseteq start .. end - 1 OBVIOUS
  <2>2. \E s \in stops : \A t \in stops : s <= t
    <3>1. end - 1 \in Int OBVIOUS
    <3> HIDE DEF stops
    <3> QED BY <1>2, <2>1, <3>1, LeastElement
  <2>3. first \in stops /\ \A t \in stops : first <= t
    <3> HIDE DEF stops
    <3> QED BY <2>2
  <2>4. first \in start .. end - 1 /\ table[first] \in {name, NoName} BY <2>3
  <2>5. ASSUME NEW t \in start .. end - 1, t < first PROVE Passes(name, t)
    <3>1. t \notin stops BY <2>3, <2>4, <2>5
    <3> QED BY <3>1 DEF Passes
  <2>6. found = IF table[first] = name THEN [symbol |-> first, slot |-> Null]
                ELSE [symbol |-> find_symbol_in_fixed_area(name), slot |-> first]
    BY <1>2 DEF find_symbol_in_area
  <2> HIDE DEF first
  <2> QED BY <2>4, <2>5, <2>6
<1> QED BY <1>1, <1>2

\* The areas are slots of the table that a symbol may use.
LEMMA AreaSlots ==
    ASSUME TableTypeOK, NEW name \in Names \cup Fixed
    PROVE  \A s \in FirstArea(name) \cup SecondArea(name) :
               s \in TableSlots /\ s \notin {-1, -2} /\ s < LastSymbol
<1>1. hashed[name] \in TableSlots BY DEF TableTypeOK
<1>2. hashed[name] \in Int /\ -Half <= hashed[name] BY <1>1, TableSizes DEF TableSlots, SymbolTable2
<1>3. \A s \in FirstArea(name) : s \in Int /\ -Half <= s /\ s < LastSymbol /\ s \notin {-1, -2}
  BY <1>2, TableSizes DEF FirstArea
<1>4. \A s \in SecondArea(name) : s \in Int /\ -Half <= s /\ s < LastSymbol /\ s \notin {-1, -2}
  BY <1>2, TableSizes DEF SecondArea, SecondStart
<1> QED BY <1>3, <1>4, TableSizes DEF TableSlots, SymbolTable2

\* A search ends at the first slot that it does not pass, or at none.
LEMMA SearchResult ==
    ASSUME TableTypeOK, NEW name \in Names \cup Fixed, NEW found, found = find_symbol_from_c(name)
    PROVE  \/ \E s \in TableSlots : Reaches(name, s) /\ table[s] = name /\ found.symbol = s
           \/ \E s \in TableSlots :
                 /\ Reaches(name, s) /\ table[s] = NoName /\ s \notin {-1, -2} /\ s < LastSymbol
                 /\ found.symbol = find_symbol_in_fixed_area(name) /\ found.slot = s
           \/ /\ \A t \in FirstArea(name) \cup SecondArea(name) : Passes(name, t)
              /\ found.symbol = find_symbol_in_fixed_area(name) /\ found.slot = Null
<1> DEFINE sh2 == hashed[name]
           e1 == IF sh2 > 0 THEN LastSymbol ELSE LowerEnd
           b2 == SecondStart(sh2)
           e2 == IF b2 < 0 THEN LowerEnd ELSE LastSymbol
<1>1. PICK first : first = find_symbol_in_area(name, sh2, e1) OBVIOUS
<1>2. PICK second : second = find_symbol_in_area(name, b2, e2) OBVIOUS
<1>3. found = IF first.symbol # RanOut THEN first
              ELSE IF second.symbol # RanOut THEN second
              ELSE [symbol |-> find_symbol_in_fixed_area(name), slot |-> Null]
  BY <1>1, <1>2 DEF find_symbol_from_c
<1>4. sh2 \in Int /\ e1 \in Int /\ b2 \in Int /\ e2 \in Int
  <2>1. sh2 \in TableSlots BY DEF TableTypeOK
  <2> QED BY <2>1, TableSizes DEF SecondStart
<1>5. FirstArea(name) = sh2 .. e1 - 1 /\ SecondArea(name) = b2 .. e2 - 1 BY DEF FirstArea, SecondArea
<1> HIDE DEF sh2, e1, b2, e2
<1>6. \/ /\ \A s \in FirstArea(name) : Passes(name, s)
         /\ first.symbol = RanOut /\ first.slot = Null
      \/ \E s \in FirstArea(name) :
            /\ \A t \in FirstArea(name) : t < s => Passes(name, t)
            /\ \/ table[s] = name /\ first.symbol = s /\ first.slot = Null
               \/ /\ table[s] = NoName /\ table[s] # name
                  /\ first.symbol = find_symbol_in_fixed_area(name) /\ first.slot = s
  BY <1>1, <1>4, <1>5, AreaSearch
<1>7. \/ /\ \A s \in SecondArea(name) : Passes(name, s)
         /\ second.symbol = RanOut /\ second.slot = Null
      \/ \E s \in SecondArea(name) :
            /\ \A t \in SecondArea(name) : t < s => Passes(name, t)
            /\ \/ table[s] = name /\ second.symbol = s /\ second.slot = Null
               \/ /\ table[s] = NoName /\ table[s] # name
                  /\ second.symbol = find_symbol_in_fixed_area(name) /\ second.slot = s
  BY <1>2, <1>4, <1>5, AreaSearch
<1>8. find_symbol_in_fixed_area(name) # RanOut
  <2>1. RanOut \notin 0 .. FixedEnd - 1 /\ Null # RanOut BY TableSizes
  <2> QED BY <2>1 DEF find_symbol_in_fixed_area
<1>9. CASE first.symbol = RanOut
  <2>1. \A s \in FirstArea(name) : Passes(name, s) BY <1>6, <1>8, <1>9, AreaSlots, TableSizes
  <2>2. CASE second.symbol = RanOut
    <3>1. \A s \in SecondArea(name) : Passes(name, s) BY <1>7, <1>8, <2>2, AreaSlots, TableSizes
    <3> QED BY <1>3, <1>9, <2>1, <2>2, <3>1
  <2>3. CASE second.symbol # RanOut
    <3>1. found = second BY <1>3, <1>9, <2>3
    <3> QED BY <1>7, <2>1, <2>3, <3>1, AreaSlots DEF Reaches
  <2> QED BY <2>2, <2>3
<1>10. CASE first.symbol # RanOut
  <2>1. found = first BY <1>3, <1>10
  <2> QED BY <1>6, <1>10, <2>1, AreaSlots DEF Reaches
<1> QED BY <1>9, <1>10

\* A search stops at one slot only.
LEMMA OneStop ==
    ASSUME TableTypeOK, NEW name \in Names \cup Fixed, NEW s \in TableSlots, NEW t \in TableSlots,
           Reaches(name, s), ~ Passes(name, s), Reaches(name, t), ~ Passes(name, t)
    PROVE  s = t
<1>1. s \in Int /\ t \in Int BY TableSizes
<1> QED BY <1>1 DEF Reaches

\* A search that reaches the name's slot finds it there.
LEMMA FoundWhereReached ==
    ASSUME TableTypeOK, NEW name \in Names \cup Fixed, NEW s \in TableSlots, table[s] = name, Reaches(name, s)
    PROVE  find_symbol_from_c(name).symbol = s
<1>1. PICK found : found = find_symbol_from_c(name) OBVIOUS
<1>2. name # NoName /\ ~ Passes(name, s) BY TableNames DEF Passes
<1>3. s \in FirstArea(name) \cup SecondArea(name) BY DEF Reaches
<1>4. \A t \in TableSlots : table[t] \in {name, NoName} => ~ Passes(name, t) BY DEF Passes
<1>5. \E t \in TableSlots : Reaches(name, t) /\ table[t] = name /\ found.symbol = t
  BY <1>1, <1>2, <1>3, <1>4, SearchResult, OneStop
<1> QED BY <1>1, <1>2, <1>4, <1>5, OneStop

\* A fixed symbol is found in its place whatever else is in the table.
LEMMA FixedFound ==
    ASSUME TableInv, NEW i \in DOMAIN FixedNames
    PROVE  find_symbol_from_c(FixedNames[i]).symbol = i - 1
<1> DEFINE name == FixedNames[i]
           slot == i - 1
<1>1. i \in 1 .. FixedEnd /\ FixedEnd \in Int BY SymbolTableAssumption
<1>2. slot \in 0 .. FixedEnd - 1 /\ FixedNames[slot + 1] = name BY <1>1
<1> HIDE DEF slot
<1>3. name \in Fixed /\ \A t \in 0 .. FixedEnd - 1 : FixedNames[t + 1] = name => t = slot BY <1>2, TableNames
<1> HIDE DEF name
<1>4. \A s \in TableSlots : table[s] = name => s = slot BY <1>2, <1>3 DEF TableInv, FixedInPlace
<1>5. find_symbol_in_fixed_area(name) = slot
  <2>1. \A s \in 0 .. FixedEnd - 1 : table[s] = name => s = slot BY <1>4, TableSizes
  <2>2. table[slot] = name BY <1>2 DEF TableInv, FixedInPlace
  <2> QED BY <1>2, <2>1, <2>2 DEF find_symbol_in_fixed_area
<1>6. PICK found : found = find_symbol_from_c(name) OBVIOUS
<1>7. found.symbol = slot BY <1>3, <1>4, <1>5, <1>6, SearchResult DEF TableInv
<1> QED BY <1>6, <1>7 DEF name, slot

\* A name that is not in the table is not found, and the slot that it gets is
\* an open one where a search for it ends.
LEMMA NewName ==
    ASSUME TableInv, NEW name \in Names, interned[name] = Null,
           NEW found, found = find_symbol_from_c(name)
    PROVE  /\ found.symbol = Null
           /\ \/ found.slot = Null
              \/ /\ found.slot \in TableSlots /\ table[found.slot] = NoName /\ Reaches(name, found.slot)
                 /\ found.slot \notin {-1, -2} /\ found.slot < LastSymbol
<1>1. \A s \in TableSlots : table[s] # name BY TableSizes DEF TableInv, NamesInPlace, TableTypeOK
<1>2. find_symbol_in_fixed_area(name) = Null BY <1>1, TableSizes DEF find_symbol_in_fixed_area
<1> QED BY <1>1, <1>2, SearchResult DEF TableInv

\* Writing a name into an open slot leaves every earlier search as it was.
LEMMA PutKeepsReach ==
    ASSUME TableTypeOK, NEW name \in Names, NEW slot \in TableSlots, table[slot] = NoName,
           hashed' = hashed, table' = [table EXCEPT ![slot] = name],
           NEW n \in Names, NEW s, Reaches(n, s), n # name \/ s = slot
    PROVE  Reaches(n, s)'
<1>1. \A t \in TableSlots : t # slot => table'[t] = table[t] BY DEF TableTypeOK
<1>2. \A t \in FirstArea(n) \cup SecondArea(n) : t \in TableSlots BY AreaSlots
<1>3. FirstArea(n)' = FirstArea(n) /\ SecondArea(n)' = SecondArea(n)
  BY DEF FirstArea, SecondArea
<1>4. ASSUME NEW t \in FirstArea(n) \cup SecondArea(n), Passes(n, t) PROVE Passes(n, t)'
  <2>1. t # slot BY <1>4 DEF Passes
  <2> QED BY <1>1, <1>2, <1>4, <2>1 DEF Passes
<1> QED BY <1>3, <1>4 DEF Reaches

LEMMA InternInv ==
    ASSUME TableInv, NEW name \in Names, Intern(name)
    PROVE  TableInv'
<1>1. PICK found : found = find_symbol_from_c(name) OBVIOUS
<1>2. /\ found.symbol = Null /\ interned[name] = Null /\ hashed' = hashed
      /\ table' = IF found.slot = Null THEN table ELSE [table EXCEPT ![found.slot] = name]
      /\ interned' = [interned EXCEPT ![name] = found.slot]
  BY <1>1, NewName DEF Intern, intern_from_c
<1>3. CASE found.slot = Null
  <2>1. table' = table /\ interned' = interned BY <1>2, <1>3 DEF TableInv, TableTypeOK
  <2>2. \A n, s : Reaches(n, s)' = Reaches(n, s) BY <1>2, <2>1 DEF Reaches, FirstArea, SecondArea, Passes
  <2> QED BY <1>2, <2>1, <2>2 DEF TableInv, TableTypeOK, FixedInPlace, NamesInPlace, UsedSlots
<1>4. CASE found.slot # Null
  <2>1. PICK slot \in TableSlots : slot = found.slot BY <1>1, <1>2, <1>4, NewName
  <2>2. table[slot] = NoName /\ Reaches(name, slot) /\ slot \notin {-1, -2} /\ slot < LastSymbol
    BY <1>1, <1>2, <1>4, <2>1, NewName
  <2>3. table' = [table EXCEPT ![slot] = name] /\ interned' = [interned EXCEPT ![name] = slot]
    BY <1>2, <1>4, <2>1
  <2>4. /\ table'[slot] = name /\ \A s \in TableSlots \ {slot} : table'[s] = table[s]
        /\ interned'[name] = slot /\ \A n \in Names \ {name} : interned'[n] = interned[n]
    BY <2>3 DEF TableInv, TableTypeOK
  <2>5. TableTypeOK' BY <1>2, <2>3 DEF TableInv, TableTypeOK
  <2>6. FixedInPlace'
    <3>1. slot \notin 0 .. FixedEnd - 1
      BY <2>2, TableNames DEF TableInv, FixedInPlace
    <3> QED BY <2>4, <3>1, TableNames, TableSizes DEF TableInv, FixedInPlace
  <2>7. NamesInPlace'
    <3>1. ASSUME NEW n \in Names, interned'[n] # Null
          PROVE  table'[interned'[n]] = n /\ Reaches(n, interned[n])'
      <4>0. PICK s \in TableSlots : s = interned'[n] BY <2>5, <3>1 DEF TableTypeOK
      <4>r. Reaches(n, s)' => Reaches(n, interned[n])' BY <4>0 DEF Reaches
      <4>1. CASE n = name
        <5>1. s = slot /\ Reaches(n, s) BY <2>2, <2>4, <4>0, <4>1
        <5>2. Reaches(n, s)' BY <1>2, <2>2, <2>3, <4>0, <5>1, PutKeepsReach DEF TableInv
        <5> QED BY <2>4, <4>1, <4>r, <5>2
      <4>2. CASE n # name
        <5>1. interned'[n] = interned[n] /\ interned[n] \in TableSlots /\ table[interned[n]] = n /\ Reaches(n, interned[n])
          BY <2>4, <3>1, <4>2 DEF TableInv, TableTypeOK, NamesInPlace
        <5>2. interned[n] # slot BY <2>2, <5>1, TableNames
        <5>3. Reaches(n, s)' BY <1>2, <2>2, <2>3, <4>0, <4>2, <5>1, PutKeepsReach DEF TableInv
        <5> QED BY <2>4, <4>r, <5>1, <5>2, <5>3
      <4> QED BY <4>1, <4>2
    <3>2. ASSUME NEW s \in TableSlots, table'[s] \in Names PROVE interned'[table'[s]] = s
      <4>1. CASE s = slot BY <2>4, <4>1
      <4>2. CASE s # slot
        <5>1. table'[s] = table[s] /\ interned[table[s]] = s BY <2>4, <3>2, <4>2 DEF TableInv, NamesInPlace
        <5>2. table[s] # name BY <1>2, <5>1, TableSizes
        <5> QED BY <2>4, <3>2, <5>1, <5>2
      <4> QED BY <4>1, <4>2
    <3> QED BY <3>1, <3>2 DEF NamesInPlace
  <2>8. UsedSlots' BY <2>2, <2>4 DEF TableInv, UsedSlots
  <2> QED BY <2>5, <2>6, <2>7, <2>8 DEF TableInv
<1> QED BY <1>3, <1>4

LEMMA TableInitially == SymbolTableInit => TableInv
<1> SUFFICES ASSUME SymbolTableInit PROVE TableInv OBVIOUS
<1>1. \A s \in TableSlots : table[s] = IF s \in 0 .. FixedEnd - 1 THEN FixedNames[s + 1] ELSE NoName
  BY DEF SymbolTableInit
<1>2. TableTypeOK BY TableNames DEF SymbolTableInit, TableTypeOK
<1>3. FixedInPlace BY <1>1, TableNames, TableSizes DEF FixedInPlace
<1>4. NamesInPlace
  <2>1. \A n \in Names : interned[n] = Null BY DEF SymbolTableInit
  <2>2. \A s \in TableSlots : table[s] \notin Names BY <1>1, TableNames
  <2> QED BY <2>1, <2>2 DEF NamesInPlace
<1>5. UsedSlots BY <1>1, TableSizes DEF UsedSlots
<1> QED BY <1>2, <1>3, <1>4, <1>5 DEF TableInv

\* The invariant says where every name is found.
LEMMA TableInvSuffices == TableInv => SymbolsSound
<1> SUFFICES ASSUME TableInv PROVE SymbolsSound OBVIOUS
<1>1. ASSUME NEW n \in Names, interned[n] # Null PROVE find_symbol_from_c(n).symbol = interned[n]
  <2>1. interned[n] \in TableSlots /\ table[interned[n]] = n /\ Reaches(n, interned[n])
    BY <1>1 DEF TableInv, TableTypeOK, NamesInPlace
  <2> HIDE DEF TableInv
  <2>2. TableTypeOK /\ n \in Names \cup Fixed BY DEF TableInv
  <2> QED BY <2>1, <2>2, FoundWhereReached
<1>2. SymbolsStay BY <1>1, FixedFound DEF SymbolsStay
<1>3. SymbolsApart BY DEF TableInv, NamesInPlace, UsedSlots, SymbolsApart
<1> QED BY <1>2, <1>3 DEF SymbolsSound

\* However many names are interned, into areas of any size and with any hashes,
\* a symbol is found for ever in the slot that compiled code was linked with.
THEOREM SymbolSafety == SymbolTableSpec => []SymbolsSound
<1>1. TableInv /\ [SymbolTableNext]_tableVars => TableInv'
  <2> SUFFICES ASSUME TableInv, [SymbolTableNext]_tableVars PROVE TableInv' OBVIOUS
  <2>1. CASE UNCHANGED tableVars
    BY <2>1 DEF tableVars, TableInv, TableTypeOK, FixedInPlace, NamesInPlace, UsedSlots, Reaches,
                FirstArea, SecondArea, Passes
  <2>2. CASE SymbolTableNext BY <2>2, InternInv DEF SymbolTableNext
  <2> QED BY <2>1, <2>2
<1> QED BY TableInitially, <1>1, TableInvSuffices, PTL DEF SymbolTableSpec

-------------------------------------------------------------------------------
(* The hierarchy of types.                                                 *)

AllMethods == Functions \cup {NoMethod, "object", Wild}
TypeRecord == [num_methods : Nat, room : Nat, declared : Nat, parent : Types \cup {NoType}, method : [Ids -> AllMethods]]

TypesTypeOK ==
    /\ type \in [Types -> TypeRecord] /\ enable \in BOOLEAN
    /\ defined \in [Types -> Nat] /\ definitions \in Nat
    /\ overrides \subseteq TypeNames \X MethodIds

\* No type has more methods than its table has room for.
MethodsFit == \A t \in Types : type[t].declared <= type[t].num_methods /\ type[t].num_methods <= type[t].room

\* A type that was defined has its table and a parent in whose table there
\* were no more methods.
DefinedInOrder ==
    \A t \in TypeNames :
        /\ defined[t] <= definitions
        /\ type[t].parent # NoType <=> defined[t] > 0
        /\ type[t].parent # NoType => Made(t)
        /\ defined[t] > 0 /\ InOrder(t) => type[type[t].parent].declared <= type[t].declared

\* No type is among its own ancestors.
NoCycles == \A t \in TypeNames : ~type_typep(type[t].parent, t)

OverridesDefined == \A o \in overrides : type[o[1]].parent # NoType

TypesInv == TypesTypeOK /\ MethodsFit /\ DefinedInOrder /\ NoCycles /\ OverridesDefined /\ ChildrenFollow

\* type_typep goes from a type to its parent.
LEMMA TypepStep ==
    ASSUME NEW t \in TypeNames, NEW a, a # t
    PROVE  type_typep(t, a) <=> type_typep(type[t].parent, a)
<1>1. ASSUME type_typep(t, a), NEW above \in SUBSET (Types \cup {NoType}),
             type[t].parent \in above, WithParents(above)
      PROVE  a \in above
  <2>1. above \cup {t} \in SUBSET (Types \cup {NoType}) BY DEF Types
  <2>2. WithParents(above \cup {t}) BY <1>1 DEF WithParents
  <2>3. t \in above \cup {t} OBVIOUS
  <2>4. a \in above \cup {t} BY <1>1, <2>1, <2>2, <2>3 DEF type_typep
  <2> QED BY <2>4
<1>2. ASSUME type_typep(type[t].parent, a), NEW above \in SUBSET (Types \cup {NoType}),
             t \in above, WithParents(above)
      PROVE  a \in above
  <2>1. type[t].parent \in above BY <1>2 DEF WithParents
  <2> QED BY <1>2, <2>1 DEF type_typep
<1> QED BY <1>1, <1>2 DEF type_typep

LEMMA TypepTransitive ==
    ASSUME NEW a, NEW b, NEW c, type_typep(a, b), type_typep(b, c)
    PROVE  type_typep(a, c)
BY DEF type_typep

\* The ancestors of object end with it.
LEMMA TypepEnds ==
    ASSUME NEW e \in {object, NoType}, NEW a, type_typep(e, a)
    PROVE  a = e
<1>1. {e} \in SUBSET (Types \cup {NoType}) BY DEF Types
<1>2. WithParents({e}) BY TypeTableAssumption DEF WithParents
<1> QED BY <1>1, <1>2 DEF type_typep

\* Without cycles, two types cannot be ancestors of each other.
LEMMA TypepAntisymmetric ==
    ASSUME NoCycles, NEW t \in TypeNames, NEW a, type_typep(t, a), type_typep(a, t)
    PROVE  a = t
<1> SUFFICES ASSUME a # t PROVE FALSE OBVIOUS
<1>1. type_typep(type[t].parent, a) BY TypepStep
<1>2. type_typep(type[t].parent, t) BY <1>1, TypepTransitive
<1> QED BY <1>2 DEF NoCycles

\* What a set of types that is closed under parents leaves out is no ancestor.
LEMMA TypepSeparated ==
    ASSUME NEW a \in Types \cup {NoType}, NEW b
    PROVE  ~type_typep(a, b) <=> \E above \in SUBSET (Types \cup {NoType}) : a \in above /\ WithParents(above) /\ b \notin above
BY DEF type_typep

\* A step that changes no parent changes no ancestor.
LEMMA SameParents ==
    ASSUME \A t \in TypeNames : type'[t].parent = type[t].parent, NoCycles
    PROVE  NoCycles'
<1>1. \A above : WithParents(above)' <=> WithParents(above) BY DEF WithParents
<1>2. \A a, b : type_typep(a, b)' <=> type_typep(a, b) BY <1>1 DEF type_typep
<1> QED BY <1>2 DEF NoCycles

\* A type that becomes the child of one that it is no ancestor of makes no cycle.
LEMMA NewParent ==
    ASSUME TypesTypeOK, NoCycles, NEW x \in TypeNames, NEW p \in Types, ~type_typep(p, x),
           type'[x].parent = p, \A t \in TypeNames \ {x} : type'[t].parent = type[t].parent
    PROVE  NoCycles'
<1> SUFFICES ASSUME NEW t \in TypeNames PROVE ~type_typep(type[t].parent, t)' BY DEF NoCycles
<1> DEFINE All == SUBSET (Types \cup {NoType})
<1>1. PICK P \in All : p \in P /\ WithParents(P) /\ x \notin P BY TypepSeparated
<1>2. ASSUME NEW S \in All, WithParents(S), x \notin S PROVE WithParents(S)' BY <1>2 DEF WithParents
<1>3. CASE t = x
  <2>1. WithParents(P)' BY <1>1, <1>2
  <2> QED BY <1>1, <1>3, <2>1 DEF type_typep
<1>4. CASE t # x
  <2> DEFINE q == type[t].parent
  <2>0. q \in Types \cup {NoType} BY DEF TypesTypeOK, TypeRecord, Types
  <2>1. PICK S \in All : q \in S /\ WithParents(S) /\ t \notin S
    <3>1. ~type_typep(q, t) BY DEF NoCycles
    <3> HIDE DEF q
    <3> QED BY <2>0, <3>1, TypepSeparated
  <2>2. type'[t].parent = q BY <1>4
  <2> SUFFICES \E R \in All : q \in R /\ WithParents(R)' /\ t \notin R BY <2>2 DEF type_typep
  <2>3. CASE x \notin S BY <1>2, <2>1, <2>3
  <2>4. CASE x \in S /\ t \notin P
    <3>1. WithParents(S \cup P)' BY <1>1, <2>1 DEF WithParents
    <3>2. S \cup P \in All OBVIOUS
    <3> QED BY <2>1, <2>4, <3>1, <3>2
  <2>5. CASE t \in P
    <3>1. q \in P BY <1>1, <2>5 DEF WithParents
    <3>2. S \cap P \in All /\ x \notin S \cap P BY <1>1
    <3>3. WithParents(S \cap P) BY <1>1, <2>1 DEF WithParents
    <3>4. WithParents(S \cap P)' BY <1>2, <3>2, <3>3
    <3> QED BY <2>1, <3>1, <3>2, <3>4
  <2> QED BY <2>3, <2>4, <2>5
<1> QED BY <1>3, <1>4

LEMMA RoomFor == \A n \in Nat : Room(n) \in Nat /\ n <= Room(n) /\ Room(n) > 0
BY DEF Room

\* What a type that the linker met has in its fields.
LEMMA FreshRecord ==
    ASSUME NEW n \in Nat
    PROVE  /\ FreshType(n) \in TypeRecord /\ FreshType(n).parent = NoType /\ FreshType(n).declared = 0
           /\ FreshType(n).num_methods = n /\ FreshType(n).room = Room(n)
<1>1. Unmade \in TypeRecord /\ Unmade.parent = NoType /\ Unmade.declared = 0
  <2>1. [i \in Ids |-> NoMethod] \in [Ids -> AllMethods] BY DEF AllMethods
  <2> QED BY <2>1 DEF Unmade, TypeRecord
<1> PICK u : u = Unmade OBVIOUS
<1> PICK x : x = [u EXCEPT !.num_methods = n, !.room = Room(n)] OBVIOUS
<1>2. x.num_methods = n /\ x.room = Room(n) /\ x.declared = u.declared /\ x.parent = u.parent BY <1>1 DEF TypeRecord
<1>3. x \in TypeRecord BY <1>1, RoomFor DEF TypeRecord
<1> QED BY <1>1, <1>2, <1>3 DEF FreshType

\* The linker meets a type for the first time.
LEMMA InternTypeInv ==
    ASSUME TypesInv, NEW x \in TypeNames, NEW n \in MethodCounts \cup {1}, intern_type(x, n)
    PROVE  TypesInv' /\ \A t \in Types : Made(t) => type'[t] = type[t]
<1>0. x \in Types BY DEF Types
<1> PICK k \in Nat : k = IF n = 1 THEN FALLBACK_UNKNOWN_METHOD_COUNT ELSE n BY TypeTableAssumption
<1>1. type' = [type EXCEPT ![x] = FreshType(k)] BY DEF intern_type
<1>2. UNCHANGED <<enable, defined, overrides, definitions>> /\ ~Made(x) BY DEF intern_type
<1>3. FreshType(k) \in TypeRecord BY FreshRecord
<1>4. TypesTypeOK' BY <1>1, <1>2, <1>3 DEF TypesInv, TypesTypeOK
<1>5. type'[x] = FreshType(k) /\ \A t \in Types \ {x} : type'[t] = type[t] BY <1>0, <1>1 DEF TypesInv, TypesTypeOK
<1>6. MethodsFit' BY <1>5, FreshRecord, RoomFor DEF TypesInv, MethodsFit
<1>7. type[x].parent = NoType /\ defined[x] = 0
  BY <1>0, <1>2 DEF TypesInv, DefinedInOrder, TypesTypeOK
<1>8. \A t \in TypeNames : type'[t].parent = type[t].parent BY <1>5, <1>7, FreshRecord DEF Types
<1>9. \A t \in TypeNames : defined[t] > 0 /\ InOrder(t) =>
          /\ t # x /\ type[t].parent # x /\ type[t].parent \in Types
          /\ type'[t] = type[t] /\ type'[type[t].parent] = type[type[t].parent]
  <2> SUFFICES ASSUME NEW t \in TypeNames, defined[t] > 0, InOrder(t)
               PROVE  t # x /\ type[t].parent # x /\ type[t].parent \in Types
      BY <1>5 DEF Types
  <2>1. t # x BY <1>7
  <2>2. type[t].parent # NoType /\ type[t].parent \in Types \cup {NoType}
    BY DEF TypesInv, DefinedInOrder, TypesTypeOK, TypeRecord, Types
  <2>3. type[t].parent # x
    <3>1. x # object BY TypeTableAssumption
    <3>2. CASE type[t].parent = x
      <4>1. defined[x] \in 1 .. defined[t] - 1 BY <3>1, <3>2 DEF InOrder
      <4> QED BY <1>7, <4>1
    <3> QED BY <3>2
  <2> QED BY <2>1, <2>2, <2>3
<1>10. \A t \in TypeNames : (InOrder(t))' <=> InOrder(t) BY <1>2, <1>8 DEF InOrder
<1>11. DefinedInOrder'
  <2> SUFFICES ASSUME NEW t \in TypeNames
               PROVE  /\ defined[t] <= definitions
                      /\ type[t].parent # NoType <=> defined[t] > 0
                      /\ type[t].parent # NoType => (Made(t))'
                      /\ defined[t] > 0 /\ InOrder(t) => type'[type[t].parent].declared <= type'[t].declared
      BY <1>2, <1>8, <1>10 DEF DefinedInOrder
  <2>1. type[t].parent # NoType => (Made(t))'
    <3>1. t = x \/ type'[t] = type[t] BY <1>5 DEF Types
    <3> QED BY <1>7, <3>1 DEF TypesInv, DefinedInOrder, Made
  <2> QED BY <1>9, <2>1 DEF TypesInv, DefinedInOrder
<1>12. NoCycles' BY <1>8, SameParents DEF TypesInv
<1>13. OverridesDefined'
  <2>1. \A o \in overrides : o[1] \in TypeNames BY DEF TypesInv, TypesTypeOK
  <2> QED BY <1>2, <1>8, <2>1 DEF TypesInv, OverridesDefined
<1>14. ChildrenFollow'
  <2> SUFFICES ASSUME enable, NEW t \in TypeNames, NEW id \in MethodIds,
                      defined[t] > 0, <<t, id>> \notin overrides, InOrder(t),
                      id < type'[type'[t].parent].declared
               PROVE  type'[t].method[id] = type'[type'[t].parent].method[id]
      BY <1>2, <1>10 DEF ChildrenFollow, Inherited
  <2> QED BY <1>9 DEF TypesInv, ChildrenFollow, Inherited
<1>15. \A t \in Types : Made(t) => type'[t] = type[t] BY <1>2, <1>5
<1> QED BY <1>4, <1>6, <1>11, <1>12, <1>13, <1>14, <1>15 DEF TypesInv

\* A type is defined, for the first time or again.
LEMMA NewTypeInv ==
    ASSUME TypesInv, NEW x \in TypeNames, NEW p \in Types, NEW n \in MethodCounts, new_type(x, p, n)
    PROVE  TypesInv' /\ (\A t \in Types \ {x} : type'[t] = type[t]) /\ (\A o \in overrides' : o[1] # x)
<1>0. x \in Types /\ x # object /\ x # NoType /\ n \in Nat /\ n > 0 BY TypeTableAssumption DEF Types
<1> PICK old : old = IF Made(x) THEN type[x] ELSE FreshType(n) OBVIOUS
<1>1. old \in TypeRecord /\ old.num_methods <= old.room /\ n <= old.room
  <2>1. CASE Made(x)
    <3>1. old = type[x] /\ old \in TypeRecord BY <1>0, <2>1 DEF TypesInv, TypesTypeOK
    <3>2. Room(n) <= old.room BY <2>1, <3>1 DEF new_type, Fits
    <3>3. n <= Room(n) /\ Room(n) \in Nat BY <1>0, RoomFor
    <3>4. old.room \in Nat BY <3>1 DEF TypeRecord
    <3> QED BY <1>0, <3>1, <3>2, <3>3, <3>4 DEF TypesInv, MethodsFit
  <2>2. CASE ~Made(x) BY <1>0, <2>2, FreshRecord, RoomFor
  <2> QED BY <2>1, <2>2
<1> PICK m : m = IF old.num_methods > n THEN old.num_methods ELSE n OBVIOUS
<1>2. old.num_methods \in Nat /\ old.room \in Nat /\ old.method \in [Ids -> AllMethods] BY <1>1 DEF TypeRecord
<1>3. m \in Nat /\ n <= m /\ m <= old.room BY <1>0, <1>1, <1>2
<1> PICK copied : copied = Copied(old, type[p], n) OBVIOUS
<1>4. copied \in [Ids -> AllMethods]
  <2>1. type[p].method \in [Ids -> AllMethods] BY DEF TypesInv, TypesTypeOK, TypeRecord
  <2>2. Wild \in AllMethods BY DEF AllMethods
  <2>3. \A i \in Ids : (IF i >= n THEN old.method[i] ELSE IF i < type[p].room THEN type[p].method[i] ELSE Wild) \in AllMethods
    BY <1>2, <2>1, <2>2
  <2> QED BY <2>3 DEF Copied
<1> PICK new : new = [old EXCEPT !.method = copied, !.parent = p, !.num_methods = m, !.declared = n] OBVIOUS
<1>5. type' = [type EXCEPT ![x] = new] BY DEF new_type, Max
<1>6. /\ defined' = [defined EXCEPT ![x] = definitions + 1] /\ definitions' = definitions + 1
      /\ overrides' = {o \in overrides : o[1] # x} /\ enable' = enable
      /\ type[p].declared \in 1 .. n /\ ~type_typep(p, x)
  BY DEF new_type
<1>7. /\ new \in TypeRecord /\ new.num_methods = m /\ new.room = old.room /\ new.declared = n
      /\ new.parent = p /\ new.method = copied
  <2>1. old \in TypeRecord /\ copied \in [Ids -> AllMethods] /\ p \in Types /\ m \in Nat /\ n \in Nat
    BY <1>0, <1>1, <1>3, <1>4
  <2>2. new = [old EXCEPT !.method = copied, !.parent = p, !.num_methods = m, !.declared = n] OBVIOUS
  <2>3. new.num_methods = m /\ new.room = old.room /\ new.declared = n /\ new.parent = p /\ new.method = copied
    BY <2>1, <2>2 DEF TypeRecord
  <2>4. new \in TypeRecord BY <2>1, <2>2 DEF TypeRecord
  <2> QED BY <2>3, <2>4
<1>8. type'[x] = new /\ \A t \in Types \ {x} : type'[t] = type[t] BY <1>0, <1>5 DEF TypesInv, TypesTypeOK
<1>9. /\ defined'[x] = definitions + 1 /\ \A t \in Types \ {x} : defined'[t] = defined[t]
      /\ \A t \in Types : defined[t] \in Nat
      /\ definitions \in Nat /\ \A t \in TypeNames : defined[t] <= definitions
  BY <1>0, <1>6 DEF TypesInv, TypesTypeOK, DefinedInOrder
<1>10. TypesTypeOK'
  <2>1. type' \in [Types -> TypeRecord] BY <1>5, <1>7 DEF TypesInv, TypesTypeOK
  <2>2. defined' \in [Types -> Nat] /\ definitions' \in Nat BY <1>6, <1>9 DEF TypesInv, TypesTypeOK
  <2>3. overrides' \subseteq TypeNames \X MethodIds BY <1>6 DEF TypesInv, TypesTypeOK
  <2>4. enable' \in BOOLEAN BY <1>6 DEF TypesInv, TypesTypeOK
  <2> QED BY <2>1, <2>2, <2>3, <2>4 DEF TypesTypeOK
<1>11. MethodsFit' BY <1>3, <1>7, <1>8 DEF TypesInv, MethodsFit
<1>12. p # x BY <1>6 DEF type_typep
<1>13. NoCycles'
  <2>1. type'[x].parent = p BY <1>7, <1>8
  <2>2. \A t \in TypeNames \ {x} : type'[t].parent = type[t].parent BY <1>8 DEF Types
  <2> QED BY <1>6, <2>1, <2>2, NewParent DEF TypesInv
\* The children of x have a parent that was defined after them.
<1>14. \A t \in TypeNames \ {x} : defined[t] > 0 /\ (InOrder(t))' =>
          InOrder(t) /\ type[t].parent # x /\ type'[t] = type[t] /\ type[t].parent \in Types
  <2> SUFFICES ASSUME NEW t \in TypeNames \ {x}, defined[t] > 0, (InOrder(t))'
               PROVE  InOrder(t) /\ type[t].parent # x /\ type'[t] = type[t] /\ type[t].parent \in Types
      OBVIOUS
  <2>1. t \in Types /\ type'[t] = type[t] /\ defined'[t] = defined[t] BY <1>8, <1>9 DEF Types
  <2>2. type[t].parent \in Types
    BY <2>1 DEF TypesInv, DefinedInOrder, TypesTypeOK, TypeRecord
  <2>3. type[t].parent = object \/ defined'[type[t].parent] \in 1 .. defined[t] - 1 BY <2>1 DEF InOrder
  <2>4. type[t].parent # x
    <3>1. defined[t] <= definitions /\ defined[t] \in Nat BY <1>9, <2>1
    <3>2. ~(definitions + 1 \in 1 .. defined[t] - 1) BY <1>9, <3>1
    <3> QED BY <1>0, <1>9, <2>3, <3>2
  <2>5. InOrder(t) BY <1>9, <2>2, <2>3, <2>4 DEF InOrder
  <2> QED BY <2>1, <2>2, <2>4, <2>5
<1>15. DefinedInOrder'
  <2> SUFFICES ASSUME NEW t \in TypeNames
               PROVE  /\ defined'[t] <= definitions'
                      /\ type'[t].parent # NoType <=> defined'[t] > 0
                      /\ type'[t].parent # NoType => (Made(t))'
                      /\ defined'[t] > 0 /\ (InOrder(t))' => type'[type'[t].parent].declared <= type'[t].declared
      BY DEF DefinedInOrder
  <2>1. CASE t = x
    <3>1. p # NoType BY TypeTableAssumption DEF Types
    <3>2. (Made(x))' BY <1>0, <1>1, <1>2, <1>7, <1>8 DEF Made
    <3>3. type'[p] = type[p] BY <1>8, <1>12
    <3>4. type'[x].parent = p /\ type'[x].declared = n /\ type[p].declared <= n BY <1>6, <1>7, <1>8
    <3>5. defined'[x] > 0 /\ defined'[x] <= definitions' BY <1>6, <1>9
    <3> QED BY <2>1, <3>1, <3>2, <3>3, <3>4, <3>5
  <2>2. CASE t # x
    <3>1. t \in Types /\ type'[t] = type[t] /\ defined'[t] = defined[t] BY <1>8, <1>9, <2>2 DEF Types
    <3>2. defined[t] <= definitions + 1 BY <1>9, <3>1
    <3>3. (Made(t))' <=> Made(t) BY <3>1 DEF Made
    <3>4. defined[t] > 0 /\ (InOrder(t))' => type'[type[t].parent].declared <= type[t].declared
      BY <1>8, <1>14, <2>2 DEF TypesInv, DefinedInOrder
    <3> QED BY <1>6, <3>1, <3>2, <3>3, <3>4 DEF TypesInv, DefinedInOrder
  <2> QED BY <2>1, <2>2
<1>16. OverridesDefined'
  <2>1. \A o \in overrides' : o \in overrides /\ o[1] \in Types /\ o[1] # x BY <1>6 DEF TypesInv, TypesTypeOK, Types
  <2> QED BY <1>8, <2>1 DEF TypesInv, OverridesDefined
<1>17. ChildrenFollow'
  <2> SUFFICES ASSUME enable', NEW t \in TypeNames, NEW id \in MethodIds,
                      defined'[t] > 0, <<t, id>> \notin overrides', (InOrder(t))',
                      id < type'[type'[t].parent].declared
               PROVE  type'[t].method[id] = type'[type'[t].parent].method[id]
      BY DEF ChildrenFollow, Inherited
  <2>1. CASE t = x
    <3>1. type'[x].parent = p /\ type'[p] = type[p] /\ type'[x].method = copied BY <1>7, <1>8, <1>12
    <3>2. id < type[p].declared BY <2>1, <3>1
    <3>3. /\ type[p].declared <= n /\ type[p].declared <= type[p].num_methods /\ type[p].num_methods <= type[p].room
          /\ type[p].declared \in Nat /\ type[p].num_methods \in Nat /\ type[p].room \in Nat
      BY <1>6 DEF TypesInv, MethodsFit, TypesTypeOK, TypeRecord
    <3>4. id \in Ids /\ id \in Int BY TypeTableAssumption DEF Ids
    <3>5. id < n /\ id < type[p].room BY <1>0, <3>2, <3>3, <3>4
    <3>6. copied[id] = type[p].method[id]
      <4>1. copied[id] = IF id >= n THEN old.method[id] ELSE IF id < type[p].room THEN type[p].method[id] ELSE Wild
        BY <3>4 DEF Copied
      <4>2. ~(id >= n) BY <1>0, <3>4, <3>5
      <4> QED BY <3>5, <4>1, <4>2
    <3> QED BY <2>1, <3>1, <3>6
  <2>2. CASE t # x
    <3>1. t \in Types /\ type'[t] = type[t] /\ defined'[t] = defined[t] BY <1>8, <1>9, <2>2 DEF Types
    <3>2. InOrder(t) /\ type[t].parent # x /\ type[t].parent \in Types BY <1>14, <2>2, <3>1
    <3>3. type'[type[t].parent] = type[type[t].parent] BY <1>8, <3>2
    <3>4. <<t, id>> \notin overrides BY <1>6, <2>2
    <3> QED BY <1>6, <3>1, <3>2, <3>3, <3>4 DEF TypesInv, ChildrenFollow, Inherited
  <2> QED BY <2>1, <2>2
<1>18. \A o \in overrides' : o[1] # x BY <1>6
<1> QED BY <1>8, <1>10, <1>11, <1>13, <1>15, <1>16, <1>17, <1>18 DEF TypesInv


LEMMA TypesInitially == TypeTableInit => TypesInv
<1> SUFFICES ASSUME TypeTableInit PROVE TypesInv OBVIOUS
<1>1. /\ \A t \in TypeNames : type[t] = Unmade
      /\ type[object] = [num_methods |-> 2, room |-> Room(2), declared |-> 2, parent |-> NoType,
                         method |-> [i \in Ids |-> IF i < 2 THEN "object" ELSE NoMethod]]
      /\ DOMAIN type = Types /\ type = [t \in Types |-> type[t]]
  BY TypeTableAssumption DEF TypeTableInit, Types
<1>2. Unmade \in TypeRecord /\ Unmade.parent = NoType /\ Unmade.declared = 0 /\ Unmade.num_methods = 0 /\ Unmade.room = 0
  <2>1. [i \in Ids |-> NoMethod] \in [Ids -> AllMethods] BY DEF AllMethods
  <2> QED BY <2>1 DEF Unmade, TypeRecord
<1>3. type[object] \in TypeRecord
  <2>1. [i \in Ids |-> IF i < 2 THEN "object" ELSE NoMethod] \in [Ids -> AllMethods] BY DEF AllMethods
  <2> QED BY <1>1, <2>1, RoomFor DEF TypeRecord
<1>4. \A t \in Types : type[t] \in TypeRecord BY <1>1, <1>2, <1>3 DEF Types
<1>5. defined = [t \in Types |-> 0] /\ overrides = {} /\ definitions = 0 /\ enable \in BOOLEAN
  BY DEF TypeTableInit
<1>6. TypesTypeOK BY <1>1, <1>4, <1>5 DEF TypesTypeOK
<1>7. MethodsFit
  <2>1. \A t \in TypeNames : type[t].declared <= type[t].num_methods /\ type[t].num_methods <= type[t].room
    BY <1>1, <1>2
  <2>2. type[object].declared = 2 /\ type[object].num_methods = 2 /\ type[object].room = Room(2) BY <1>1
  <2>3. 2 <= Room(2) BY RoomFor
  <2> QED BY <2>1, <2>2, <2>3 DEF MethodsFit, Types
<1>8. \A t \in TypeNames : type[t].parent = NoType /\ defined[t] = 0 BY <1>1, <1>2, <1>5 DEF Types
<1>9. NoCycles
  <2>1. \A t \in TypeNames : t # NoType BY TypeTableAssumption
  <2>2. \A t \in TypeNames : ~type_typep(NoType, t) BY <2>1, TypepEnds
  <2> QED BY <1>8, <2>2 DEF NoCycles
<1>10. DefinedInOrder BY <1>5, <1>8 DEF DefinedInOrder
<1>11. OverridesDefined /\ ChildrenFollow BY <1>5, <1>8 DEF OverridesDefined, ChildrenFollow, Inherited
<1> QED BY <1>6, <1>7, <1>9, <1>10, <1>11 DEF TypesInv

\* method_set changes the method of a type and of those who inherit it.
LEMMA MethodSetInv ==
    ASSUME TypesInv, NEW x \in TypeNames, NEW i \in MethodIds, NEW m \in Functions \cup {"1", "2"}, method_set(x, i, m)
    PROVE  TypesInv'
<1> DEFINE existing == type[x].method[i]
           inherited == type[type[x].parent].method[i]
           changed == {x} \cup (IF enable THEN HandedDown(x, i, existing) ELSE {})
<1>0. x \in Types /\ x # object /\ x # NoType /\ i \in Ids /\ i \in Nat BY TypeTableAssumption DEF Types, Ids
<1>1. type[x].parent # NoType /\ i < type[x].num_methods BY DEF method_set
<1>2. type[x].parent \in Types BY <1>0, <1>1 DEF TypesInv, TypesTypeOK, TypeRecord
<1> PICK new : new = CASE m = "1" -> NoMethod [] m = "2" -> inherited [] OTHER -> m OBVIOUS
<1>3. new \in AllMethods
  <2>1. inherited \in AllMethods BY <1>0, <1>2 DEF TypesInv, TypesTypeOK, TypeRecord
  <2>2. CASE m = "1" BY <2>2 DEF AllMethods
  <2>3. CASE m = "2" BY <2>1, <2>3
  <2>4. CASE m \notin {"1", "2"} BY <2>4 DEF AllMethods
  <2> QED BY <2>2, <2>3, <2>4
<1>4. type' = [c \in Types |-> IF c \in changed THEN [type[c] EXCEPT !.method[i] = new] ELSE type[c]]
  BY DEF method_set
<1>5. UNCHANGED <<enable, defined, definitions>> BY DEF method_set
<1>6. overrides' = IF m = "2" THEN overrides \ {<<x, i>>} ELSE overrides \cup {<<x, i>>} BY DEF method_set
<1> HIDE DEF changed, existing, inherited
<1>7. \A c \in Types : type[c] \in TypeRecord BY DEF TypesInv, TypesTypeOK
<1>8. ASSUME NEW c \in Types
      PROVE  /\ type'[c] \in TypeRecord
             /\ type'[c].parent = type[c].parent /\ type'[c].num_methods = type[c].num_methods
             /\ type'[c].room = type[c].room /\ type'[c].declared = type[c].declared
             /\ type'[c].method = IF c \in changed THEN [type[c].method EXCEPT ![i] = new] ELSE type[c].method
  <2>1. CASE c \notin changed BY <1>4, <1>7, <2>1
  <2>2. CASE c \in changed
    <3> PICK r : r = type[c] OBVIOUS
    <3> PICK f : f = [r.method EXCEPT ![i] = new] OBVIOUS
    <3>1. r \in TypeRecord BY <1>7
    <3>2. f \in [Ids -> AllMethods] BY <1>3, <3>1 DEF TypeRecord
    <3> PICK y : y = [r EXCEPT !.method = f] OBVIOUS
    <3>3. /\ y \in TypeRecord /\ y.parent = r.parent /\ y.num_methods = r.num_methods
          /\ y.room = r.room /\ y.declared = r.declared /\ y.method = f
      BY <3>1, <3>2 DEF TypeRecord
    <3>4. type'[c] = y BY <1>4, <2>2
    <3> QED BY <2>2, <3>3, <3>4
  <2> QED BY <2>1, <2>2
<1>9. TypesTypeOK'
  <2>1. type' \in [Types -> TypeRecord] BY <1>4, <1>8
  <2>2. overrides' \subseteq TypeNames \X MethodIds BY <1>6 DEF TypesInv, TypesTypeOK
  <2> QED BY <1>5, <2>1, <2>2 DEF TypesInv, TypesTypeOK
<1>10. MethodsFit' BY <1>8 DEF TypesInv, MethodsFit
<1>11. \A t \in TypeNames : type'[t].parent = type[t].parent BY <1>8 DEF Types
<1>12. NoCycles' BY <1>11, SameParents DEF TypesInv
<1>13. \A t \in TypeNames : (InOrder(t))' <=> InOrder(t) BY <1>5, <1>11 DEF InOrder
<1>14. \A t \in TypeNames : type[t].parent # NoType => type[t].parent \in Types
  BY DEF TypesInv, TypesTypeOK, TypeRecord, Types
<1>15. DefinedInOrder'
  <2> SUFFICES ASSUME NEW t \in TypeNames
               PROVE  /\ defined[t] <= definitions
                      /\ type[t].parent # NoType <=> defined[t] > 0
                      /\ type[t].parent # NoType => (Made(t))'
                      /\ defined[t] > 0 /\ InOrder(t) => type'[type[t].parent].declared <= type'[t].declared
      BY <1>5, <1>11, <1>13 DEF DefinedInOrder
  <2>1. t \in Types BY DEF Types
  <2>2. (Made(t))' <=> Made(t) BY <1>8, <2>1 DEF Made
  <2>3. type[t].parent # NoType => type'[type[t].parent].declared = type[type[t].parent].declared BY <1>8, <1>14
  <2>4. type'[t].declared = type[t].declared BY <1>8, <2>1
  <2> QED BY <2>2, <2>3, <2>4 DEF TypesInv, DefinedInOrder
<1>16. OverridesDefined'
  <2>1. \A o \in overrides' : o[1] \in TypeNames /\ (o[1] = x \/ o \in overrides) BY <1>6 DEF TypesInv, TypesTypeOK
  <2> QED BY <1>1, <1>11, <2>1 DEF TypesInv, OverridesDefined
<1>17. ChildrenFollow'
  <2> SUFFICES ASSUME enable, NEW t \in TypeNames, NEW id \in MethodIds, defined[t] > 0, <<t, id>> \notin overrides',
                      InOrder(t), id < type'[type'[t].parent].declared
               PROVE  type'[t].method[id] = type'[type'[t].parent].method[id]
      BY <1>5, <1>13 DEF ChildrenFollow, Inherited
  <2> DEFINE p == type[t].parent
  <2>1. t \in Types /\ p \in Types /\ type'[t].parent = p /\ Made(t) /\ p # NoType
    BY <1>8, <1>14 DEF Types, TypesInv, DefinedInOrder
  <2>2. id \in Ids /\ id \in Nat BY TypeTableAssumption DEF Ids
  <2>3. id < type[p].declared BY <1>8, <2>1
  <2>4. /\ type[p].declared <= type[t].declared /\ type[t].declared <= type[t].num_methods
        /\ type[p].declared <= type[p].num_methods /\ type[p].num_methods <= type[p].room
    BY <2>1 DEF TypesInv, DefinedInOrder, MethodsFit
  <2>5. /\ type[p].declared \in Nat /\ type[t].declared \in Nat /\ type[t].num_methods \in Nat
        /\ type[p].num_methods \in Nat /\ type[p].room \in Nat
    BY <1>7, <2>1 DEF TypeRecord
  <2>6. id < type[t].num_methods /\ id < type[p].num_methods /\ Made(p) BY <2>2, <2>3, <2>4, <2>5 DEF Made
  <2>7. /\ type[t].method \in [Ids -> AllMethods] /\ type[p].method \in [Ids -> AllMethods] BY <1>7, <2>1 DEF TypeRecord
  <2>8. type'[t].method[id] = IF t \in changed /\ id = i THEN new ELSE type[t].method[id]
    BY <1>8, <2>1, <2>2, <2>7
  <2>9. type'[p].method[id] = IF p \in changed /\ id = i THEN new ELSE type[p].method[id]
    BY <1>8, <2>1, <2>2, <2>7
  <2>10. ~type_typep(p, t) BY DEF TypesInv, NoCycles
  <2> HIDE DEF p
  <2>11. CASE id # i
    <3>1. <<t, id>> \notin overrides BY <1>6, <2>11
    <3>2. type[t].method[id] = type[p].method[id] BY <2>1, <2>3, <3>1 DEF TypesInv, ChildrenFollow, Inherited, p
    <3> QED BY <2>1, <2>8, <2>9, <2>11, <3>2
  <2>12. CASE id = i /\ t = x
    <3>1. m = "2" BY <1>6, <2>12
    <3>2. new = type[p].method[i] BY <2>12, <3>1 DEF inherited, p
    <3>3. p \notin changed
      <4>1. p # t BY <2>10 DEF type_typep
      <4> QED BY <2>10, <2>12, <4>1 DEF changed, HandedDown
    <3> QED BY <2>1, <2>8, <2>9, <2>12, <3>2, <3>3 DEF changed
  <2>13. CASE id = i /\ t # x
    <3>1. <<t, id>> \notin overrides BY <1>6, <2>13
    <3>2. type[t].method[id] = type[p].method[id] BY <2>1, <2>3, <3>1 DEF TypesInv, ChildrenFollow, Inherited, p
    <3>3. type_typep(t, x) <=> type_typep(p, x) BY <2>13, TypepStep DEF p
    <3>4. type_typep(x, x) BY DEF type_typep
    <3>5. t \in changed <=> type[t].method[id] = existing /\ type_typep(t, x)
      BY <2>1, <2>6, <2>13 DEF changed, HandedDown
    <3>6. p \in changed <=> type[p].method[id] = existing /\ type_typep(p, x)
      <4>1. CASE p = x BY <2>13, <3>4, <4>1 DEF changed, existing
      <4>2. CASE p # x BY <2>1, <2>6, <2>13, <4>2 DEF changed, HandedDown
      <4> QED BY <4>1, <4>2
    <3>7. t \in changed <=> p \in changed BY <3>2, <3>3, <3>5, <3>6
    <3> QED BY <2>1, <2>8, <2>9, <2>13, <3>2, <3>7
  <2> QED BY <2>11, <2>12, <2>13
<1> QED BY <1>9, <1>10, <1>12, <1>15, <1>16, <1>17 DEF TypesInv

LEMMA TypesInductive == TypesInv /\ [TypeTableNext]_typeVars => TypesInv'
<1> SUFFICES ASSUME TypesInv, [TypeTableNext]_typeVars PROVE TypesInv' OBVIOUS
<1>1. CASE UNCHANGED typeVars
  <2>1. type' = type /\ enable' = enable /\ defined' = defined /\ overrides' = overrides /\ definitions' = definitions
    BY <1>1 DEF typeVars
  <2>2. NoCycles' BY <2>1, SameParents DEF TypesInv
  <2> QED BY <2>1, <2>2 DEF TypesInv, TypesTypeOK, MethodsFit, DefinedInOrder, InOrder, Made, OverridesDefined,
                            ChildrenFollow, Inherited
<1>2. CASE TypeTableNext BY <1>2, InternTypeInv, NewTypeInv, MethodSetInv DEF TypeTableNext
<1> QED BY <1>1, <1>2

\* The step of OverridesStay.
OverridesStayStep ==
    \A t, a \in TypeNames, id \in MethodIds :
       (/\ <<t, id>> \in overrides \cap overrides' /\ a # t /\ type_typep(t, a)
        /\ type[a].method[id] # type[t].method[id] /\ type'[a].method[id] # type[a].method[id])
       => type'[t].method[id] = type[t].method[id]

LEMMA OverridesStaySteps == TypesInv /\ [TypeTableNext]_typeVars => [OverridesStayStep]_typeVars
<1> SUFFICES ASSUME TypesInv, TypeTableNext PROVE OverridesStayStep OBVIOUS
<1> SUFFICES ASSUME NEW t \in TypeNames, NEW a \in TypeNames, NEW id \in MethodIds,
                    <<t, id>> \in overrides, <<t, id>> \in overrides', a # t, type_typep(t, a),
                    type[a].method[id] # type[t].method[id], type'[a].method[id] # type[a].method[id]
             PROVE  type'[t].method[id] = type[t].method[id]
    BY DEF OverridesStayStep
<1>0. t \in Types /\ a \in Types /\ id \in Ids BY TypeTableAssumption DEF Types
<1>1. Made(t)
  <2>1. type[t].parent # NoType
    <3>1. <<t, id>>[1] = t OBVIOUS
    <3> QED BY <3>1 DEF TypesInv, OverridesDefined
  <2> QED BY <2>1 DEF TypesInv, DefinedInOrder
<1>2. ASSUME NEW x \in TypeNames, NEW n \in MethodCounts \cup {1}, intern_type(x, n)
      PROVE  type'[t].method[id] = type[t].method[id]
  BY <1>0, <1>1, <1>2, InternTypeInv
<1>3. ASSUME NEW x \in TypeNames, NEW p \in Types, NEW n \in MethodCounts, new_type(x, p, n)
      PROVE  type'[t].method[id] = type[t].method[id]
  <2>1. t # x
    <3>1. <<t, id>>[1] = t OBVIOUS
    <3>2. \A o \in overrides' : o[1] # x BY <1>3, NewTypeInv
    <3> QED BY <3>1, <3>2
  <2> QED BY <1>0, <1>3, <2>1, NewTypeInv
<1>4. ASSUME NEW x \in TypeNames, NEW i \in MethodIds, NEW m \in Functions \cup {"1", "2"}, method_set(x, i, m),
             type'[t].method[id] # type[t].method[id]
      PROVE  FALSE
  <2> DEFINE existing == type[x].method[i]
             changed == {x} \cup (IF enable THEN HandedDown(x, i, existing) ELSE {})
  <2>1. PICK new : type' = [c \in Types |-> IF c \in changed THEN [type[c] EXCEPT !.method[i] = new] ELSE type[c]]
    BY <1>4 DEF method_set
  <2> HIDE DEF changed, existing
  <2>2. ASSUME NEW c \in Types, type'[c].method[id] # type[c].method[id]
        PROVE  c \in changed /\ id = i
    <3>1. c \in changed BY <2>1, <2>2
    <3>2. type'[c] = [type[c] EXCEPT !.method[i] = new] BY <2>1, <3>1
    <3>3. type[c] \in TypeRecord BY DEF TypesInv, TypesTypeOK
    <3>4. type'[c].method = [type[c].method EXCEPT ![i] = new] BY <3>2, <3>3 DEF TypeRecord
    <3>5. type[c].method \in [Ids -> AllMethods] BY <3>3 DEF TypeRecord
    <3>6. CASE id # i BY <1>0, <2>2, <3>4, <3>5, <3>6
    <3> QED BY <3>1, <3>6
  <2>3. t \in changed /\ a \in changed /\ id = i BY <1>0, <1>4, <2>2
  <2>4. CASE t = x
    <3>1. type_typep(a, t) BY <2>3, <2>4 DEF changed, HandedDown
    <3> QED BY <3>1, TypepAntisymmetric DEF TypesInv
  <2>5. CASE t # x
    <3>1. type[t].method[id] = existing BY <2>3, <2>5 DEF changed, HandedDown
    <3>2. type[a].method[id] = existing BY <2>3 DEF changed, HandedDown, existing
    <3> QED BY <3>1, <3>2
  <2> QED BY <2>4, <2>5
<1> QED BY <1>2, <1>3, <1>4 DEF TypeTableNext

\* However many types there are and in whatever order they are defined and
\* their methods set, a child has the methods of its parent that it did not
\* set, and keeps those that it did.
THEOREM MethodSafety == TypeTableSpec => MethodsInherited
<1>1. TypesInv => ChildrenFollow BY DEF TypesInv
<1>2. TypeTableSpec => []TypesInv BY TypesInitially, TypesInductive, PTL DEF TypeTableSpec
<1>3. TypeTableSpec => []ChildrenFollow BY <1>1, <1>2, PTL
<1>4. TypeTableSpec => [][OverridesStayStep]_typeVars BY <1>2, OverridesStaySteps, PTL DEF TypeTableSpec
<1> QED BY <1>3, <1>4, PTL DEF MethodsInherited, OverridesStay, OverridesStayStep

-------------------------------------------------------------------------------
(* The heaps.                                                              *)


\* The invariant is inductive only with the place of every block relative to
\* the two ends (BlocksInRegion) and the order of the remembered tops.
HeapInv ==
    /\ TypeOK
    /\ HeapOrder
    /\ BlocksInRegion
    /\ SavedOrder
    /\ NoStraddle
    /\ LiveBlocksDisjoint

-----------------------------------------------------------------------------
(* Rounding.                                                               *)

\* Rounding down with one of the allocator's three alignments never grows
\* an address and never goes below 0.
LEMMA AlignDownBounds ==
    ASSUME NEW x \in Nat, NEW a \in {KMALLOC_ALIGN_16, KMALLOC_ALIGN_64, KMALLOC_ALIGN_256}
    PROVE  AlignDown(x, a) \in Nat /\ AlignDown(x, a) <= x
<1>1. CASE a = 16
  BY <1>1 DEF AlignDown
<1>2. CASE a = 64
  BY <1>2 DEF AlignDown
<1>3. CASE a = 256
  BY <1>3 DEF AlignDown
<1>4. QED
  BY <1>1, <1>2, <1>3 DEF KMALLOC_ALIGN_16, KMALLOC_ALIGN_64, KMALLOC_ALIGN_256

\* Rounding up never shrinks an address.
LEMMA AlignUpBounds ==
    ASSUME NEW x \in Nat, NEW a \in {KMALLOC_ALIGN_16, KMALLOC_ALIGN_64, KMALLOC_ALIGN_256}
    PROVE  AlignUp(x, a) \in Nat /\ x <= AlignUp(x, a)
<1>1. CASE a = 16
  BY <1>1 DEF AlignDown, AlignUp
<1>2. CASE a = 64
  BY <1>2 DEF AlignDown, AlignUp
<1>3. CASE a = 256
  BY <1>3 DEF AlignDown, AlignUp
<1>4. QED
  BY <1>1, <1>2, <1>3 DEF KMALLOC_ALIGN_16, KMALLOC_ALIGN_64, KMALLOC_ALIGN_256

\* A remembered top is an address.
LEMMA SavedIsAddress ==
    ASSUME TypeOK, NEW g \in Heaps
    PROVE  /\ saved[g] \in Seq(Nat) /\ Len(saved[g]) \in Nat
           /\ \A i \in 1 .. Len(saved[g]) : saved[g][i] \in Nat
<1>1. saved[g] \in Seq(Nat)
  BY DEF TypeOK
<1>2. QED
  BY <1>1, ElementOfSeq, LenProperties

\* The heap kmalloc works on is a heap, also for a null pointer.
LEMMA TargetIsHeap == ASSUME NEW hp \in Heaps \cup {NoHeap} PROVE Target(hp) \in Heaps
BY HeapsAssumption DEF Target

\* A permanent block starts at or above current.
LEMMA BottomStartBound ==
    ASSUME TypeOK, NEW h \in Heaps, NEW align \in AlignFlags
    PROVE  BottomStart(h, align) \in Nat /\ heap[h].current <= BottomStart(h, align)
<1>1. heap[h].current \in Nat
  BY DEF TypeOK
<1>2. QED
  BY <1>1, AlignUpBounds DEF BottomStart, AlignFlags, KMALLOC_ALIGN_16, KMALLOC_ALIGN_64, KMALLOC_ALIGN_256

\* A temporary block ends at or below top: with requests below the base
\* address of the heap, the subtraction does not wrap.
LEMMA TopStartBound ==
    ASSUME TypeOK, HeapOrder, RequestsBelowBase,
           NEW h \in Heaps, NEW size \in Sizes, NEW align \in AlignFlags
    PROVE  TopStart(h, size, align) \in Nat /\ TopStart(h, size, align) + size <= heap[h].top
<1>1. heap[h].top \in Nat /\ size \in Nat /\ size <= heap[h].top /\ heap[h].top < AddrSpace
  <2>1. Base[h] \in Nat /\ Size[h] \in Nat /\ size \in Nat /\ AddrSpace \in Nat
    BY HeapsAssumption
  <2>2. size <= Base[h]
    BY DEF RequestsBelowBase
  <2>3. Base[h] + Size[h] + KMALLOC_ALIGN_256 + size < AddrSpace
    BY HeapsAssumption
  <2>4. heap[h].top \in Nat /\ heap[h].current \in Nat
    BY DEF TypeOK
  <2>5. /\ Base[h] <= heap[h].current /\ heap[h].current <= heap[h].top
        /\ heap[h].top <= Base[h] + Size[h]
    BY DEF HeapOrder
  <2>6. QED
    BY <2>1, <2>2, <2>3, <2>4, <2>5 DEF KMALLOC_ALIGN_256
<1>2. (heap[h].top - size) % AddrSpace = heap[h].top - size
  BY <1>1, HeapsAssumption
<1>3. heap[h].top - size \in Nat
  BY <1>1
<1> DEFINE a == IF align = 0 THEN KMALLOC_ALIGN_16 ELSE align
<1>4. a \in {KMALLOC_ALIGN_16, KMALLOC_ALIGN_64, KMALLOC_ALIGN_256}
  BY DEF AlignFlags
<1>5. /\ AlignDown(heap[h].top - size, a) \in Nat
      /\ AlignDown(heap[h].top - size, a) <= heap[h].top - size
  BY <1>3, <1>4, AlignDownBounds
<1>6. TopStart(h, size, align) = AlignDown(heap[h].top - size, a)
  BY <1>2 DEF TopStart
<1>7. QED
  BY <1>1, <1>5, <1>6

-----------------------------------------------------------------------------
(* Blocks.                                                                 *)

\* Every live block lies inside the memory of its heap.
LEMMA InvImpliesRoom == HeapInv => RoomOrZero
<1> SUFFICES ASSUME HeapInv, NEW b \in allocs
             PROVE  Base[b.heap] <= b.lo /\ b.hi <= Base[b.heap] + Size[b.heap]
  BY DEF RoomOrZero
<1> DEFINE h == b.heap
<1>1. h \in Heaps /\ b.lo \in Nat /\ b.hi \in Nat /\ b.end \in {"bottom", "top"}
  BY DEF HeapInv, TypeOK
<1>2. /\ heap[h].base = Base[h] /\ heap[h].top_base = Base[h] + Size[h]
      /\ heap[h].base <= heap[h].current
      /\ heap[h].current <= heap[h].top /\ heap[h].top <= heap[h].top_base
  BY <1>1 DEF HeapInv, HeapOrder
<1>3. /\ heap[h].current \in Nat /\ heap[h].top \in Nat /\ heap[h].base \in Nat
      /\ heap[h].top_base \in Nat
  BY <1>1 DEF HeapInv, TypeOK
<1>4. /\ b.end = "bottom" => heap[h].base <= b.lo /\ b.hi <= heap[h].current
      /\ b.end = "top"    => heap[h].top <= b.lo /\ b.hi <= heap[h].top_base
  BY DEF HeapInv, BlocksInRegion
<1>5. QED
  BY <1>1, <1>2, <1>3, <1>4

\* A new block between the two ends of a heap meets no live block.
LEMMA GapIsFree ==
    ASSUME HeapInv, NEW h \in Heaps, NEW lo \in Nat, NEW hi \in Nat,
           heap[h].current <= lo, lo < hi, hi <= heap[h].top, NEW c \in allocs
    PROVE  c.hi <= lo \/ hi <= c.lo
<1> DEFINE g == c.heap
<1>1. /\ g \in Heaps /\ c.lo \in Nat /\ c.hi \in Nat /\ c.end \in {"bottom", "top"}
      /\ heap[h].current \in Nat /\ heap[h].top \in Nat
  BY DEF HeapInv, TypeOK
<1>2. CASE g = h
  <2>1. /\ c.end = "bottom" => c.hi <= heap[h].current
        /\ c.end = "top"    => heap[h].top <= c.lo
    BY <1>2 DEF HeapInv, BlocksInRegion
  <2>2. QED
    BY <1>1, <2>1
<1>3. CASE g # h
  <2>1. Base[g] <= c.lo /\ c.hi <= Base[g] + Size[g]
    BY InvImpliesRoom DEF RoomOrZero
  <2>2. Base[h] <= lo /\ hi <= Base[h] + Size[h]
    BY <1>1, HeapsAssumption DEF HeapInv, HeapOrder
  <2>3. Base[g] + Size[g] <= Base[h] \/ Base[h] + Size[h] <= Base[g]
    BY <1>1, <1>3, HeapsAssumption
  <2>4. Base[g] \in Nat /\ Base[h] \in Nat /\ Size[g] \in Nat /\ Size[h] \in Nat
    BY <1>1, HeapsAssumption
  <2>5. QED
    BY <1>1, <2>1, <2>2, <2>3, <2>4
<1>4. QED
  BY <1>2, <1>3

-----------------------------------------------------------------------------
(* The steps.                                                              *)

\* The heaps after kinitheap satisfy the invariant.
LEMMA InitInv == Init => HeapInv
<1> SUFFICES ASSUME Init PROVE HeapInv
  OBVIOUS
<1>1. TypeOK
  BY HeapsAssumption DEF Init, TypeOK, kinitheap
<1>2. HeapOrder
  BY HeapsAssumption DEF Init, HeapOrder, kinitheap
<1>3. QED
  BY <1>1, <1>2 DEF Init, HeapInv, BlocksInRegion, SavedOrder, NoStraddle, LiveBlocksDisjoint

\* A permanent allocation keeps the invariant.
LEMMA BottomStep ==
    ASSUME HeapInv, NEW hp \in Heaps \cup {NoHeap}, NEW size \in Sizes,
           NEW align \in AlignFlags, KMallocBottom(hp, size, align)
    PROVE  HeapInv'
<1> DEFINE h == Target(hp)
           lo == BottomStart(h, align)
           b  == Block(h, "bottom", lo, size)
<1>1. h \in Heaps /\ size \in Nat
  BY TargetIsHeap, HeapsAssumption
<1>2. lo \in Nat /\ heap[h].current <= lo
  BY <1>1, BottomStartBound DEF HeapInv
<1>3. CASE UNCHANGED <<heap, allocs, saved>> /\ ret' \in Nat
  BY <1>3 DEF HeapInv, TypeOK, HeapOrder, BlocksInRegion, SavedOrder, NoStraddle, LiveBlocksDisjoint
<1>4. CASE /\ size > 0 /\ lo + size <= heap[h].top
           /\ heap' = [heap EXCEPT ![h].current = lo + size]
           /\ allocs' = allocs \cup {b}
           /\ ret' = lo
           /\ UNCHANGED saved
  <2> USE <1>1, <1>2, <1>4
  <2>1. TypeOK'
    <3>1. heap' \in [Heaps -> [base : Nat, current : Nat, top : Nat, top_base : Nat]]
      <4>1. lo + size \in Nat
        OBVIOUS
      <4> HIDE DEF lo
      <4>2. QED
        BY <4>1 DEF HeapInv, TypeOK
    <3>2. b \in [heap : Heaps, end : {"bottom", "top"}, lo : Nat, hi : Nat]
      BY DEF Block
    <3>3. QED
      BY <3>1, <3>2 DEF HeapInv, TypeOK
  <2>2. /\ heap'[h].current = lo + size
        /\ \A g \in Heaps : /\ heap'[g].base = heap[g].base /\ heap'[g].top = heap[g].top
                            /\ heap'[g].top_base = heap[g].top_base
                            /\ g # h => heap'[g].current = heap[g].current
    BY DEF HeapInv, TypeOK
  <2>3. \A g \in Heaps : heap[g].current \in Nat /\ heap[g].top \in Nat /\ heap[g].base \in Nat
    BY DEF HeapInv, TypeOK
  <2>4. HeapOrder'
    BY <2>2, <2>3 DEF HeapInv, HeapOrder
  <2>5. /\ b.heap = h /\ b.end = "bottom" /\ b.lo = lo /\ b.hi = lo + size
        /\ \A c \in allocs : c.heap \in Heaps /\ c.lo \in Nat /\ c.hi \in Nat
    BY DEF Block, HeapInv, TypeOK
  <2>6. BlocksInRegion'
    BY <2>2, <2>3, <2>5 DEF HeapInv, BlocksInRegion, HeapOrder
  <2>7. SavedOrder' /\ NoStraddle'
    BY <2>2, <2>5 DEF HeapInv, SavedOrder, NoStraddle
  <2>8. LiveBlocksDisjoint'
    <3>1. \A c \in allocs : c.hi <= lo \/ lo + size <= c.lo
      BY GapIsFree
    <3>2. QED
      BY <2>5, <3>1 DEF HeapInv, LiveBlocksDisjoint
  <2>9. QED
    BY <2>1, <2>4, <2>6, <2>7, <2>8 DEF HeapInv
<1>5. QED
  BY <1>2, <1>3, <1>4 DEF KMallocBottom, BottomFits

\* A temporary allocation keeps the invariant.
LEMMA TopStep ==
    ASSUME HeapInv, RequestsBelowBase, NEW hp \in Heaps \cup {NoHeap}, NEW size \in Sizes,
           NEW align \in AlignFlags, KMallocTop(hp, size, align)
    PROVE  HeapInv'
<1> DEFINE h == Target(hp)
           lo == TopStart(h, size, align)
           b  == Block(h, "top", lo, size)
<1>1. h \in Heaps /\ size \in Nat
  BY TargetIsHeap, HeapsAssumption
<1>2. lo \in Nat /\ lo + size <= heap[h].top
  BY <1>1, TopStartBound DEF HeapInv
<1>3. CASE UNCHANGED <<heap, allocs, saved>> /\ ret' \in Nat
  BY <1>3 DEF HeapInv, TypeOK, HeapOrder, BlocksInRegion, SavedOrder, NoStraddle, LiveBlocksDisjoint
<1>4. CASE /\ size > 0 /\ heap[h].current < lo
           /\ heap' = [heap EXCEPT ![h].top = lo]
           /\ allocs' = allocs \cup {b}
           /\ ret' = lo
           /\ UNCHANGED saved
  <2> USE <1>1, <1>2, <1>4
  <2>1. TypeOK'
    <3>1. heap' \in [Heaps -> [base : Nat, current : Nat, top : Nat, top_base : Nat]]
      BY DEF HeapInv, TypeOK
    <3>2. b \in [heap : Heaps, end : {"bottom", "top"}, lo : Nat, hi : Nat]
      BY DEF Block
    <3>3. QED
      BY <3>1, <3>2 DEF HeapInv, TypeOK
  <2>2. /\ heap'[h].top = lo
        /\ \A g \in Heaps : /\ heap'[g].base = heap[g].base /\ heap'[g].current = heap[g].current
                            /\ heap'[g].top_base = heap[g].top_base
                            /\ g # h => heap'[g].top = heap[g].top
    BY DEF HeapInv, TypeOK
  <2>3. \A g \in Heaps : /\ heap[g].current \in Nat /\ heap[g].top \in Nat
                         /\ heap[g].base \in Nat /\ heap[g].top_base \in Nat
    BY DEF HeapInv, TypeOK
  <2>4. HeapOrder'
    BY <2>2, <2>3 DEF HeapInv, HeapOrder
  <2>5. /\ b.heap = h /\ b.end = "top" /\ b.lo = lo /\ b.hi = lo + size
        /\ \A c \in allocs : c.heap \in Heaps /\ c.lo \in Nat /\ c.hi \in Nat
    BY DEF Block, HeapInv, TypeOK
  <2>6. BlocksInRegion'
    BY <2>2, <2>3, <2>5 DEF HeapInv, BlocksInRegion, HeapOrder
  <2>7. \A g \in Heaps : \A i \in 1 .. Len(saved[g]) :
            saved[g][i] \in Nat /\ heap[g].top <= saved[g][i]
    BY SavedIsAddress DEF HeapInv, SavedOrder
  <2>8. SavedOrder'
    <3>1. \A g \in Heaps : heap'[g].top \in Nat /\ heap'[g].top <= heap[g].top
      BY <2>2, <2>3
    <3>2. \A g \in Heaps : \A i \in 1 .. Len(saved[g]) : heap'[g].top <= saved[g][i]
      BY <2>3, <2>7, <3>1
    <3>3. QED
      BY <2>2, <3>2 DEF HeapInv, SavedOrder
  <2>9. NoStraddle'
    <3>1. \A i \in 1 .. Len(saved[h]) : b.hi <= saved[h][i]
      BY <2>3, <2>5, <2>7
    <3>2. QED
      BY <2>5, <3>1 DEF HeapInv, NoStraddle
  <2>10. LiveBlocksDisjoint'
    <3>1. \A c \in allocs : c.hi <= lo \/ lo + size <= c.lo
      BY <2>3, GapIsFree
    <3>2. QED
      BY <2>5, <3>1 DEF HeapInv, LiveBlocksDisjoint
  <2>11. QED
    BY <2>1, <2>4, <2>6, <2>8, <2>9, <2>10 DEF HeapInv
<1>5. QED
  BY <1>2, <1>3, <1>4 DEF KMallocTop, TopFits

\* Remembering a heap's top keeps the invariant: every temporary block so
\* far lies above it.
LEMMA SaveStep == ASSUME HeapInv, NEW h \in Heaps, SaveTop(h) PROVE HeapInv'
<1> DEFINE s == Append(saved[h], heap[h].top)
<1>1. heap[h].top \in Nat /\ saved \in [Heaps -> Seq(Nat)]
  BY DEF HeapInv, TypeOK
<1>2. /\ heap' = heap /\ allocs' = allocs /\ ret' = ret
      /\ saved' = [saved EXCEPT ![h] = s]
  BY DEF SaveTop
<1>3. /\ s \in Seq(Nat) /\ Len(s) = Len(saved[h]) + 1
      /\ s[Len(s)] = heap[h].top
      /\ \A i \in 1 .. Len(saved[h]) : s[i] = saved[h][i]
  BY <1>1
<1>4. saved'[h] = s /\ \A g \in Heaps : g # h => saved'[g] = saved[g]
  BY <1>1, <1>2
<1>5. TypeOK'
  BY <1>1, <1>2, <1>3 DEF HeapInv, TypeOK
<1>6. SavedOrder'
  <2>1. Len(saved[h]) \in Nat /\ \A i \in 1 .. Len(saved[h]) : saved[h][i] \in Nat
    BY SavedIsAddress DEF HeapInv
  <2>2. heap[h].top <= heap[h].top_base
    BY DEF HeapInv, HeapOrder
  <2>3. \A i \in 1 .. Len(s) : heap[h].top <= s[i] /\ s[i] <= heap[h].top_base
    BY <1>1, <1>3, <2>1, <2>2 DEF HeapInv, SavedOrder
  <2>4. ASSUME NEW i \in 1 .. Len(s), NEW j \in 1 .. Len(s), i <= j
        PROVE  s[j] <= s[i]
    <3>1. CASE j = Len(s)
      BY <1>3, <2>3, <3>1
    <3>2. CASE j # Len(s)
      <4>1. i \in 1 .. Len(saved[h]) /\ j \in 1 .. Len(saved[h])
        BY <1>3, <2>1, <2>4, <3>2
      <4>2. QED
        BY <1>3, <2>4, <4>1 DEF HeapInv, SavedOrder
    <3>3. QED
      BY <3>1, <3>2
  <2> HIDE DEF s
  <2>5. QED
    BY <1>2, <1>4, <2>3, <2>4 DEF HeapInv, SavedOrder
<1>7. NoStraddle'
  <2>1. ASSUME NEW b \in allocs, b.end = "top", b.heap = h, NEW i \in 1 .. Len(s)
        PROVE  b.hi <= s[i] \/ s[i] <= b.lo
    <3>1. CASE i = Len(s)
      BY <1>3, <2>1, <3>1 DEF HeapInv, BlocksInRegion
    <3>2. CASE i # Len(s)
      <4>1. i \in 1 .. Len(saved[h])
        BY <1>1, <1>3, <3>2, LenProperties
      <4>2. QED
        BY <1>3, <2>1, <4>1 DEF HeapInv, NoStraddle
    <3>3. QED
      BY <3>1, <3>2
  <2>2. \A b \in allocs : b.heap \in Heaps
    BY DEF HeapInv, TypeOK
  <2> HIDE DEF s
  <2>3. QED
    BY <1>2, <1>4, <2>1, <2>2 DEF HeapInv, NoStraddle
<1>8. HeapOrder' /\ BlocksInRegion' /\ LiveBlocksDisjoint'
  BY <1>2 DEF HeapInv, HeapOrder, BlocksInRegion, LiveBlocksDisjoint
<1>9. QED
  BY <1>5, <1>6, <1>7, <1>8 DEF HeapInv

\* Putting a remembered top back keeps the invariant: what is below it is
\* released, what is left lies above it.
LEMMA RestoreStep == ASSUME HeapInv, NEW h \in Heaps, RestoreTop(h) PROVE HeapInv'
<1> DEFINE n == Len(saved[h])
           t == saved[h][n]
           s == SubSeq(saved[h], 1, n - 1)
<1>1. saved \in [Heaps -> Seq(Nat)] /\ saved[h] \in Seq(Nat) /\ saved[h] # <<>>
  BY DEF HeapInv, TypeOK, RestoreTop
<1>2. n \in Nat \ {0} /\ t \in Nat
  BY <1>1
<1>3. /\ heap' = [heap EXCEPT ![h].top = t]
      /\ allocs' = allocs \ Released(h, t)
      /\ saved' = [saved EXCEPT ![h] = s] /\ ret' = ret
  BY DEF RestoreTop
<1>4. s \in Seq(Nat) /\ Len(s) = n - 1 /\ \A i \in 1 .. n - 1 : s[i] = saved[h][i]
  <2>1. \A i \in 1 .. n - 1 : saved[h][i] \in Nat
    BY <1>1, <1>2, ElementOfSeq
  <2>2. /\ s \in Seq(Nat) /\ Len(s) = IF 1 <= n - 1 THEN (n - 1) - 1 + 1 ELSE 0
        /\ \A i \in 1 .. (n - 1) - 1 + 1 : s[i] = saved[h][1 + i - 1]
    BY <1>2, <2>1, SubSeqProperties
  <2> HIDE DEF s
  <2>3. QED
    BY <1>2, <2>2
<1>5. saved'[h] = s /\ \A g \in Heaps : g # h => saved'[g] = saved[g]
  BY <1>1, <1>3
<1>6. heap[h].top <= t /\ t <= heap[h].top_base
  BY <1>2 DEF HeapInv, SavedOrder
<1>7. /\ heap'[h].top = t
      /\ \A g \in Heaps : /\ heap'[g].base = heap[g].base /\ heap'[g].current = heap[g].current
                          /\ heap'[g].top_base = heap[g].top_base
                          /\ g # h => heap'[g].top = heap[g].top
  BY <1>3 DEF HeapInv, TypeOK
<1>8. \A g \in Heaps : /\ heap[g].current \in Nat /\ heap[g].top \in Nat
                       /\ heap[g].base \in Nat /\ heap[g].top_base \in Nat
  BY DEF HeapInv, TypeOK
<1>9. TypeOK'
  <2>1. heap' \in [Heaps -> [base : Nat, current : Nat, top : Nat, top_base : Nat]]
    BY <1>2, <1>3 DEF HeapInv, TypeOK
  <2>2. saved' \in [Heaps -> Seq(Nat)]
    BY <1>1, <1>3, <1>4
  <2>3. QED
    BY <1>3, <2>1, <2>2 DEF HeapInv, TypeOK
<1>10. HeapOrder'
  BY <1>2, <1>6, <1>7, <1>8 DEF HeapInv, HeapOrder
<1>11. \A b \in allocs' : /\ b \in allocs /\ b.heap \in Heaps /\ b.lo \in Nat /\ b.hi \in Nat
                          /\ b.heap = h /\ b.end = "top" => t <= b.lo
  BY <1>2, <1>3, <1>8 DEF HeapInv, TypeOK, BlocksInRegion, Released
<1>12. BlocksInRegion'
  BY <1>7, <1>11 DEF HeapInv, BlocksInRegion
<1>13. SavedOrder'
  <2>1. ASSUME NEW i \in 1 .. Len(s)
        PROVE  i \in 1 .. n /\ t <= s[i] /\ s[i] <= heap[h].top_base
    <3>1. i \in 1 .. n /\ n \in 1 .. n /\ i <= n /\ s[i] = saved[h][i]
      BY <1>2, <1>4
    <3>2. QED
      BY <3>1 DEF HeapInv, SavedOrder
  <2>2. \A i, j \in 1 .. Len(s) : i <= j => s[j] <= s[i]
    BY <1>4, <2>1 DEF HeapInv, SavedOrder
  <2> HIDE DEF s, t, n
  <2>3. QED
    BY <1>5, <1>7, <2>1, <2>2 DEF HeapInv, SavedOrder
<1>14. NoStraddle'
  <2>1. \A i \in 1 .. Len(s) : i \in 1 .. n /\ s[i] = saved[h][i]
    BY <1>2, <1>4
  <2> HIDE DEF s, t, n
  <2>2. ASSUME NEW b \in allocs', b.end = "top", NEW i \in 1 .. Len(saved'[b.heap])
        PROVE  b.hi <= saved'[b.heap][i] \/ saved'[b.heap][i] <= b.lo
    <3>1. i \in 1 .. Len(saved[b.heap]) /\ saved'[b.heap][i] = saved[b.heap][i]
      BY <1>5, <1>11, <2>1, <2>2 DEF n
    <3>2. QED
      BY <1>11, <2>2, <3>1 DEF HeapInv, NoStraddle
  <2>3. QED
    BY <2>2 DEF NoStraddle
<1>15. LiveBlocksDisjoint'
  BY <1>11 DEF HeapInv, LiveBlocksDisjoint
<1>16. QED
  BY <1>9, <1>10, <1>12, <1>13, <1>14, <1>15 DEF HeapInv

-----------------------------------------------------------------------------
(* The theorems.                                                           *)

\* Every step keeps the invariant.
LEMMA NextInv == ASSUME RequestsBelowBase, HeapInv, [Next]_vars PROVE HeapInv'
<1>1. CASE Next
  BY <1>1, BottomStep, TopStep, SaveStep, RestoreStep DEF Next
<1>2. CASE UNCHANGED vars
  BY <1>2 DEF vars, HeapInv, TypeOK, HeapOrder, BlocksInRegion, SavedOrder, NoStraddle,
              LiveBlocksDisjoint
<1>3. QED
  BY <1>1, <1>2

\* The heap stays well formed and kmalloc never hands out memory that
\* somebody else still owns, in any of the heaps.
THEOREM HeapSafety ==
    ASSUME RequestsBelowBase
    PROVE  Spec => []HeapSound
<1>1. HeapInv => HeapSound
  BY DEF HeapInv, HeapSound
<1>2. HeapInv /\ [Next]_vars => HeapInv'
  BY NextInv
<1>3. QED
  BY <1>1, <1>2, InitInv, PTL DEF Spec

\* kmalloc's contract: what it returns is memory of the heap, or 0.
THEOREM RoomSafety == ASSUME RequestsBelowBase PROVE Spec => []RoomOrZero
<1>1. HeapInv /\ [Next]_vars => HeapInv'
  BY NextInv
<1>2. QED
  BY <1>1, InitInv, InvImpliesRoom, PTL DEF Spec

\* Restoring a top releases only the temporaries made since it was saved.
THEOREM ReleaseSafety == ASSUME RequestsBelowBase PROVE Spec => OnlyTemporariesReleased
<1> DEFINE A == \A b \in allocs \ allocs' :
                   /\ b.end = "top"
                   /\ saved[b.heap] # <<>> /\ b.hi <= saved[b.heap][Len(saved[b.heap])]
<1>1. HeapInv /\ [Next]_vars => [A]_vars
  <2> SUFFICES ASSUME HeapInv, Next, NEW b \in allocs, b \notin allocs'
               PROVE  /\ b.end = "top"
                      /\ saved[b.heap] # <<>> /\ b.hi <= saved[b.heap][Len(saved[b.heap])]
    OBVIOUS
  <2>1. PICK h \in Heaps : RestoreTop(h)
    BY DEF Next, KMallocBottom, KMallocTop, SaveTop
  <2> DEFINE t == saved[h][Len(saved[h])]
  <2>2. saved[h] # <<>> /\ b \in Released(h, t)
    BY <2>1 DEF RestoreTop
  <2>3. b.heap = h /\ heap[h].top <= b.lo /\ b.lo < t
    BY <2>2 DEF Released
  <2>4. /\ saved[h] \in Seq(Nat) /\ heap[h].current \in Nat /\ heap[h].top \in Nat
        /\ b.lo \in Nat /\ b.hi \in Nat /\ b.end \in {"bottom", "top"}
    BY DEF HeapInv, TypeOK
  <2>5. Len(saved[h]) \in 1 .. Len(saved[h]) /\ t \in Nat
    BY <2>2, <2>4
  <2>6. b.end = "top"
    BY <2>3, <2>4 DEF HeapInv, BlocksInRegion, HeapOrder
  <2>7. b.hi <= t \/ t <= b.lo
    BY <2>3, <2>5, <2>6 DEF HeapInv, NoStraddle
  <2>8. QED
    BY <2>2, <2>3, <2>4, <2>5, <2>6, <2>7
<1>2. HeapInv /\ [Next]_vars => HeapInv'
  BY NextInv
<1>3. QED
  BY <1>1, <1>2, InitInv, PTL DEF Spec, OnlyTemporariesReleased
===============================================================================
