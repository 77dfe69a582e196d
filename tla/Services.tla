------------------------------ MODULE Services ------------------------------
(***************************************************************************)
(* Three services that keep state between calls: the cache of chunk file   *)
(* headers of the STR RPC (game/overlord/stream.cpp), the RAMDISK RPC      *)
(* (ramdisk.cpp) and the host files of the EE (game/sce/sif_ee.cpp), that  *)
(* file streams and FileLoad use.  Each runs on one thread and they share  *)
(* no state.  A load from the disc may fail at any time.                   *)
(***************************************************************************)
EXTENDS Integers, Sequences, FiniteSets

CONSTANTS
    DiscFiles,            \* files of the disc; also the host's
    NoFile,
    STR_INDEX_CACHE_SIZE,
    Fresh,                \* INT32_MAX - 1
    MaxCalls,             \* bound on the calls of a behaviour
    RamdiskIds,           \* file_id_or_ee_addr of a RAMDISK command
    FileLength,           \* GetISOFileLength, in bytes
    Align,                \* sizes in the ramdisk are multiples of it (16)
    RAMDISK_SIZE,
    CommandSize,          \* bytes of a RAMDISK command
    Streams               \* file-stream objects

ASSUME ServicesAssumption ==
    /\ NoFile \notin DiscFiles /\ DiscFiles # {}
    /\ {STR_INDEX_CACHE_SIZE, Fresh, MaxCalls, Align, RAMDISK_SIZE, CommandSize} \subseteq Nat \ {0}
    /\ STR_INDEX_CACHE_SIZE > 1
    /\ FileLength \in [DiscFiles -> Nat]

VARIABLES
    calls,      \* how many calls so far
    sCache,     \* the header cache of STR
    chunk,      \* the last chunk loaded to the EE
    newest,     \* the entry that the last chunk's command filled, or 0
    gNumFiles, gMemUsed, gFiles, gMem,
    stored,     \* the file that the ramdisk should hold, and under which id
    served,     \* what the last GET_DATA returned
    sce_fds,    \* open host files by number
    stream,     \* file-stream objects
    nested      \* files were closed in the reverse order of opening so far:
                \* no number below another was given back

strVars == <<sCache, chunk, newest>>
ramdiskVars == <<gNumFiles, gMemUsed, gFiles, gMem, stored, served>>
hostVars == <<sce_fds, stream, nested>>
servicesVars == <<calls, strVars, ramdiskVars, hostVars>>

Call == calls < MaxCalls /\ calls' = calls + 1

-----------------------------------------------------------------------------
(* STR.  A header is named by the file whose sectors and sizes it holds.    *)

Entries == 1 .. STR_INDEX_CACHE_SIZE

\* After a load that failed the entry holds what was there, or part of the new one.
StrInit ==
    /\ sCache = [i \in Entries |-> [fr |-> NoFile, countdown |-> 0, header |-> NoFile, failed |-> FALSE]]
    /\ chunk = [file |-> NoFile, header |-> NoFile, failed |-> FALSE]
    /\ newest = 0

\* The entries that the search for a file passes: all before the one it finds.
Passed(file) ==
    {i \in Entries : \A j \in 1 .. i : sCache[j].fr # file}

\* Each entry that is passed counts down.
Counted(file) ==
    [i \in Entries |-> IF i \in Passed(file) THEN [sCache[i] EXCEPT !.countdown = @ - 1] ELSE sCache[i]]

\* The first of the entries with the lowest count.
Oldest(cache) ==
    CHOOSE i \in Entries : \A j \in Entries :
        \/ cache[i].countdown < cache[j].countdown
        \/ cache[i].countdown = cache[j].countdown /\ i <= j

Chunk(file, entry) == [file |-> file, header |-> entry.header, failed |-> entry.failed]

\* Mutant: the entry is recorded without its count.
Recorded_Stale(entry, file) == [entry EXCEPT !.fr = file]

\* The entry is recorded for the file before its header is loaded.
Recorded(entry, file) == [entry EXCEPT !.fr = file, !.countdown = Fresh]

\* RPC_STR of a chunk whose file is in the cache.
str_hit(file) ==
    /\ Call
    /\ Passed(file) # Entries
    /\ sCache' = Counted(file) /\ newest' = 0
    /\ \E i \in Entries : /\ sCache[i].fr = file /\ \A j \in 1 .. (i - 1) : sCache[j].fr # file
                          /\ \/ chunk' = Chunk(file, sCache[i])
                             \/ UNCHANGED chunk    \* LoadISOFileChunkToEE failed

\* Mutant: the chunk is looked up in the first entry.
str_miss_FirstEntry(file) ==
    /\ Call
    /\ Passed(file) = Entries
    /\ LET cache == Counted(file)
           i == Oldest(cache)
           loaded == [Recorded(cache[i], file) EXCEPT !.header = file, !.failed = FALSE]
       IN /\ sCache' = [cache EXCEPT ![i] = loaded] /\ newest' = i
          /\ chunk' = Chunk(file, sCache'[1])

\* RPC_STR of a chunk whose file is not: its header is loaded first.
str_miss(file) ==
    /\ Call
    /\ Passed(file) = Entries
    /\ LET cache == Counted(file)
           i == Oldest(cache)
           loaded == [Recorded(cache[i], file) EXCEPT !.header = file, !.failed = FALSE]
       IN /\ newest' = i
          /\ \/ /\ sCache' = [cache EXCEPT ![i] = loaded]
                /\ chunk' = Chunk(file, loaded) \/ UNCHANGED chunk
             \/ /\ \E header \in {cache[i].header, NoFile} :
                      sCache' = [cache EXCEPT ![i] = [Recorded(cache[i], file) EXCEPT !.header = header, !.failed = TRUE]]
                /\ UNCHANGED chunk

\* RPC_STR of a whole file, or of one that does not exist, leaves the cache alone.
str_whole == Call /\ UNCHANGED strVars

StrNext ==
    /\ \/ \E file \in DiscFiles : str_hit(file) \/ str_miss(file)
       \/ str_whole
    /\ UNCHANGED <<ramdiskVars, hostVars>>

-----------------------------------------------------------------------------
(* RAMDISK.  gMem holds a pair of file and position per byte.               *)

Slots == 0 .. 1    \* of the RAMDISK_MAX_FILES; the others stay empty
NoByte == <<NoFile, 0>>

InitRamdisk ==
    /\ gNumFiles = 0 /\ gMemUsed = 0
    /\ gFiles = [s \in Slots |-> [size |-> 0, id |-> 0]]
    /\ gMem = [a \in 0 .. RAMDISK_SIZE - 1 |-> NoByte]
    /\ stored = [id |-> 0, file |-> NoFile]
    /\ served = [id |-> 0, offset |-> 0, bytes |-> <<>>]

RoundUp(n) == ((n + Align - 1) \div Align) * Align

\* The number of files that a load starts from.
ramdisk_reset == 0

Loaded(file, at) ==
    [a \in DOMAIN gMem |-> IF a - at \in 0 .. FileLength[file] - 1 THEN <<file, a - at>> ELSE gMem[a]]

\* RAMDISK_RESET_AND_LOAD_FNO.  The added assertion stops a file that only
\* fits before it is rounded up; the result of the load is not looked at; and
\* gMemUsed grows by the size in the slot after the new file's.
RESET_AND_LOAD(id, file) ==
    /\ Call
    /\ FileLength[file] <= RAMDISK_SIZE => RoundUp(FileLength[file]) < RAMDISK_SIZE
    /\ IF FileLength[file] <= RAMDISK_SIZE /\ ramdisk_reset \in Slots
       THEN /\ gFiles' = [gFiles EXCEPT ![ramdisk_reset] = [size |-> RoundUp(FileLength[file]), id |-> id]]
            /\ gNumFiles' = ramdisk_reset + 1
            /\ gMemUsed' = IF gNumFiles' \in Slots THEN gFiles'[gNumFiles'].size ELSE 0
            /\ \/ gMem' = Loaded(file, 0) /\ stored' = [id |-> id, file |-> file]
               \/ UNCHANGED gMem /\ stored' = [id |-> id, file |-> NoFile]
       ELSE /\ gNumFiles' = ramdisk_reset /\ gMemUsed' = 0
            /\ stored' = [id |-> 0, file |-> NoFile]
            /\ UNCHANGED <<gFiles, gMem>>
    /\ UNCHANGED served

\* ... of a file that the disc does not have.
RESET_ONLY ==
    /\ Call
    /\ gNumFiles' = ramdisk_reset /\ gMemUsed' = 0
    /\ stored' = [id |-> 0, file |-> NoFile]
    /\ UNCHANGED <<gFiles, gMem, served>>

Before(slot) == IF slot = 0 THEN 0 ELSE gFiles[0].size

\* RAMDISK_GET_DATA_FNO: as many bytes as the command has, whatever it asks for.
GET_DATA(id, offset) ==
    /\ Call
    /\ \E slot \in Slots :
          /\ slot < gNumFiles /\ gFiles[slot].id = id
          /\ \A other \in Slots : other < slot => gFiles[other].id # id
          /\ served' = [id |-> id, offset |-> offset,
                        bytes |-> [k \in 1 .. CommandSize |->
                                      LET a == offset + Before(slot) + k - 1
                                      IN IF a \in DOMAIN gMem THEN gMem[a] ELSE NoByte]]
    /\ UNCHANGED <<gNumFiles, gMemUsed, gFiles, gMem, stored>>

\* RAMDISK_BYPASS_LOAD_FILE, an unknown function number, a file that is not there.
ramdisk_other == Call /\ UNCHANGED ramdiskVars

RamdiskNext ==
    /\ \/ \E id \in RamdiskIds, file \in DiscFiles : RESET_AND_LOAD(id, file)
       \/ RESET_ONLY
       \/ \E id \in RamdiskIds, offset \in 0 .. 1 : GET_DATA(id, offset)
       \/ ramdisk_other
    /\ UNCHANGED <<strVars, hostVars>>

-----------------------------------------------------------------------------
(* Host files.                                                              *)

NoStream == [file |-> -1, name |-> NoFile, flags |-> 0]

HostInit == sce_fds = <<>> /\ stream = [s \in Streams |-> NoStream] /\ nested = TRUE

Fds == DOMAIN sce_fds

\* sceOpen counts the files that are open, and forgets one that has the number.
sceOpen == Cardinality(Fds) + 1

OpenAs(fd, name) == [f \in Fds \cup {fd} |-> IF f = fd THEN name ELSE sce_fds[f]]
Without(fd) == [f \in Fds \ {fd} |-> sce_fds[f]]

\* kopen, for reading; fopen may fail.
kopen(s, name) ==
    /\ Call
    /\ \/ /\ stream' = [stream EXCEPT ![s] = [file |-> sceOpen, name |-> name, flags |-> 0]]
          /\ sce_fds' = OpenAs(sceOpen, name)
       \/ /\ stream' = [stream EXCEPT ![s] = [file |-> -1, name |-> name, flags |-> 0]]
          /\ UNCHANGED sce_fds

\* klength, kseek, kread: an error marks the stream.
kread(s) ==
    /\ Call
    /\ stream[s].flags = 0 /\ stream[s].file \notin Fds
    /\ stream' = [stream EXCEPT ![s].flags = 1]
    /\ UNCHANGED sce_fds

\* kclose closes a stream without errors, and only its number is forgotten.
kclose(s) ==
    /\ Call
    /\ IF stream[s].flags = 0
       THEN /\ sce_fds' = Without(stream[s].file)
            /\ stream' = [stream EXCEPT ![s].file = -1]
       ELSE stream' = [stream EXCEPT ![s].flags = 0] /\ UNCHANGED sce_fds

\* FileLoad and FileLength open, read and close a file; an empty file, or no
\* memory for it, leaves it open.
FileLoad(name) ==
    /\ Call
    /\ sce_fds' \in {sce_fds, OpenAs(sceOpen, name)}
    /\ UNCHANGED stream

HostNext ==
    /\ \/ \E s \in Streams : kread(s) \/ kclose(s) \/ \E name \in DiscFiles : kopen(s, name)
       \/ \E name \in DiscFiles : FileLoad(name)
    /\ nested' = (nested /\ Fds' = 1 .. Cardinality(Fds'))
    /\ UNCHANGED <<strVars, ramdiskVars>>

-----------------------------------------------------------------------------
ServicesInit == calls = 0 /\ StrInit /\ InitRamdisk /\ HostInit
ServicesNext == StrNext \/ RamdiskNext \/ HostNext
ServicesSpec == ServicesInit /\ [][ServicesNext]_servicesVars

\* A chunk is loaded with the header of its own file, however the cache was
\* filled and emptied, unless an earlier load of that header failed: RPC_STR
\* records the file in the cache before its header is there.
ChunkUsesItsHeader == chunk.failed \/ chunk.header = chunk.file

\* A header that was just loaded is not the next to go: two animations that
\* play at once and are both missing never throw each other out.
NewestHeaderStays == [][newest # 0 => sCache'[newest].fr = sCache[newest].fr]_servicesVars

\* GET_DATA serves the file that was loaded last under the id it is asked for,
\* at the offset it is asked for, and never one that a reset dropped.
RamdiskServesLatest ==
    [][served' # served /\ stored.file # NoFile =>
          /\ served'.id = stored.id
          /\ \A k \in 1 .. CommandSize :
                served'.offset + k <= FileLength[stored.file] =>
                    served'.bytes[k] = <<stored.file, served'.offset + k - 1>>]_servicesVars

\* A stream that is open has its own file behind its number, and closing
\* one twice, or after an error, closes no other: as long as files are closed
\* in the reverse order of opening them, which is all that sceOpen allows for.
StreamReadsItsFile ==
    nested => \A s \in Streams :
        stream[s].file # -1 => stream[s].file \in Fds /\ sce_fds[stream[s].file] = stream[s].name

\* RPC_STR and the file streams answer with the file they were asked about.
ServedAsAsked == ChunkUsesItsHeader /\ StreamReadsItsFile

\* Neither the cache of headers nor the ramdisk goes back to older contents.
CachesServeLatest == NewestHeaderStays /\ RamdiskServesLatest
=============================================================================
