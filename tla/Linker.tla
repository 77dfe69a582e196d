------------------------------- MODULE Linker -------------------------------
(* klink.cpp: link_control copies the segments of an object file to their    *)
(* places, often over the file itself, while it still needs the link block.  *)
(* Memory is a sequence of cells; the heap is [HeapBase, HeapEnd) and the    *)
(* cells from HeapEnd on are a buffer of its loader, above the heap's top.   *)
(* A cell of a file is <<file, part, index>>.                                *)
EXTENDS Naturals, FiniteSets

CONSTANTS
    LinkSizes, SegmentSizes,    \* cells of the parts of a file
    MaxFiles,
    HeapCells,
    BufferCells,
    OBJ_V2_CLOSE_ENOUGH,        \* a gap below this is left where it is
    OBJ_V2_MAX_TRANSFER         \* cells copied in one step

ASSUME LinkerAssumption ==
    /\ LinkSizes \subseteq Nat \ {0} /\ SegmentSizes \subseteq Nat
    /\ \E n \in LinkSizes : \A m \in LinkSizes : m <= n
    /\ HeapCells \in Nat /\ BufferCells \in Nat /\ OBJ_V2_MAX_TRANSFER \in Nat \ {0}

VARIABLES
    cell,           \* memory
    current, top,   \* of the heap
    lc,             \* saved_link_control
    file,           \* the object file being linked: where it is, its sizes
    placed,         \* segments in their final places
    files,          \* how many files so far
    tight           \* a file was loaded that left no room for its temporaries

linkVars == <<cell, current, top, lc, file, placed, files, tight>>

HeapBase == CHOOSE n \in LinkSizes : \A m \in LinkSizes : m <= n    \* below it, low memory
HeapEnd == HeapBase + HeapCells
Addresses == 0 .. HeapEnd + BufferCells - 1

\* The parts of a file: its segments, its link block; and everything else.
MAIN_SEGMENT == 1
DEBUG_SEGMENT == 2
TOP_LEVEL_SEGMENT == 3
LINK == 4
NOTHING == 5

Idle == [state |-> "idle", object |-> 0, block |-> 0, process |-> 0, heap_top |-> HeapEnd, error |-> FALSE]
NoObject == [version |-> 0, at |-> 0, where |-> "none", link |-> 0, seg |-> <<0, 0, 0>>, debug |-> FALSE, global |-> FALSE]

LinkerInit ==
    /\ cell = [a \in Addresses |-> <<0, NOTHING, 0>>]
    /\ current = HeapBase /\ top = HeapEnd
    /\ lc = Idle /\ file = NoObject /\ placed = {} /\ files = 0 /\ tight = FALSE

-----------------------------------------------------------------------------
(* Files.  A v3 file is its link block, then the top-level, debug and main   *)
(* segments (generate_header_v3); v2 its link block, then its data; v4 a     *)
(* header, the data, then the link block.                                    *)

DataSize(f) == f.seg[1] + f.seg[2] + f.seg[3]
FileSize(f) == f.link + DataSize(f) + IF f.version = 4 THEN 1 ELSE 0
BlockAt(f) == IF f.version = 4 THEN f.at + 1 + DataSize(f) ELSE f.at
DataAt(f) == IF f.version = 4 THEN f.at + 1 ELSE f.at + f.link

\* Where segment s is in the file.
SegmentAt(f, s) ==
    DataAt(f) + (IF s < TOP_LEVEL_SEGMENT THEN f.seg[3] ELSE 0) + (IF s < DEBUG_SEGMENT THEN f.seg[2] ELSE 0)

Stored(f, id) == [a \in Addresses |->
    IF a \in BlockAt(f) .. BlockAt(f) + f.link - 1 THEN <<id, LINK, a - BlockAt(f)>>
    ELSE IF \E s \in 1 .. 3 : a \in SegmentAt(f, s) .. SegmentAt(f, s) + f.seg[s] - 1
    THEN LET s == CHOOSE s \in 1 .. 3 : a \in SegmentAt(f, s) .. SegmentAt(f, s) + f.seg[s] - 1
         IN <<id, s, a - SegmentAt(f, s)>>
    ELSE cell[a]]

\* The loader puts a file into its buffer, at the heap's current address (the
\* last of a DGO), or into memory it has allocated there (listener code).
LoadFile ==
    /\ lc.state = "idle" /\ files < MaxFiles
    /\ \E version \in {2, 3, 4}, link \in LinkSizes, main, debug, toplevel \in SegmentSizes,
          where \in {"buffer", "current", "allocated"}, keep, global \in BOOLEAN :
          LET f == [version |-> version, at |-> IF where = "buffer" THEN HeapEnd ELSE current, where |-> where,
                    link |-> link, seg |-> <<main, debug, toplevel>>, debug |-> keep, global |-> global]
          IN /\ version # 3 => debug = 0 /\ toplevel = 0 /\ main > 0 /\ ~keep
             /\ where = "allocated" => version = 3 /\ ~global
             /\ f.at + FileSize(f) <= IF where = "buffer" THEN HeapEnd + BufferCells ELSE top
             /\ file' = f
             /\ cell' = Stored(f, files + 1)
             /\ current' = IF where = "allocated" THEN current + FileSize(f) ELSE current
             /\ tight' = (tight \/ (where # "buffer" /\ f.at + FileSize(f) + link + toplevel > top))
    /\ files' = files + 1
    /\ lc' = [lc EXCEPT !.state = "loaded"]
    /\ UNCHANGED <<top, placed>>

-----------------------------------------------------------------------------
(* kmalloc and memmove, on a record [cell, current, top].                    *)

Memory == [cell |-> cell, current |-> current, top |-> top]

Bottom(m, size) ==
    IF m.current + size > m.top THEN [m |-> m, at |-> 0]
    ELSE [m |-> [m EXCEPT !.current = @ + size], at |-> m.current]

Top(m, size) ==
    IF m.top < size \/ m.current >= m.top - size THEN [m |-> m, at |-> 0]
    ELSE [m |-> [m EXCEPT !.top = @ - size], at |-> m.top - size]

Moved(m, dst, src, size) ==
    [m EXCEPT !.cell = [a \in Addresses |-> IF a \in dst .. dst + size - 1 THEN m.cell[src + (a - dst)] ELSE m.cell[a]]]

\* A link block in the heap is moved to its top (to address 0, when there is
\* no room), so that the file's memory can be reused.
MoveBlock(m) ==
    LET new == Top(m, file.link) IN
    [m |-> Moved(new.m, new.at, file.at, file.link), at |-> new.at]

\* link_control::begin.  Then the file, which it is about to copy, is no longer
\* counted as allocated.
begin ==
    /\ lc.state = "loaded"
    /\ LET inHeap == file.at >= HeapBase /\ file.at < top
           kicked(m, at) == IF at >= HeapBase /\ at < m.top /\ at < m.current THEN [m EXCEPT !.current = at] ELSE m
           moved == IF file.version = 4 THEN [m |-> Memory, at |-> BlockAt(file)]
                    ELSE IF ~inHeap THEN [m |-> kicked(Memory, DataAt(file)), at |-> file.at]
                    ELSE LET new == MoveBlock(Memory)
                         IN [new EXCEPT !.m.current = IF file.at < @ THEN file.at ELSE @]
       IN /\ cell' = moved.m.cell /\ current' = moved.m.current /\ top' = moved.m.top
          /\ lc' = [lc EXCEPT !.state = "copy", !.object = DataAt(file), !.block = moved.at, !.process = 0,
                              !.heap_top = top, !.error = FALSE]
    /\ UNCHANGED <<file, placed, files, tight>>

-----------------------------------------------------------------------------
(* work_v3.                                                                  *)

\* One segment is copied to its place; x holds the memory, the places so far
\* and whether memory ran out.
CopySegment(x, s) ==
    LET size == file.seg[s]
        elsewhere == s = DEBUG_SEGMENT /\ file.where # "allocated"   \* kdebugheap
        new == IF s = TOP_LEVEL_SEGMENT THEN Top(x.m, size) ELSE Bottom(x.m, size)
    IN IF x.error \/ size = 0 \/ elsewhere \/ (s = DEBUG_SEGMENT /\ ~file.debug) THEN x
       ELSE IF new.at = 0 THEN [x EXCEPT !.error = TRUE]
       ELSE [x EXCEPT !.m = Moved(new.m, new.at, SegmentAt(file, s), size), !.at[s] = new.at]

\* Mutant: the segments are copied in the order of their numbers.
CopySegments_MainFirst(x) ==
    CopySegment(CopySegment(CopySegment(x, MAIN_SEGMENT), DEBUG_SEGMENT), TOP_LEVEL_SEGMENT)

CopySegments(x) ==
    CopySegment(CopySegment(CopySegment(x, TOP_LEVEL_SEGMENT), DEBUG_SEGMENT), MAIN_SEGMENT)

Place(at, s) == [at |-> at, id |-> files, seg |-> s, size |-> file.seg[s]]

work_v3_copy ==
    /\ lc.state = "copy" /\ file.version = 3
    /\ \E debugHeapFull \in BOOLEAN :    \* an allocation elsewhere may fail
          LET x == CopySegments([m |-> Memory, at |-> <<0, 0, 0>>, error |-> FALSE])
              fails == x.error \/ (debugHeapFull /\ file.debug /\ file.where # "allocated" /\ file.seg[2] > 0)
          IN /\ cell' = x.m.cell /\ current' = x.m.current /\ top' = x.m.top
             /\ placed' = placed \cup {Place(x.at[s], s) : s \in {t \in 1 .. 3 : x.at[t] # 0}}
             /\ lc' = [lc EXCEPT !.state = IF fails THEN "worked" ELSE "link", !.error = fails]
    /\ UNCHANGED <<file, files, tight>>

-----------------------------------------------------------------------------
(* work_v2, also of a v4 file.                                               *)

HeapGap == lc.object - current

\* Close enough: the data stays and the heap grows over it.
work_v2_stay ==
    /\ lc.state = "copy" /\ file.version # 3 /\ lc.process = 0 /\ HeapGap < OBJ_V2_CLOSE_ENOUGH
    /\ current' = lc.object + DataSize(file)
    /\ LET fails == top <= current' IN
       /\ lc' = [lc EXCEPT !.state = IF fails THEN "worked" ELSE "link", !.error = fails]
       /\ placed' = IF fails THEN placed ELSE placed \cup {Place(lc.object, MAIN_SEGMENT)}
    /\ UNCHANGED <<cell, top, file, files, tight>>

ChunkFrom(done) == done

\* The next chunk to its new place; work() returns after each but a single one.
Transfer(m, to, done) ==
    LET left == DataSize(file) - done
        size == IF left > OBJ_V2_MAX_TRANSFER THEN OBJ_V2_MAX_TRANSFER ELSE left
    IN [m |-> Moved(m, to + done, DataAt(file) + ChunkFrom(done), size), done |-> done + size]

work_v2_move ==
    /\ lc.state = "copy" /\ file.version # 3
    /\ lc.process > 0 \/ HeapGap >= OBJ_V2_CLOSE_ENOUGH
    /\ LET new == IF lc.process = 0 THEN Bottom(Memory, DataSize(file)) ELSE [m |-> Memory, at |-> lc.object]
       IN IF new.at = 0
          THEN /\ lc' = [lc EXCEPT !.state = "worked", !.error = TRUE]
               /\ UNCHANGED <<cell, current, top, placed>>
          ELSE LET c == Transfer(new.m, new.at, lc.process) IN
               /\ cell' = c.m.cell /\ current' = c.m.current /\ top' = c.m.top
               /\ IF c.done < DataSize(file)
                  THEN /\ lc' = [lc EXCEPT !.object = new.at, !.process = c.done]
                       /\ UNCHANGED placed
                  ELSE /\ lc' = [lc EXCEPT !.state = "link", !.object = new.at, !.process = 0]
                       /\ placed' = placed \cup {Place(new.at, MAIN_SEGMENT)}
    /\ UNCHANGED <<file, files, tight>>

-----------------------------------------------------------------------------
(* Linking: the entries of the link block are read one after the other, and  *)
(* interning a new symbol allocates on the global heap.                      *)

Interned(m) ==
    LET new == Bottom(m, 1) IN
    IF new.at = 0 THEN m ELSE [new.m EXCEPT !.cell[new.at] = <<0, NOTHING, 0>>]

link_step ==
    /\ lc.state = "link"
    /\ \E fresh \in BOOLEAN :
          LET m == IF fresh /\ file.global THEN Interned(Memory) ELSE Memory IN
          cell' = m.cell /\ current' = m.current
    /\ lc' = [lc EXCEPT !.process = @ + 1, !.state = IF lc.process = 1 THEN "worked" ELSE "link"]
    /\ UNCHANGED <<top, file, placed, files, tight>>

HeapTop == lc.heap_top

\* link_control::finish.  A v3 file is executed if it has an entry; the others
\* are logged in whether or not their data could be placed, at the entry 0 too.
finish ==
    /\ lc.state = "worked"
    /\ top' = HeapTop
    /\ placed' = {p \in placed : p.seg # TOP_LEVEL_SEGMENT}
    /\ lc' = [lc EXCEPT !.state = IF lc.error /\ file.version # 3 THEN "crashed" ELSE "idle"]
    /\ UNCHANGED <<cell, current, file, files, tight>>

link_work == work_v3_copy \/ work_v2_stay \/ work_v2_move \/ link_step

LinkerNext == LoadFile \/ begin \/ link_work \/ finish

LinkerSpec == LinkerInit /\ [][LinkerNext]_linkVars

-----------------------------------------------------------------------------
(* Properties.                                                               *)

\* What is left where it was linked is what the file held, although segments
\* are copied over the file they come from and over the files linked before:
\* as long as a file that is linked in the heap leaves room there for a second
\* link block and top-level segment.
LinkedAsStored ==
    tight \/ \A p \in placed : \A i \in 0 .. p.size - 1 : cell[p.at + i] = <<p.id, p.seg, i>>

\* The link block is there until it has been read to its end, but for a v4 file
\* that is linked where it was loaded, in the global heap.
LinkBlockIntact ==
    lc.state \in {"copy", "link"} /\ ~tight /\ ~(file.version = 4 /\ file.where # "buffer" /\ file.global) =>
        \A i \in 0 .. file.link - 1 : cell[lc.block + i] = <<files, LINK, i>>

\* Between two files the whole heap above what was placed is free again: nothing
\* that linking allocated for itself is left at its top.
TemporariesGone == lc.state = "idle" => top = HeapEnd

\* link_control moves segments, link block and heap top over one another and
\* loses nothing it still needs, nor a cell of the heap.
LinkerSound == LinkedAsStored /\ LinkBlockIntact /\ TemporariesGone
=============================================================================
