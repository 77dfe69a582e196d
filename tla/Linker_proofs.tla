----------------------------- MODULE Linker_proofs -----------------------------
(***************************************************************************)
(* The linker loses nothing it still needs, for any sizes of files, heap   *)
(* and buffer, any number of files and any gap and transfer size.          *)
(*                                                                         *)
(* LinkInv says where everything is while a file is worked on: what was    *)
(* placed before lies below Floor, the file at or above it (or in the      *)
(* loader's buffer), the moved link block and the top-level segment above  *)
(* the heap's top; and what has not been copied yet is still whole.  Each  *)
(* step writes only between Floor and the top, onto cells of the file that *)
(* have been copied already.  A file that leaves no room above it for its  *)
(* link block and top-level segment makes the state `tight', about which   *)
(* only the heap's top is claimed, as in LinkerSound itself.               *)
(***************************************************************************)
EXTENDS Linker, TLAPS

\* The cells [at, at + size) of memory c hold part s of file id.
Holds(c, at, size, id, s) == \A i \in 0 .. size - 1 : c[at + i] = <<id, s, i>>

InHeap == file.where # "buffer"
Busy == lc.state \in {"loaded", "copy", "link"}

\* A v4 file in the global heap: interning may overwrite its link block.
BlockInTheWay == file.version = 4 /\ InHeap /\ file.global

\* The heap's top is put back after each file.
Tops ==
    /\ DOMAIN lc = {"state", "object", "block", "process", "heap_top", "error"}
    /\ lc.state \in {"idle", "loaded", "copy", "link", "worked", "crashed"}
    /\ lc.state \in {"idle", "loaded"} => top = HeapEnd
    /\ lc.state \notin {"idle", "loaded"} => lc.heap_top = HeapEnd

\* A file that is being linked lies in its buffer, or in the heap with room
\* above it.
Fits(f) ==
    /\ f.version \in {2, 3, 4} /\ f.where \in {"buffer", "current", "allocated"}
    /\ f.at \in Nat /\ f.link \in LinkSizes
    /\ f.seg[1] \in Nat /\ f.seg[2] \in Nat /\ f.seg[3] \in Nat
    /\ f.version # 3 => f.seg[1] > 0 /\ f.seg[2] = 0 /\ f.seg[3] = 0
    /\ f.where = "allocated" => f.version = 3 /\ ~f.global
    /\ f.where = "buffer" => f.at = HeapEnd /\ FileSize(f) <= BufferCells
    /\ f.where # "buffer" => HeapBase <= f.at /\ f.at + FileSize(f) + f.link + f.seg[3] <= HeapEnd

FileOK == Fits(file)

\* Where what has been placed ends.
Floor ==
    IF lc.state = "loaded" /\ InHeap THEN file.at
    ELSE IF lc.state = "copy" /\ file.version # 3 /\ lc.process > 0 THEN lc.object
    ELSE current

Order ==
    /\ DOMAIN cell = Addresses /\ files \in Nat
    /\ lc.object \in Nat /\ lc.block \in Nat /\ lc.process \in Nat /\ lc.error \in BOOLEAN
    /\ current \in Nat /\ top \in Nat /\ HeapBase <= Floor /\ Floor <= current /\ top <= HeapEnd
    /\ lc.state \in {"idle", "loaded", "copy", "link"} \/ ~lc.error \/ file.version = 3 => current <= top

\* The file that has been loaded is whole.
Whole ==
    lc.state = "loaded" =>
        /\ Holds(cell, BlockAt(file), file.link, files, LINK)
        /\ Holds(cell, SegmentAt(file, 1), file.seg[1], files, 1)
        /\ Holds(cell, SegmentAt(file, 2), file.seg[2], files, 2)
        /\ Holds(cell, SegmentAt(file, 3), file.seg[3], files, 3)
        /\ InHeap => current = IF file.where = "allocated" THEN file.at + FileSize(file) ELSE file.at

\* Its link block is out of the way.
Block ==
    lc.state \in {"copy", "link"} /\ ~BlockInTheWay =>
        /\ \/ lc.block >= HeapEnd
           \/ lc.block = 0
           \/ lc.block >= top /\ lc.block + file.link <= HeapEnd
           \/ file.version = 4 /\ InHeap /\ lc.block = BlockAt(file) /\ (lc.state = "link" => current <= lc.block)
        /\ lc.block + file.link <= HeapEnd + BufferCells
        /\ Holds(cell, lc.block, file.link, files, LINK)

\* What has not been copied is still there.
Copying ==
    lc.state = "copy" =>
        /\ lc.process = 0 => lc.object = DataAt(file) /\ (InHeap => current = file.at)
        /\ file.version = 3 =>
              /\ lc.process = 0
              /\ Holds(cell, SegmentAt(file, 1), file.seg[1], files, 1)
              /\ Holds(cell, SegmentAt(file, 2), file.seg[2], files, 2)
              /\ Holds(cell, SegmentAt(file, 3), file.seg[3], files, 3)
              /\ InHeap => file.at + FileSize(file) + file.seg[3] <= top
        /\ file.version # 3 =>
              /\ lc.process < DataSize(file)
              /\ \A i \in lc.process .. DataSize(file) - 1 : cell[DataAt(file) + i] = <<files, 1, i>>
              /\ InHeap => file.at + DataSize(file) < top
        /\ lc.process > 0 =>
              /\ lc.object + DataSize(file) = current /\ lc.object <= DataAt(file)
              /\ InHeap => lc.object = file.at
              /\ Holds(cell, lc.object, lc.process, files, 1)

\* Segments in their places: the top-level one at the top, the others below.
Placed ==
    \A p \in placed :
        /\ p.at \in Nat /\ p.size \in Nat /\ p.id \in Nat
        /\ Holds(cell, p.at, p.size, p.id, p.seg)
        /\ p.seg # TOP_LEVEL_SEGMENT => HeapBase <= p.at /\ p.at + p.size <= Floor
        /\ p.seg = TOP_LEVEL_SEGMENT =>
               lc.state \in {"link", "worked"} /\ top <= p.at /\ p.at + p.size <= HeapEnd

LinkInv == Tops /\ (~tight => (Busy => FileOK) /\ Order /\ Whole /\ Block /\ Copying /\ Placed)

-------------------------------------------------------------------------------
(* Sizes, memory and the layout of a file.                                   *)

\* What the constants are: the link blocks fit below the heap.
LEMMA LinkerNumbers ==
    /\ HeapBase \in Nat /\ HeapBase > 0 /\ HeapCells \in Nat /\ BufferCells \in Nat
    /\ HeapEnd \in Nat /\ HeapBase <= HeapEnd /\ Addresses = 0 .. HeapEnd + BufferCells - 1
    /\ \A l \in LinkSizes : l \in Nat /\ l > 0 /\ l <= HeapBase
    /\ \A l \in SegmentSizes : l \in Nat
    /\ OBJ_V2_MAX_TRANSFER \in Nat /\ OBJ_V2_MAX_TRANSFER > 0
<1>1. PICK n \in LinkSizes : \A m \in LinkSizes : m <= n BY LinkerAssumption
<1>2. HeapBase \in LinkSizes /\ \A m \in LinkSizes : m <= HeapBase BY <1>1 DEF HeapBase
<1>3. \A l \in LinkSizes : l \in Nat /\ l > 0 BY LinkerAssumption
<1>4. HeapBase \in Nat /\ HeapBase > 0 BY <1>2, <1>3
<1>5. HeapCells \in Nat /\ BufferCells \in Nat BY LinkerAssumption
<1>6. HeapEnd \in Nat /\ HeapBase <= HeapEnd BY <1>4, <1>5 DEF HeapEnd
<1> QED BY <1>2, <1>3, <1>4, <1>5, <1>6, LinkerAssumption DEF Addresses

\* memmove.
Shift(c, dst, src, size) ==
    [a \in Addresses |-> IF a \in dst .. dst + size - 1 THEN c[src + (a - dst)] ELSE c[a]]

\* memmove keeps a part that it does not write on.
LEMMA ShiftKeeps ==
    ASSUME NEW c, NEW dst \in Nat, NEW src \in Nat, NEW size \in Nat, NEW at \in Nat, NEW len \in Nat,
           NEW id, NEW s, Holds(c, at, len, id, s), at + len <= HeapEnd + BufferCells,
           at + len <= dst \/ dst + size <= at
    PROVE  Holds(Shift(c, dst, src, size), at, len, id, s)
<1> SUFFICES ASSUME NEW i \in 0 .. len - 1 PROVE Shift(c, dst, src, size)[at + i] = <<id, s, i>> BY
  DEF Holds
<1>1. HeapEnd \in Nat /\ BufferCells \in Nat /\ Addresses = 0 .. HeapEnd + BufferCells - 1 BY LinkerNumbers
<1>2. at + i \in Addresses /\ ~ (at + i \in dst .. dst + size - 1) BY <1>1
<1>3. Shift(c, dst, src, size)[at + i] = c[at + i] BY <1>2 DEF Shift
<1> QED BY <1>3 DEF Holds

\* memmove copies a part, also onto itself.
LEMMA ShiftCopies ==
    ASSUME NEW c, NEW dst \in Nat, NEW src \in Nat, NEW size \in Nat, NEW id, NEW s,
           Holds(c, src, size, id, s), dst + size <= HeapEnd + BufferCells
    PROVE  Holds(Shift(c, dst, src, size), dst, size, id, s)
<1> SUFFICES ASSUME NEW i \in 0 .. size - 1 PROVE Shift(c, dst, src, size)[dst + i] = <<id, s, i>> BY
  DEF Holds
<1>1. HeapEnd \in Nat /\ BufferCells \in Nat /\ Addresses = 0 .. HeapEnd + BufferCells - 1 BY LinkerNumbers
<1>2. dst + i \in Addresses /\ dst + i \in dst .. dst + size - 1 /\ src + (dst + i - dst) = src + i BY <1>1
<1>3. Shift(c, dst, src, size)[dst + i] = c[src + i] BY <1>2 DEF Shift
<1> QED BY <1>3 DEF Holds

\* The record that kmalloc and memmove work on.
Rec(c, cu, t) == [cell |-> c, current |-> cu, top |-> t]

\* kmalloc at the bottom of the heap moves `current', or fails and moves nothing.
LEMMA BottomIs ==
    ASSUME NEW c, NEW cu, NEW t, NEW size
    PROVE  Bottom(Rec(c, cu, t), size) = IF cu + size > t THEN [m |-> Rec(c, cu, t), at |-> 0]
                                         ELSE [m |-> Rec(c, cu + size, t), at |-> cu]
BY DEF Bottom, Rec

\* kmalloc at the top moves `top', or fails and moves nothing.
LEMMA TopIs ==
    ASSUME NEW c, NEW cu, NEW t, NEW size
    PROVE  Top(Rec(c, cu, t), size) = IF t < size \/ cu >= t - size THEN [m |-> Rec(c, cu, t), at |-> 0]
                                      ELSE [m |-> Rec(c, cu, t - size), at |-> t - size]
BY DEF Top, Rec

\* memmove changes memory only.
LEMMA MovedIs ==
    ASSUME NEW c, NEW cu, NEW t, NEW dst, NEW src, NEW size
    PROVE  Moved(Rec(c, cu, t), dst, src, size) = Rec(Shift(c, dst, src, size), cu, t)
BY DEF Moved, Rec, Shift

\* Where the parts of a file are.
LaidOut(f) ==
    /\ f.at \in Nat /\ f.link \in Nat /\ f.link > 0 /\ f.link <= HeapBase
    /\ f.seg[1] \in Nat /\ f.seg[2] \in Nat /\ f.seg[3] \in Nat
    /\ DataAt(f) \in Nat /\ BlockAt(f) \in Nat /\ FileSize(f) \in Nat /\ DataSize(f) \in Nat
    /\ SegmentAt(f, 3) = DataAt(f) /\ SegmentAt(f, 2) = DataAt(f) + f.seg[3]
    /\ SegmentAt(f, 1) = DataAt(f) + f.seg[3] + f.seg[2]
    /\ DataSize(f) = f.seg[1] + f.seg[2] + f.seg[3]
    /\ f.version # 4 => /\ BlockAt(f) = f.at /\ DataAt(f) = f.at + f.link
                           /\ FileSize(f) = f.link + DataSize(f)
    /\ f.version = 4 => /\ DataAt(f) = f.at + 1 /\ BlockAt(f) = f.at + 1 + DataSize(f)
                           /\ FileSize(f) = f.link + DataSize(f) + 1
    /\ f.version # 3 => /\ SegmentAt(f, 1) = DataAt(f) /\ DataSize(f) = f.seg[1]
                           /\ f.seg[1] > 0

\* The parts of a file follow one another.
LEMMA Layout ==
    ASSUME NEW f, Fits(f)
    PROVE  LaidOut(f)
<1>1. /\ f.at \in Nat /\ f.link \in Nat /\ f.link > 0 /\ f.link <= HeapBase
      /\ f.seg[1] \in Nat /\ f.seg[2] \in Nat /\ f.seg[3] \in Nat
  BY LinkerNumbers DEF Fits
<1>2. DataSize(f) = f.seg[1] + f.seg[2] + f.seg[3] /\ DataSize(f) \in Nat BY <1>1 DEF DataSize
<1>3. f.version # 4 => /\ BlockAt(f) = f.at /\ DataAt(f) = f.at + f.link
                          /\ FileSize(f) = f.link + DataSize(f)
  BY <1>1, <1>2 DEF BlockAt, DataAt, FileSize
<1>4. f.version = 4 => /\ DataAt(f) = f.at + 1 /\ BlockAt(f) = f.at + 1 + DataSize(f)
                          /\ FileSize(f) = f.link + DataSize(f) + 1
  BY <1>1, <1>2 DEF BlockAt, DataAt, FileSize
<1>5. DataAt(f) \in Nat /\ BlockAt(f) \in Nat /\ FileSize(f) \in Nat BY <1>1, <1>2, <1>3, <1>4
<1>6. /\ SegmentAt(f, 3) = DataAt(f) /\ SegmentAt(f, 2) = DataAt(f) + f.seg[3]
      /\ SegmentAt(f, 1) = DataAt(f) + f.seg[3] + f.seg[2]
  BY <1>1, <1>5 DEF SegmentAt, TOP_LEVEL_SEGMENT, DEBUG_SEGMENT
<1>7. f.version # 3 => /\ SegmentAt(f, 1) = DataAt(f) /\ DataSize(f) = f.seg[1]
                          /\ f.seg[1] > 0
  <2>1. f.version # 3 => f.seg[2] = 0 /\ f.seg[3] = 0 /\ f.seg[1] > 0 BY DEF Fits
  <2> QED BY <1>1, <1>2, <1>5, <1>6, <2>1
<1> QED BY <1>1, <1>2, <1>3, <1>4, <1>5, <1>6, <1>7 DEF LaidOut

\* So do those of the file that is being linked.
LEMMA FileLayout ==
    ASSUME FileOK
    PROVE  LaidOut(file)
BY Layout DEF FileOK

\* LinkInv holds before the first file.
LEMMA LinkInitInv == LinkerInit => LinkInv
<1> SUFFICES ASSUME LinkerInit PROVE LinkInv OBVIOUS
<1> USE LinkerNumbers DEF LinkerInit, Idle, NoObject
<1>1. Tops BY DEF Tops
<1>2. ~ Busy BY DEF Busy
<1>3. Order BY DEF Order, Floor
<1>4. Whole /\ Block /\ Copying /\ Placed BY DEF Whole, Block, Copying, Placed
<1> QED BY <1>1, <1>2, <1>3, <1>4 DEF LinkInv

\* LinkInv is strong enough.
LEMMA LinkInvSuffices == LinkInv => LinkerSound
<1> SUFFICES ASSUME LinkInv PROVE LinkerSound OBVIOUS
<1> USE DEF LinkInv
<1>1. TemporariesGone BY DEF TemporariesGone, Tops
<1>2. LinkedAsStored BY DEF LinkedAsStored, Placed, Holds
<1>3. LinkBlockIntact
  BY DEF LinkBlockIntact, Block, Holds, BlockInTheWay, InHeap, Busy, FileOK, Fits
<1> QED BY <1>1, <1>2, <1>3 DEF LinkerSound

\* The heap's top is back where it was when a file is done, by any step.
LEMMA TopsStep ==
    ASSUME Tops, LinkerNext
    PROVE  Tops'
<1> USE DEF Tops
<1>1. CASE LoadFile BY <1>1 DEF LoadFile
<1>2. CASE begin BY <1>2 DEF begin
<1>3. CASE work_v3_copy BY <1>3 DEF work_v3_copy
<1>4. CASE work_v2_stay BY <1>4 DEF work_v2_stay
<1>5. CASE work_v2_move BY <1>5 DEF work_v2_move
<1>6. CASE link_step BY <1>6 DEF link_step
<1>7. CASE finish BY <1>7 DEF finish, HeapTop
<1> QED BY <1>1, <1>2, <1>3, <1>4, <1>5, <1>6, <1>7 DEF LinkerNext, link_work

\* What begin does to the heap and to the link block.
LEMMA BeginCases ==
    ASSUME Tops, FileOK, lc.state = "loaded", current \in Nat, begin
    PROVE  /\ lc'.state = "copy" /\ lc'.object = DataAt(file) /\ lc'.process = 0 /\ lc'.error = FALSE
           /\ file.version = 4 \/ ~ InHeap => UNCHANGED <<cell, current, top>> /\ lc'.block = BlockAt(file)
           /\ file.version # 4 /\ InHeap =>
                 \E b \in Nat, t \in Nat :
                     /\ \/ b = 0 /\ t = top
                        \/ b = top - file.link /\ t = top - file.link /\ current < b
                     /\ top > file.link /\ current < top - file.link => b # 0
                     /\ lc'.block = b /\ top' = t /\ cell' = Shift(cell, b, file.at, file.link)
                     /\ current' = IF file.at < current THEN file.at ELSE current
<1>0. /\ HeapEnd \in Nat /\ HeapBase \in Nat /\ top = HeapEnd /\ HeapBase <= HeapEnd BY LinkerNumbers
  DEF Tops
<1>1. lc'.state = "copy" /\ lc'.object = DataAt(file) /\ lc'.process = 0 /\ lc'.error = FALSE
  BY DEF begin, Tops
<1>2. CASE file.version = 4
  BY <1>1, <1>2 DEF begin, Memory, Tops
<1>3. CASE file.version # 4 /\ ~ InHeap
  <2>1. file.at = HeapEnd /\ DataAt(file) >= HeapEnd /\ BlockAt(file) = file.at
    BY <1>0, <1>3, FileLayout DEF FileOK, Fits, InHeap, LaidOut
  <2>2. ~ (file.at >= HeapBase /\ file.at < top) /\ ~ (DataAt(file) < top) BY <1>0, <2>1, FileLayout
    DEF LaidOut
  <2> QED BY <1>1, <1>3, <2>1, <2>2 DEF begin, Memory, Tops
<1>4. CASE file.version # 4 /\ InHeap
  <2>1. file.link \in Nat /\ file.link > 0 /\ file.at \in Nat BY FileLayout DEF LaidOut
  <2>2. file.at >= HeapBase /\ file.at < top
    <3>1. HeapBase <= file.at /\ file.at + FileSize(file) + file.link + file.seg[3] <= HeapEnd BY <1>4
      DEF FileOK, Fits, InHeap
    <3> QED BY <1>0, <2>1, <3>1, FileLayout DEF LaidOut
  <2>3. Memory = Rec(cell, current, top) BY DEF Memory, Rec
  <2>4. PICK new : new = Top(Memory, file.link) OBVIOUS
  <2>5. PICK b \in Nat, t \in Nat :
          /\ \/ b = 0 /\ t = top
             \/ b = top - file.link /\ t = top - file.link /\ current < b
          /\ top > file.link /\ current < top - file.link => b # 0
          /\ new = [m |-> Rec(cell, current, t), at |-> b]
    <3>1. CASE top < file.link \/ current >= top - file.link
      BY <1>0, <2>1, <2>3, <2>4, <3>1, TopIs
    <3>2. CASE ~ (top < file.link \/ current >= top - file.link)
      <4>1. PICK b \in Nat : b = top - file.link BY <1>0, <2>1, <3>2
      <4>2. new = [m |-> Rec(cell, current, b), at |-> b] BY <2>3, <2>4, <3>2, <4>1, TopIs
      <4>3. current < b /\ b # 0 BY <1>0, <2>1, <3>2, <4>1
      <4> QED BY <4>1, <4>2, <4>3
    <3> QED BY <3>1, <3>2
  <2>6. PICK mb : mb = MoveBlock(Memory) OBVIOUS
  <2>7. mb = [m |-> Rec(Shift(cell, b, file.at, file.link), current, t), at |-> b]
    <3>1. new.m = Rec(cell, current, t) /\ new.at = b BY <2>5
    <3>2. mb = [m |-> Moved(new.m, new.at, file.at, file.link), at |-> new.at] BY <2>4, <2>6 DEF MoveBlock
    <3>3. Moved(Rec(cell, current, t), b, file.at, file.link) = Rec(Shift(cell, b, file.at, file.link), current, t)
      BY MovedIs
    <3> QED BY <3>1, <3>2, <3>3
  <2>8. /\ cell' = Shift(cell, b, file.at, file.link) /\ top' = t
        /\ current' = (IF file.at < current THEN file.at ELSE current) /\ lc'.block = b
    BY <1>4, <2>2, <2>6, <2>7 DEF begin, Rec, Tops
  <2> QED BY <1>1, <1>4, <2>5, <2>8
<1> QED BY <1>2, <1>3, <1>4

\* What is known of a state in which a file is worked on.
LEMMA LinkFacts ==
    ASSUME LinkInv, ~ tight
    PROVE  /\ Tops /\ Order /\ Whole /\ Block /\ Copying /\ Placed /\ (Busy => FileOK)
           /\ HeapBase \in Nat /\ HeapBase > 0 /\ HeapEnd \in Nat /\ BufferCells \in Nat
           /\ HeapBase <= Floor /\ Floor <= current /\ Floor \in Nat /\ current \in Nat
              /\ top \in Nat /\ top <= HeapEnd
<1>1. Tops /\ Order /\ Whole /\ Block /\ Copying /\ Placed /\ (Busy => FileOK) BY DEF LinkInv
<1>2. HeapBase \in Nat /\ HeapBase > 0 /\ HeapEnd \in Nat /\ BufferCells \in Nat BY LinkerNumbers
<1>3. Busy => file.at \in Nat BY <1>1 DEF FileOK, Fits
<1>4. Floor \in Nat BY <1>1, <1>3 DEF Floor, Order, Busy
<1> QED BY <1>1, <1>2, <1>4 DEF Order

\* begin moves the link block out of the file's way, not over a part of the file.
LEMMA BeginInv ==
    ASSUME LinkInv, begin
    PROVE  LinkInv'
<1>1. Tops' BY TopsStep DEF LinkInv, LinkerNext
<1> SUFFICES ASSUME ~ tight' PROVE (Busy => FileOK)' /\ Order' /\ Whole' /\ Block' /\ Copying' /\ Placed'
  BY <1>1 DEF LinkInv
<1>2. UNCHANGED <<file, placed, files, tight>> /\ lc.state = "loaded" BY DEF begin
<1>3. /\ Tops /\ Order /\ Whole /\ Placed /\ FileOK
      /\ HeapBase \in Nat /\ HeapBase > 0 /\ HeapEnd \in Nat /\ BufferCells \in Nat
      /\ HeapBase <= Floor /\ Floor <= current /\ Floor \in Nat /\ current \in Nat /\ top \in Nat
         /\ top = HeapEnd
  BY <1>2, LinkFacts DEF Busy, Tops
<1>4. FileOK' BY <1>2, <1>3 DEF FileOK
<1>5. /\ file.at \in Nat /\ file.link \in Nat /\ file.link > 0 /\ file.link <= HeapBase
      /\ file.seg[1] \in Nat /\ file.seg[2] \in Nat /\ file.seg[3] \in Nat
      /\ DataAt(file) \in Nat /\ BlockAt(file) \in Nat /\ FileSize(file) \in Nat /\ DataSize(file) \in Nat
  BY <1>3, FileLayout DEF LaidOut
<1>6. /\ lc'.state = "copy" /\ lc'.object = DataAt(file) /\ lc'.process = 0 /\ lc'.error = FALSE
  BY <1>2, <1>3, BeginCases
<1>e. lc'.error \in BOOLEAN BY <1>6
<1>7. /\ Holds(cell, BlockAt(file), file.link, files, LINK)
      /\ Holds(cell, SegmentAt(file, 1), file.seg[1], files, 1)
      /\ Holds(cell, SegmentAt(file, 2), file.seg[2], files, 2)
      /\ Holds(cell, SegmentAt(file, 3), file.seg[3], files, 3)
      /\ InHeap => current = IF file.where = "allocated" THEN file.at + FileSize(file) ELSE file.at
  BY <1>2, <1>3 DEF Whole
<1>8. Whole' BY <1>6 DEF Whole
<1>9. InHeap => HeapBase <= file.at /\ file.at + FileSize(file) + file.link + file.seg[3] <= HeapEnd
  BY <1>3 DEF FileOK, Fits, InHeap
<1>10. ~ InHeap => file.at = HeapEnd /\ FileSize(file) <= BufferCells BY <1>3 DEF FileOK, Fits, InHeap
<1>11. Floor = IF InHeap THEN file.at ELSE current BY <1>2 DEF Floor
<1>12. CASE file.version = 4 \/ ~ InHeap
  <2>1. UNCHANGED <<cell, current, top>> /\ lc'.block = BlockAt(file) BY <1>2, <1>3, <1>12, BeginCases
  <2>2. InHeap => file.version = 4 /\ file.where # "allocated" /\ current = file.at
    BY <1>3, <1>7, <1>12 DEF FileOK, Fits
  <2>3. Floor' = Floor BY <1>2, <1>6, <1>11, <2>1, <2>2 DEF Floor
  <2>4. Order' BY <1>2, <1>3, <1>5, <1>6, <1>e, <2>1, <2>3 DEF Order
  <2>5. Placed' BY <1>2, <1>3, <2>1, <2>3 DEF Placed, Tops
  <2>6. lc'.block + file.link <= HeapEnd + BufferCells /\ (~ InHeap => lc'.block >= HeapEnd)
    BY <1>3, <1>5, <1>9, <1>10, <2>1, <2>2, FileLayout DEF LaidOut
  <2>7. Block' BY <1>2, <1>6, <1>7, <2>1, <2>2, <2>6 DEF Block, InHeap
  <2>8. /\ file.version # 3 => \A i \in 0 .. DataSize(file) - 1 : cell[DataAt(file) + i] = <<files, 1, i>>
        /\ file.version # 3 => 0 < DataSize(file)
    BY <1>3, <1>7, FileLayout DEF Holds, LaidOut
  <2>9. InHeap => file.at + DataSize(file) < top BY <1>3, <1>5, <1>9, <2>2, FileLayout DEF LaidOut
  <2>10. Copying' BY <1>2, <1>6, <1>7, <2>1, <2>2, <2>8, <2>9 DEF Copying, InHeap
  <2> QED BY <1>4, <1>8, <2>4, <2>5, <2>7, <2>10
<1>13. CASE file.version # 4 /\ InHeap
  <2>1. PICK b \in Nat, t \in Nat :
          /\ \/ b = 0 /\ t = top
             \/ b = top - file.link /\ t = top - file.link /\ current < b
          /\ lc'.block = b /\ top' = t /\ cell' = Shift(cell, b, file.at, file.link)
          /\ current' = IF file.at < current THEN file.at ELSE current
    BY <1>2, <1>3, <1>13, BeginCases
  <2>2. current' = file.at BY <1>5, <1>7, <1>13, <2>1
  <2>3. /\ BlockAt(file) = file.at /\ DataAt(file) = file.at + file.link
        /\ FileSize(file) = file.link + file.seg[1] + file.seg[2] + file.seg[3]
        /\ DataSize(file) = file.seg[1] + file.seg[2] + file.seg[3]
        /\ SegmentAt(file, 3) = DataAt(file) /\ SegmentAt(file, 2) = DataAt(file) + file.seg[3]
        /\ SegmentAt(file, 1) = DataAt(file) + file.seg[3] + file.seg[2]
    BY <1>3, <1>5, <1>13, FileLayout DEF LaidOut
  <2>4. PICK l, s1, s2, s3, at \in Nat :
          l = file.link /\ s1 = file.seg[1] /\ s2 = file.seg[2] /\ s3 = file.seg[3] /\ at = file.at
    BY <1>5
  <2>5. /\ HeapBase <= at /\ at + (l + s1 + s2 + s3) + l + s3 <= top /\ l > 0 /\ l <= HeapBase
        /\ (b = 0 /\ t = top) \/ (b = top - l /\ t = top - l)
    BY <1>3, <1>5, <1>9, <1>13, <2>1, <2>3, <2>4
  <2>6. /\ Holds(cell', b, file.link, files, LINK)
        /\ Holds(cell', SegmentAt(file, 1), file.seg[1], files, 1)
        /\ Holds(cell', SegmentAt(file, 2), file.seg[2], files, 2)
        /\ Holds(cell', SegmentAt(file, 3), file.seg[3], files, 3)
    <3>1. b + l <= HeapEnd + BufferCells BY <1>3, <2>5
    <3>2. Holds(cell', b, l, files, LINK) BY <1>7, <2>1, <2>3, <2>4, <3>1, ShiftCopies
    <3>3. ASSUME NEW a \in Nat, NEW n \in Nat, NEW s, Holds(cell, a, n, files, s), at + l <= a, a + n <= at + (l + s1 + s2 + s3)
          PROVE  Holds(cell', a, n, files, s)
      <4>1. a + n <= HeapEnd + BufferCells /\ (a + n <= b \/ b + l <= a) BY <1>3, <2>5, <3>3
      <4> QED BY <2>1, <2>4, <3>3, <4>1, ShiftKeeps
    <3>4. Holds(cell', at + l + s3 + s2, s1, files, 1) BY <1>7, <2>3, <2>4, <3>3
    <3>5. Holds(cell', at + l + s3, s2, files, 2) BY <1>7, <2>3, <2>4, <3>3
    <3>6. Holds(cell', at + l, s3, files, 3) BY <1>7, <2>3, <2>4, <3>3
    <3> QED BY <2>3, <2>4, <3>2, <3>4, <3>5, <3>6
  <2>7. Floor' = Floor BY <1>2, <1>6, <1>11, <1>13, <2>2 DEF Floor
  <2>8. current' \in Nat /\ current' <= top' /\ top' <= HeapEnd BY <1>3, <2>1, <2>2, <2>4, <2>5
  <2>9. Order'
    <3>1. DOMAIN cell' = Addresses BY <2>1 DEF Shift
    <3>2. HeapBase <= Floor' /\ Floor' <= current' BY <1>3, <1>11, <1>13, <2>2, <2>7
    <3> QED BY <1>2, <1>3, <1>5, <1>6, <1>e, <2>1, <2>8, <3>1, <3>2 DEF Order
  <2>10. Placed'
    <3>1. ASSUME NEW p \in placed
          PROVE  /\ Holds(cell', p.at, p.size, p.id, p.seg) /\ p.at \in Nat /\ p.size \in Nat
                    /\ p.id \in Nat
                 /\ p.seg # TOP_LEVEL_SEGMENT /\ HeapBase <= p.at /\ p.at + p.size <= Floor'
      <4>1. /\ Holds(cell, p.at, p.size, p.id, p.seg) /\ p.at \in Nat /\ p.size \in Nat /\ p.id \in Nat
            /\ p.seg # TOP_LEVEL_SEGMENT /\ HeapBase <= p.at /\ p.at + p.size <= file.at
        BY <1>2, <1>3, <1>11, <1>13 DEF Placed
      <4>2. p.at + p.size <= HeapEnd + BufferCells /\ (p.at + p.size <= b \/ b + l <= p.at)
        BY <1>3, <2>4, <2>5, <4>1
      <4>3. Holds(cell', p.at, p.size, p.id, p.seg) BY <2>1, <2>4, <4>1, <4>2, ShiftKeeps
      <4> QED BY <1>11, <1>13, <2>7, <4>1, <4>3
    <3> QED BY <1>2, <3>1 DEF Placed
  <2>11. Block'
    <3>1. b = 0 \/ (b >= t /\ b + file.link <= HeapEnd) BY <1>3, <2>4, <2>5
    <3>2. b + file.link <= HeapEnd + BufferCells BY <1>3, <2>4, <2>5
    <3> QED BY <1>2, <1>6, <2>1, <2>6, <3>1, <3>2 DEF Block
  <2>12. Copying'
    <3>1. file.at + FileSize(file) + file.seg[3] <= t /\ file.at + DataSize(file) < t
      BY <1>3, <2>3, <2>4, <2>5
    <3>2. file.version # 3 => \A i \in 0 .. DataSize(file) - 1 : cell'[DataAt(file) + i] = <<files, 1, i>>
      BY <1>3, <2>6, FileLayout DEF Holds, LaidOut
    <3>3. file.version # 3 => 0 < DataSize(file) BY <1>3, FileLayout DEF LaidOut
    <3> QED BY <1>2, <1>6, <2>1, <2>2, <2>6, <3>1, <3>2, <3>3 DEF Copying, InHeap
  <2> QED BY <1>4, <1>8, <2>9, <2>10, <2>11, <2>12
<1> QED BY <1>12, <1>13

\* A file that is loaded is whole, and the memory around it as it was.
LEMMA StoredHolds ==
    ASSUME NEW f, NEW id, Fits(f)
    PROVE  /\ Holds(Stored(f, id), BlockAt(f), f.link, id, LINK)
           /\ Holds(Stored(f, id), SegmentAt(f, 1), f.seg[1], id, 1)
           /\ Holds(Stored(f, id), SegmentAt(f, 2), f.seg[2], id, 2)
           /\ Holds(Stored(f, id), SegmentAt(f, 3), f.seg[3], id, 3)
           /\ \A a \in Addresses : a < f.at \/ a >= f.at + FileSize(f) => Stored(f, id)[a] = cell[a]
<1>1. PICK c : c = Stored(f, id) OBVIOUS
<1>2. PICK l, n1, n2, n3, at, data, block, size \in Nat :
        /\ l = f.link /\ n1 = f.seg[1] /\ n2 = f.seg[2] /\ n3 = f.seg[3] /\ at = f.at
        /\ data = DataAt(f) /\ block = BlockAt(f) /\ size = FileSize(f)
  BY Layout DEF LaidOut
<1>3. /\ SegmentAt(f, 3) = data /\ SegmentAt(f, 2) = data + n3 /\ SegmentAt(f, 1) = data + n3 + n2
      /\ \/ block = at /\ data = at + l /\ size = l + n1 + n2 + n3
         \/ data = at + 1 /\ block = at + 1 + n1 + n2 + n3 /\ size = l + n1 + n2 + n3 + 1
  <2>1. LaidOut(f) BY Layout
  <2>2. CASE f.version = 4 BY <1>2, <2>1, <2>2 DEF LaidOut
  <2>3. CASE f.version # 4 BY <1>2, <2>1, <2>3 DEF LaidOut
  <2> QED BY <2>2, <2>3
<1>4. PICK p1, p2, p3 \in Nat : p3 = data /\ p2 = data + n3 /\ p1 = data + n3 + n2 BY <1>2
<1>5. SegmentAt(f, 1) = p1 /\ SegmentAt(f, 2) = p2 /\ SegmentAt(f, 3) = p3 BY <1>3, <1>4
<1>6. \A a : /\ a \in SegmentAt(f, 1) .. SegmentAt(f, 1) + f.seg[1] - 1 <=> a \in p1 .. p1 + n1 - 1
             /\ a \in SegmentAt(f, 2) .. SegmentAt(f, 2) + f.seg[2] - 1 <=> a \in p2 .. p2 + n2 - 1
             /\ a \in SegmentAt(f, 3) .. SegmentAt(f, 3) + f.seg[3] - 1 <=> a \in p3 .. p3 + n3 - 1
  BY <1>2, <1>5
<1>7. at + size <= HeapEnd + BufferCells
  <2>1. HeapEnd \in Nat /\ BufferCells \in Nat BY LinkerNumbers
  <2>2. f.where = "buffer" => at = HeapEnd /\ size <= BufferCells BY <1>2 DEF Fits
  <2>3. f.where # "buffer" => at + size + l + n3 <= HeapEnd BY <1>2 DEF Fits
  <2> QED BY <2>1, <2>2, <2>3
<1>8. Addresses = 0 .. HeapEnd + BufferCells - 1 /\ HeapEnd \in Nat /\ BufferCells \in Nat BY LinkerNumbers
<1>9. ASSUME NEW i \in 0 .. l - 1 PROVE c[block + i] = <<id, LINK, i>>
  <2>0. i \in Nat /\ i < l BY <1>2
  <2>a. block + l <= at + size BY <1>2, <1>3
  <2>b. block + i \in Nat /\ block + i < HeapEnd + BufferCells BY <1>7, <1>8, <2>0, <2>a
  <2>1. block + i \in Addresses /\ block + i \in block .. block + l - 1 /\ (block + i) - block = i
    BY <1>8, <2>0, <2>b
  <2>2. c[block + i] = <<id, LINK, (block + i) - block>> BY <1>1, <1>2, <2>1 DEF Stored
  <2> QED BY <2>1, <2>2
<1>10. ASSUME NEW s \in 1 .. 3, NEW a \in Addresses, a \in SegmentAt(f, s) .. SegmentAt(f, s) + f.seg[s] - 1
       PROVE  c[a] = <<id, s, a - SegmentAt(f, s)>>
  <2>1. s = 1 \/ s = 2 \/ s = 3 OBVIOUS
  <2>2. a \in Nat BY <1>8
  <2>3. ~ (a \in block .. block + l - 1) BY <1>3, <1>4, <1>6, <1>10, <2>1, <2>2
  <2>4. \A t \in 1 .. 3 : a \in SegmentAt(f, t) .. SegmentAt(f, t) + f.seg[t] - 1 => t = s
    <3>1. ASSUME NEW t \in 1 .. 3, a \in SegmentAt(f, t) .. SegmentAt(f, t) + f.seg[t] - 1 PROVE t = s
      <4>1. t = 1 \/ t = 2 \/ t = 3 OBVIOUS
      <4> QED BY <1>4, <1>6, <1>10, <2>1, <2>2, <3>1, <4>1
    <3> QED BY <3>1
  <2>5. PICK u : u = CHOOSE t \in 1 .. 3 : a \in SegmentAt(f, t) .. SegmentAt(f, t) + f.seg[t] - 1 OBVIOUS
  <2>6. u \in 1 .. 3 /\ a \in SegmentAt(f, u) .. SegmentAt(f, u) + f.seg[u] - 1 BY <1>10, <2>5
  <2>7. u = s BY <2>4, <2>6
  <2>8. c[a] = <<id, u, a - SegmentAt(f, u)>> BY <1>1, <1>2, <1>10, <2>3, <2>5 DEF Stored
  <2> QED BY <2>7, <2>8
<1>11. Holds(c, p1, n1, id, 1)
  <2>1. ASSUME NEW i \in 0 .. n1 - 1 PROVE c[p1 + i] = <<id, 1, i>>
    <3>1. p1 + i \in Addresses /\ p1 + i \in p1 .. p1 + n1 - 1 /\ (p1 + i) - p1 = i
      BY <1>3, <1>4, <1>7, <1>8
    <3> QED BY <1>5, <1>6, <1>10, <3>1
  <2> QED BY <2>1 DEF Holds
<1>12. Holds(c, p2, n2, id, 2)
  <2>1. ASSUME NEW i \in 0 .. n2 - 1 PROVE c[p2 + i] = <<id, 2, i>>
    <3>1. p2 + i \in Addresses /\ p2 + i \in p2 .. p2 + n2 - 1 /\ (p2 + i) - p2 = i
      BY <1>3, <1>4, <1>7, <1>8
    <3> QED BY <1>5, <1>6, <1>10, <3>1
  <2> QED BY <2>1 DEF Holds
<1>13. Holds(c, p3, n3, id, 3)
  <2>1. ASSUME NEW i \in 0 .. n3 - 1 PROVE c[p3 + i] = <<id, 3, i>>
    <3>1. p3 + i \in Addresses /\ p3 + i \in p3 .. p3 + n3 - 1 /\ (p3 + i) - p3 = i
      BY <1>3, <1>4, <1>7, <1>8
    <3> QED BY <1>5, <1>6, <1>10, <3>1
  <2> QED BY <2>1 DEF Holds
<1>14. ASSUME NEW a \in Addresses, a < at \/ a >= at + size PROVE c[a] = cell[a]
  <2>1. a \in Nat BY <1>8
  <2>2. ~ (a \in block .. block + l - 1) BY <1>3, <1>14, <2>1
  <2>3. ASSUME NEW s \in 1 .. 3 PROVE ~ (a \in SegmentAt(f, s) .. SegmentAt(f, s) + f.seg[s] - 1)
    <3>1. s = 1 \/ s = 2 \/ s = 3 OBVIOUS
    <3> QED BY <1>3, <1>4, <1>6, <1>14, <2>1, <3>1
  <2> QED BY <1>1, <1>2, <2>2, <2>3 DEF Stored
<1>15. Holds(c, block, l, id, LINK) BY <1>9 DEF Holds
<1> QED BY <1>1, <1>2, <1>5, <1>11, <1>12, <1>13, <1>14, <1>15

\* A file is loaded above everything that was placed.
LEMMA LoadFileInv ==
    ASSUME LinkInv, LoadFile
    PROVE  LinkInv'
<1>1. Tops' BY TopsStep DEF LinkInv, LinkerNext
<1> SUFFICES ASSUME ~ tight' PROVE (Busy => FileOK)' /\ Order' /\ Whole' /\ Block' /\ Copying' /\ Placed'
  BY <1>1 DEF LinkInv
<1>2. PICK version, link, main, debug, toplevel, where, keep, global, f :
      /\ version \in {2, 3, 4} /\ link \in LinkSizes
      /\ main \in SegmentSizes /\ debug \in SegmentSizes /\ toplevel \in SegmentSizes
      /\ where \in {"buffer", "current", "allocated"} /\ keep \in BOOLEAN /\ global \in BOOLEAN
      /\ f = [version |-> version, at |-> IF where = "buffer" THEN HeapEnd ELSE current, where |-> where,
              link |-> link, seg |-> <<main, debug, toplevel>>, debug |-> keep, global |-> global]
      /\ version # 3 => debug = 0 /\ toplevel = 0 /\ main > 0 /\ ~keep
      /\ where = "allocated" => version = 3 /\ ~global
      /\ f.at + FileSize(f) <= IF where = "buffer" THEN HeapEnd + BufferCells ELSE top
      /\ file' = f
      /\ cell' = Stored(f, files + 1)
      /\ current' = IF where = "allocated" THEN current + FileSize(f) ELSE current
      /\ tight' = (tight \/ (where # "buffer" /\ f.at + FileSize(f) + link + toplevel > top))
  BY DEF LoadFile
<1>3. files' = files + 1 /\ lc' = [lc EXCEPT !.state = "loaded"] /\ UNCHANGED <<top, placed>>
                            /\ lc.state = "idle"
  BY DEF LoadFile
<1>4. ~ tight BY <1>2
<1>5. /\ Tops /\ Order /\ Placed
      /\ HeapBase \in Nat /\ HeapBase > 0 /\ HeapEnd \in Nat /\ BufferCells \in Nat
      /\ HeapBase <= Floor /\ Floor <= current /\ Floor \in Nat /\ current \in Nat /\ top \in Nat
         /\ top = HeapEnd
      /\ Floor = current
  BY <1>3, <1>4, LinkFacts DEF Tops, Floor
<1>6. Fits(f)
  <2>1. /\ f.version = version /\ f.where = where /\ f.link = link /\ f.global = global
        /\ f.seg[1] = main /\ f.seg[2] = debug /\ f.seg[3] = toplevel
        /\ f.at = IF where = "buffer" THEN HeapEnd ELSE current
    BY <1>2
  <2>2. main \in Nat /\ debug \in Nat /\ toplevel \in Nat /\ link \in Nat BY <1>2, LinkerNumbers
  <2>3. f.at \in Nat BY <1>5, <2>1
  <2>4. FileSize(f) \in Nat BY <2>1, <2>2 DEF FileSize, DataSize
  <2>5. f.where = "buffer" => f.at = HeapEnd /\ FileSize(f) <= BufferCells BY <1>2, <1>5, <2>1, <2>4
  <2>a. where # "buffer" => ~ (f.at + FileSize(f) + link + toplevel > top) BY <1>2, <1>4
  <2>b. PICK sum \in Nat : sum = f.at + FileSize(f) + link + toplevel BY <2>2, <2>3, <2>4
  <2>c. where # "buffer" => sum <= HeapEnd BY <1>5, <2>a, <2>b
  <2>d. f.at + FileSize(f) + f.link + f.seg[3] = sum BY <2>1, <2>b
  <2>6. f.where # "buffer" => HeapBase <= f.at /\ f.at + FileSize(f) + f.link + f.seg[3] <= HeapEnd
    BY <1>5, <2>1, <2>c, <2>d
  <2> QED BY <1>2, <2>1, <2>2, <2>3, <2>5, <2>6 DEF Fits
<1>7. FileOK' BY <1>2, <1>6 DEF FileOK
<1>8. /\ f.at \in Nat /\ FileSize(f) \in Nat BY <1>6, Layout DEF LaidOut
<1>9. lc'.state = "loaded" /\ lc'.object = lc.object /\ lc'.block = lc.block /\ lc'.process = lc.process
      /\ lc'.error = lc.error
  BY <1>3, <1>5 DEF Tops
<1>10. Block' /\ Copying' BY <1>9 DEF Block, Copying
<1>11. f.where = where /\ f.at = (IF where = "buffer" THEN HeapEnd ELSE current) BY <1>2
<1>12. Whole'
  BY <1>2, <1>3, <1>6, <1>9, <1>11, StoredHolds DEF Whole, InHeap
<1>13. Floor' = IF where = "buffer" THEN current ELSE f.at BY <1>2, <1>9, <1>11 DEF Floor, InHeap
<1>14. Floor' = Floor BY <1>5, <1>11, <1>13
<1>15. Order'
  <2>1. DOMAIN cell' = Addresses BY <1>2 DEF Stored
  <2>2. current' \in Nat /\ current' <= top' /\ Floor' <= current'
    BY <1>2, <1>3, <1>5, <1>8, <1>11, <1>14 DEF Order
  <2>3. files' \in Nat BY <1>3, <1>5 DEF Order
  <2> QED BY <1>3, <1>5, <1>9, <1>14, <2>1, <2>2, <2>3 DEF Order
<1>16. Placed'
  <2>1. ASSUME NEW p \in placed
        PROVE  /\ Holds(cell', p.at, p.size, p.id, p.seg) /\ p.at \in Nat /\ p.size \in Nat /\ p.id \in Nat
               /\ p.seg # TOP_LEVEL_SEGMENT /\ HeapBase <= p.at /\ p.at + p.size <= Floor'
    <3>1. /\ Holds(cell, p.at, p.size, p.id, p.seg) /\ p.at \in Nat /\ p.size \in Nat /\ p.id \in Nat
          /\ p.seg # TOP_LEVEL_SEGMENT /\ HeapBase <= p.at /\ p.at + p.size <= current
      BY <1>3, <1>5 DEF Placed
    <3>2. current <= HeapEnd BY <1>3, <1>5 DEF Order
    <3>3. ASSUME NEW i \in 0 .. p.size - 1 PROVE cell'[p.at + i] = cell[p.at + i]
      <4>1. i \in Nat /\ i < p.size BY <3>1
      <4>2. f.at >= current BY <1>5, <1>11, <3>2
      <4>3. p.at + i \in Nat /\ p.at + i < current BY <1>5, <3>1, <4>1
      <4>4. p.at + i < f.at /\ p.at + i < HeapEnd + BufferCells BY <1>5, <1>8, <3>2, <4>2, <4>3
      <4>5. Addresses = 0 .. HeapEnd + BufferCells - 1 BY LinkerNumbers
      <4>6. p.at + i \in Addresses BY <1>5, <4>3, <4>4, <4>5
      <4> QED BY <1>2, <1>6, <4>4, <4>6, StoredHolds
    <3>4. Holds(cell', p.at, p.size, p.id, p.seg) BY <3>1, <3>3 DEF Holds
    <3> QED BY <1>5, <1>14, <3>1, <3>4
  <2> QED BY <1>3, <2>1 DEF Placed
<1> QED BY <1>7, <1>10, <1>12, <1>15, <1>16

\* A step that changes nothing.
LEMMA LinkStutter ==
    ASSUME LinkInv, UNCHANGED linkVars
    PROVE  LinkInv'
<1> USE DEF linkVars
<1>1. Tops' = Tops /\ Busy' = Busy /\ FileOK' = FileOK /\ Floor' = Floor
  BY DEF Tops, Busy, FileOK, Floor, InHeap
<1>2. Order' = Order BY <1>1 DEF Order
<1>3. Whole' = Whole /\ Block' = Block BY DEF Whole, Block, InHeap, BlockInTheWay
<1>4. Copying' = Copying BY DEF Copying, InHeap
<1>5. Placed' = Placed BY <1>1 DEF Placed
<1> QED BY <1>1, <1>2, <1>3, <1>4, <1>5 DEF LinkInv

\* finish drops the top-level segment together with the memory above the top.
LEMMA FinishInv ==
    ASSUME LinkInv, finish
    PROVE  LinkInv'
<1>1. Tops' BY TopsStep DEF LinkInv, LinkerNext
<1> SUFFICES ASSUME ~ tight' PROVE (Busy => FileOK)' /\ Order' /\ Whole' /\ Block' /\ Copying' /\ Placed'
  BY <1>1 DEF LinkInv
<1>2. /\ lc.state = "worked" /\ top' = HeapTop /\ UNCHANGED <<cell, current, file, files, tight>>
      /\ placed' = {p \in placed : p.seg # TOP_LEVEL_SEGMENT}
      /\ lc' = [lc EXCEPT !.state = IF lc.error /\ file.version # 3 THEN "crashed" ELSE "idle"]
  BY DEF finish
<1>3. /\ Tops /\ Order /\ Placed /\ HeapEnd \in Nat
      /\ HeapBase <= Floor /\ Floor <= current /\ current \in Nat /\ top \in Nat /\ top <= HeapEnd
  BY <1>2, LinkFacts
<1>4. top' = HeapEnd BY <1>2, <1>3 DEF HeapTop, Tops
<1>5. PICK next : next = IF lc.error /\ file.version # 3 THEN "crashed" ELSE "idle" OBVIOUS
<1>6. /\ lc'.state = next /\ lc'.error = lc.error /\ lc'.object = lc.object /\ lc'.block = lc.block
      /\ lc'.process = lc.process /\ next \in {"crashed", "idle"}
  BY <1>2, <1>3, <1>5 DEF Tops
<1>7. ~ Busy' /\ Whole' /\ Block' /\ Copying' BY <1>6 DEF Busy, Whole, Block, Copying
<1>8. Floor = current /\ Floor' = current BY <1>2, <1>6 DEF Floor
<1>9. next = "idle" => lc.error = FALSE \/ file.version = 3 BY <1>3, <1>5 DEF Order
<1>10. lc'.state \in {"idle", "loaded", "copy", "link"} \/ ~ lc'.error \/ file.version = 3 => current <= top
  BY <1>2, <1>3, <1>5, <1>6, <1>9 DEF Order
<1>11. Order' BY <1>2, <1>3, <1>4, <1>6, <1>8, <1>10 DEF Order
<1>12. Placed' BY <1>2, <1>3, <1>8 DEF Placed
<1> QED BY <1>7, <1>11, <1>12

\* Memory c is as it was outside of [lo, hi).
Outside(c, lo, hi) == \A a \in Addresses : a < lo \/ a >= hi => c[a] = cell[a]

\* What has been placed and the link block lie outside of [lo, hi).
LEMMA OutsideKept ==
    ASSUME Order, Placed, HeapBase \in Nat, HeapEnd \in Nat, BufferCells \in Nat, NEW lo \in Nat,
         NEW hi \in Nat, NEW c,
           Floor \in Nat, Floor <= lo, hi <= top, top \in Nat, Floor <= HeapEnd,
           Outside(c, lo, hi),
           NEW p \in placed
    PROVE  Holds(c, p.at, p.size, p.id, p.seg)
<1>1. /\ p.at \in Nat /\ p.size \in Nat /\ Holds(cell, p.at, p.size, p.id, p.seg)
      /\ p.at + p.size <= Floor \/ (top <= p.at /\ p.at + p.size <= HeapEnd)
  BY DEF Placed
<1>2. SUFFICES ASSUME NEW i \in 0 .. p.size - 1 PROVE c[p.at + i] = <<p.id, p.seg, i>> BY DEF Holds
<1>3. i \in Nat /\ i < p.size BY <1>1
<1>4. p.at + i \in Nat /\ p.at + i < HeapEnd + BufferCells /\ (p.at + i < lo \/ p.at + i >= hi)
  BY <1>1, <1>3
<1>5. Addresses = 0 .. HeapEnd + BufferCells - 1 BY LinkerNumbers
<1>6. p.at + i \in Addresses BY <1>4, <1>5
<1> QED BY <1>1, <1>4, <1>6 DEF Holds, Outside

\* A link block outside of [lo, hi) is kept.
LEMMA BlockKept ==
    ASSUME HeapBase \in Nat, HeapEnd \in Nat, BufferCells \in Nat, NEW lo \in Nat, NEW hi \in Nat, NEW c,
           NEW b \in Nat, NEW l \in Nat, NEW id, HeapBase <= lo, hi <= HeapEnd,
           b + l <= HeapEnd + BufferCells, Holds(cell, b, l, id, LINK),
           b + l <= lo \/ hi <= b,
           Outside(c, lo, hi)
    PROVE  Holds(c, b, l, id, LINK)
<1>2. SUFFICES ASSUME NEW i \in 0 .. l - 1 PROVE c[b + i] = <<id, LINK, i>> BY DEF Holds
<1>3. i \in Nat /\ i < l OBVIOUS
<1>4. b + i \in Nat /\ b + i < HeapEnd + BufferCells /\ (b + i < lo \/ b + i >= hi) BY <1>3
<1>5. Addresses = 0 .. HeapEnd + BufferCells - 1 BY LinkerNumbers
<1>6. b + i \in Addresses BY <1>4, <1>5
<1> QED BY <1>4, <1>6 DEF Holds, Outside

\* A symbol is interned above what was placed and below the link block.
LEMMA LinkStepInv ==
    ASSUME LinkInv, link_step
    PROVE  LinkInv'
<1>1. Tops' BY TopsStep DEF LinkInv, LinkerNext, link_work
<1> SUFFICES ASSUME ~ tight' PROVE (Busy => FileOK)' /\ Order' /\ Whole' /\ Block' /\ Copying' /\ Placed'
  BY <1>1 DEF LinkInv
<1>2. /\ lc.state = "link" /\ UNCHANGED <<top, file, placed, files, tight>>
      /\ lc' = [lc EXCEPT !.process = @ + 1, !.state = IF lc.process = 1 THEN "worked" ELSE "link"]
  BY DEF link_step
<1>3. /\ Tops /\ Order /\ Placed /\ Block /\ FileOK
      /\ HeapBase \in Nat /\ HeapBase > 0 /\ HeapEnd \in Nat /\ BufferCells \in Nat
      /\ HeapBase <= Floor /\ Floor <= current /\ Floor \in Nat /\ current \in Nat /\ top \in Nat
         /\ top <= HeapEnd
  BY <1>2, LinkFacts DEF Busy
<1>4. FileOK' BY <1>2, <1>3 DEF FileOK
<1>5. PICK next : next = IF lc.process = 1 THEN "worked" ELSE "link" OBVIOUS
<1>6. /\ lc'.state = next /\ lc'.error = lc.error /\ lc'.object = lc.object /\ lc'.block = lc.block
      /\ lc'.process = lc.process + 1 /\ next \in {"worked", "link"}
  BY <1>2, <1>3, <1>5 DEF Tops
<1>7. Whole' /\ Copying' BY <1>6 DEF Whole, Copying
<1>8. lc.object \in Nat /\ lc.block \in Nat /\ lc.process \in Nat /\ lc.error \in BOOLEAN /\ current <= top
      /\ DOMAIN cell = Addresses /\ files \in Nat /\ lc'.process \in Nat
  BY <1>2, <1>3, <1>6 DEF Order
<1>9. Floor = current /\ Floor' = current' BY <1>2, <1>6 DEF Floor
<1>10. PICK fresh, m : m = (IF fresh /\ file.global THEN Interned(Memory) ELSE Memory)
                                   /\ cell' = m.cell /\ current' = m.current
  BY DEF link_step
<1>11. \/ cell' = cell /\ current' = current
       \/ /\ file.global /\ current < top /\ current' = current + 1
          /\ cell' = [cell EXCEPT ![current] = <<0, NOTHING, 0>>]
  <2>1. Memory = Rec(cell, current, top) BY DEF Memory, Rec
  <2>2. CASE fresh /\ file.global
    <3>1. PICK new : new = Bottom(Memory, 1) OBVIOUS
    <3>2. CASE current + 1 > top
      <4>1. new.at = 0 BY <2>1, <3>1, <3>2, BottomIs
      <4>2. m = Memory BY <1>10, <2>2, <3>1, <4>1 DEF Interned
      <4> QED BY <1>10, <4>2 DEF Memory
    <3>3. CASE ~ (current + 1 > top)
      <4>1. new = [m |-> Rec(cell, current + 1, top), at |-> current] BY <2>1, <3>1, <3>3, BottomIs
      <4>2. new.m = Rec(cell, current + 1, top) /\ new.at = current /\ current # 0 BY <1>3, <4>1
      <4>3. m = [new.m EXCEPT !.cell[new.at] = <<0, NOTHING, 0>>] BY <1>10, <2>2, <3>1, <4>2 DEF Interned
      <4>4. m.cell = [cell EXCEPT ![current] = <<0, NOTHING, 0>>] /\ m.current = current + 1
        BY <4>2, <4>3 DEF Rec
      <4> QED BY <1>3, <1>10, <2>2, <3>3, <4>4
    <3> QED BY <3>2, <3>3
  <2>3. CASE ~ (fresh /\ file.global) BY <1>10, <2>3 DEF Memory
  <2> QED BY <2>2, <2>3
<1>12. current' \in Nat /\ current <= current' /\ current' <= top BY <1>3, <1>8, <1>11
<1>13. Outside(cell', current, current')
  <2>1. Addresses = 0 .. HeapEnd + BufferCells - 1 BY LinkerNumbers
  <2> QED BY <1>3, <1>8, <1>11, <2>1 DEF Outside
<1>14. Order'
  <2>1. DOMAIN cell' = Addresses BY <1>8, <1>11
  <2> QED BY <1>2, <1>3, <1>6, <1>8, <1>9, <1>12, <2>1 DEF Order
<1>15. Placed'
  <2>1. ASSUME NEW p \in placed PROVE Holds(cell', p.at, p.size, p.id, p.seg)
    BY <1>3, <1>8, <1>9, <1>12, <1>13, OutsideKept
  <2>2. ASSUME NEW p \in placed
        PROVE  /\ p.at \in Nat /\ p.size \in Nat /\ p.id \in Nat
               /\ p.seg # TOP_LEVEL_SEGMENT => HeapBase <= p.at /\ p.at + p.size <= current'
               /\ p.seg = TOP_LEVEL_SEGMENT => top <= p.at /\ p.at + p.size <= HeapEnd
    BY <1>3, <1>9, <1>12 DEF Placed
  <2> QED BY <1>2, <1>6, <1>9, <2>1, <2>2 DEF Placed
<1>16. Block'
  <2>1. CASE next = "link" /\ ~ BlockInTheWay
    <3>1. /\ \/ lc.block >= HeapEnd
             \/ lc.block = 0
             \/ lc.block >= top /\ lc.block + file.link <= HeapEnd
             \/ file.version = 4 /\ InHeap /\ lc.block = BlockAt(file) /\ current <= lc.block
          /\ lc.block + file.link <= HeapEnd + BufferCells
          /\ Holds(cell, lc.block, file.link, files, LINK)
      BY <1>2, <1>3, <2>1 DEF Block
    <3>2. file.version = 4 /\ InHeap => cell' = cell /\ current' = current BY <1>11, <2>1 DEF BlockInTheWay
    <3>3. file.link \in Nat /\ file.link <= HeapBase BY <1>3, FileLayout DEF LaidOut
    <3>4. Holds(cell', lc.block, file.link, files, LINK)
      <4>1. CASE file.version = 4 /\ InHeap BY <3>1, <3>2, <4>1
      <4>2. CASE ~ (file.version = 4 /\ InHeap)
        <5>1. lc.block + file.link <= current \/ current' <= lc.block
          BY <1>3, <1>8, <1>9, <1>12, <3>1, <3>3, <4>2
        <5>2. HeapBase <= current /\ current' <= HeapEnd BY <1>3, <1>12
        <5> QED BY <1>3, <1>8, <1>12, <1>13, <3>1, <3>3, <5>1, <5>2, BlockKept
      <4> QED BY <4>1, <4>2
    <3> QED BY <1>2, <1>6, <3>1, <3>2, <3>4 DEF Block, InHeap
  <2>2. CASE next = "worked" \/ BlockInTheWay BY <1>2, <1>6, <2>2 DEF Block, BlockInTheWay, InHeap
  <2> QED BY <1>6, <2>1, <2>2
<1> QED BY <1>4, <1>7, <1>14, <1>15, <1>16

\* Data that stays is covered by the heap, up to the link block of a v4 file.
LEMMA StayInv ==
    ASSUME LinkInv, work_v2_stay
    PROVE  LinkInv'
<1>1. Tops' BY TopsStep DEF LinkInv, LinkerNext, link_work
<1> SUFFICES ASSUME ~ tight' PROVE (Busy => FileOK)' /\ Order' /\ Whole' /\ Block' /\ Copying' /\ Placed'
  BY <1>1 DEF LinkInv
<1>2. /\ lc.state = "copy" /\ file.version # 3 /\ lc.process = 0
         /\ UNCHANGED <<cell, top, file, files, tight>>
      /\ current' = lc.object + DataSize(file)
  BY DEF work_v2_stay
<1>3. /\ Tops /\ Order /\ Placed /\ Block /\ Copying /\ FileOK
      /\ HeapBase \in Nat /\ HeapBase > 0 /\ HeapEnd \in Nat /\ BufferCells \in Nat
      /\ HeapBase <= Floor /\ Floor <= current /\ Floor \in Nat /\ current \in Nat /\ top \in Nat
         /\ top <= HeapEnd
  BY <1>2, LinkFacts DEF Busy
<1>4. FileOK' BY <1>2, <1>3 DEF FileOK
<1>a. (top <= current') \in BOOLEAN OBVIOUS
<1>b. PICK fails \in BOOLEAN : fails = (top <= current') BY <1>a
<1>c. fails => top <= current' BY <1>b
<1>d. ~ fails => ~ (top <= current') BY <1>b
<1>e. PICK next : next = IF fails THEN "worked" ELSE "link" OBVIOUS
<1>f. /\ lc' = [lc EXCEPT !.state = IF fails THEN "worked" ELSE "link", !.error = fails]
      /\ placed' = IF fails THEN placed ELSE placed \cup {Place(lc.object, MAIN_SEGMENT)}
  BY <1>b DEF work_v2_stay
<1>5. /\ next = (IF fails THEN "worked" ELSE "link")
      /\ lc' = [lc EXCEPT !.state = next, !.error = fails]
      /\ placed' = IF fails THEN placed ELSE placed \cup {Place(lc.object, MAIN_SEGMENT)}
  BY <1>e, <1>f
<1>6. /\ lc'.state = next /\ lc'.error = fails /\ lc'.object = lc.object /\ lc'.block = lc.block
      /\ lc'.process = lc.process /\ next \in {"worked", "link"}
  BY <1>3, <1>5 DEF Tops
<1>7. Whole' /\ Copying' BY <1>6 DEF Whole, Copying
<1>8. lc.object \in Nat /\ lc.block \in Nat /\ lc.process \in Nat /\ DOMAIN cell = Addresses
                           /\ files \in Nat
      /\ current <= top
  BY <1>2, <1>3 DEF Order
<1>9. /\ lc.object = DataAt(file) /\ (InHeap => current = file.at)
      /\ \A i \in 0 .. DataSize(file) - 1 : cell[DataAt(file) + i] = <<files, 1, i>>
  BY <1>2, <1>3 DEF Copying
<1>10. /\ file.at \in Nat /\ file.link \in Nat /\ DataSize(file) \in Nat
          /\ DataSize(file) = file.seg[1] /\ file.seg[1] > 0
       /\ file.seg[1] \in Nat
       /\ file.version = 4 => DataAt(file) = file.at + 1 /\ BlockAt(file) = file.at + 1 + DataSize(file)
       /\ file.version # 4 => DataAt(file) = file.at + file.link
  BY <1>2, <1>3, FileLayout DEF LaidOut
<1>11. ~ InHeap => file.at = HeapEnd BY <1>3 DEF FileOK, Fits, InHeap
<1>12. current' \in Nat /\ current <= lc.object /\ current <= current'
  BY <1>2, <1>3, <1>8, <1>9, <1>10, <1>11
<1>13. fails \/ current' <= top BY <1>3, <1>12, <1>d
<1>14. Floor = current /\ Floor' = current' BY <1>2, <1>6 DEF Floor
<1>15. Order'
  <2>1. lc'.error \in BOOLEAN BY <1>6
  <2>2. lc'.state \in {"idle", "loaded", "copy", "link"} \/ ~ lc'.error \/ file'.version = 3 => current' <= top'
    BY <1>2, <1>5, <1>6, <1>13
  <2>3. HeapBase <= Floor' /\ Floor' <= current' BY <1>3, <1>12, <1>14
  <2> QED BY <1>2, <1>3, <1>6, <1>8, <1>12, <2>1, <2>2, <2>3 DEF Order
<1>16. Placed'
  <2>1. ASSUME NEW p \in placed
        PROVE  /\ p.at \in Nat /\ p.size \in Nat /\ p.id \in Nat /\ Holds(cell, p.at, p.size, p.id, p.seg)
               /\ p.seg # TOP_LEVEL_SEGMENT /\ HeapBase <= p.at /\ p.at + p.size <= current'
    BY <1>2, <1>3, <1>12, <1>14 DEF Placed
  <2>2. PICK q : q = Place(lc.object, MAIN_SEGMENT) OBVIOUS
  <2>3. q.at = lc.object /\ q.size = DataSize(file) /\ q.id = files /\ q.seg = 1
                            /\ q.seg # TOP_LEVEL_SEGMENT
    BY <1>10, <2>2 DEF Place, MAIN_SEGMENT, TOP_LEVEL_SEGMENT
  <2>4. Holds(cell, q.at, q.size, q.id, q.seg) BY <1>9, <2>3 DEF Holds
  <2>5. HeapBase <= q.at /\ q.at + q.size <= current' /\ q.at \in Nat /\ q.size \in Nat /\ q.id \in Nat
    BY <1>2, <1>3, <1>8, <1>10, <1>12, <2>3
  <2> QED BY <1>2, <1>5, <1>14, <2>1, <2>2, <2>3, <2>4, <2>5 DEF Placed
<1>17. Block'
  <2>1. CASE next = "link" /\ ~ BlockInTheWay
    <3>1. /\ \/ lc.block >= HeapEnd
             \/ lc.block = 0
             \/ lc.block >= top /\ lc.block + file.link <= HeapEnd
             \/ file.version = 4 /\ InHeap /\ lc.block = BlockAt(file)
          /\ lc.block + file.link <= HeapEnd + BufferCells
          /\ Holds(cell, lc.block, file.link, files, LINK)
      BY <1>2, <1>3, <2>1 DEF Block
    <3>2. file.version = 4 => current' <= BlockAt(file) BY <1>2, <1>9, <1>10
    <3> QED BY <1>2, <1>6, <3>1, <3>2 DEF Block, InHeap
  <2>2. CASE next = "worked" \/ BlockInTheWay BY <1>2, <1>6, <2>2 DEF Block, BlockInTheWay, InHeap
  <2> QED BY <1>6, <2>1, <2>2
<1> QED BY <1>4, <1>7, <1>15, <1>16, <1>17

\* One chunk is moved down: what is below and above it is kept.
LEMMA ShiftCells ==
    ASSUME NEW c, NEW dst \in Nat, NEW src \in Nat, NEW size \in Nat, NEW a \in Addresses
    PROVE  /\ a < dst \/ a >= dst + size => Shift(c, dst, src, size)[a] = c[a]
           /\ a >= dst /\ a < dst + size => Shift(c, dst, src, size)[a] = c[src + (a - dst)]
<1>1. HeapEnd \in Nat /\ BufferCells \in Nat /\ Addresses = 0 .. HeapEnd + BufferCells - 1 BY LinkerNumbers
<1>2. a \in Nat BY <1>1
<1>3. (a < dst \/ a >= dst + size) => ~ (a \in dst .. dst + size - 1) BY <1>2
<1>4. (a >= dst /\ a < dst + size) => a \in dst .. dst + size - 1 BY <1>2
<1> QED BY <1>3, <1>4 DEF Shift

\* What work_v2 does when it does not leave the data where it is.
LEMMA MoveCases ==
    ASSUME LinkInv, ~ tight, work_v2_move
    PROVE  \/ /\ UNCHANGED <<cell, current, top, placed>>
              /\ lc' = [lc EXCEPT !.state = "worked", !.error = TRUE]
           \/ \E to \in Nat, done \in Nat :
                 /\ to = Floor /\ lc.process < done /\ done <= DataSize(file)
                 /\ to + DataSize(file) <= top /\ top' = top /\ current' = to + DataSize(file)
                 /\ cell' = Shift(cell, to + lc.process, DataAt(file) + lc.process, done - lc.process)
                 /\ \/ /\ done < DataSize(file) /\ UNCHANGED placed
                       /\ lc' = [lc EXCEPT !.object = to, !.process = done]
                    \/ /\ done = DataSize(file)
                       /\ lc' = [lc EXCEPT !.state = "link", !.object = to, !.process = 0]
                       /\ placed' = placed \cup {Place(to, MAIN_SEGMENT)}
<1>1. lc.state = "copy" /\ file.version # 3 BY DEF work_v2_move
<1>2. /\ Tops /\ Order /\ Copying /\ FileOK
      /\ HeapBase \in Nat /\ HeapBase > 0 /\ HeapEnd \in Nat /\ BufferCells \in Nat
      /\ HeapBase <= Floor /\ Floor <= current /\ Floor \in Nat /\ current \in Nat /\ top \in Nat
         /\ top <= HeapEnd
  BY <1>1, LinkFacts DEF Busy
<1>3. PICK d \in Nat : d = DataSize(file) /\ d > 0 BY <1>1, <1>2, FileLayout DEF LaidOut
<1>4. PICK k \in Nat : k = lc.process /\ k < d /\ current <= top BY <1>1, <1>2, <1>3 DEF Order, Copying
<1>5. PICK new : new = IF lc.process = 0 THEN Bottom(Memory, DataSize(file)) ELSE [m |-> Memory, at |-> lc.object]
  OBVIOUS
<1>6. Memory = Rec(cell, current, top) BY DEF Memory, Rec
<1>7. \/ new.at = 0
      \/ new.at = Floor /\ new.m = Rec(cell, Floor + d, top) /\ Floor + d <= top
  <2>1. CASE lc.process = 0
    <3>1. Floor = current BY <1>1, <2>1 DEF Floor
    <3>2. CASE current + d > top BY <1>3, <1>5, <1>6, <2>1, <3>2, BottomIs
    <3>3. CASE ~ (current + d > top)
      <4>1. new = [m |-> Rec(cell, current + d, top), at |-> current]
        BY <1>3, <1>5, <1>6, <2>1, <3>3, BottomIs
      <4>2. current + d <= top BY <1>2, <3>3
      <4> QED BY <3>1, <4>1, <4>2
    <3> QED BY <3>2, <3>3
  <2>2. CASE lc.process # 0
    <3>1. lc.process > 0 BY <1>4, <2>2
    <3>2. Floor = lc.object /\ lc.object + DataSize(file) = current BY <1>1, <1>2, <3>1 DEF Floor, Copying
    <3>3. new = [m |-> Rec(cell, current, top), at |-> lc.object] BY <1>5, <1>6, <2>2
    <3> QED BY <1>2, <1>3, <1>4, <3>2, <3>3
  <2> QED BY <2>1, <2>2
<1>8. CASE new.at = 0 BY <1>5, <1>8 DEF work_v2_move
<1>9. CASE new.at # 0
  <2>1. new.at = Floor /\ new.m = Rec(cell, Floor + d, top) /\ Floor + d <= top BY <1>7, <1>9
  <2>2. PICK n \in Nat, max \in Nat :
          /\ max = OBJ_V2_MAX_TRANSFER /\ max > 0
          /\ n = (IF d - k > max THEN max ELSE d - k) /\ n > 0 /\ k + n <= d
    <3>1. OBJ_V2_MAX_TRANSFER \in Nat /\ OBJ_V2_MAX_TRANSFER > 0 BY LinkerNumbers
    <3>2. d - k \in Nat /\ d - k > 0 BY <1>4
    <3>3. CASE d - k > OBJ_V2_MAX_TRANSFER BY <1>4, <3>1, <3>2, <3>3
    <3>4. CASE ~ (d - k > OBJ_V2_MAX_TRANSFER) BY <1>4, <3>1, <3>2, <3>4
    <3> QED BY <3>3, <3>4
  <2>3. PICK to \in Nat, done \in Nat : to = Floor /\ done = k + n BY <1>2
  <2>4. PICK c : c = Transfer(new.m, new.at, lc.process) OBVIOUS
  <2>5. c = [m |-> Rec(Shift(cell, to + k, DataAt(file) + k, n), to + d, top), done |-> done]
    <3>1. new.m = Rec(cell, to + d, top) /\ new.at = to BY <2>1, <2>3
    <3>2. Moved(Rec(cell, to + d, top), to + k, DataAt(file) + k, n)
            = Rec(Shift(cell, to + k, DataAt(file) + k, n), to + d, top)
      BY MovedIs
    <3>3. c = [m |-> Moved(new.m, new.at + k, DataAt(file) + k, n), done |-> k + n]
      BY <1>3, <1>4, <2>2, <2>4 DEF Transfer, ChunkFrom
    <3> QED BY <2>3, <3>1, <3>2, <3>3
  <2>6. c.m.cell = Shift(cell, to + k, DataAt(file) + k, n) /\ c.m.current = to + d /\ c.m.top = top
                                                               /\ c.done = done
    BY <2>5 DEF Rec
  <2>7. /\ cell' = c.m.cell /\ current' = c.m.current /\ top' = c.m.top
        /\ IF c.done < DataSize(file)
           THEN /\ lc' = [lc EXCEPT !.object = new.at, !.process = c.done]
                /\ UNCHANGED placed
           ELSE /\ lc' = [lc EXCEPT !.state = "link", !.object = new.at, !.process = 0]
                /\ placed' = placed \cup {Place(new.at, MAIN_SEGMENT)}
    BY <1>5, <1>9, <2>4 DEF work_v2_move
  <2>8. cell' = Shift(cell, to + k, DataAt(file) + k, done - k)
    <3>1. done - k = n BY <2>3
    <3> QED BY <2>6, <2>7, <3>1
  <2>9. k < done /\ done <= d /\ to + d <= top BY <2>1, <2>2, <2>3
  <2>10. (done < d) \/ (done = d /\ ~ (done < d)) BY <2>9
  <2>11. new.at = to /\ c.done = done /\ top' = top /\ current' = to + d BY <2>1, <2>3, <2>6, <2>7
  <2>12. \/ /\ done < DataSize(file) /\ UNCHANGED placed
            /\ lc' = [lc EXCEPT !.object = to, !.process = done]
         \/ /\ done = DataSize(file)
            /\ lc' = [lc EXCEPT !.state = "link", !.object = to, !.process = 0]
            /\ placed' = placed \cup {Place(to, MAIN_SEGMENT)}
    <3>1. CASE done < d BY <1>3, <2>7, <2>11, <3>1
    <3>2. CASE done = d /\ ~ (done < d) BY <1>3, <2>7, <2>11, <3>2
    <3> QED BY <2>10, <3>1, <3>2
  <2> QED BY <1>3, <1>4, <2>3, <2>8, <2>9, <2>11, <2>12
<1> QED BY <1>8, <1>9

\* A chunk moves down to the data before it; what is still to be moved is above.
LEMMA MoveInv ==
    ASSUME LinkInv, work_v2_move
    PROVE  LinkInv'
<1>1. Tops' BY TopsStep DEF LinkInv, LinkerNext, link_work
<1> SUFFICES ASSUME ~ tight' PROVE (Busy => FileOK)' /\ Order' /\ Whole' /\ Block' /\ Copying' /\ Placed'
  BY <1>1 DEF LinkInv
<1>2. lc.state = "copy" /\ file.version # 3 /\ UNCHANGED <<file, files, tight>> BY DEF work_v2_move
<1>3. /\ Tops /\ Order /\ Placed /\ Block /\ Copying /\ FileOK
      /\ HeapBase \in Nat /\ HeapBase > 0 /\ HeapEnd \in Nat /\ BufferCells \in Nat
      /\ HeapBase <= Floor /\ Floor <= current /\ Floor \in Nat /\ current \in Nat /\ top \in Nat
         /\ top <= HeapEnd
  BY <1>2, LinkFacts DEF Busy
<1>4. FileOK' BY <1>2, <1>3 DEF FileOK
<1>5. lc.object \in Nat /\ lc.block \in Nat /\ lc.process \in Nat /\ DOMAIN cell = Addresses
                           /\ files \in Nat
      /\ lc.error \in BOOLEAN /\ current <= top
  BY <1>2, <1>3 DEF Order
<1>6. CASE /\ UNCHANGED <<cell, current, top, placed>>
           /\ lc' = [lc EXCEPT !.state = "worked", !.error = TRUE]
  <2>1. /\ lc'.state = "worked" /\ lc'.error = TRUE /\ lc'.object = lc.object /\ lc'.block = lc.block
        /\ lc'.process = lc.process
    BY <1>3, <1>6 DEF Tops
  <2>2. Whole' /\ Block' /\ Copying' BY <2>1 DEF Whole, Block, Copying
  <2>3. Floor' = current /\ Floor <= current BY <1>3, <1>6, <2>1 DEF Floor
  <2>4. Order'
    <3>1. lc'.error \in BOOLEAN BY <2>1
    <3> QED BY <1>2, <1>3, <1>5, <1>6, <2>1, <2>3, <3>1 DEF Order
  <2>5. Placed'
    <3>1. ASSUME NEW p \in placed
          PROVE  /\ p.at \in Nat /\ p.size \in Nat /\ p.id \in Nat /\ Holds(cell, p.at, p.size, p.id, p.seg)
                 /\ p.seg # TOP_LEVEL_SEGMENT /\ HeapBase <= p.at /\ p.at + p.size <= current
      BY <1>2, <1>3 DEF Placed
    <3> QED BY <1>6, <2>3, <3>1 DEF Placed
  <2> QED BY <1>4, <2>2, <2>4, <2>5
<1>7. CASE \E to \in Nat, done \in Nat :
              /\ to = Floor /\ lc.process < done /\ done <= DataSize(file)
              /\ to + DataSize(file) <= top /\ top' = top /\ current' = to + DataSize(file)
              /\ cell' = Shift(cell, to + lc.process, DataAt(file) + lc.process, done - lc.process)
              /\ \/ /\ done < DataSize(file) /\ UNCHANGED placed
                    /\ lc' = [lc EXCEPT !.object = to, !.process = done]
                 \/ /\ done = DataSize(file)
                    /\ lc' = [lc EXCEPT !.state = "link", !.object = to, !.process = 0]
                    /\ placed' = placed \cup {Place(to, MAIN_SEGMENT)}
  <2>1. PICK to \in Nat, done \in Nat, k \in Nat, d \in Nat, data \in Nat :
          /\ to = Floor /\ k = lc.process /\ d = DataSize(file) /\ data = DataAt(file)
          /\ k < done /\ done <= d /\ to + d <= top /\ top' = top /\ current' = to + d
          /\ cell' = Shift(cell, to + k, data + k, done - k)
          /\ \/ /\ done < d /\ UNCHANGED placed
                /\ lc' = [lc EXCEPT !.object = to, !.process = done]
             \/ /\ done = d
                /\ lc' = [lc EXCEPT !.state = "link", !.object = to, !.process = 0]
                /\ placed' = placed \cup {Place(to, MAIN_SEGMENT)}
    <3>1. DataSize(file) \in Nat /\ DataAt(file) \in Nat /\ lc.process \in Nat
      BY <1>3, <1>5, FileLayout DEF LaidOut
    <3> QED BY <1>7, <3>1
  <2>2. /\ file.at \in Nat /\ file.link \in Nat /\ file.link > 0 /\ file.link <= HeapBase
           /\ d = file.seg[1] /\ d > 0
        /\ file.version = 4 => data = file.at + 1 /\ BlockAt(file) = file.at + 1 + d
        /\ file.version # 4 => data = file.at + file.link
        /\ data + d <= file.at + FileSize(file) /\ file.at <= data /\ FileSize(file) \in Nat
    BY <1>2, <1>3, <2>1, FileLayout DEF LaidOut
  <2>3. /\ InHeap => file.at + FileSize(file) + file.link + file.seg[3] <= HeapEnd /\ file.seg[3] \in Nat
        /\ ~ InHeap => file.at = HeapEnd /\ FileSize(file) <= BufferCells
    BY <1>3 DEF FileOK, Fits, InHeap
  <2>4. data + d <= HeapEnd + BufferCells
    <3>1. CASE InHeap BY <1>3, <2>2, <2>3, <3>1
    <3>2. CASE ~ InHeap BY <1>3, <2>2, <2>3, <3>2
    <3> QED BY <3>1, <3>2
  <2>5. to <= data /\ (InHeap => to = file.at)
    <3>1. CASE k = 0
      <4>1. to = current /\ (InHeap => current = file.at) BY <1>2, <1>3, <2>1, <3>1 DEF Floor, Copying
      <4> QED BY <1>3, <1>5, <2>2, <2>3, <4>1
    <3>2. CASE k > 0
      <4>1. to = lc.object /\ lc.object <= data /\ (InHeap => lc.object = file.at)
        BY <1>2, <1>3, <2>1, <3>2 DEF Floor, Copying
      <4> QED BY <4>1
    <3> QED BY <2>1, <3>1, <3>2
  <2>6. Addresses = 0 .. HeapEnd + BufferCells - 1 BY LinkerNumbers
  <2>a. k < done /\ done <= d /\ to + d <= top BY <2>1
  <2>b. top' = top /\ current' = to + d BY <2>1
  <2>7. PICK n \in Nat : n = done - k /\ k + n = done
    <3>1. done - k \in Nat /\ k + (done - k) = done BY <2>a
    <3> QED BY <3>1
  <2>8. ASSUME NEW a \in Addresses
        PROVE  /\ a < to + k \/ a >= to + done => cell'[a] = cell[a]
               /\ a >= to + k /\ a < to + done => cell'[a] = cell[data + k + (a - (to + k))]
    <3>1. /\ a < to + k \/ a >= (to + k) + n => cell'[a] = cell[a]
          /\ a >= to + k /\ a < (to + k) + n => cell'[a] = cell[(data + k) + (a - (to + k))]
      <4>1. PICK dst \in Nat, src \in Nat : dst = to + k /\ src = data + k OBVIOUS
      <4>2. cell' = Shift(cell, dst, src, n) BY <2>1, <2>7, <4>1
      <4>a. /\ a < dst \/ a >= dst + n => Shift(cell, dst, src, n)[a] = cell[a]
            /\ a >= dst /\ a < dst + n => Shift(cell, dst, src, n)[a] = cell[src + (a - dst)]
        BY ShiftCells
      <4>3. /\ a < dst \/ a >= dst + n => cell'[a] = cell[a]
            /\ a >= dst /\ a < dst + n => cell'[a] = cell[src + (a - dst)]
        BY <4>2, <4>a
      <4> QED BY <4>1, <4>3
    <3>2. (to + k) + n = to + done BY <2>7
    <3> QED BY <3>1, <3>2
  <2>9. \A i \in k .. d - 1 : cell[data + i] = <<files, 1, i>> BY <1>2, <1>3, <2>1 DEF Copying
  <2>10. k > 0 => Holds(cell, to, k, files, 1) BY <1>2, <1>3, <2>1 DEF Copying, Floor
  <2>11. ASSUME NEW i \in 0 .. done - 1 PROVE cell'[to + i] = <<files, 1, i>>
    <3>1. i \in Nat /\ i < done BY <2>1
    <3>2. to + i \in Nat /\ to + i < HeapEnd + BufferCells BY <1>3, <2>1, <3>1
    <3>3. to + i \in Addresses BY <1>3, <2>6, <3>2
    <3>4. CASE i < k
      <4>1. cell'[to + i] = cell[to + i]
        <5>1. to + i < to + k BY <3>1, <3>4
        <5> QED BY <2>8, <3>3, <5>1
      <4>2. i \in 0 .. k - 1 /\ k > 0 BY <3>1, <3>4
      <4> QED BY <2>10, <4>1, <4>2 DEF Holds
    <3>5. CASE i >= k
      <4>1. to + i >= to + k /\ to + i < to + done BY <3>1, <3>5
      <4>2. data + k + ((to + i) - (to + k)) = data + i BY <3>1
      <4>3. cell'[to + i] = cell[data + k + ((to + i) - (to + k))] BY <2>8, <3>3, <4>1
      <4>4. cell'[to + i] = cell[data + i] BY <4>2, <4>3
      <4>5. i \in k .. d - 1 BY <2>1, <3>1, <3>5
      <4> QED BY <2>9, <4>4, <4>5
    <3> QED BY <3>1, <3>4, <3>5
  <2>12. ASSUME NEW i \in done .. d - 1 PROVE cell'[data + i] = <<files, 1, i>>
    <3>1. i \in Nat /\ i >= done /\ i < d BY <2>1
    <3>2. data + i \in Nat /\ data + i < HeapEnd + BufferCells BY <1>3, <2>4, <3>1
    <3>3. data + i \in Addresses BY <1>3, <2>6, <3>2
    <3>4. data + i >= to + done BY <2>5, <3>1
    <3>5. i \in k .. d - 1 BY <2>1, <3>1
    <3> QED BY <2>8, <2>9, <3>3, <3>4, <3>5
  <2>13. Outside(cell', to, to + d)
    <3>1. ASSUME NEW a \in Addresses, a < to \/ a >= to + d PROVE cell'[a] = cell[a]
      <4>1. a \in Nat BY <1>3, <2>6
      <4>2. a < to + k \/ a >= to + done BY <2>1, <3>1, <4>1
      <4> QED BY <2>8, <4>2
    <3> QED BY <3>1 DEF Outside
  <2>14. to + d \in Nat /\ to + d <= HeapEnd /\ HeapBase <= to /\ to <= to + d BY <1>3, <2>1
  <2>15. ASSUME NEW p \in placed
         PROVE  /\ Holds(cell', p.at, p.size, p.id, p.seg) /\ p.at \in Nat /\ p.size \in Nat /\ p.id \in Nat
                /\ p.seg # TOP_LEVEL_SEGMENT /\ HeapBase <= p.at /\ p.at + p.size <= to
    <3>1. /\ p.at \in Nat /\ p.size \in Nat /\ p.id \in Nat
          /\ p.seg # TOP_LEVEL_SEGMENT /\ HeapBase <= p.at /\ p.at + p.size <= to
      BY <1>2, <1>3, <2>1 DEF Placed
    <3>2. Floor \in Nat /\ Floor <= to /\ to + d <= top /\ Floor <= HeapEnd BY <1>3, <2>1
    <3>3. Holds(cell', p.at, p.size, p.id, p.seg) BY <1>3, <2>13, <2>14, <3>2, OutsideKept
    <3> QED BY <3>1, <3>3
  <2>16. ~ BlockInTheWay =>
           /\ \/ lc.block >= HeapEnd
              \/ lc.block = 0
              \/ lc.block >= top /\ lc.block + file.link <= HeapEnd
              \/ file.version = 4 /\ InHeap /\ lc.block = BlockAt(file) /\ current' <= lc.block
           /\ lc.block + file.link <= HeapEnd + BufferCells
           /\ Holds(cell', lc.block, file.link, files, LINK)
    <3> SUFFICES ASSUME ~ BlockInTheWay
                 PROVE  /\ \/ lc.block >= HeapEnd
                           \/ lc.block = 0
                           \/ lc.block >= top /\ lc.block + file.link <= HeapEnd
                           \/ file.version = 4 /\ InHeap /\ lc.block = BlockAt(file) /\ current' <= lc.block
                        /\ lc.block + file.link <= HeapEnd + BufferCells
                        /\ Holds(cell', lc.block, file.link, files, LINK)
      OBVIOUS
    <3>1. /\ \/ lc.block >= HeapEnd
             \/ lc.block = 0
             \/ lc.block >= top /\ lc.block + file.link <= HeapEnd
             \/ file.version = 4 /\ InHeap /\ lc.block = BlockAt(file)
          /\ lc.block + file.link <= HeapEnd + BufferCells
          /\ Holds(cell, lc.block, file.link, files, LINK)
      BY <1>2, <1>3 DEF Block
    <3>2. file.version = 4 /\ InHeap /\ lc.block = BlockAt(file) => to + d <= lc.block BY <2>2, <2>5
    <3>3. lc.block + file.link <= to \/ to + d <= lc.block BY <1>3, <1>5, <2>1, <2>2, <2>14, <3>1, <3>2
    <3>4. Holds(cell', lc.block, file.link, files, LINK)
      <4>1. PICK hi \in Nat : hi = to + d BY <2>14
      <4>2. hi <= HeapEnd /\ (lc.block + file.link <= to \/ hi <= lc.block) BY <2>14, <3>3, <4>1
      <4>3. Outside(cell', to, hi) BY <2>13, <4>1
      <4> QED BY <1>3, <1>5, <2>2, <2>14, <3>1, <4>2, <4>3, BlockKept
    <3> QED BY <2>1, <3>1, <3>2, <3>4
  <2>17. DOMAIN cell' = Addresses BY <2>1 DEF Shift
  <2>18. CASE done < d /\ UNCHANGED placed /\ lc' = [lc EXCEPT !.object = to, !.process = done]
    <3>1. /\ lc'.state = "copy" /\ lc'.error = lc.error /\ lc'.object = to /\ lc'.block = lc.block
          /\ lc'.process = done
      BY <1>2, <1>3, <2>18 DEF Tops
    <3>2. Floor' = to
      <4>1. done > 0 BY <2>1
      <4> QED BY <1>2, <3>1, <4>1 DEF Floor
    <3>3. Order'
      <4>1. Floor' = to /\ current' = to + d /\ top' = top BY <2>b, <3>2
      <4>2. HeapBase <= to /\ to <= to + d /\ to + d \in Nat /\ to + d <= top BY <1>3, <2>14, <2>a
      <4>3. HeapBase <= Floor' /\ Floor' <= current' /\ current' \in Nat /\ current' <= top' BY <4>1, <4>2
      <4> QED BY <1>2, <1>3, <1>5, <2>17, <3>1, <4>1, <4>3 DEF Order
    <3>4. Placed' BY <2>15, <2>18, <3>2 DEF Placed
    <3>5. Block' BY <1>2, <2>1, <2>16, <3>1 DEF Block, BlockInTheWay, InHeap
    <3>6. Whole' BY <3>1 DEF Whole
    <3>7. Copying'
      <4>1. lc'.process # 0 /\ lc'.process > 0 /\ lc'.process < d BY <2>1, <2>18, <3>1
      <4>2. Holds(cell', to, done, files, 1) BY <2>11 DEF Holds
      <4>3. \A i \in done .. d - 1 : cell'[data + i] = <<files, 1, i>> BY <2>12
      <4>4. InHeap => file.at + DataSize(file) < top BY <1>2, <1>3 DEF Copying
      <4>5. DataSize(file') = d /\ DataAt(file') = data /\ file'.version # 3 /\ (InHeap' <=> InHeap)
        BY <1>2, <2>1 DEF InHeap
      <4> QED BY <1>2, <2>1, <2>5, <3>1, <4>1, <4>2, <4>3, <4>4, <4>5 DEF Copying
    <3> QED BY <1>4, <3>3, <3>4, <3>5, <3>6, <3>7
  <2>19. CASE /\ done = d /\ placed' = placed \cup {Place(to, MAIN_SEGMENT)}
              /\ lc' = [lc EXCEPT !.state = "link", !.object = to, !.process = 0]
    <3>1. /\ lc'.state = "link" /\ lc'.error = lc.error /\ lc'.object = to /\ lc'.block = lc.block
          /\ lc'.process = 0
      BY <1>3, <2>19 DEF Tops
    <3>2. Floor' = to + d BY <2>1, <3>1 DEF Floor
    <3>3. Order'
      <4>1. Floor' = current' /\ current' = to + d /\ top' = top BY <2>b, <3>2
      <4>2. HeapBase <= to + d /\ to + d \in Nat /\ to + d <= top BY <1>3, <2>14, <2>a
      <4>3. HeapBase <= Floor' /\ Floor' <= current' /\ current' \in Nat /\ current' <= top' BY <4>1, <4>2
      <4> QED BY <1>2, <1>3, <1>5, <2>17, <3>1, <4>1, <4>3 DEF Order
    <3>4. Placed'
      <4>1. PICK q : q = Place(to, MAIN_SEGMENT) OBVIOUS
      <4>2. q.at = to /\ q.size = d /\ q.id = files /\ q.seg = 1 /\ q.seg # TOP_LEVEL_SEGMENT
        BY <2>2, <4>1 DEF Place, MAIN_SEGMENT, TOP_LEVEL_SEGMENT
      <4>3. Holds(cell', q.at, q.size, q.id, q.seg) BY <2>11, <2>19, <4>2 DEF Holds
      <4>4. HeapBase <= q.at /\ q.at + q.size <= Floor' /\ q.at \in Nat /\ q.size \in Nat /\ q.id \in Nat
        BY <1>5, <2>14, <3>2, <4>2
      <4>5. ASSUME NEW p \in placed
            PROVE  /\ Holds(cell', p.at, p.size, p.id, p.seg) /\ p.at \in Nat /\ p.size \in Nat
                      /\ p.id \in Nat
                   /\ p.seg # TOP_LEVEL_SEGMENT /\ HeapBase <= p.at /\ p.at + p.size <= Floor'
        BY <2>14, <2>15, <3>2
      <4> QED BY <2>19, <4>1, <4>2, <4>3, <4>4, <4>5 DEF Placed
    <3>5. Block' BY <1>2, <2>1, <2>16, <3>1 DEF Block, BlockInTheWay, InHeap
    <3>6. Whole' /\ Copying' BY <3>1 DEF Whole, Copying
    <3> QED BY <1>4, <3>3, <3>4, <3>5, <3>6
  <2> QED BY <2>1, <2>18, <2>19
<1> QED BY <1>2, <1>6, <1>7, MoveCases

\* The state in which the segments of a v3 file are copied.
CopyState(c, cu, t, a1, a2, a3, e) == [m |-> Rec(c, cu, t), at |-> <<a1, a2, a3>>, error |-> e]

\* The top-level segment goes to the heap's top if there is room.
LEMMA CopyTopLevel ==
    ASSUME NEW c, NEW cu \in Nat, NEW t \in Nat, file.seg[3] \in Nat
    PROVE  \/ CopySegment(CopyState(c, cu, t, 0, 0, 0, FALSE), 3) = CopyState(c, cu, t, 0, 0, 0, FALSE)
           \/ CopySegment(CopyState(c, cu, t, 0, 0, 0, FALSE), 3) = CopyState(c, cu, t, 0, 0, 0, TRUE)
           \/ \E b \in Nat : /\ b + file.seg[3] = t /\ cu < b
                             /\ CopySegment(CopyState(c, cu, t, 0, 0, 0, FALSE), 3)
                                  = CopyState(Shift(c, b, SegmentAt(file, 3), file.seg[3]), cu, b, 0, 0, b, FALSE)
<1> PICK n \in Nat : n = file.seg[3] OBVIOUS
<1> PICK x : x = CopyState(c, cu, t, 0, 0, 0, FALSE) OBVIOUS
<1>1. x.m = Rec(c, cu, t) /\ x.at = <<0, 0, 0>> /\ ~ x.error BY DEF CopyState
<1>3. CASE n = 0
  <2>1. CopySegment(x, 3) = x BY <1>3 DEF CopySegment
  <2> QED BY <2>1
<1>4. CASE n # 0
  <2>a. PICK new : new = IF 3 = TOP_LEVEL_SEGMENT THEN Top(x.m, file.seg[3]) ELSE Bottom(x.m, file.seg[3]) OBVIOUS
  <2>b. ~ (x.error \/ file.seg[3] = 0 \/ (3 = DEBUG_SEGMENT /\ file.where # "allocated") \/ (3 = DEBUG_SEGMENT /\ ~ file.debug))
    <3>1. 3 # DEBUG_SEGMENT BY DEF DEBUG_SEGMENT
    <3>2. file.seg[3] # 0 BY <1>4
    <3>3. ~ x.error BY <1>1
    <3> QED BY <3>1, <3>2, <3>3, Zenon
  <2>1. new = Top(x.m, n) BY <2>a DEF TOP_LEVEL_SEGMENT
  <2>2. CopySegment(x, 3) =
          IF new.at = 0 THEN [x EXCEPT !.error = TRUE]
          ELSE [x EXCEPT !.m = Moved(new.m, new.at, SegmentAt(file, 3), file.seg[3]), !.at[3] = new.at]
    BY <2>a, <2>b, Zenon DEF CopySegment
  <2>3. CASE t < n \/ cu >= t - n
    <3>1. new.at = 0 BY <1>1, <2>1, <2>3, TopIs
    <3>2. CopySegment(x, 3) = CopyState(c, cu, t, 0, 0, 0, TRUE)
      BY <2>2, <3>1 DEF CopyState
    <3> QED BY <3>2
  <2>4. CASE ~ (t < n \/ cu >= t - n)
    <3>a. t - n \in Nat /\ (t - n) + n = t /\ cu < t - n /\ t - n # 0 BY <2>4
    <3>1. PICK b \in Nat : b = t - n /\ b + n = t /\ cu < b /\ b # 0 BY <3>a
    <3>2. new = [m |-> Rec(c, cu, b), at |-> b] BY <1>1, <2>1, <2>4, <3>1, TopIs
    <3>3. new.m = Rec(c, cu, b) /\ new.at = b BY <3>2
    <3>4. PICK c2 : c2 = Shift(c, b, SegmentAt(file, 3), n) OBVIOUS
    <3>5. Moved(new.m, new.at, SegmentAt(file, 3), file.seg[3]) = Rec(c2, cu, b) BY <3>3, <3>4, MovedIs
    <3>6. CopySegment(x, 3) = [x EXCEPT !.m = Rec(c2, cu, b), !.at[3] = b]
      BY <2>2, <3>1, <3>3, <3>5
    <3>7. [<<0, 0, 0>> EXCEPT ![3] = b] = <<0, 0, b>> OBVIOUS
    <3>8. CopySegment(x, 3) = CopyState(c2, cu, b, 0, 0, b, FALSE)
      BY <3>6, <3>7 DEF CopyState
    <3> QED BY <3>1, <3>4, <3>8
  <2> QED BY <2>3, <2>4
<1> QED BY <1>3, <1>4

\* The debug segment goes to the bottom, for listener code only.
LEMMA CopyDebug ==
    ASSUME NEW c, NEW cu \in Nat, NEW t \in Nat, NEW a3,
           file.seg[2] \in Nat, cu > 0
    PROVE  \/ CopySegment(CopyState(c, cu, t, 0, 0, a3, FALSE), 2) = CopyState(c, cu, t, 0, 0, a3, FALSE)
           \/ CopySegment(CopyState(c, cu, t, 0, 0, a3, FALSE), 2) = CopyState(c, cu, t, 0, 0, a3, TRUE)
           \/ /\ cu + file.seg[2] <= t /\ file.where = "allocated"
              /\ CopySegment(CopyState(c, cu, t, 0, 0, a3, FALSE), 2)
                   = CopyState(Shift(c, cu, SegmentAt(file, 2), file.seg[2]), cu + file.seg[2], t, 0, cu, a3, FALSE)
<1> PICK n \in Nat : n = file.seg[2] OBVIOUS
<1> PICK x : x = CopyState(c, cu, t, 0, 0, a3, FALSE) OBVIOUS
<1>1. x.m = Rec(c, cu, t) /\ x.at = <<0, 0, a3>> /\ ~ x.error BY DEF CopyState
<1>3. CASE n = 0 \/ file.where # "allocated" \/ ~ file.debug
  <2>1. CopySegment(x, 2) = x BY <1>1, <1>3 DEF CopySegment, TOP_LEVEL_SEGMENT, DEBUG_SEGMENT
  <2> QED BY <2>1
<1>4. CASE ~ (n = 0 \/ file.where # "allocated" \/ ~ file.debug)
  <2>a. PICK new : new = IF 2 = TOP_LEVEL_SEGMENT THEN Top(x.m, file.seg[2]) ELSE Bottom(x.m, file.seg[2]) OBVIOUS
  <2>b. ~ (x.error \/ file.seg[2] = 0 \/ (2 = DEBUG_SEGMENT /\ file.where # "allocated") \/ (2 = DEBUG_SEGMENT /\ ~ file.debug))
    BY <1>1, <1>4 DEF DEBUG_SEGMENT
  <2>1. new = Bottom(x.m, n) BY <2>a DEF TOP_LEVEL_SEGMENT
  <2>2. CopySegment(x, 2) =
          IF new.at = 0 THEN [x EXCEPT !.error = TRUE]
          ELSE [x EXCEPT !.m = Moved(new.m, new.at, SegmentAt(file, 2), file.seg[2]), !.at[2] = new.at]
    BY <2>a, <2>b, Zenon DEF CopySegment
  <2>3. CASE cu + n > t
    <3>1. new.at = 0 BY <1>1, <2>1, <2>3, BottomIs
    <3>2. CopySegment(x, 2) = CopyState(c, cu, t, 0, 0, a3, TRUE)
      BY <2>2, <3>1 DEF CopyState
    <3> QED BY <3>2
  <2>4. CASE ~ (cu + n > t)
    <3>1. PICK cu2 \in Nat : cu2 = cu + n /\ cu2 <= t BY <2>4
    <3>2. new = [m |-> Rec(c, cu2, t), at |-> cu] BY <1>1, <2>1, <2>4, <3>1, BottomIs
    <3>3. new.m = Rec(c, cu2, t) /\ new.at = cu /\ cu # 0 BY <3>2
    <3>4. PICK c2 : c2 = Shift(c, cu, SegmentAt(file, 2), n) OBVIOUS
    <3>5. Moved(new.m, new.at, SegmentAt(file, 2), file.seg[2]) = Rec(c2, cu2, t) BY <3>3, <3>4, MovedIs
    <3>6. CopySegment(x, 2) = [x EXCEPT !.m = Rec(c2, cu2, t), !.at[2] = cu]
      BY <2>2, <3>3, <3>5
    <3>7. [<<0, 0, a3>> EXCEPT ![2] = cu] = <<0, cu, a3>> OBVIOUS
    <3>8. CopySegment(x, 2) = CopyState(c2, cu2, t, 0, cu, a3, FALSE)
      BY <3>6, <3>7 DEF CopyState
    <3> QED BY <1>4, <3>1, <3>4, <3>8
  <2> QED BY <2>3, <2>4
<1> QED BY <1>3, <1>4

\* The main segment goes to the bottom.
LEMMA CopyMain ==
    ASSUME NEW c, NEW cu \in Nat, NEW t \in Nat, NEW a2, NEW a3,
           file.seg[1] \in Nat, cu > 0
    PROVE  \/ CopySegment(CopyState(c, cu, t, 0, a2, a3, FALSE), 1) = CopyState(c, cu, t, 0, a2, a3, FALSE)
           \/ CopySegment(CopyState(c, cu, t, 0, a2, a3, FALSE), 1) = CopyState(c, cu, t, 0, a2, a3, TRUE)
           \/ /\ cu + file.seg[1] <= t
              /\ CopySegment(CopyState(c, cu, t, 0, a2, a3, FALSE), 1)
                   = CopyState(Shift(c, cu, SegmentAt(file, 1), file.seg[1]), cu + file.seg[1], t, cu, a2, a3, FALSE)
<1> PICK n \in Nat : n = file.seg[1] OBVIOUS
<1> PICK x : x = CopyState(c, cu, t, 0, a2, a3, FALSE) OBVIOUS
<1>1. x.m = Rec(c, cu, t) /\ x.at = <<0, a2, a3>> /\ ~ x.error BY DEF CopyState
<1>3. CASE n = 0
  <2>1. CopySegment(x, 1) = x BY <1>1, <1>3 DEF CopySegment, TOP_LEVEL_SEGMENT, DEBUG_SEGMENT
  <2> QED BY <2>1
<1>4. CASE n # 0
  <2>a. PICK new : new = IF 1 = TOP_LEVEL_SEGMENT THEN Top(x.m, file.seg[1]) ELSE Bottom(x.m, file.seg[1]) OBVIOUS
  <2>b. ~ (x.error \/ file.seg[1] = 0 \/ (1 = DEBUG_SEGMENT /\ file.where # "allocated") \/ (1 = DEBUG_SEGMENT /\ ~ file.debug))
    <3>1. 1 # DEBUG_SEGMENT BY DEF DEBUG_SEGMENT
    <3>2. file.seg[1] # 0 BY <1>4
    <3>3. ~ x.error BY <1>1
    <3> QED BY <3>1, <3>2, <3>3, Zenon
  <2>1. new = Bottom(x.m, n) BY <2>a DEF TOP_LEVEL_SEGMENT
  <2>2. CopySegment(x, 1) =
          IF new.at = 0 THEN [x EXCEPT !.error = TRUE]
          ELSE [x EXCEPT !.m = Moved(new.m, new.at, SegmentAt(file, 1), file.seg[1]), !.at[1] = new.at]
    BY <2>a, <2>b, Zenon DEF CopySegment
  <2>3. CASE cu + n > t
    <3>1. new.at = 0 BY <1>1, <2>1, <2>3, BottomIs
    <3>2. CopySegment(x, 1) = CopyState(c, cu, t, 0, a2, a3, TRUE)
      BY <2>2, <3>1 DEF CopyState
    <3> QED BY <3>2
  <2>4. CASE ~ (cu + n > t)
    <3>1. PICK cu2 \in Nat : cu2 = cu + n /\ cu2 <= t BY <2>4
    <3>2. new = [m |-> Rec(c, cu2, t), at |-> cu] BY <1>1, <2>1, <2>4, <3>1, BottomIs
    <3>3. new.m = Rec(c, cu2, t) /\ new.at = cu /\ cu # 0 BY <3>2
    <3>4. PICK c2 : c2 = Shift(c, cu, SegmentAt(file, 1), n) OBVIOUS
    <3>5. Moved(new.m, new.at, SegmentAt(file, 1), file.seg[1]) = Rec(c2, cu2, t) BY <3>3, <3>4, MovedIs
    <3>6. CopySegment(x, 1) = [x EXCEPT !.m = Rec(c2, cu2, t), !.at[1] = cu]
      BY <2>2, <3>3, <3>5
    <3>7. [<<0, a2, a3>> EXCEPT ![1] = cu] = <<cu, a2, a3>> OBVIOUS
    <3>8. CopySegment(x, 1) = CopyState(c2, cu2, t, cu, a2, a3, FALSE)
      BY <3>6, <3>7 DEF CopyState
    <3> QED BY <1>4, <3>1, <3>4, <3>8
  <2> QED BY <2>3, <2>4
<1> QED BY <1>3, <1>4

\* After a failure nothing more is copied.
LEMMA CopyFailed ==
    ASSUME NEW x, NEW s, x.error
    PROVE  CopySegment(x, s) = x
BY DEF CopySegment

\* memmove within [lo, hi) keeps the rest.
LEMMA ShiftOutside ==
    ASSUME NEW c, NEW dst \in Nat, NEW src \in Nat, NEW size \in Nat, NEW lo \in Nat, NEW hi \in Nat,
           lo <= dst, dst + size <= hi, Outside(c, lo, hi)
    PROVE  Outside(Shift(c, dst, src, size), lo, hi) /\ DOMAIN Shift(c, dst, src, size) = Addresses
<1>1. ASSUME NEW a \in Addresses, a < lo \/ a >= hi PROVE Shift(c, dst, src, size)[a] = cell[a]
  <2>1. HeapEnd \in Nat /\ BufferCells \in Nat /\ Addresses = 0 .. HeapEnd + BufferCells - 1
    BY LinkerNumbers
  <2>2. a \in Nat BY <2>1
  <2>3. ~ (a \in dst .. dst + size - 1) BY <1>1, <2>2
  <2>4. Shift(c, dst, src, size)[a] = c[a] BY <2>3 DEF Shift
  <2> QED BY <1>1, <2>4 DEF Outside
<1>2. Outside(Shift(c, dst, src, size), lo, hi) BY <1>1 DEF Outside
<1> QED BY <1>2 DEF Shift

\* The three segments of a v3 file in their places, and nothing else changed.
LEMMA SegmentsCopied ==
    ASSUME LinkInv, ~ tight, lc.state = "copy", file.version = 3, NEW w,
           w = CopySegments([m |-> Memory, at |-> <<0, 0, 0>>, error |-> FALSE])
    PROVE  /\ w.m.current \in Nat /\ w.m.top \in Nat /\ w.error \in BOOLEAN
           /\ w.at[1] \in Nat /\ w.at[2] \in Nat /\ w.at[3] \in Nat
           /\ DOMAIN w.m.cell = Addresses /\ current <= w.m.current /\ w.m.current <= w.m.top
              /\ w.m.top <= top
           /\ Outside(w.m.cell, current, top)
           /\ w.at[1] # 0 => /\ current <= w.at[1] /\ w.at[1] + file.seg[1] <= w.m.current
                            /\ Holds(w.m.cell, w.at[1], file.seg[1], files, 1)
           /\ w.at[2] # 0 => /\ current <= w.at[2] /\ w.at[2] + file.seg[2] <= w.m.current
                            /\ Holds(w.m.cell, w.at[2], file.seg[2], files, 2)
           /\ w.at[3] # 0 => /\ w.m.top <= w.at[3] /\ w.at[3] + file.seg[3] <= top
                            /\ Holds(w.m.cell, w.at[3], file.seg[3], files, 3)
<1>1. /\ Tops /\ Order /\ Copying /\ FileOK
      /\ HeapBase \in Nat /\ HeapBase > 0 /\ HeapEnd \in Nat /\ BufferCells \in Nat
      /\ HeapBase <= Floor /\ Floor <= current /\ Floor \in Nat /\ current \in Nat /\ top \in Nat
         /\ top <= HeapEnd
  BY LinkFacts DEF Busy
<1>2. current <= top /\ DOMAIN cell = Addresses BY <1>1 DEF Order
<1>3. PICK l, n1, n2, n3, at, p1, p2, p3 \in Nat :
        /\ l = file.link /\ n1 = file.seg[1] /\ n2 = file.seg[2] /\ n3 = file.seg[3] /\ at = file.at
        /\ p3 = SegmentAt(file, 3) /\ p2 = SegmentAt(file, 2) /\ p1 = SegmentAt(file, 1)
        /\ p3 = at + l /\ p2 = at + l + n3 /\ p1 = at + l + n3 + n2
        /\ FileSize(file) = l + n1 + n2 + n3
  <2>1. LaidOut(file) BY <1>1, FileLayout
  <2>2. /\ file.link \in Nat /\ file.seg[1] \in Nat /\ file.seg[2] \in Nat /\ file.seg[3] \in Nat
           /\ file.at \in Nat
        /\ SegmentAt(file, 3) = file.at + file.link
           /\ SegmentAt(file, 2) = file.at + file.link + file.seg[3]
        /\ SegmentAt(file, 1) = file.at + file.link + file.seg[3] + file.seg[2]
        /\ FileSize(file) = file.link + file.seg[1] + file.seg[2] + file.seg[3]
    BY <2>1 DEF LaidOut
  <2>3. SegmentAt(file, 1) \in Nat /\ SegmentAt(file, 2) \in Nat /\ SegmentAt(file, 3) \in Nat BY <2>2
  <2> QED BY <2>2, <2>3
<1>4. /\ Holds(cell, p1, n1, files, 1) /\ Holds(cell, p2, n2, files, 2) /\ Holds(cell, p3, n3, files, 3)
      /\ lc.process = 0
      /\ InHeap => current = at /\ at + (l + n1 + n2 + n3) + n3 <= top
  BY <1>1, <1>3 DEF Copying
<1>5. ~ InHeap => at = HeapEnd /\ l + n1 + n2 + n3 <= BufferCells BY <1>1, <1>3 DEF FileOK, Fits, InHeap
<1>6. at + (l + n1 + n2 + n3) <= HeapEnd + BufferCells
  <2>1. CASE InHeap BY <1>1, <1>4, <2>1
  <2>2. CASE ~ InHeap BY <1>1, <1>5, <2>2
  <2> QED BY <2>1, <2>2
<1>7. PICK x : x = CopyState(cell, current, top, 0, 0, 0, FALSE) OBVIOUS
<1>8. x = [m |-> Memory, at |-> <<0, 0, 0>>, error |-> FALSE] BY <1>7 DEF CopyState, Memory, Rec
<1>9. PICK y : y = CopySegment(x, 3) OBVIOUS
\* The top-level segment goes to the top of the heap, above the file.
<1>a. PICK c1, t1, a3, e1 : c1 = y.m.cell /\ t1 = y.m.top /\ a3 = y.at[3] /\ e1 = y.error OBVIOUS
<1>10. /\ t1 \in Nat /\ a3 \in Nat /\ e1 \in BOOLEAN /\ y = CopyState(c1, current, t1, 0, 0, a3, e1)
       /\ \/ c1 = cell /\ t1 = top /\ a3 = 0
          \/ a3 = t1 /\ t1 + n3 = top /\ current < t1 /\ c1 = Shift(cell, t1, p3, n3)
  <2>0. n3 = file.seg[3] /\ p3 = SegmentAt(file, 3) BY <1>3
  <2>a. file.seg[3] \in Nat BY <1>3
  <2>b. \/ CopySegment(CopyState(cell, current, top, 0, 0, 0, FALSE), 3)
             = CopyState(cell, current, top, 0, 0, 0, FALSE)
        \/ CopySegment(CopyState(cell, current, top, 0, 0, 0, FALSE), 3) = CopyState(cell, current,
             top, 0, 0, 0, TRUE)
        \/ \E b \in Nat : /\ b + file.seg[3] = top /\ current < b
                          /\ CopySegment(CopyState(cell, current, top, 0, 0, 0, FALSE), 3)
                               = CopyState(Shift(cell, b, SegmentAt(file, 3), file.seg[3]), current, b, 0, 0, b, FALSE)
    BY <1>1, <2>0, <2>a, CopyTopLevel
  <2>1. \/ y = CopyState(cell, current, top, 0, 0, 0, FALSE)
        \/ y = CopyState(cell, current, top, 0, 0, 0, TRUE)
        \/ \E b \in Nat : b + n3 = top /\ current < b /\ y = CopyState(Shift(cell, b, p3, n3), current, b, 0, 0, b, FALSE)
    BY <1>1, <1>7, <1>9, <2>0, <2>b
  <2>2. CASE y = CopyState(cell, current, top, 0, 0, 0, FALSE)
    <3>1. c1 = cell /\ t1 = top /\ a3 = 0 /\ e1 = FALSE BY <1>a, <2>2 DEF CopyState, Rec
    <3> QED BY <1>1, <2>2, <3>1
  <2>3. CASE y = CopyState(cell, current, top, 0, 0, 0, TRUE)
    <3>1. c1 = cell /\ t1 = top /\ a3 = 0 /\ e1 = TRUE BY <1>a, <2>3 DEF CopyState, Rec
    <3> QED BY <1>1, <2>3, <3>1
  <2>4. CASE \E b \in Nat : b + n3 = top /\ current < b
                                            /\ y = CopyState(Shift(cell, b, p3, n3), current, b, 0, 0, b, FALSE)
    <3>1. PICK b \in Nat : b + n3 = top /\ current < b
                                           /\ y = CopyState(Shift(cell, b, p3, n3), current, b, 0, 0, b, FALSE)
      BY <2>4
    <3>2. c1 = Shift(cell, b, p3, n3) /\ t1 = b /\ a3 = b /\ e1 = FALSE BY <1>a, <3>1 DEF CopyState, Rec
    <3> QED BY <3>1, <3>2
  <2> QED BY <2>1, <2>2, <2>3, <2>4
<1>d. t1 \in Nat /\ a3 \in Nat BY <1>10
<1>11. /\ current <= t1 /\ t1 <= top /\ DOMAIN c1 = Addresses
       /\ Outside(c1, current, top)
       /\ Holds(c1, p1, n1, files, 1) /\ Holds(c1, p2, n2, files, 2)
       /\ a3 # 0 => t1 <= a3 /\ a3 + n3 <= top /\ Holds(c1, a3, n3, files, 3)
  <2>1. CASE c1 = cell /\ t1 = top /\ a3 = 0 BY <1>d, <1>1, <1>2, <1>4, <2>1 DEF Outside
  <2>2. CASE a3 = t1 /\ t1 + n3 = top /\ current < t1 /\ c1 = Shift(cell, t1, p3, n3)
    <3>0. Outside(cell, current, top) BY DEF Outside
    <3>1. current <= t1 /\ t1 + n3 <= top BY <1>d, <1>1, <2>2
    <3>2. DOMAIN c1 = Addresses /\ Outside(c1, current, top)
      BY <1>d, <1>1, <2>2, <3>1, <3>0, ShiftOutside
    <3>3. p1 + n1 <= t1 \/ t1 + n3 <= p1
      <4>1. CASE InHeap BY <1>d, <1>1, <1>3, <1>4, <2>2, <4>1
      <4>2. CASE ~ InHeap BY <1>d, <1>1, <1>3, <1>5, <2>2, <4>2
      <4> QED BY <4>1, <4>2
    <3>4. p2 + n2 <= t1 \/ t1 + n3 <= p2
      <4>1. CASE InHeap BY <1>d, <1>1, <1>3, <1>4, <2>2, <4>1
      <4>2. CASE ~ InHeap BY <1>d, <1>1, <1>3, <1>5, <2>2, <4>2
      <4> QED BY <4>1, <4>2
    <3>5. p1 + n1 <= HeapEnd + BufferCells /\ p2 + n2 <= HeapEnd + BufferCells
                                              /\ t1 + n3 <= HeapEnd + BufferCells
      BY <1>d, <1>1, <1>3, <1>6, <2>2
    <3>6. Holds(c1, p1, n1, files, 1) BY <1>d, <1>4, <2>2, <3>3, <3>5, ShiftKeeps
    <3>7. Holds(c1, p2, n2, files, 2) BY <1>d, <1>4, <2>2, <3>4, <3>5, ShiftKeeps
    <3>8. Holds(c1, t1, n3, files, 3) BY <1>d, <1>4, <2>2, <3>5, ShiftCopies
    <3>9. t1 <= top BY <1>d, <1>1, <2>2
    <3> QED BY <1>d, <1>1, <2>2, <3>1, <3>2, <3>6, <3>7, <3>8, <3>9
  <2> QED BY <1>d, <1>10, <2>1, <2>2
<1>12. PICK z : z = CopySegment(y, 2) OBVIOUS
\* The debug segment of listener code goes down over what was copied before it.
<1>b. PICK c2, u2, a2, e2 : c2 = z.m.cell /\ u2 = z.m.current /\ a2 = z.at[2] /\ e2 = z.error OBVIOUS
<1>13. /\ u2 \in Nat /\ a2 \in Nat /\ e2 \in BOOLEAN /\ z = CopyState(c2, u2, t1, 0, a2, a3, e2)
       /\ \/ c2 = c1 /\ u2 = current /\ a2 = 0
          \/ a2 = current /\ u2 = current + n2 /\ u2 <= t1 /\ InHeap /\ c2 = Shift(c1, current, p2, n2)
  <2>0. current > 0 /\ n2 = file.seg[2] /\ p2 = SegmentAt(file, 2) BY <1>d, <1>1, <1>3
  <2>a. file.seg[2] \in Nat BY <1>3
  <2>b. \/ CopySegment(CopyState(c1, current, t1, 0, 0, a3, e1), 2) = CopyState(c1, current, t1, 0, 0, a3, e1)
        \/ CopySegment(CopyState(c1, current, t1, 0, 0, a3, e1), 2) = CopyState(c1, current, t1, 0, 0,
             a3, TRUE)
        \/ /\ current + file.seg[2] <= t1 /\ file.where = "allocated"
           /\ CopySegment(CopyState(c1, current, t1, 0, 0, a3, e1), 2)
                = CopyState(Shift(c1, current, SegmentAt(file, 2), file.seg[2]), current + file.seg[2], t1, 0, current, a3, e1)
    <3>1. current \in Nat /\ t1 \in Nat /\ current > 0 BY <1>1, <1>d, <2>0
    <3>2. e1 \in BOOLEAN BY <1>10
    <3>3. CASE e1 = FALSE
      <4>1. \/ CopySegment(CopyState(c1, current, t1, 0, 0, a3, FALSE), 2)
                 = CopyState(c1, current, t1, 0, 0, a3, FALSE)
            \/ CopySegment(CopyState(c1, current, t1, 0, 0, a3, FALSE), 2) = CopyState(c1, current, t1,
                 0, 0, a3, TRUE)
            \/ /\ current + file.seg[2] <= t1 /\ file.where = "allocated"
               /\ CopySegment(CopyState(c1, current, t1, 0, 0, a3, FALSE), 2)
                    = CopyState(Shift(c1, current, SegmentAt(file, 2), file.seg[2]), current + file.seg[2], t1, 0, current, a3, FALSE)
        BY <2>a, <3>1, CopyDebug
      <4> QED BY <3>3, <4>1
    <3>4. CASE e1 = TRUE
      <4>1. CopyState(c1, current, t1, 0, 0, a3, TRUE).error BY DEF CopyState
      <4>2. CopySegment(CopyState(c1, current, t1, 0, 0, a3, TRUE), 2)
              = CopyState(c1, current, t1, 0, 0, a3, TRUE)
        BY <4>1, CopyFailed
      <4> QED BY <3>4, <4>2
    <3> QED BY <3>2, <3>3, <3>4
  <2>1. \/ z = CopyState(c1, current, t1, 0, 0, a3, e1)
        \/ z = CopyState(c1, current, t1, 0, 0, a3, TRUE)
        \/ /\ current + n2 <= t1 /\ file.where = "allocated"
           /\ z = CopyState(Shift(c1, current, p2, n2), current + n2, t1, 0, current, a3, e1)
    BY <1>d, <1>1, <1>10, <1>12, <2>0, <2>b
  <2>2. CASE z = CopyState(c1, current, t1, 0, 0, a3, e1)
    <3>1. c2 = c1 /\ u2 = current /\ a2 = 0 /\ e2 = e1 BY <1>d, <1>b, <2>2 DEF CopyState, Rec
    <3> QED BY <1>d, <1>1, <1>10, <2>2, <3>1
  <2>3. CASE z = CopyState(c1, current, t1, 0, 0, a3, TRUE)
    <3>1. c2 = c1 /\ u2 = current /\ a2 = 0 /\ e2 = TRUE BY <1>d, <1>b, <2>3 DEF CopyState, Rec
    <3> QED BY <1>d, <1>1, <2>3, <3>1
  <2>4. CASE /\ current + n2 <= t1 /\ file.where = "allocated"
             /\ z = CopyState(Shift(c1, current, p2, n2), current + n2, t1, 0, current, a3, e1)
    <3>1. c2 = Shift(c1, current, p2, n2) /\ u2 = current + n2 /\ a2 = current /\ e2 = e1
      BY <1>d, <1>b, <2>4 DEF CopyState, Rec
    <3>2. InHeap BY <1>d, <2>4 DEF InHeap
    <3>3. u2 \in Nat /\ u2 <= t1 BY <1>d, <1>1, <2>4, <3>1
    <3> QED BY <1>d, <1>1, <1>10, <2>4, <3>1, <3>2, <3>3
  <2> QED BY <1>d, <2>1, <2>2, <2>3, <2>4
<1>e. u2 \in Nat /\ a2 \in Nat BY <1>13
<1>14. /\ current <= u2 /\ u2 <= t1 /\ DOMAIN c2 = Addresses
       /\ Outside(c2, current, top)
       /\ Holds(c2, p1, n1, files, 1)
       /\ a3 # 0 => t1 <= a3 /\ a3 + n3 <= top /\ Holds(c2, a3, n3, files, 3)
       /\ a2 # 0 => current <= a2 /\ a2 + n2 <= u2 /\ Holds(c2, a2, n2, files, 2)
  <2>1. CASE c2 = c1 /\ u2 = current /\ a2 = 0 BY <1>d, <1>e, <1>1, <1>11, <2>1
  <2>2. CASE a2 = current /\ u2 = current + n2 /\ u2 <= t1 /\ InHeap /\ c2 = Shift(c1, current, p2, n2)
    <3>1. current <= u2 /\ current + n2 <= top /\ u2 <= t1 BY <1>d, <1>e, <1>1, <1>11, <2>2
    <3>2. DOMAIN c2 = Addresses /\ Outside(c2, current, top)
      BY <1>d, <1>e, <1>1, <1>11, <2>2, <3>1, ShiftOutside
    <3>3. current + n2 <= p1 BY <1>d, <1>e, <1>3, <1>4, <2>2
    <3>4. p1 + n1 <= HeapEnd + BufferCells /\ current + n2 <= HeapEnd + BufferCells
      BY <1>d, <1>e, <1>1, <1>3, <1>6, <3>1
    <3>5. Holds(c2, p1, n1, files, 1) BY <1>d, <1>e, <1>1, <1>11, <2>2, <3>3, <3>4, ShiftKeeps
    <3>6. Holds(c2, current, n2, files, 2) BY <1>d, <1>e, <1>1, <1>11, <2>2, <3>4, ShiftCopies
    <3>7. ASSUME a3 # 0 PROVE t1 <= a3 /\ a3 + n3 <= top /\ Holds(c2, a3, n3, files, 3)
      <4>1. t1 <= a3 /\ a3 + n3 <= top /\ Holds(c1, a3, n3, files, 3) BY <1>d, <1>e, <1>11, <3>7
      <4>2. current + n2 <= a3 /\ a3 + n3 <= HeapEnd + BufferCells BY <1>d, <1>e, <1>1, <2>2, <4>1
      <4> QED BY <1>d, <1>e, <1>1, <2>2, <4>1, <4>2, ShiftKeeps
    <3> QED BY <1>d, <1>e, <1>1, <2>2, <3>1, <3>2, <3>5, <3>6, <3>7
  <2> QED BY <1>d, <1>e, <1>13, <2>1, <2>2
<1>15. PICK v : v = CopySegment(z, 1) OBVIOUS
\* The main segment follows it.
<1>c. PICK c3, u3, a1, e3 : c3 = v.m.cell /\ u3 = v.m.current /\ a1 = v.at[1] /\ e3 = v.error OBVIOUS
<1>16. /\ u3 \in Nat /\ a1 \in Nat /\ e3 \in BOOLEAN /\ v = CopyState(c3, u3, t1, a1, a2, a3, e3)
       /\ \/ c3 = c2 /\ u3 = u2 /\ a1 = 0
          \/ a1 = u2 /\ u3 = u2 + n1 /\ u3 <= t1 /\ c3 = Shift(c2, u2, p1, n1)
  <2>0. u2 > 0 /\ n1 = file.seg[1] /\ p1 = SegmentAt(file, 1) BY <1>d, <1>e, <1>1, <1>3, <1>13, <1>14
  <2>a. file.seg[1] \in Nat BY <1>3
  <2>b. \/ CopySegment(CopyState(c2, u2, t1, 0, a2, a3, e2), 1) = CopyState(c2, u2, t1, 0, a2, a3, e2)
        \/ CopySegment(CopyState(c2, u2, t1, 0, a2, a3, e2), 1) = CopyState(c2, u2, t1, 0, a2, a3, TRUE)
        \/ /\ u2 + file.seg[1] <= t1
           /\ CopySegment(CopyState(c2, u2, t1, 0, a2, a3, e2), 1)
                = CopyState(Shift(c2, u2, SegmentAt(file, 1), file.seg[1]), u2 + file.seg[1], t1, u2, a2, a3, e2)
    <3>1. u2 \in Nat /\ t1 \in Nat /\ u2 > 0 BY <1>d, <1>e, <2>0
    <3>2. e2 \in BOOLEAN BY <1>13
    <3>3. CASE e2 = FALSE
      <4>1. \/ CopySegment(CopyState(c2, u2, t1, 0, a2, a3, FALSE), 1)
                 = CopyState(c2, u2, t1, 0, a2, a3, FALSE)
            \/ CopySegment(CopyState(c2, u2, t1, 0, a2, a3, FALSE), 1) = CopyState(c2, u2, t1, 0, a2,
                 a3, TRUE)
            \/ /\ u2 + file.seg[1] <= t1
               /\ CopySegment(CopyState(c2, u2, t1, 0, a2, a3, FALSE), 1)
                    = CopyState(Shift(c2, u2, SegmentAt(file, 1), file.seg[1]), u2 + file.seg[1], t1, u2, a2, a3, FALSE)
        BY <2>a, <3>1, CopyMain
      <4> QED BY <3>3, <4>1
    <3>4. CASE e2 = TRUE
      <4>1. CopyState(c2, u2, t1, 0, a2, a3, TRUE).error BY DEF CopyState
      <4>2. CopySegment(CopyState(c2, u2, t1, 0, a2, a3, TRUE), 1)
              = CopyState(c2, u2, t1, 0, a2, a3, TRUE)
        BY <4>1, CopyFailed
      <4> QED BY <3>4, <4>2
    <3> QED BY <3>2, <3>3, <3>4
  <2>1. \/ v = CopyState(c2, u2, t1, 0, a2, a3, e2)
        \/ v = CopyState(c2, u2, t1, 0, a2, a3, TRUE)
        \/ /\ u2 + n1 <= t1
           /\ v = CopyState(Shift(c2, u2, p1, n1), u2 + n1, t1, u2, a2, a3, e2)
    BY <1>d, <1>e, <1>10, <1>13, <1>15, <2>0, <2>b
  <2>2. CASE v = CopyState(c2, u2, t1, 0, a2, a3, e2)
    <3>1. c3 = c2 /\ u3 = u2 /\ a1 = 0 /\ e3 = e2 BY <1>d, <1>e, <1>c, <2>2 DEF CopyState, Rec
    <3> QED BY <1>d, <1>e, <1>13, <2>2, <3>1
  <2>3. CASE v = CopyState(c2, u2, t1, 0, a2, a3, TRUE)
    <3>1. c3 = c2 /\ u3 = u2 /\ a1 = 0 /\ e3 = TRUE BY <1>d, <1>e, <1>c, <2>3 DEF CopyState, Rec
    <3> QED BY <1>d, <1>e, <1>13, <2>3, <3>1
  <2>4. CASE /\ u2 + n1 <= t1
             /\ v = CopyState(Shift(c2, u2, p1, n1), u2 + n1, t1, u2, a2, a3, e2)
    <3>1. c3 = Shift(c2, u2, p1, n1) /\ u3 = u2 + n1 /\ a1 = u2 /\ e3 = e2
      BY <1>d, <1>e, <1>c, <2>4 DEF CopyState, Rec
    <3>3. u3 \in Nat /\ u3 <= t1 BY <1>d, <1>e, <1>13, <2>4, <3>1
    <3> QED BY <1>d, <1>e, <1>13, <2>4, <3>1, <3>3
  <2> QED BY <1>d, <1>e, <2>1, <2>2, <2>3, <2>4
<1>f. u3 \in Nat /\ a1 \in Nat BY <1>16
<1>17. /\ current <= u3 /\ u3 <= t1 /\ DOMAIN c3 = Addresses
       /\ Outside(c3, current, top)
       /\ a3 # 0 => t1 <= a3 /\ a3 + n3 <= top /\ Holds(c3, a3, n3, files, 3)
       /\ a2 # 0 => current <= a2 /\ a2 + n2 <= u3 /\ Holds(c3, a2, n2, files, 2)
       /\ a1 # 0 => current <= a1 /\ a1 + n1 <= u3 /\ Holds(c3, a1, n1, files, 1)
  <2>1. CASE c3 = c2 /\ u3 = u2 /\ a1 = 0 BY <1>d, <1>e, <1>f, <1>1, <1>14, <2>1
  <2>2. CASE a1 = u2 /\ u3 = u2 + n1 /\ u3 <= t1 /\ c3 = Shift(c2, u2, p1, n1)
    <3>1. current <= u2 /\ u2 <= u3 /\ u2 + n1 <= top /\ u3 <= t1
      BY <1>d, <1>e, <1>f, <1>1, <1>11, <1>14, <2>2
    <3>2. DOMAIN c3 = Addresses /\ Outside(c3, current, top)
      BY <1>d, <1>e, <1>f, <1>1, <1>14, <2>2, <3>1, ShiftOutside
    <3>4. u2 + n1 <= HeapEnd + BufferCells BY <1>d, <1>e, <1>f, <1>1, <3>1
    <3>6. Holds(c3, u2, n1, files, 1) BY <1>d, <1>e, <1>f, <1>14, <2>2, <3>4, ShiftCopies
    <3>7. ASSUME a3 # 0 PROVE t1 <= a3 /\ a3 + n3 <= top /\ Holds(c3, a3, n3, files, 3)
      <4>1. t1 <= a3 /\ a3 + n3 <= top /\ Holds(c2, a3, n3, files, 3) BY <1>d, <1>e, <1>f, <1>14, <3>7
      <4>2. u2 + n1 <= a3 /\ a3 + n3 <= HeapEnd + BufferCells BY <1>d, <1>e, <1>f, <1>1, <2>2, <4>1
      <4> QED BY <1>d, <1>e, <1>f, <2>2, <4>1, <4>2, ShiftKeeps
    <3>8. ASSUME a2 # 0 PROVE current <= a2 /\ a2 + n2 <= u3 /\ Holds(c3, a2, n2, files, 2)
      <4>1. current <= a2 /\ a2 + n2 <= u2 /\ Holds(c2, a2, n2, files, 2) BY <1>d, <1>e, <1>f, <1>14, <3>8
      <4>2. a2 + n2 <= u3 /\ a2 + n2 <= HeapEnd + BufferCells BY <1>d, <1>e, <1>f, <1>1, <2>2, <3>1, <4>1
      <4> QED BY <1>d, <1>e, <1>f, <2>2, <4>1, <4>2, ShiftKeeps
    <3>9. current <= u3 BY <1>d, <1>e, <1>f, <1>1, <3>1
    <3> QED BY <1>d, <1>e, <1>f, <1>1, <2>2, <3>1, <3>2, <3>6, <3>7, <3>8, <3>9
  <2> QED BY <1>d, <1>e, <1>f, <1>16, <2>1, <2>2
<1>18. w = CopyState(c3, u3, t1, a1, a2, a3, e3)
  <2>1. CopySegments(x) = v BY <1>9, <1>12, <1>15
    DEF CopySegments, TOP_LEVEL_SEGMENT, DEBUG_SEGMENT, MAIN_SEGMENT
  <2> QED BY <1>8, <1>16, <2>1
<1>19. /\ t1 \in Nat /\ u3 \in Nat /\ a1 \in Nat /\ a2 \in Nat /\ a3 \in Nat /\ e3 \in BOOLEAN
       /\ n1 = file.seg[1] /\ n2 = file.seg[2] /\ n3 = file.seg[3]
  BY <1>3, <1>10, <1>13, <1>16
<1>20. t1 <= top BY <1>11
<1>21. /\ w.m.cell = c3 /\ w.m.current = u3 /\ w.m.top = t1 /\ w.error = e3
       /\ w.at[1] = a1 /\ w.at[2] = a2 /\ w.at[3] = a3
  BY <1>18 DEF CopyState, Rec
<1> QED BY <1>17, <1>19, <1>20, <1>21

\* work_v3 copies every segment before it writes over it.
LEMMA CopyInv ==
    ASSUME LinkInv, work_v3_copy
    PROVE  LinkInv'
<1>1. Tops' BY TopsStep DEF LinkInv, LinkerNext, link_work
<1> SUFFICES ASSUME ~ tight' PROVE (Busy => FileOK)' /\ Order' /\ Whole' /\ Block' /\ Copying' /\ Placed'
  BY <1>1 DEF LinkInv
<1>2. lc.state = "copy" /\ file.version = 3 /\ UNCHANGED <<file, files, tight>> BY DEF work_v3_copy
<1>3. /\ Tops /\ Order /\ Placed /\ Block /\ Copying /\ FileOK
      /\ HeapBase \in Nat /\ HeapBase > 0 /\ HeapEnd \in Nat /\ BufferCells \in Nat
      /\ HeapBase <= Floor /\ Floor <= current /\ Floor \in Nat /\ current \in Nat /\ top \in Nat
         /\ top <= HeapEnd
  BY <1>2, LinkFacts DEF Busy
<1>4. FileOK' BY <1>2, <1>3 DEF FileOK
<1> DEFINE x == CopySegments([m |-> Memory, at |-> <<0, 0, 0>>, error |-> FALSE])
           failed(full) == x.error \/ (full /\ file.debug /\ file.where # "allocated" /\ file.seg[2] > 0)
<1>5. x = CopySegments([m |-> Memory, at |-> <<0, 0, 0>>, error |-> FALSE]) OBVIOUS
<1>a. PICK full \in BOOLEAN :
        /\ cell' = x.m.cell /\ current' = x.m.current /\ top' = x.m.top
        /\ placed' = placed \cup {Place(x.at[s], s) : s \in {t \in 1 .. 3 : x.at[t] # 0}}
        /\ lc' = [lc EXCEPT !.state = IF failed(full) THEN "worked" ELSE "link", !.error = failed(full)]
  BY Zenon DEF work_v3_copy
<1> HIDE DEF x
<1>b. PICK fails : fails = failed(full) OBVIOUS
<1>c. failed(full) \in BOOLEAN OBVIOUS
<1> HIDE DEF failed
<1>6. /\ fails \in BOOLEAN
      /\ cell' = x.m.cell /\ current' = x.m.current /\ top' = x.m.top
      /\ placed' = placed \cup {Place(x.at[s], s) : s \in {t \in 1 .. 3 : x.at[t] # 0}}
      /\ lc' = [lc EXCEPT !.state = IF fails THEN "worked" ELSE "link", !.error = fails]
  BY <1>a, <1>b, <1>c, Zenon
<1>7. fails \in BOOLEAN BY <1>6
<1>8. PICK next : next = IF fails THEN "worked" ELSE "link" OBVIOUS
<1>9. /\ lc'.state = next /\ lc'.error = fails /\ lc'.object = lc.object /\ lc'.block = lc.block
      /\ lc'.process = lc.process /\ next \in {"worked", "link"}
  <2>1. lc' = [lc EXCEPT !.state = next, !.error = fails] BY <1>6, <1>8
  <2> QED BY <1>3, <1>8, <2>1 DEF Tops
<1>10. Whole' /\ Copying' BY <1>9 DEF Whole, Copying
<1>11. /\ current' \in Nat /\ top' \in Nat /\ DOMAIN cell' = Addresses /\ current <= current'
          /\ current' <= top' /\ top' <= top
       /\ Outside(cell', current, top)
       /\ x.at[1] \in Nat /\ x.at[2] \in Nat /\ x.at[3] \in Nat
       /\ x.at[1] # 0 => /\ current <= x.at[1] /\ x.at[1] + file.seg[1] <= current'
                        /\ Holds(cell', x.at[1], file.seg[1], files, 1)
       /\ x.at[2] # 0 => /\ current <= x.at[2] /\ x.at[2] + file.seg[2] <= current'
                        /\ Holds(cell', x.at[2], file.seg[2], files, 2)
       /\ x.at[3] # 0 => /\ top' <= x.at[3] /\ x.at[3] + file.seg[3] <= top
                        /\ Holds(cell', x.at[3], file.seg[3], files, 3)
  BY <1>2, <1>5, <1>6, SegmentsCopied
<1>12. Floor = current /\ Floor' = current'
  <2>1. lc.process = 0 BY <1>2, <1>3 DEF Copying
  <2> QED BY <1>2, <1>9, <2>1 DEF Floor
<1>13. lc.object \in Nat /\ lc.block \in Nat /\ lc.process \in Nat /\ files \in Nat BY <1>2, <1>3 DEF Order
<1>14. Order'
  <2>1. lc'.error \in BOOLEAN BY <1>7, <1>9
  <2>2. HeapBase <= Floor' /\ Floor' <= current' /\ top' <= HeapEnd BY <1>3, <1>11, <1>12
  <2> QED BY <1>2, <1>9, <1>11, <1>13, <2>1, <2>2 DEF Order
<1>15. Block'
  <2>1. /\ \/ lc.block >= HeapEnd
           \/ lc.block = 0
           \/ lc.block >= top /\ lc.block + file.link <= HeapEnd
        /\ lc.block + file.link <= HeapEnd + BufferCells
        /\ Holds(cell, lc.block, file.link, files, LINK)
    BY <1>2, <1>3 DEF Block, BlockInTheWay
  <2>2. file.link \in Nat /\ file.link <= HeapBase BY <1>3, FileLayout DEF LaidOut
  <2>3. HeapBase <= current /\ (lc.block + file.link <= current \/ top <= lc.block)
    BY <1>3, <1>13, <2>1, <2>2
  <2>4. Holds(cell', lc.block, file.link, files, LINK) BY <1>3, <1>11, <1>13, <2>1, <2>2, <2>3, BlockKept
  <2>5. \/ lc.block >= HeapEnd
        \/ lc.block = 0
        \/ lc.block >= top' /\ lc.block + file.link <= HeapEnd
    BY <1>3, <1>11, <1>13, <2>1
  <2> QED BY <1>2, <1>9, <2>1, <2>4, <2>5 DEF Block
<1>16. Placed'
  <2>1. ASSUME NEW p \in placed
        PROVE  /\ Holds(cell', p.at, p.size, p.id, p.seg) /\ p.at \in Nat /\ p.size \in Nat /\ p.id \in Nat
               /\ p.seg # TOP_LEVEL_SEGMENT /\ HeapBase <= p.at /\ p.at + p.size <= current'
    <3>1. /\ p.at \in Nat /\ p.size \in Nat /\ p.id \in Nat
          /\ p.seg # TOP_LEVEL_SEGMENT /\ HeapBase <= p.at /\ p.at + p.size <= current
      BY <1>2, <1>3, <1>12 DEF Placed
    <3>2. Floor \in Nat /\ Floor <= current /\ top <= top /\ Floor <= HeapEnd BY <1>3, <1>11, <1>12
    <3>3. Holds(cell', p.at, p.size, p.id, p.seg) BY <1>3, <1>11, <3>2, OutsideKept
    <3>4. p.at + p.size <= current' BY <1>3, <1>11, <3>1
    <3> QED BY <3>1, <3>3, <3>4
  <2>2. file.seg[1] \in Nat /\ file.seg[2] \in Nat /\ file.seg[3] \in Nat BY <1>3, FileLayout DEF LaidOut
  <2>3. ASSUME NEW s \in 1 .. 3, x.at[s] # 0, NEW q, q = Place(x.at[s], s)
        PROVE  /\ Holds(cell', q.at, q.size, q.id, q.seg) /\ q.at \in Nat /\ q.size \in Nat /\ q.id \in Nat
               /\ q.seg # TOP_LEVEL_SEGMENT => HeapBase <= q.at /\ q.at + q.size <= current'
               /\ q.seg = TOP_LEVEL_SEGMENT => top' <= q.at /\ q.at + q.size <= HeapEnd
    <3>1. q.at = x.at[s] /\ q.size = file.seg[s] /\ q.id = files /\ q.seg = s BY <2>3 DEF Place
    <3>2. CASE s = 1 BY <1>3, <1>11, <1>13, <2>2, <2>3, <3>1, <3>2 DEF TOP_LEVEL_SEGMENT
    <3>3. CASE s = 2 BY <1>3, <1>11, <1>13, <2>2, <2>3, <3>1, <3>3 DEF TOP_LEVEL_SEGMENT
    <3>4. CASE s = 3 BY <1>3, <1>11, <1>13, <2>2, <2>3, <3>1, <3>4 DEF TOP_LEVEL_SEGMENT
    <3> QED BY <3>2, <3>3, <3>4
  <2>4. ASSUME NEW p \in placed'
        PROVE  p \in placed \/ \E s \in 1 .. 3 : x.at[s] # 0 /\ p = Place(x.at[s], s)
    BY <1>6
  <2>5. ASSUME NEW p \in placed'
        PROVE  /\ Holds(cell', p.at, p.size, p.id, p.seg) /\ p.at \in Nat /\ p.size \in Nat /\ p.id \in Nat
               /\ p.seg # TOP_LEVEL_SEGMENT => HeapBase <= p.at /\ p.at + p.size <= Floor'
               /\ p.seg = TOP_LEVEL_SEGMENT => top' <= p.at /\ p.at + p.size <= HeapEnd
    BY <1>12, <2>1, <2>3, <2>4
  <2> QED BY <1>9, <2>5 DEF Placed
<1> QED BY <1>4, <1>10, <1>14, <1>15, <1>16

\* Every step keeps LinkInv.
LEMMA LinkStep ==
    ASSUME LinkInv, [LinkerNext]_linkVars
    PROVE  LinkInv'
<1>1. CASE LoadFile BY <1>1, LoadFileInv
<1>2. CASE begin BY <1>2, BeginInv
<1>3. CASE work_v3_copy BY <1>3, CopyInv
<1>4. CASE work_v2_stay BY <1>4, StayInv
<1>5. CASE work_v2_move BY <1>5, MoveInv
<1>6. CASE link_step BY <1>6, LinkStepInv
<1>7. CASE finish BY <1>7, FinishInv
<1>8. CASE UNCHANGED linkVars BY <1>8, LinkStutter
<1> QED BY <1>1, <1>2, <1>3, <1>4, <1>5, <1>6, <1>7, <1>8 DEF LinkerNext, link_work

\* link_control loses nothing it still needs: whatever is linked, in whatever
\* order and sizes, placed segments hold what their file held, the link block
\* is there until it has been read, and the heap's top returns (klink.cpp).
THEOREM LinkerSafety == LinkerSpec => []LinkerSound
<1>1. LinkerInit => LinkInv BY LinkInitInv
<1>2. LinkInv /\ [LinkerNext]_linkVars => LinkInv' BY LinkStep
<1>3. LinkInv => LinkerSound BY LinkInvSuffices
<1> QED BY <1>1, <1>2, <1>3, PTL DEF LinkerSpec
====
