# A TLA+ model of the OpenGOAL runtime and its tools

`jak-project` ports a PlayStation 2 game to PC. Its runtime keeps the shape of
the console: a main processor (the EE) that runs GOAL code on heaps laid out by
a small kernel in C++, and an I/O processor (the IOP), emulated by a cooperative
kernel in a thread of its own, whose driver (the overlord) reads files and
copies them into the EE's memory. The two talk through remote procedure calls.
Around it are tools: a compiler for GOAL, which can also talk to the running
game, and a decompiler for the original code. This directory specifies where
things can go wrong in an order nobody wrote a test for, checks it with TLC and
proves the core of it with TLAPS.

## 1. Inventory

| Part | State | Operations | Talks to |
|---|---|---|---|
| GOAL heaps (`kernel/kmalloc.cpp`) | `kheapinfo`: base, current, top | `kinitheap`, `kmalloc` from the bottom and from the top; callers save and restore `top` | called by the loader, the linker, GOAL |
| Linker (`kernel/klink.cpp`) | position in an object file, link block, heap top | `begin`, `work`, `finish` | heaps, symbol table |
| Symbol and type table (`kernel/kscheme.cpp`) | two areas of slots, types with method tables | intern, find, new type, set method | linker, GOAL |
| DGO loader (`kernel/kdgo.cpp`, `load-dgo.gc`) | two alternating messages, the last one sent, two temporary buffers | begin, get next, continue, cancel | DGO channel of the SIF; linker; heaps |
| SIF and IOP kernel (`system/IOP_Kernel.cpp`, `iop_thread.cpp`, `sce/sif_ee.cpp`) | one command record per channel, thread records, the budget of iterations | `sif_rpc`, `sif_busy`, `rpc_loop`, `dispatchAll`, `SleepThread`, `WakeupThread`, `shutdown` | EE on one side, the overlord's threads on the other |
| ISO thread (`overlord/iso.cpp`, `iso_queue.cpp`, `fake_iso.cpp`) | mailbox, priority stacks, read buffers, open files, one read in progress | receive, begin read, run callbacks, sync read | woken by `iso_api.cpp`; wakes requesting threads; writes EE memory |
| DGO thread and state machine (`overlord/iso.cpp`) | the one `DgoCommand`, two mailboxes | `LoadDGO`, `LoadNextDGO`, `CancelDGO`, seven states | callback of the ISO thread, handler of the DGO channel |
| STR, ramdisk, host files (`stream.cpp`, `ramdisk.cpp`, `fileio.cpp`) | header cache, file table, open files by number | RPC handlers, `kopen`, `kread`, `kclose`, `FileLoad` | ISO thread, host |
| Listener (`kdsnetm.cpp`, `klisten.cpp`, `Deci2Server.cpp`, `goalc/listener`) | send and receive buffers, acknowledgements | messages between compiler and game | socket, a thread on each side |
| System threads (`runtime.cpp`, `SystemThread.cpp`, `vm.cpp`) | thread records, barriers, the objects the threads share | start, initialization, exit, reset | everything above |
| Compiler (`goalc`) | environments, IR, live ranges, object file being laid out | compile a form, allocate registers, emit, write link tables | linker (by the file format) |
| Type system (`common/type_system`) | types, forward declarations, method tables | deftype, defenum, lookups, lowest common ancestor | compiler and decompiler |
| Decompiler (`decompiler`) | instructions, atomic operations, graph of blocks, types of registers | disassemble, convert, structure, infer | object files |

`PROJECT.json` lists every part with its status; those left out (the disc-image
driver, the GOAL engine and kernel, the macro language, the debugger, offline
tools) have the reason there.

What is hard here:

* the EE and the IOP run concurrently and share the SIF records and the EE's
  memory; the EE polls, the IOP only runs while it is granted iterations;
* on the IOP, threads are cooperative, and a command on the stack of a sleeping
  thread is worked on by another one; the hand-over is two flags per thread, one
  of them written outside its mutex;
* one object of a DGO file is linked while the next is loaded into the other of
  two buffers, and the last goes where the linker allocates;
* the heaps have no free: correctness of temporary memory rests on the order in
  which saved tops are put back, and the linker copies over what it reads;
* four system threads start, use each other's objects and end, several times in
  one process; stopping the IOP, cancelling a load, a file that is not there;
* acknowledgements, prints and load reports of the listener carry no identity
  that is checked;
* the tools are large case distinctions over instructions, and a wrong case
  yields a program that is wrong elsewhere.

## 2. Modules

| Modules | Model | Run | Proofs |
|---|---|---|---|
| `KHeap` | the allocator and its users' save/restore | `parts` | `Parts_proofs` |
| `Services` | STR header cache, ramdisk, host files | `parts` | `Parts_proofs` |
| `SymbolTable`, `TypeTable` | symbols; types and method tables of the kernel | `parts` | `Parts_proofs` |
| `Linker` | where `link_control` puts segments and link blocks | `parts` | `Linker_proofs` |
| `RpcChannel` | what the SIF promises a caller (abstract) | refined by `IopKernel` | |
| `IopKernel` | IOP kernel, SIF, iteration budget, shutdown | `iop` | `IopKernel_proofs` |
| `IopHandshake` | flags, mutexes and condition variables between the IOP kernel and a thread | `threads` | `Threads_proofs` |
| `Machine` | system threads, start-up, exit and reset of the process | `threads`, `machine_reset` | `Threads_proofs` |
| `IsoThread` | ISO thread, queues, buffers, file system, requesters | `iso`, `iso_live`, `iso_lost_page` | `IsoThread_proofs` |
| `ObjectStream` | what loading a DGO promises the linker (abstract) | refined by `DgoLoad` | |
| `DgoLoad` | loader on the EE, DGO thread, state machine | `dgo` | `DgoLoad_proofs` |
| `Listener` | compiler, its receive thread, DECI2 thread, kernel loop | `listener`, `listener_late_ack` | `Listener_proofs` |
| `Emitter` | instruction encodings, and the processor that reads them | `toolchain` | `Compiler_proofs` |
| `ObjectGenerator`, `DataObject` | v3 object files; v2 and v4 data objects and their link tables | `toolchain` | |
| `RegAlloc` | register allocation and code generation | `toolchain` | `Compiler_proofs` (allocation) |
| `IR`, `Compile` | operations, front end | `toolchain` | |
| `MipsDecode`, `AtomicOps`, `ControlFlow` | disassembler, atomic and basic operations, structuring of blocks | `decompiler` | |
| `TypeSystem`, `TypePropagation` | types and fields; types of registers | `decompiler` | |

`MC*` modules, `Toolchain` and `Decompiler` put components together for a run;
the `.cfg` files give the constants their values. `Task` and the `*Tasks`
modules enumerate the inputs of the tools' algorithms and state what each result
must be, by an independent definition (the functions to allocate are a constant,
given in `Toolchain`; the processors in `Emitter`, which has its
own tasks, and `MipsDecode`, and the interpreters in the `*Tasks` modules). Definitions marked `\* Mutant:` are plausible mistakes,
one per property; each is swapped in for the definition below it to see that the
property notices. They are no part of the specification.

The runtime modules are layers seen from one another. `DgoLoad` uses the channel
as `RpcChannel` describes it (called, then idle with an answer) and the ISO
thread as the sequence of pages it delivers. `IopKernel` sees the ISO thread as
someone who eventually answers, which is what `IsoThread` shows
(`RequestsAnswered`), and a dispatch as one step, which is what `IopHandshake`
shows (`OneRuns`). `IsoThread` sees the DGO state machine as a callback that uses
up a buffer or not, may report an object and ends only when the DGO thread waits,
which is how `DgoLoad` describes it in full. `Machine` sees a pass of the IOP's
kernel as one step.

### KHeap

`heap[h]` is the `kheapinfo`; `allocs` is the set of blocks handed out, which
the code does not keep and the properties are about; `saved[h]` are the values
of `top` that callers remember (`oldHeapTop`, `m_heap_top`). `KMallocBottom` and
`KMallocTop` are the two branches of `kmalloc`, each with its three ends: size
zero, no room, success. Subtraction is modulo `AddrSpace`; alignment is by 16, 64
or 256 bytes as in the code. `SaveTop` and `RestoreTop` nest, as calls do.

### Services

Three independent state machines. A header in `sCache` is named by the file it
was read from, so a chunk shows which header it was cut with; `str_hit` and
`str_miss` include the countdown of every entry that the search passes. `gMem`
holds for each byte the file and position it came from. Host files have the
numbers that `sceOpen` computes from how many are open; `nested` remembers whether
no number below another one was ever given back, the case the code supports.

### SymbolTable and TypeTable

A slot is numbered from `s7`. `hashed` gives each name any slot as its hash;
`find_symbol_in_area` is the probe, with its three outcomes, and
`find_symbol_from_c` the two areas and the fixed symbols after them. `interned`
remembers what `intern_from_c` returned. `TypeTable` has the method tables that
`new_type` and `method_set` fill and hand down; `type_typep`, a loop over parents,
is described by what it returns.

### Linker

A cell of memory holds which file, which part of it and which index it came
from. `begin` moves the link block out of the way and gives the file's memory
back, `work_v3_copy` copies the segments over the file in the order of the code,
`work_v2_stay` and `work_v2_move` are the two ways of the older format (in chunks,
one per call of `work`), `link_step` reads the link block while interning
allocates, `finish` puts the heap's top back. `tight` says that a file was loaded
into a heap without room for its temporaries, which the code does not check.

### IopKernel and RpcChannel

Each critical section under `sif_mtx` or `iters_mutex` is one action, and so is
each stretch of an IOP thread between two of them. `credit` is the difference of
the two iteration counters; `kernel`, `turn` and `current` are the loop of
`iop_runner` and of `dispatchAll`; `at[ch]` is where a channel's thread is in
`rpc_loop`. A handler either answers at once, or asks the ISO thread and polls a
mailbox (`WaitMbx`), or asks and sleeps (`SleepThread`). The EE may call a channel
only after it has seen it idle, which is what all callers do (`RpcSync` or
`check-busy` first). `phase` maps the flags of a record to the phase of
`RpcChannel`.

### IopHandshake and Machine

`IopHandshake` has every access to `runThreadReady`, `syscallReady`, `started` and
`_currentThread` as a step of its own, with the mutex and condition variable that
guards it, if any. `Machine` has a program counter for each of the four system
threads and for `exec_runtime`; `where` says in which step of `begin` and `finish`
of the virtual machine, the IOP and the server a thread is; objects carry the run
they were made in, so that one left from an earlier run shows.

### IsoThread

`pc` walks through a pass of `ISOThread`: receive, begin a read, process, sync.
Only in `DelayThread` do others run, so the actions of `Request` and `Wake` are
enabled there. Files are sequences of pages (one read buffer each) and page `p`
of file `f` is `<<f, p>>`, so that a destination shows which pages it got. A
buffer is where the code has it: in the free list, in the list of a command, or
in the read of this pass. `stuck` is the endless loop of `AllocateBuffer` and
`ExitIOP`.

### DgoLoad and ObjectStream

A file is given by where its objects begin and where it ends, in units of which
`HEADER` make a header and `PAGE` a read buffer; `mem` holds the units that the IOP has copied
to each place, so an overwritten object shows. `heap` counts links since the heap
was emptied: each link moves the top, and `Top(heap)` is the aligned address the
loader sends. The C loader never cancels; the GOAL one may, at the points its
documentation allows. The states of `RunDGOStateMachine` are the `SM_*` actions;
`running` keeps the DGO thread out while the state machine runs.

### Listener

The compiler's thread, its receive thread, the DECI2 thread of the game and the
kernel loop of the game, with the socket between them as two queues. A message has
the number the compiler gave it; acknowledgements, prints and reports carry it in
the model although the code only compares their kind.

### The tools

Each algorithm is an operator from its input to its output, and a state of the
run is one input with its result. The compiler's part: `Emitter` gives the bytes
of every instruction of `IGen`, and its model of the processor decodes them; `ObjectGenerator` and
`DataObject` write files that the linker's loops read back; `RegAlloc` assigns
registers, one variable per step, so that what is assigned can be looked at in
between, and the allocated code runs on a machine that knows which value each
place should hold; `IR` and `Compile` are run next to an interpreter. The
decompiler's part: `MipsDecode` against the fields of every opcode; `AtomicOps`
against the scaled-down processor of `MipsDecode`; `ControlFlow` on functions laid out
from nested statements, where the structure found must go where the branches go;
`TypeSystem` on programs of up to five forms, accepted or not; `TypePropagation` on
small functions, executed to see that the types describe the values.

## 3. What the runs show

| Run | Result | Bounds |
|---|---|---|
| `parts` | live blocks of the heaps disjoint, and a restore releases just the temporaries since its save; files linked where they lie keep their contents; caches and host files answer with what was asked for; symbols stay; methods are inherited | each part on its own: two adjacent heaps and sizes that fit, just fit and do not; two files of every shape; two cache entries for three files; seven symbol slots with every hash of three names; three type definitions |
| `iso` | no endless loop, no command whose caller has gone on, no page for a command that has ended, no buffer or file lost, pages in order | a load to the EE, one to the IOP, a DGO load and shutdown at any time, the code's number of buffers |
| `iso_live` | every load and bank request is answered | EE load, sound bank and DGO load |
| `iso_lost_page` | **violation**: a page is lost when another command's file is closed | an EE load and a DGO load |
| `iop` | each call answered once and before the channel is idle; assertions hold; `RpcSync` and shutdown return | a polling and a sleeping channel, requests with and without reply, budget of 2 per signal and 3 in all |
| `threads` | one of kernel and threads runs at a time and no notification is lost; a missing object is used, and the process crashes, only in five named windows (below); exit returns | two IOP threads; two runs of the process with every command line |
| `machine_reset` | **violation**: a game not started for debugging never restarts | one run |
| `dgo` | objects whole, in order and untouched while linked, also across cancels and failed loads; every load ends | files of up to four objects with one to three units of data, headers of two units and pages of three |
| `listener` | what is acknowledged has run once, prints and reports belong to their code, a reset target comes back | the listener's messages in every interleaving, two code messages |
| `listener_late_ack` | **violation**: an acknowledgement after the timeout is taken for the next message's | two messages |
| `toolchain` | instructions decode to what was asked; files link; allocation, operations and expressions compute what they should | every instruction of `IGen` with low and high registers and displacements around a byte; link tables around the limits of their bytes; functions with pressure above the registers; expressions of two operators |
| `decompiler` | disassembly, operations, control flow, types, fields and inferred types agree with their references | every opcode; every pattern with special registers; nested statements to depth two; programs of five forms |

The budgets of `iop` are smaller than the code's 100 and 500 but have what
matters: a call may need more passes than one signal grants, and the cap is hit.
In `dgo`, a header of two units can be split by a page, a page of three can end
with a header, with an object or inside either, and objects of three units span
three pages. In the tools' runs numbers are scaled (a byte of a link table to a
small base, a register to 16 bits) so that every limit is crossed.

### Findings

1. `fake_iso.cpp:251`: `FS_Close` cancels whatever read is in progress
   (`iso_lost_page`). The comment in `iso.cpp` expects it to be the closed file's.
2. `Listener.cpp:464`: the acknowledgement's number is not checked
   (`listener_late_ack`).
3. `Deci2Server.cpp:165`: the DECI2 thread waits for protocols that nobody will
   register, so that a reset never restarts (`machine_reset`).

Met while modelling, and modelled as the code has it. In the runtime:

* `kmalloc.cpp:155` subtracts before it compares, in unsigned arithmetic; hence
  the premise `RequestsBelowBase` of the heap's theorems.
* `iso.cpp:732`: `CopyDataToIOP` never moves `dst_ptr`, so a load to the IOP of
  more than a page keeps its last page. `IOP_Kernel.cpp:308`: shutdown never ends
  if a thread sleeps. `kdgo.cpp:350`: a missing file leaves the temporary buffers.
* `kscheme.cpp`: a symbol that finds no slot is written at address 0. A link block
  that finds no room is copied to address 0; the link block of a v4 file can be
  overwritten by interning; a v2 or v4 file that could not be placed is still
  logged in at its entry 0. Hence `tight` and the exceptions in `LinkerSound`.
* `ramdisk.cpp`: `GET_DATA` copies the size of the command, whatever it asks for.
  `stream.cpp` records a file before its header is loaded, so a failed load
  poisons the entry. `sceOpen` numbers files by how many are open, which collides
  unless they are closed in order; `FileLoad` leaks a number on an error path.
* The system threads do use objects that are not there. The model crashes in each
  case, and `CrashWindows` in `Machine`, checked and proved, says that there is no
  other: the EE opens its protocol with a null server (`deci2.cpp:65`) as it is
  started before the DECI2 thread; the DECI2 thread asserts that it got a socket
  (`NoSocket`: an assertion rather than a missing object); the DMAC subscribes to a
  VM that is dead (`vm.cpp`); `kill_from_ee` signals an IOP that is gone, where the
  EE may hang too; and `runtime.cpp:169` unmaps the EE's memory under a running
  thread of the IOP or under a DECI2 message whose last part is on its way.
* `Deci2Server::run` can return without unlocking; `InitGoalProto` opens the
  protocol before its buffer is set (the model opens and sets it in one step).
* `fake_iso.cpp:164` asserts that a file is found before it answers that it is
  not. Builds have assertions on by default (`CMakeLists.txt:7`) and stop there;
  the models go on, as the callers are written for. `InstructionMatching.cpp:346`
  asserts that no likely branch is always taken: `ControlFlow` aborts on one.

In the tools:

* Redefining a type breaks inheritance; a failed deftype leaves its name forward
  declared; cyclic forward declarations do not end; enum values after
  `:copy-entries` restart at 0; overlap of bitfields is not checked.
* v2 link tables: a pointer in word 0, or a last run that is a multiple of 255,
  is misread; the v4 header's code size ignores padding.
* `.div.vf` and `.inv-sqrt.vf` whose destination is the divisor; a shift by 64 is
  accepted; division by a power of two rounds down; operands are read when used,
  so a later `set!` is seen; `compile_sub` compiles its only argument twice.
* `StackSpillLoadOp::operator==` compares with the store's type; some operations
  name too few or too many registers (`movn`, calls, `suspend`, assembly branches).
* A jump into a while loop is swallowed; a `cond` whose second condition is a loop
  stays unresolved; a break to a loop of several blocks names the wrong block.
* Register casts are restored after a call that clobbers the register; a stack
  cast in a loop keeps the type analysis from ending.

### Fairness

* `IsoThread`: weak fairness of the ISO thread's steps and strong fairness of each
  woken thread, because `dispatchAll` runs every started thread in every pass. No
  fairness is asked of new requests.
* `IopKernel`: weak fairness of the IOP's system thread and of the EE inside a
  library call; strong fairness of the ISO thread's answer, which stands for
  `RequestsAnswered` of `IsoThread`. The EE need not call, poll or stop.
* `IopHandshake` and `Machine`: weak fairness of every thread of the host that has
  been started, since the host's scheduler runs it; none of the user's exit.
* `DgoLoad`: weak fairness of the state machine (the ISO thread runs on) and of
  the loader once it has begun, strong fairness of the DGO thread, which can run
  only between two calls of the state machine.
* `Listener`: weak fairness of the game's kernel loop and of the threads of both
  sides; none of what the user types.

## 4. What is proved

Each theorem is about the same formula that a run checks, for every value of the
constants that the module's `ASSUME` allows. `PROJECT.json` lists the theorems;
the assumptions say only what the code fixes (buffers and pages have a size,
"none" is no file, an object has data) except for `RequestsBelowBase`, below.

`IopKernel_proofs`, for any channels, handlers, creation order and budget:
`SifSafety` (types, and the assertions of `sif_rpc` and `rpc_loop`) and
`SifImplementsRpcChannel`. `RpcInv` says how the two flags of a record, the
position of its thread and the handler's request to the ISO thread go together
(`Flags`), what the buffer holds at each position (`Buffered`), that a thread not
marked as started is one that asked and was not answered (`Asleep`), and that
nothing is aborted unless the EE has stopped the IOP (`Stopping`).

`Threads_proofs`:

* `HandshakeSafety`: one of the kernel and the IOP's threads runs. The two flags
  of a thread are a permission that is in one place at a time (`Permission`), and
  the kernel's position says whether it has given it away (`KernelKnows`).
* `MachineSafety`: a system thread uses an object that is not there or is gone in
  the five windows of `CrashWindows` only. That an object is there follows from
  where its owner is (`Lives`, `Serves`, `VmLives`); where the owner can be follows
  from the order in which threads are started (`StartUp`, `Loaded`) and told to
  stop (`Exits`). A thread that crashes does not move, so that each crashing action
  gives its window (`CrashStep`): which of them are left is what the proof shows,
  as an action that could crash elsewhere would have to be excluded by the
  invariant.

`Parts_proofs`:

* `HeapSafety`, `RoomSafety` and `ReleaseSafety`, for disjoint heaps of every size
  and every nesting depth, if memory stays below the end of the address space
  (`HeapsAssumption`) and no request exceeds the base address of a heap
  (`RequestsBelowBase`: `kmalloc.cpp:155` wraps otherwise). Disjointness of live
  blocks is not inductive: a new block is known to miss the others only if
  permanent blocks lie below `current` and temporary ones above `top`
  (`BlocksInRegion`), and after a restore that holds only if no temporary block
  straddles a remembered top (`NoStraddle`) and the remembered tops are stacked
  (`SavedOrder`). `HeapInv` is the conjunction.
* `ServicesSafety` and `CachesSafety`, for the STR header cache (`StrInv`: an entry's
  header is the one of its file, and the newest entry is the one farthest from
  being thrown out), the ramdisk (`RamdiskInv`) and the host files (`HostInv`: the
  numbers in use are 1 to n while files are closed in order).
* `SymbolSafety`: symbols stay and are apart. `TableInv` relates the table, the
  hashes and what was returned: the way from a name's hash to its slot has no free
  slot on it (`NamesInPlace`), and the fixed symbols are below every search
  (`FixedInPlace`). The probe is described by what it returns, so no induction
  over slots is needed.
* `MethodSafety`, for any types and any order of deftypes, method sets and first
  uses: `MethodsInherited`. That a child follows its parent needs that no type is
  its own ancestor (`NoCycles`), that a parent had no more methods than its child
  when the child was defined (`DefinedInOrder`) and that tables have room for them
  (`MethodsFit`): then `method_set` changes a child exactly when it changes its
  parent. `type_typep` is described by the sets that are closed under parents
  (`WithParents`), so no induction over its loop is needed; `NewParent` shows such
  a set for every type that a deftype must not put above itself.

`Linker_proofs`, for files, heap and buffer of any size and any order of files:
`LinkerSafety`. Segments are copied downwards over the file they come from, so
`LinkInv` says where everything is: what was placed lies below `Floor`, the file at
or above it (`FileOK`, `Whole`), the moved link block and the top-level segment
above the heap's top (`Block`, `Placed`), and of a file that is half moved the rest
is intact and at or above where it goes (`Copying`). Every step writes between
`Floor` and the top only (`Outside`). The one assumption added for the proof is that
there is a largest link block: memory below the heap holds it when the heap has
no room (`begin` then moves it to address 0).

`Listener_proofs`, for any names and any number of messages, connections, resets
and quits: `AnswersSafety` and `ContextSafety`. Both are about a compiler that has
not given up waiting (`patient`). It has one message under way, and the invariant
says where: in the socket, the receive buffer, the protocol block, linked, answered
or lost with the target (`Unread`, `Linked`, `Answering`, `Lost`). Of an answered
message it says which answers are still to come, in their order, whether they
are in the EE's hands or in the socket (`Pipe`), and what the compiler has learnt
from those it has received. A reset that is the first message leaves the output
buffer to be sent after its acknowledgement (`Leaving`, `Trailing`); this is why a
reset must disconnect. `Keeps` says what one step of the target does to each of
these, with one lemma per action.

`DgoLoad_proofs`, for every layout of a file, page size and heap, with cancels at
any time: `LoaderSafety`, `LoadHeapSafety` and `LoadImplementsObjectStream`. The
loader, the DGO thread and the state machine pass one message around; `Turn` says
who has it, `Calls` what each call asks for, `Buffers` which memory the state
machine writes, and `Parse` that what it has copied is a prefix of the object that
its position in the file belongs to. With these, object `count + 1` is always in
a buffer that is not written (`InBuffer`) or at the top of the heap with nothing
left to write (`AtHeapTop`). `DgoInv` is the conjunction, with one lemma per action;
`UnitOf` and `DataCopied` say that consecutive units of the file make up the object,
however pages cut them.

`IsoThread_proofs`, for any requesting threads, file lengths, sizes of the priority
stacks and numbers of buffers and file slots, if there are at least the code's
four buffers and more slots than a priority stack has places (`IsoAssumption`; the
code has sixteen and four): `IsoNeverStuck`, `CommandsSafety`, `ResourcesSafety` and
`LoadOrderSafety`. `IsoInv` follows a command through mailbox and stack
(`QueueInv`), relates its status to where it is and to its caller (`MessageInv`), its
file to its slot (`FilesInv`), and gives every buffer one holder (`BufferInv`). Why
four buffers are enough is `CursorInv`: a pass of the loop gives out one buffer, and
the single load that got one uses it up in the next pass, because it is still ahead
of the callbacks' cursor; so single loads together hold at most one, the one DGO
command at most two, and one is left. `OrderInv` says that the pages of a load are
in order from its destination through its buffer and the read to its file position.
The file slot is a pigeonhole argument (`SlotLemma`).

`Compiler_proofs`, for every set of registers and of displacements of 32 bits
(`EmitterAssumption`): `EmitterCorrect`. An instruction depends on the one asked for
only, so the invariant is that the task at hand is good (`EmitterInv`: `MemoryGood`,
`StaticGood`, `RegistersGood` or `MoveGood`), and the work is in the lemmas that
follow the processor through the bytes: the prefixes in their order (`PrefixBytes`,
REX, VEX of two and of three bytes), where opcode, ModRM, SIB, displacement and
immediate lie behind them, that the low bytes of a displacement read back as it,
and which base and index the numbers 4, 5, 12 and 13 force into another form. Each
row of `IGen` is then an instance (`RegisterFormsGood`, and one lemma for each way
to address memory). The processor is a definition of ours, written from the x86-64
encoding and not from the code: the theorem is as good as that reading.

Also there, for every function the compiler may ask to allocate
(`FunctionsAssumption`: variables are numbers, constraints and orders name
registers; any number of variables, instructions, jumps and constraints):
`AllocatorSafety`, that while `allocate_registers` has not failed its assignments are
right after each variable (`AssignmentSound`). The code checks a new variable
against the assignments there are; that this is enough needs that a variable still
to do already has its register wherever it is constrained (`Waiting`: the check
refuses a register that another's constraint has taken) and that settled
variables keep what they were given (`SettledStay`). `AllocInv` adds that the ranges
cover every use and constraint (`GoodRanges`), with one lemma for a variable that
fits in one register (`ColouredGood`) and one for a spilled one (`SpilledGood`).
The theorem takes the live ranges as they are; that they describe where values are
needed is liveness analysis, a fixed point, and part of what `AllocationSound` checks
by running the allocated code.

Only model-checked:

* liveness (`LoadEnds`, `RequestsAnswered`, `SyncReturns`, `ShutdownCompletes`,
  `KernelReturns`, `ExitReturns`, `ResetRestarts`): it needs fairness and `ENABLED`,
  beyond these provers;
* of the `toolchain` run `FilesLink`, `AllocationSound`, `OperationsSound` and
  `CompilationSound`, and all of the `decompiler` run (`DisassemblyFaithful`,
  `OperationsFaithful`, `ControlFlowFaithful`, `TypesSound`, `FieldsSound`,
  `InferenceSound`): their algorithms and the interpreters they are compared with
  are recursive or work on bits, and what a recursive definition computes for
  every input needs an induction that the provers cannot instantiate.

## 5. What is not modelled

* Data that no property looks at: names, contents of objects, printing,
  clearing of memory, DMA (a `memcpy` here).
* VAG streaming and sound banks beyond their answer: unimplemented in the code.
* Registration of channels: `Init` of `IopKernel` is the state after it.
* The disc-image driver `iso_cd.cpp`: the port uses `fake_iso.cpp`.
* In `IsoThread`, requests for chunks beyond the end of a file; callers take
  chunk positions from the file's own header.
* In `DgoLoad`, shutdown during a load (in `IopKernel` instead).
* In the compiler, statics, floats, methods and macros; in the decompiler,
  expressions and printing.

## 6. Plan

1. `RpcBufferPair`: the GOAL engine's double-buffered queue over `RpcChannel`.
2. The decompiler's expressions and the compiler's statics and methods.

## 7. Running it

```
tlc -workers 2 -config MCParts.cfg MCParts      # likewise for every run of PROJECT.json
tlapm Parts_proofs.tla                          # likewise for every *_proofs module
```
