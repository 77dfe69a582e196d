--------------------------- MODULE ObjectGenerator --------------------------
(* ObjectGenerator.cpp lays the functions and the static data of a file out  *)
(* in three segments and writes their link tables; klink.cpp links them      *)
(* wherever the segments end up.                                             *)
(*                                                                           *)
(* A function is [seg, irs], an IR the sequence of its instructions, an      *)
(* instruction [size, patch, link]: `patch' is where in it the four bytes    *)
(* are that `link' says how to fill.  A static is [seg, align, size, links], *)
(* its links a set of [at, link].  A link is [kind, id, at].                 *)
EXTENDS Integers, Sequences, FiniteSets, SequencesExt

MAIN_SEGMENT == 0
DEBUG_SEGMENT == 1
TOP_LEVEL_SEGMENT == 2

POINTER_SIZE == 4
FUNCTION_ALIGN == 16

NoLink == [kind |-> "none", id |-> 0, at |-> 0]
Ret == [size |-> 1, patch |-> 0, link |-> NoLink]

Aligned(n, align) == n + ((-n) % align)

\* add_instr, add_instr_no_ir: the instructions of a function, the epilogue last.
Instructions(f) == FlattenSeq(f.irs) \o <<Ret>>
CodeSize(instrs) == FoldSeq(LAMBDA i, sum : i.size + sum, 0, instrs)

\* ir_to_instruction: the number of the first instruction of an IR.
IrToInstruction(f, ir) == 1 + Len(FlattenSeq(SubSeq(f.irs, 1, ir - 1)))

\* The functions, or the statics, of a segment in the order they were added.
Among(items, seg) == SelectSeq([i \in 1 .. Len(items) |-> i], LAMBDA i : items[i].seg = seg)

\* generate_data_v3, the layout: the functions of a segment, each after its
\* type tag, then the statics.  The result gives the offset of each.
FunctionEnd(start, f) == Aligned(start, FUNCTION_ALIGN) + POINTER_SIZE + CodeSize(Instructions(f))
FunctionsEnd(p, seg, upto) ==
    FoldLeft(LAMBDA at, i : FunctionEnd(at, p.functions[i]), 0,
             SelectSeq(Among(p.functions, seg), LAMBDA i : i < upto))

FunctionAt(p, f) == Aligned(FunctionsEnd(p, p.functions[f].seg, f), FUNCTION_ALIGN) + POINTER_SIZE

StaticEnd(start, s) == Aligned(start, s.align) + s.size
StaticAt(p, s) ==
    LET seg == p.statics[s].seg IN
    Aligned(FoldLeft(LAMBDA at, i : StaticEnd(at, p.statics[i]), FunctionsEnd(p, seg, Len(p.functions) + 1),
                     SelectSeq(Among(p.statics, seg), LAMBDA i : i < s)),
            p.statics[s].align)

\* instruction_to_byte_in_data.
InstructionAt(p, f, i) == FunctionAt(p, f) + CodeSize(SubSeq(Instructions(p.functions[f]), 1, i - 1))

\* The instruction pointer is already at the next instruction.
SourceRip(p, f, i) == InstructionAt(p, f, i + 1)

-----------------------------------------------------------------------------
(* Links, once the layout is known.                                          *)

Places(p) == {<<f, i>> \in (1 .. Len(p.functions)) \X (1 .. 8) : i <= Len(Instructions(p.functions[f]))}
PatchAt(p, f, i) == InstructionAt(p, f, i) + Instructions(p.functions[f])[i].patch

\* handle_temp_jump_links: patched in the data, by the compiler.
JumpPatches(p, seg) ==
    {[at |-> PatchAt(p, q[1], q[2]),
      value |-> InstructionAt(p, q[1], IrToInstruction(p.functions[q[1]], Instructions(p.functions[q[1]])[q[2]].link.id))
                - SourceRip(p, q[1], q[2])] :
        q \in {r \in Places(p) : p.functions[r[1]].seg = seg /\ Instructions(p.functions[r[1]])[r[2]].link.kind = "jump"}}

\* handle_temp_rip_func_links and handle_temp_rip_data_links, then emit_link_rip.
RipTarget(p, link) ==
    IF link.kind = "rip function" THEN [seg |-> p.functions[link.id].seg, at |-> FunctionAt(p, link.id)]
    ELSE [seg |-> p.statics[link.id].seg, at |-> StaticAt(p, link.id) + link.at]
RipLinks(p, seg) ==
    {LET target == RipTarget(p, Instructions(p.functions[q[1]])[q[2]].link)
     IN [target |-> target.seg, mine |-> SourceRip(p, q[1], q[2]), into |-> target.at, patch |-> PatchAt(p, q[1], q[2])] :
        q \in {r \in Places(p) : /\ p.functions[r[1]].seg = seg
                                 /\ Instructions(p.functions[r[1]])[r[2]].link.kind \in {"rip function", "rip static"}}}

\* handle_temp_instr_sym_links and handle_temp_static_sym_links, then
\* emit_link_symbol.  Only static data holds -1 there.
StaticLinks(p, seg, kinds) ==
    {<<s, l>> \in (1 .. Len(p.statics)) \X UNION {p.statics[s].links : s \in 1 .. Len(p.statics)} :
        p.statics[s].seg = seg /\ l \in p.statics[s].links /\ l.link.kind \in kinds}
SymbolLinks(p, seg) ==
    {[name |-> Instructions(p.functions[q[1]])[q[2]].link.id, at |-> PatchAt(p, q[1], q[2]), data |-> 0] :
        q \in {r \in Places(p) : p.functions[r[1]].seg = seg /\ Instructions(p.functions[r[1]])[r[2]].link.kind = "symbol"}}
    \cup {[name |-> q[2].link.id, at |-> StaticAt(p, q[1]) + q[2].at, data |-> -1] : q \in StaticLinks(p, seg, {"symbol"})}

\* The type tags of functions, handle_temp_static_type_links, emit_link_type_pointer.
TypeLinks(p, seg) ==
    {[name |-> "function", at |-> FunctionAt(p, f) - POINTER_SIZE] : f \in {g \in 1 .. Len(p.functions) : p.functions[g].seg = seg}}
    \cup {[name |-> "string", at |-> StaticAt(p, q[1]) + q[2].at] : q \in StaticLinks(p, seg, {"type"})}

\* handle_temp_static_ptr_links, emit_link_ptr: within the segment.
PointerLinks(p, seg) ==
    {[source |-> StaticAt(p, q[1]) + q[2].at,
      dest |-> IF q[2].link.kind = "function" THEN FunctionAt(p, q[2].link.id) ELSE StaticAt(p, q[2].link.id) + q[2].link.at] :
        q \in StaticLinks(p, seg, {"function", "static"})}

-----------------------------------------------------------------------------
(* The linker, with segment s at the address base[s], 0 for one that was not *)
(* loaded.                                                                   *)

s7 == 100000
SymbolAddress(name) == s7 + 8 * name
TypeAddress(name) == IF name = "function" THEN 200000 ELSE 200016

\* Mutant: a target that was not loaded is not looked for.
RipDistance_Blind(base, mine, l) == base[l.target] + l.into - mine

\* cross_seg_dist_link_v3: what is not loaded is at address 0.
RipDistance(base, mine, l) == IF base[l.target] = 0 THEN -mine ELSE base[l.target] + l.into - mine

\* What linking segment seg writes: cross_seg_dist_link_v3, symlink_v3,
\* typelink_v3 and ptr_link_v3; before it the compiler's jumps.
Patches(p, base, seg) ==
    IF base[seg] = 0 THEN {} ELSE
    {[at |-> base[seg] + j.at, value |-> j.value] : j \in JumpPatches(p, seg)}
    \cup {[at |-> base[seg] + l.patch, value |-> RipDistance(base, base[seg] + l.mine, l)] : l \in RipLinks(p, seg)}
    \cup {[at |-> base[seg] + l.at, value |-> IF l.data = -1 THEN SymbolAddress(l.name) ELSE SymbolAddress(l.name) - s7] :
            l \in SymbolLinks(p, seg)}
    \cup {[at |-> base[seg] + l.at, value |-> TypeAddress(l.name)] : l \in TypeLinks(p, seg)}
    \cup {[at |-> base[seg] + l.source, value |-> base[seg] + l.dest] : l \in PointerLinks(p, seg)}

\* work_v3: the entry is the first function of the top-level segment.
EntryPoint(base) == base[TOP_LEVEL_SEGMENT] + POINTER_SIZE
=============================================================================
