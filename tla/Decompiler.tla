----------------------------- MODULE Decompiler -----------------------------
(* The algorithms of the decompiler and of the type system it shares with    *)
(* the compiler, each over bounded inputs.                                   *)
EXTENDS AtomicTasks, FlowTasks, TypeTasks

-----------------------------------------------------------------------------
(* Words disassembled, with one word for every opcode and several values of  *)
(* its fields.                                                               *)

M == INSTANCE MipsDecode

Word(op, rs, rt, rd, sa, fn) == [op |-> op, rs |-> rs, rt |-> rt, rd |-> rd, sa |-> sa, fn |-> fn]
Codes(rows) == UNION {r[1] : r \in rows}

\* rs, rt, rd and sa are operands where they do not select the opcode.
SpecialWords == {Word(0, rs, rt, rd, sa, fn) : rs \in {0, 5}, rt \in {0, 6}, rd \in {0, 7}, sa \in {0, 3, 16}, fn \in Codes(M!special) \cup {15}}
RegimmWords == {Word(1, rs, rt, 16, 3, 2) : rs \in {0, 5}, rt \in 0 .. 31}
Cop0Words == {Word(16, rs, rt, rd, 0, fn) : rs \in {0, 4, 16}, rt \in {0, 6}, rd \in {0, 9, 24, 25}, fn \in 0 .. 63}
Cop1Words ==
    {Word(17, 16, ft, fs, fd, fn) : ft \in {0, 6}, fs \in {0, 5}, fd \in {0, 7}, fn \in Codes(M!decode_S)}
    \cup {Word(17, rs, ft, 5, fd, fn) : rs \in {0, 4, 8, 20}, ft \in {0, 1, 2, 3}, fd \in {0, 3}, fn \in {0, 32}}
Cop2Words ==
    {Word(18, rs, ft, fs, code \div 64, code % 64) :
        rs \in {0, 16, 18, 28, 30}, ft \in {0, 6}, fs \in {0, 5}, code \in Codes(M!cop2_lower11)}
    \cup {Word(18, rs, ft, 5, fd, fn) : rs \in {16, 21, 30}, ft \in {0, 6}, fd \in {0, 7}, fn \in Codes(M!cop2_lower6)}
    \cup {Word(18, rs, 6, 5, 0, il) : rs \in Codes(M!cop2_moves), il \in {0, 1}}
MmiWords ==
    {Word(28, rs, rt, 7, sa, fn) : rs \in {0, 5}, rt \in {0, 6}, sa \in 0 .. 31, fn \in Codes(M!mmi) \cup {8, 9, 40, 41, 48}}
    \cup {Word(28, 5, 0, 0, 0, 19)}
PlainWords == {Word(op, rs, rt, rd, 3, 2) : op \in Codes(M!opcodes) \cup {47}, rs \in {0, 5}, rt \in {0, 6, 20}, rd \in {0, 24}}
Words == UNION {SpecialWords, RegimmWords, Cop0Words, Cop1Words, Cop2Words, MmiWords, PlainWords}
\* A word that is linked to a symbol or a label, when its opcode may be.
Links(w) ==
    [kind : {"plain"}, to : {0}] \cup (IF w \in PlainWords THEN [kind : {"SYM_OFFSET", "HI_PTR", "LO_PTR"}, to : {3}] ELSE {})

WordAt == 100
Disassemble ==
    /\ task = Asked("word")
    /\ \E w \in Words : \E link \in Links(w) :
          \E i \in {M!decode_instruction(w, link, WordAt)} :
             M!Decodes(i) /\ task' = [kind |-> "word", w |-> w, link |-> link, i |-> i, text |-> M!to_string(i)]

\* The word with a bit of a field changed.
Flip(w, field, k) == [w EXCEPT ![field] = IF (@ \div 2 ^ k) % 2 = 1 THEN @ - 2 ^ k ELSE @ + 2 ^ k]
PatchedFields == {"rd", "sa", "fn"}

\* The fields an opcode does not use, and one that the decoder loses: the field
\* of the register that VMTIR and VRXOR read is bits 21 and 22, and they take
\* bits 0 and 1 for it.
Unused(kind) ==
    CASE kind \in {"DADDU", "DSUBU"} -> {"sa"}
      [] kind \in {"BGTZ", "BLEZ", "ABSS", "VADDQ", "VSUBQ"} -> {"rt"}
      [] kind \in {"PABSW", "PROT3W", "PSLLH", "PSLLW", "PSRAH", "PSRAW", "PSRLH", "VNOP", "VWAITQ"} -> {"rs"}
      [] kind \in {"VMTIR", "VRXOR"} -> {"rs"}
      [] kind = "ERET" -> {"rt", "rd", "sa"}
      [] OTHER -> {}

\* Two words that differ in a bit are not printed as the same instruction,
\* unless no opcode uses the bit or the linker fills it in.
Distinct ==
    \A field \in DOMAIN M!Bits : \A k \in 0 .. M!Bits[field] - 1 :
        \A other \in {M!decode_instruction(Flip(task.w, field, k), task.link, WordAt)} :
            M!Decodes(other) /\ M!to_string(other) = task.text =>
                field \in Unused(task.i.kind) \/ (task.link.kind # "plain" /\ field \in PatchedFields)
\* The parser reads what was printed as the same instruction.
ReadsBack == task.i.kind \in M!parser_opcodes => M!parse_single_instruction(task.text) = task.i

\* A listing says what the program does: no operand is lost or taken from the
\* bits of another, and what is printed can be read back.
DisassemblyFaithful == task.kind = "word" => Distinct /\ ReadsBack

-----------------------------------------------------------------------------

DecompilerNext ==
    \/ Disassemble \/ ConvertBlock \/ ConvertBasic
    \/ FindBlocks \/ Structure
    \/ EvaluateForm \/ FollowPath \/ LookUp
    \/ Infer \/ Meet \/ Analyse

DecompilerSpec == TaskInit /\ [][DecompilerNext]_task
=============================================================================
