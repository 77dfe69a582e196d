---------------------------- MODULE MCIsoThread ----------------------------
(* The requesting threads of the overlord: STR (loads to the EE), Server   *)
(* (the ramdisk; loads to the IOP and to the EE), Loader (sound banks) and *)
(* DGO.  Each run picks the threads it needs.                              *)
EXTENDS IsoThread

CONSTANTS STR, SERVER, LOADER, DGO, IopPages

MCKindOf == [c \in Cmds |-> CASE c = STR    -> "ee"
                             [] c = SERVER -> "iop"
                             [] c = LOADER -> "bank"
                             [] c = DGO    -> "dgo"]
MCFileLen == [c \in Cmds |-> IF c = SERVER THEN IopPages ELSE 2]
=============================================================================
