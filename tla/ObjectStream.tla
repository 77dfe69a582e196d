----------------------------- MODULE ObjectStream -----------------------------
(***************************************************************************)
(* What loading a DGO file promises the linker: the file's objects one by  *)
(* one, in order, each of them whole from the moment it is handed over     *)
(* until the linker is done with it.  A load may be refused or cancelled.  *)
(***************************************************************************)
EXTENDS Naturals

CONSTANTS
    Files,
    NoFile,           \* no load in progress
    ObjectCount(_),   \* how many objects a file has
    Content(_, _)     \* what memory holds once object n of a file is loaded

VARIABLES
    loading,          \* the file being loaded, or NoFile
    linked,           \* how many of its objects have been linked
    using             \* the memory of the object being linked, or <<>>

streamVars == <<loading, linked, using>>

StreamInit == loading = NoFile /\ linked = 0 /\ using = <<>>

BeginLoad(f) ==
    /\ loading = NoFile
    /\ loading' = f /\ linked' = 0 /\ UNCHANGED using

HandOver ==
    /\ loading # NoFile /\ using = <<>> /\ linked < ObjectCount(loading)
    /\ using' = Content(loading, linked + 1)
    /\ UNCHANGED <<loading, linked>>

LinkNext ==
    /\ using # <<>> /\ linked + 1 < ObjectCount(loading)
    /\ linked' = linked + 1 /\ using' = <<>> /\ UNCHANGED loading

LinkLast ==
    /\ using # <<>> /\ linked + 1 = ObjectCount(loading)
    /\ loading' = NoFile /\ linked' = 0 /\ using' = <<>>

\* The file is refused, or the load is cancelled.
GiveUp ==
    /\ loading # NoFile
    /\ loading' = NoFile /\ linked' = 0 /\ using' = <<>>

StreamNext == (\E f \in Files : BeginLoad(f)) \/ HandOver \/ LinkNext \/ LinkLast \/ GiveUp

StreamSpec == StreamInit /\ [][StreamNext]_streamVars
===============================================================================
