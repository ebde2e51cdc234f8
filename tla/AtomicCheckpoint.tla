-------------------------- MODULE AtomicCheckpoint --------------------------
(***************************************************************************)
(* What a work-recovery checkpoint promises: opening gives the document    *)
(* that was last acknowledged, or the one being written, never a part of   *)
(* one.                                                                    *)
(***************************************************************************)
CONSTANTS None

VARIABLES
    held,       \* what opening the file gives
    acked,      \* the document the session shows
    writing     \* the document being written, or None

vars == <<held, acked, writing>>

begin ==
    /\ writing = None /\ writing' # None
    /\ UNCHANGED <<held, acked>>

publish ==
    /\ writing # None
    /\ held' = writing
    /\ UNCHANGED <<acked, writing>>

\* An edit is acknowledged only when opening gives it.
acknowledge ==
    /\ writing # None /\ held = writing
    /\ acked' = writing /\ writing' = None
    /\ UNCHANGED held

\* A refused document is taken back, or is still what opening gives.
refuse ==
    /\ writing # None /\ writing' = None
    /\ held' \in {held, acked}
    /\ UNCHANGED acked

\* The session is back at the document of the file itself, which may be
\* opened without its later Undo history.
settle ==
    /\ writing = None /\ writing' = None
    /\ acked'.history[acked'.cursor] = held'.history[held'.cursor]

\* The process stops, or the file is opened again.
reopen ==
    /\ acked' = held /\ writing' = None
    /\ UNCHANGED held

Init == acked = held /\ writing = None

Next == begin \/ publish \/ acknowledge \/ refuse \/ settle \/ reopen

Spec == Init /\ [][Next]_vars

=============================================================================
