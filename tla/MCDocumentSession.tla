------------------------- MODULE MCDocumentSession -------------------------
(***************************************************************************)
(* Instances of DocumentSession for TLC.  Sessions, paths and contents are *)
(* model values.                                                           *)
(***************************************************************************)
EXTENDS DocumentSession, TLC

\* Neither sessions nor paths are told apart.
SessionSymmetry == Permutations(Sessions) \cup Permutations(Paths)

Together(revisions, faults) ==
    [sessions |-> Sessions, paths |-> Paths, revisions |-> revisions, faults |-> faults]

\* All sessions on all files, which other programs may change; and one session at
\* a time on one file, longer and with every fault.
RecoveryScenarios ==
    {Together(2, {"outside"})}
    \cup {[sessions |-> {s}, paths |-> {p}, revisions |-> MaxRevision,
           faults |-> {"outside", "clear"}] : s \in Sessions, p \in Paths}

\* All sessions, with removals of checkpoints that fail.
CleanupScenarios == {Together(2, {"clear"})}

=============================================================================
