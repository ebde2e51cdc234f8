-------------------------- MODULE MCReleaseStore --------------------------
(***************************************************************************)
(* Instances of ReleaseStore for TLC.  A behaviour meets one scenario: two *)
(* processes write while a third reads the catalog, or one process writes  *)
(* a larger forest of releases in a repository something else damages.     *)
(***************************************************************************)
EXTENDS ReleaseStore, TLC

VARIABLE scenario

Symmetry ==
    Permutations(Writers) \cup Permutations(Documents) \cup Permutations(Revisions)

MCInit == Init /\ scenario \in {"together", "alone"}

Held == {writer[w].release : w \in {v \in Writers : writer[v].pc # "idle"}}

\* At most three releases of one revision, with and without a dependency, none damaged.
\* Nobody reads the catalog while a creation is cancelled, which changes no file.
Together ==
    /\ begun <= 3 /\ damages = 0 /\ (cancels = 0 \/ catalogs = 0)
    /\ \A r, s \in releases \cup Held : r.object.of = s.object.of

\* Releases of any revision, one at a time, none of them cut short.
Alone ==
    /\ crashes = 0 /\ cancels = 0 /\ catalogs = 0
    /\ Cardinality({w \in Writers : writer[w].result # "none" \/ writer[w].pc # "idle"}) <= 1
    /\ \A r \in Held : DOMAIN r.deps = {}

MCNext ==
    /\ Next
    /\ UNCHANGED scenario
    /\ IF scenario = "together" THEN Together' ELSE Alone'

MCSpec == MCInit /\ [][MCNext]_<<vars, scenario>>

=============================================================================
