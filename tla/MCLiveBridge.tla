---------------------------- MODULE MCLiveBridge ----------------------------
(***************************************************************************)
(* Instances of LiveBridge for TLC.  Clients and connections are model     *)
(* values that are not told apart.                                         *)
(***************************************************************************)
EXTENDS LiveBridge, TLC

ClientSymmetry == Permutations(Clients) \cup Permutations(Conns)

=============================================================================
