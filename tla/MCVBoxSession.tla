--------------------------- MODULE MCVBoxSession ---------------------------
(***************************************************************************)
(* Small instances of VBoxSession.  Workers are interchangeable, and so are *)
(* the identities of VMs: their permutations are a symmetry of every run   *)
(* without a liveness property.                                            *)
(***************************************************************************)
EXTENDS VBoxSession, TLC

Symmetry == Permutations(Workers) \cup Permutations(VMs)
=============================================================================
