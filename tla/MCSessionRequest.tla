-------------------------- MODULE MCSessionRequest --------------------------
(* Instances of SessionRequest for TLC. *)
EXTENDS SessionRequest, TLC

CONSTANTS r1, r2

MCNames == {"a", "b", "c"}
MCKeys == {"k", "l"}

VM(name, key) == [name |-> name, key |-> key]

(* VirtualBox holds "b" and "c".  One request asks for "b", the other for  *)
(* "b" with another secret or for "a": known, refused or new, and rivals   *)
(* for a new name when "b" could not be read.                              *)
MCWanted == r1 :> {VM("b", "k")} @@ r2 :> {VM("b", "l"), VM("a", "k")}
MCStored == <<VM("b", "k"), VM("c", "k")>>
=============================================================================
