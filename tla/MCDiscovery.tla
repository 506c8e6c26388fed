----------------------------- MODULE MCDiscovery -----------------------------
(***************************************************************************)
(* Small instances of Discovery for TLC.                                   *)
(***************************************************************************)
EXTENDS Discovery, TLC

\* Connections are interchangeable.
Symmetry == Permutations(Conn)
=============================================================================
