------------------------------ MODULE Semaphore ------------------------------
(***************************************************************************)
(* What the token flow control promises: a counting semaphore.  A packet   *)
(* takes one of the permits when it enters, and gives it back when it      *)
(* leaves or is lost.                                                      *)
(***************************************************************************)
EXTENDS Naturals

CONSTANT size
VARIABLE taken

Init == taken = 0

Acquire == taken < size /\ taken' = taken + 1

Release == taken' \in 0 .. taken

Next == Acquire \/ Release

Spec == Init /\ [][Next]_taken
=============================================================================
