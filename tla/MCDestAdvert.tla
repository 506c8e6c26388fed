---------------------------- MODULE MCDestAdvert ----------------------------
(***************************************************************************)
(* Small instances of DestAdvert for TLC.                                  *)
(***************************************************************************)
EXTENDS DestAdvert, TLC

CONSTANTS r1, r2, m1, m2

\* Each router attaches to one modem.
OwnRouters == r1 :> {m1} @@ r2 :> {m2}

\* One neighbour with two routers.
OneNeighbour == r1 :> {m1, m2}
=============================================================================
