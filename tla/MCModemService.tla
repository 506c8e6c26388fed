--------------------------- MODULE MCModemService ---------------------------
(***************************************************************************)
(* Small instances of ModemService for TLC.                                *)
(***************************************************************************)
EXTENDS ModemService, TLC

CONSTANTS r1, r2, m1, m2

\* Each router attaches to one modem.
OwnRouters == r1 :> {m1} @@ r2 :> {m2}
=============================================================================
