---------------------------- MODULE MCDlepSession ----------------------------
(***************************************************************************)
(* Small instances of DlepSession for TLC.                                 *)
(***************************************************************************)
EXTENDS DlepSession, TLC

CONSTANTS ModemCalls, RouterCalls

MCCalls == "modem" :> ModemCalls @@ "router" :> RouterCalls
=============================================================================
