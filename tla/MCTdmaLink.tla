------------------------------ MODULE MCTdmaLink ------------------------------
(***************************************************************************)
(* Small instances of TdmaLink for TLC.                                    *)
(***************************************************************************)
EXTENDS TdmaLink

\* Aggregation and fragmentation each on or off, strict with one of them.
SomeModes == {m \in Mode : m.strict <=> m.aggregate # m.fragment}

\* The default configuration.
DefaultMode == {[aggregate |-> TRUE, fragment |-> TRUE, strict |-> FALSE]}
=============================================================================
