---------------------------- MODULE ModemService ----------------------------
(***************************************************************************)
(* EMANE's DLEP shim (ModemService, DlepClientImpl) as the client of the   *)
(* library with Destination Advertisement: what the radio hears becomes    *)
(* what the router is told.                                                *)
(*                                                                         *)
(* The MAC layer's NeighborMetricManager reports the neighbours it heard   *)
(* within the delete time; the shim compares each report with the one      *)
(* before and calls the service.  A call holds the locks of the library,   *)
(* the handler of a report does not: the library's own thread runs between *)
(* its calls.                                                              *)
(***************************************************************************)
EXTENDS DestAdvert

CONSTANT DeleteTime     \* neighbormetricdeletetime

ASSUME DeleteAssumption == DeleteTime \in Nat

VARIABLES
    rx,         \* rx[r]: age of lastRxTime_ in r2riMetricTable_
    current,    \* currentNeighbors_
    metrics,    \* the neighbours of the report that are still to be handled
    gone        \* delNeighbors

service == <<current, metrics, gone>>
allVars == <<vars, rx, service>>

\* Age of a neighbour that has no entry, or one that will be erased.
TooOld == DeleteTime + 1

ServiceInit ==
    /\ Init
    /\ rx = [r \in RfId |-> TooOld]
    /\ current = {} /\ metrics = {} /\ gone = {}
-----------------------------------------------------------------------------
(***************************************************************************)
(* The radio.                                                              *)
(***************************************************************************)

\* A frame of neighbour r is received.
updateRxActivityData(r) ==
    /\ rx' = [rx EXCEPT ![r] = 0]
    /\ UNCHANGED <<vars, service>>

Second ==
    /\ Tick
    /\ rx' = [r \in RfId |-> IF rx[r] < TooOld THEN rx[r] + 1 ELSE TooOld]
    /\ UNCHANGED service

\* Variant of getNeighborMetrics: neighbours are not deleted.
getNeighborMetrics_All == {r \in RfId : r \in current \/ rx[r] <= DeleteTime}

getNeighborMetrics == {r \in RfId : rx[r] <= DeleteTime}
-----------------------------------------------------------------------------
(***************************************************************************)
(* The handler of a neighbour report.                                      *)
(***************************************************************************)

\* Variant of Report: what is still active remains a candidate.
Report_AllGone ==
    /\ metrics = {} /\ gone = {}
    /\ metrics' = getNeighborMetrics
    /\ gone' = current
    /\ UNCHANGED <<vars, rx, current>>

\* The handler begins.  The candidates for deletion are the neighbours it
\* knows; those in the report cease to be.
Report ==
    /\ metrics = {} /\ gone = {}
    /\ metrics' = getNeighborMetrics
    /\ gone' = current \ metrics'
    /\ UNCHANGED <<vars, rx, current>>

\* Variant of send_destination_update: a new neighbour is only updated.
send_destination_update_NotNew(r) == UNCHANGED vars

\* A new neighbour is declared up.  For one that is known the service is sent
\* the new metrics; an RF ID without an entry is then not found.
send_destination_update(r) ==
    \/ r \notin current /\ destination_up(r)
    \/ r \in current /\ UNCHANGED vars

Metric(r) ==
    /\ r \in metrics
    /\ send_destination_update(r)
    /\ current' = current \cup {r}
    /\ metrics' = metrics \ {r}
    /\ UNCHANGED <<rx, gone>>

\* Variant of send_destination_down: the service is not called.
send_destination_down_Silent(r) == UNCHANGED vars

send_destination_down(r) == destination_down(r)

Deleted(r) ==
    /\ metrics = {} /\ r \in gone
    /\ send_destination_down(r)
    /\ current' = current \ {r}
    /\ gone' = gone \ {r}
    /\ UNCHANGED <<rx, metrics>>

Handler == Report \/ \E r \in RfId : Metric(r) \/ Deleted(r)
-----------------------------------------------------------------------------
Library ==
    /\ handle_purge_advert_timeout \/ Neighbours \/ Network
    /\ UNCHANGED <<rx, service>>

ServiceNext ==
    \/ \E r \in RfId : updateRxActivityData(r)
    \/ Second \/ Handler \/ Library

ServiceSpec == ServiceInit /\ [][ServiceNext]_allVars

\* The report timer of the MAC layer is periodic and the handler goes on.
ServiceFairness ==
    /\ WF_allVars(Second)
    /\ WF_allVars(Report)
    /\ \A r \in RfId : WF_allVars(Metric(r)) /\ WF_allVars(Deleted(r))

\* As in DestAdvert, not every copy of an advertisement is lost.
ArrivalFairness ==
    \A r \in RfId : \A D \in SUBSET Routers[r] :
        LET a == [rfId |-> r, destinations |-> D, reportInterval |-> SendInterval]
        IN  SF_allVars(a \in net /\ Deliver(a) /\ UNCHANGED <<rx, service>>)

ServiceFairSpec == ServiceSpec /\ ServiceFairness /\ ArrivalFairness
-----------------------------------------------------------------------------
\* Every variable of the shim has its type: a neighbour in the report is not
\* deleted, and what is deleted is known.
ServiceTypeOK ==
    /\ rx \in [RfId -> 0 .. TooOld]
    /\ current \subseteq RfId /\ metrics \subseteq RfId
    /\ gone \subseteq current \ metrics

\* What the router is told lies behind a neighbour that the shim counts as
\* current, whatever advertisements come late and however the report's calls
\* and the library's thread alternate.
DestinationsHaveNeighbours ==
    local \subseteq UNION {Routers[r] : r \in current}

\* Nothing is purged and each router has one modem: a router behind a
\* neighbour that is heard, and that keeps advertising it, becomes a
\* destination, however often the neighbour was lost before.
HeardIsDeclared ==
    \A r \in RfId : \A m \in Routers[r] :
        /\ <>[](rx[r] <= DeleteTime /\ m \in adv[r])
        /\ []<>(\E a \in net : a.rfId = r /\ a.destinations = adv[r])
        => []<>(m \in local)

\* The routers behind a neighbour that is not heard any more, and behind no
\* other one, do not stay destinations, even with expiry off and while old
\* advertisements still arrive.
LostIsWithdrawn ==
    \A r \in RfId : LET own == Routers[r] \ UNION {Routers[s] : s \in RfId \ {r}} IN
        <>[](rx[r] > DeleteTime) => <>[](local \cap own = {})
=============================================================================
