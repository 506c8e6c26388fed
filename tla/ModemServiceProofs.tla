------------------------- MODULE ModemServiceProofs -------------------------
(***************************************************************************)
(* Proofs about ModemService: the shim uses the library as any client may, *)
(* so what DestAdvertProofs proves of the library holds with the shim, and *)
(* the router is told of nothing behind a neighbour that the shim does not *)
(* count as current.                                                       *)
(***************************************************************************)
EXTENDS ModemService, DestAdvertProofs

\* A step of the shim is a step of the library with some client, or leaves
\* the library alone.
LEMMA ServiceStep == [ServiceNext]_allVars => [Next]_vars
  <1> SUFFICES ASSUME [ServiceNext]_allVars PROVE Next \/ UNCHANGED vars
    OBVIOUS
  <1>1. ASSUME NEW r \in RfId, updateRxActivityData(r) PROVE UNCHANGED vars
    BY <1>1 DEF updateRxActivityData
  <1>2. CASE Second
    BY <1>2 DEF Second, Next, Timers
  <1>3. CASE Report
    BY <1>3 DEF Report
  <1>4. ASSUME NEW r \in RfId, Metric(r) PROVE Next \/ UNCHANGED vars
    BY <1>4 DEF Metric, send_destination_update, Next, Client
  <1>5. ASSUME NEW r \in RfId, Deleted(r) PROVE Next
    BY <1>5 DEF Deleted, send_destination_down, Next, Client
  <1>6. CASE Library
    BY <1>6 DEF Library, Next, Timers
  <1>7. CASE UNCHANGED allVars
    BY <1>7 DEF allVars
  <1> QED
    BY <1>1, <1>2, <1>3, <1>4, <1>5, <1>6, <1>7 DEF ServiceNext, Handler

\* dlepmodemservice.cc: the shim with the library behaves as the library with
\* some client.
THEOREM ShimIsClient == ServiceSpec => Spec
  <1>1. ServiceInit => Init
    BY DEF ServiceInit
  <1> QED
    BY <1>1, ServiceStep, PTL DEF ServiceSpec, Spec

\* The shim's variables have their types throughout.
LEMMA ServiceTypeStep == ServiceTypeOK /\ [ServiceNext]_allVars => ServiceTypeOK'
  <1> SUFFICES ASSUME ServiceTypeOK, [ServiceNext]_allVars PROVE ServiceTypeOK'
    OBVIOUS
  <1> USE DeleteAssumption DEF ServiceTypeOK, TooOld, service
  <1>1. ASSUME NEW r \in RfId, updateRxActivityData(r) PROVE ServiceTypeOK'
    BY <1>1 DEF updateRxActivityData
  <1>2. CASE Second
    BY <1>2 DEF Second
  <1>3. CASE Report
    BY <1>3 DEF Report, getNeighborMetrics
  <1>4. ASSUME NEW r \in RfId, Metric(r) PROVE ServiceTypeOK'
    BY <1>4 DEF Metric
  <1>5. ASSUME NEW r \in RfId, Deleted(r) PROVE ServiceTypeOK'
    BY <1>5 DEF Deleted
  <1>6. CASE Library
    BY <1>6 DEF Library
  <1>7. CASE UNCHANGED allVars
    BY <1>7 DEF allVars
  <1> QED
    BY <1>1, <1>2, <1>3, <1>4, <1>5, <1>6, <1>7 DEF ServiceNext, Handler

\* dlepmodemservice.cc: a neighbour in the report is never deleted by the same
\* report, and only known ones are deleted.
THEOREM ServiceTypeCorrect == ServiceSpec => []ServiceTypeOK
  <1>1. ServiceInit => ServiceTypeOK
    BY DeleteAssumption DEF ServiceInit, ServiceTypeOK, TooOld
  <1> QED
    BY <1>1, ServiceTypeStep, PTL DEF ServiceSpec
-----------------------------------------------------------------------------
(***************************************************************************)
(* The shim and the library agree on the neighbours.                       *)
(***************************************************************************)

\* The last call that the shim made for a neighbour declared it up if and only
\* if it is current.
CurrentIsDeclared == \A r \in RfId : declared[r] <=> r \in current

\* Every step keeps that: the shim never changes the one without the other.
LEMMA CurrentIsDeclaredStep ==
  TypeOK /\ CurrentIsDeclared /\ [ServiceNext]_allVars => CurrentIsDeclared'
  <1> SUFFICES ASSUME TypeOK, CurrentIsDeclared, [ServiceNext]_allVars
               PROVE  CurrentIsDeclared'
    OBVIOUS
  <1> USE DEF CurrentIsDeclared, TypeOK
  <1>1. ASSUME NEW r \in RfId, updateRxActivityData(r) PROVE CurrentIsDeclared'
    BY <1>1 DEF updateRxActivityData, vars, service
  <1>2. CASE Second
    BY <1>2 DEF Second, Tick, service
  <1>3. CASE Report
    BY <1>3 DEF Report, vars
  <1>4. ASSUME NEW r \in RfId, Metric(r) PROVE CurrentIsDeclared'
    BY <1>4 DEF Metric, send_destination_update, destination_up, vars
  <1>5. ASSUME NEW r \in RfId, Deleted(r) PROVE CurrentIsDeclared'
    BY <1>5 DEF Deleted, send_destination_down, destination_down
  <1>6. CASE Library
    <2>1. UNCHANGED declared
      BY <1>6 DEF Library, handle_purge_advert_timeout, Neighbours, add_destination,
         clear_destinations, get_message_to_send, Network, Deliver, Duplicate, Lose,
         handle_message
    <2> QED
      BY <1>6, <2>1 DEF Library, service
  <1>7. CASE UNCHANGED allVars
    BY <1>7 DEF allVars, vars, service
  <1> QED
    BY <1>1, <1>2, <1>3, <1>4, <1>5, <1>6, <1>7 DEF ServiceNext, Handler

\* A destination is advertised by an entry that is up, which the shim has
\* declared up, so its neighbour is current.
LEMMA DestinationHasNeighbour ==
  ASSUME NoStaleDestination, OwnAdverts, UpIsDeclared, CurrentIsDeclared
  PROVE  DestinationsHaveNeighbours
  <1> SUFFICES ASSUME NEW m \in local PROVE \E r \in current : m \in Routers[r]
    BY DEF DestinationsHaveNeighbours
  <1>1. PICK r \in RfId : IsUp(db[r]) /\ m \in db[r].destinations
    BY UpDestinationsMember DEF NoStaleDestination
  <1>2. r \in current /\ m \in Routers[r]
    BY <1>1 DEF OwnAdverts, UpIsDeclared, CurrentIsDeclared
  <1> QED
    BY <1>2

\* dlepmodemservice.cc: whatever expires in the library, every destination
\* that the router is told of lies behind a current neighbour, when pending
\* entries are held for ever (the default).
THEOREM RouterSeesNeighbours ==
  ASSUME HoldInterval = 0
  PROVE  ServiceSpec => []DestinationsHaveNeighbours
  <1>1. ServiceInit => OwnAdverts /\ UpIsDeclared /\ CurrentIsDeclared
    BY DEF ServiceInit, Init, OwnAdverts, UpIsDeclared, CurrentIsDeclared, IsUp, NoEntry
  <1>2. TypeOK /\ OwnAdverts /\ [Next]_vars => OwnAdverts'
    BY OwnAdvertsStep
  <1>3. TypeOK /\ UpIsDeclared /\ [Next]_vars => UpIsDeclared'
    BY UpIsDeclaredStep
  <1>4. NoStaleDestination /\ OwnAdverts /\ UpIsDeclared /\ CurrentIsDeclared
          => DestinationsHaveNeighbours
    BY DestinationHasNeighbour
  <1> QED
    BY <1>1, <1>2, <1>3, <1>4, CurrentIsDeclaredStep, ServiceStep, ShimIsClient,
       TypeCorrect, NoStale, PTL DEF ServiceSpec
=============================================================================
