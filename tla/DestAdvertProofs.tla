-------------------------- MODULE DestAdvertProofs --------------------------
(***************************************************************************)
(* Proofs about DestAdvert, for any number of neighbours and routers and   *)
(* any values of the configuration parameters.                             *)
(***************************************************************************)
EXTENDS DestAdvert, TLAPS

\* An absent entry has its type.
LEMMA NoEntryType == NoEntry \in Entry
  BY DEF NoEntry, Entry

\* The table operations build entries of the right type.
LEMMA AdvertEntryType ==
  ASSUME NEW e \in Entry, NEW a \in Advert
  PROVE  NewEntry(a) \in Entry /\ Refreshed(e, a) \in Entry
  BY DEF Entry, Advert, NewEntry, Refreshed

\* So do the entries that the client's calls make.
LEMMA ClientEntryType ==
  ASSUME NEW e \in Entry
  PROVE  /\ Placeholder \in Entry
         /\ [e EXCEPT !.estate = "up"] \in Entry
         /\ [e EXCEPT !.estate = "down"] \in Entry
  BY DEF Entry, Placeholder, NoEntry

\* So does an entry that is a second older.
LEMMA AgedEntryType ==
  ASSUME NEW e \in Entry
  PROVE  [e EXCEPT !.age = @ + 1] \in Entry
  BY DEF Entry

\* Type correctness is inductive by itself.
LEMMA TypeStep == TypeOK /\ [Next]_vars => TypeOK'
  <1> SUFFICES ASSUME TypeOK, [Next]_vars PROVE TypeOK'
    OBVIOUS
  <1> USE DEF TypeOK
  <1>1. ASSUME NEW r \in RfId, destination_up(r) PROVE TypeOK'
    <2>1. db[r] \in Entry /\ db[r].destinations \in SUBSET Mac
      BY DEF Entry
    <2>2. db' \in [RfId -> Entry]
      BY <1>1, <2>1, ClientEntryType DEF destination_up
    <2> QED
      BY <1>1, <2>1, <2>2 DEF destination_up
  <1>2. ASSUME NEW r \in RfId, destination_down(r) PROVE TypeOK'
    BY <1>2 DEF destination_down, Entry
  <1>3. CASE handle_purge_advert_timeout
    BY <1>3, NoEntryType DEF handle_purge_advert_timeout
  <1>4. CASE Tick
    BY <1>4, AgedEntryType DEF Tick
  <1>5. ASSUME NEW r \in RfId, add_destination(r) PROVE TypeOK'
    <2>1. PICK m \in Routers[r] : adv' = [adv EXCEPT ![r] = @ \cup {m}]
      BY <1>5 DEF add_destination
    <2>2. adv[r] \cup {m} \in SUBSET Mac
      BY ConstantsAssumption
    <2>3. adv' \in [RfId -> SUBSET Mac]
      BY <2>1, <2>2
    <2> QED
      BY <1>5, <2>3 DEF add_destination
  <1>6. ASSUME NEW r \in RfId, clear_destinations(r) PROVE TypeOK'
    BY <1>6 DEF clear_destinations
  <1>7. ASSUME NEW r \in RfId, get_message_to_send(r) PROVE TypeOK'
    BY <1>7, ConstantsAssumption DEF get_message_to_send, Advert
  <1>8. ASSUME NEW a \in net, handle_message(a), net' \in SUBSET net PROVE TypeOK'
    <2>1. a \in Advert /\ a.rfId \in RfId
      BY DEF Advert
    <2>2. NewEntry(a) \in Entry /\ Refreshed(db[a.rfId], a) \in Entry
      BY <2>1, AdvertEntryType
    <2>3. Translated(db[a.rfId], a) \subseteq Mac
      BY <2>1 DEF Translated, Advert
    <2> QED
      BY <1>8, <2>1, <2>2, <2>3 DEF handle_message
  <1>9. ASSUME NEW a \in net, Lose(a) PROVE TypeOK'
    BY <1>9 DEF Lose
  <1>10. CASE UNCHANGED vars
    BY <1>10 DEF vars
  <1> QED
    BY <1>1, <1>2, <1>3, <1>4, <1>5, <1>6, <1>7, <1>8, <1>9, <1>10
       DEF Next, Client, Timers, Neighbours, Network, Deliver, Duplicate

\* Every variable keeps its type (DestAdvert.cpp, DlepServiceImpl.cpp).
THEOREM TypeCorrect == Spec => []TypeOK
  <1>1. Init => TypeOK
    BY NoEntryType DEF Init, TypeOK
  <1> QED
    BY <1>1, TypeStep, PTL DEF Spec
-----------------------------------------------------------------------------
(***************************************************************************)
(* No destination outlives its advertisement.                              *)
(***************************************************************************)
LEMMA UpDestinationsMember ==
  ASSUME NEW m
  PROVE  m \in UpDestinations
            <=> \E r \in RfId : IsUp(db[r]) /\ m \in db[r].destinations
  BY DEF UpDestinations

\* The same after a step.
LEMMA UpDestinationsMemberPrime ==
  ASSUME NEW m
  PROVE  m \in UpDestinations'
            <=> \E r \in RfId : IsUp(db'[r]) /\ m \in db'[r].destinations
  BY DEF UpDestinations, IsUp

\* Every step keeps NoStaleDestination when there is no hold interval.
LEMMA NoStaleStep ==
  ASSUME HoldInterval = 0, TypeOK, NoStaleDestination, [Next]_vars
  PROVE  NoStaleDestination'
  <1> SUFFICES ASSUME NEW m \in local'
               PROVE  \E r \in RfId : IsUp(db'[r]) /\ m \in db'[r].destinations
    BY UpDestinationsMemberPrime DEF NoStaleDestination
  <1>0. m \in local => \E r \in RfId : IsUp(db[r]) /\ m \in db[r].destinations
    BY UpDestinationsMember DEF NoStaleDestination
  <1> DEFINE Goal == \E r \in RfId : IsUp(db'[r]) /\ m \in db'[r].destinations
  <1> USE DEF TypeOK, IsUp, Entry
  <1>1. ASSUME NEW r \in RfId, destination_up(r) PROVE Goal
    BY <1>0, <1>1 DEF destination_up
  <1>2. ASSUME NEW r \in RfId, destination_down(r) PROVE Goal
    BY <1>0, <1>2 DEF destination_down
  <1>3. CASE handle_purge_advert_timeout
    <2>1. PICK r \in RfId : IsUp(db[r]) /\ m \in db[r].destinations
      BY <1>0, <1>3 DEF handle_purge_advert_timeout
    <2>2. ~HeldTooLong(db[r]) /\ ~Expired(db[r])
      BY <1>3, <2>1 DEF handle_purge_advert_timeout, HeldTooLong
    <2> QED
      BY <1>3, <2>1, <2>2 DEF handle_purge_advert_timeout
  <1>4. CASE Tick
    BY <1>0, <1>4 DEF Tick
  <1>5. CASE Neighbours
    BY <1>0, <1>5 DEF Neighbours, add_destination, clear_destinations,
                      get_message_to_send
  <1>6. ASSUME NEW a \in net, handle_message(a) PROVE Goal
    <2>1. a.rfId \in RfId
      BY DEF Advert
    <2>2. CASE db[a.rfId].estate = "absent"
      BY <1>0, <1>6, <2>1, <2>2 DEF handle_message
    <2>3. CASE db[a.rfId].estate = "down"
      BY <1>0, <1>6, <2>1, <2>3 DEF handle_message, Refreshed
    <2>4. CASE db[a.rfId].estate = "up"
      <3>1. local' = Translated(db[a.rfId], a)
        BY <1>6, <2>4 DEF handle_message
      <3>2. /\ db'[a.rfId].estate = "up"
            /\ db'[a.rfId].destinations = a.destinations
            /\ \A r \in RfId : r # a.rfId => db'[r] = db[r]
        <4>1. db' = [db EXCEPT ![a.rfId] = Refreshed(db[a.rfId], a)]
          BY <1>6, <2>4 DEF handle_message
        <4>2. db'[a.rfId] = Refreshed(db[a.rfId], a)
          BY <2>1, <4>1
        <4>3. db[a.rfId] \in Entry
          BY <2>1
        <4>4. /\ Refreshed(db[a.rfId], a).estate = "up"
              /\ Refreshed(db[a.rfId], a).destinations = a.destinations
          BY <2>4, <4>3 DEF Refreshed
        <4> QED
          BY <4>1, <4>2, <4>4
      <3>3. CASE m \in a.destinations
        BY <2>1, <3>2, <3>3
      <3>4. CASE m \notin a.destinations
        <4>1. m \in local /\ m \notin db[a.rfId].destinations
          BY <3>1, <3>4 DEF Translated
        <4> QED
          BY <1>0, <3>2, <4>1
      <3> QED
        BY <3>3, <3>4
    <2> QED
      BY <2>1, <2>2, <2>3, <2>4
  <1>7. ASSUME NEW a \in net, Lose(a) PROVE Goal
    BY <1>0, <1>7 DEF Lose
  <1>8. CASE UNCHANGED vars
    BY <1>0, <1>8 DEF vars
  <1> QED
    BY <1>1, <1>2, <1>3, <1>4, <1>5, <1>6, <1>7, <1>8
       DEF Next, Client, Timers, Network, Deliver, Duplicate

\* What the modem declares to its router is always advertised by a neighbour
\* whose link is up, when pending entries are held forever (HoldInterval 0,
\* the default of destination-advert-hold-interval).
THEOREM NoStale ==
  ASSUME HoldInterval = 0
  PROVE  Spec => []NoStaleDestination
  <1>1. Init => NoStaleDestination
    BY DEF Init, NoStaleDestination
  <1>2. TypeOK /\ NoStaleDestination /\ [Next]_vars => NoStaleDestination'
    BY NoStaleStep
  <1> QED
    BY <1>1, <1>2, TypeCorrect, PTL DEF Spec

\* Under the same condition the purge timer, the only step that removes
\* entries, takes the destinations of the entries it removes down with them.
THEOREM PurgeIsComplete ==
  ASSUME HoldInterval = 0
  PROVE  Spec => PurgeTakesDestinationsDown
  <1> DEFINE Taken == \A r \in RfId : /\ IsUp(db[r])
                                      /\ db'[r].estate = "absent"
                                      => local' \cap db[r].destinations = {}
  <1>1. TypeOK /\ [Next]_vars => [Taken]_vars
    <2> SUFFICES ASSUME TypeOK, Next, NEW s \in RfId, IsUp(db[s]),
                        db'[s].estate = "absent"
                 PROVE  local' \cap db[s].destinations = {}
      OBVIOUS
    <2> USE DEF TypeOK, IsUp, Entry
    <2>1. CASE handle_purge_advert_timeout
      <3>1. Expired(db[s])
        BY <2>1 DEF handle_purge_advert_timeout, HeldTooLong
      <3> QED
        BY <2>1, <3>1 DEF handle_purge_advert_timeout
    <2>2. CASE Tick
      BY <2>2 DEF Tick
    <2>3. CASE Client
      BY <2>3 DEF Client, destination_up, destination_down, Placeholder, NoEntry
    <2>4. CASE Neighbours
      BY <2>4 DEF Neighbours, add_destination, clear_destinations,
                  get_message_to_send
    <2>5. ASSUME NEW a \in net, handle_message(a) PROVE FALSE
      <3>1. a.rfId \in RfId
        BY DEF Advert
      <3>2. CASE a.rfId = s
        <4>1. db' = [db EXCEPT ![s] = Refreshed(db[s], a)]
          BY <2>5, <3>2 DEF handle_message
        <4>2. Refreshed(db[s], a).estate = db[s].estate
          BY DEF Refreshed
        <4> QED
          BY <4>1, <4>2
      <3>3. CASE a.rfId # s
        <4>1. db'[s] = db[s]
          BY <2>5, <3>1, <3>3 DEF handle_message
        <4> QED
          BY <4>1
      <3> QED
        BY <3>2, <3>3
    <2>6. ASSUME NEW a \in net, Lose(a) PROVE FALSE
      BY <2>6 DEF Lose
    <2> QED
      BY <2>1, <2>2, <2>3, <2>4, <2>5, <2>6
         DEF Next, Timers, Network, Deliver, Duplicate
  <1> QED
    BY <1>1, TypeCorrect, PTL DEF Spec, PurgeTakesDestinationsDown
-----------------------------------------------------------------------------
(***************************************************************************)
(* Nothing that is advertised is missing.                                  *)
(***************************************************************************)

\* Every router attaches to one modem.
RoutersDisjoint ==
    \A r, s \in RfId : r # s => Routers[r] \cap Routers[s] = {}

\* A neighbour's advertisements, wherever they are, name its own routers.
OwnAdverts ==
    /\ \A r \in RfId : adv[r] \subseteq Routers[r]
    /\ \A r \in RfId : db[r].destinations \subseteq Routers[r]
    /\ \A a \in net : a.destinations \subseteq Routers[a.rfId]

\* Every step keeps advertisements, in the table and on the air, to the
\* routers that may attach to the modem they are about.
LEMMA OwnAdvertsStep ==
  ASSUME TypeOK, OwnAdverts, [Next]_vars
  PROVE  OwnAdverts'
  <1> USE DEF TypeOK, OwnAdverts, Entry
  <1>1. ASSUME NEW r \in RfId, destination_up(r) PROVE OwnAdverts'
    <2>1. Placeholder.destinations = {}
      BY DEF Placeholder, NoEntry
    <2> QED
      BY <1>1, <2>1 DEF destination_up
  <1>2. ASSUME NEW r \in RfId, destination_down(r) PROVE OwnAdverts'
    BY <1>2 DEF destination_down
  <1>3. CASE handle_purge_advert_timeout
    BY <1>3 DEF handle_purge_advert_timeout, NoEntry
  <1>4. CASE Tick
    BY <1>4 DEF Tick
  <1>5. ASSUME NEW r \in RfId,
               add_destination(r) \/ clear_destinations(r) \/ get_message_to_send(r)
        PROVE  OwnAdverts'
    BY <1>5 DEF add_destination, clear_destinations, get_message_to_send
  <1>6. ASSUME NEW a \in net, handle_message(a), net' \in SUBSET net
        PROVE  OwnAdverts'
    <2>1. a.rfId \in RfId
      BY DEF Advert
    <2>2. /\ NewEntry(a).destinations = a.destinations
          /\ Refreshed(db[a.rfId], a).destinations = a.destinations
      BY <2>1 DEF NewEntry, Refreshed
    <2>3. \A r \in RfId : db'[r].destinations \subseteq Routers[r]
      BY <1>6, <2>1, <2>2 DEF handle_message
    <2> QED
      BY <1>6, <2>3 DEF handle_message
  <1>7. ASSUME NEW a \in net, Lose(a) PROVE OwnAdverts'
    BY <1>7 DEF Lose
  <1>8. CASE UNCHANGED vars
    BY <1>8 DEF vars
  <1> QED
    BY <1>1, <1>2, <1>3, <1>4, <1>5, <1>6, <1>7, <1>8
       DEF Next, Client, Timers, Neighbours, Network, Deliver, Duplicate

\* Every step keeps UpDestinationsAreLocal when each router attaches to one
\* modem.
LEMMA CompleteStep ==
  ASSUME RoutersDisjoint, TypeOK, OwnAdverts, UpDestinationsAreLocal, [Next]_vars
  PROVE  UpDestinationsAreLocal'
  <1> SUFFICES ASSUME NEW s \in RfId, IsUp(db'[s]), NEW m \in db'[s].destinations
               PROVE  m \in local'
    BY UpDestinationsMemberPrime DEF UpDestinationsAreLocal
  <1>0. IsUp(db[s]) /\ m \in db[s].destinations => m \in local
    BY UpDestinationsMember DEF UpDestinationsAreLocal
  <1>a. ASSUME NEW r \in RfId, r # s PROVE Routers[r] \cap Routers[s] = {}
    BY <1>a DEF RoutersDisjoint
  <1> USE DEF TypeOK, IsUp, Entry, OwnAdverts
  <1>1. ASSUME NEW r \in RfId, destination_up(r) PROVE m \in local'
    <2>1. Placeholder.destinations = {}
      BY DEF Placeholder, NoEntry
    <2> QED
      BY <1>0, <1>1, <2>1 DEF destination_up
  <1>2. ASSUME NEW r \in RfId, destination_down(r) PROVE m \in local'
    BY <1>0, <1>a, <1>2 DEF destination_down
  <1>3. CASE handle_purge_advert_timeout
    <2>1. db'[s] = db[s] /\ ~Expired(db[s])
      BY <1>3 DEF handle_purge_advert_timeout, NoEntry
    <2> QED
      BY <1>0, <1>a, <1>3, <2>1 DEF handle_purge_advert_timeout
  <1>4. CASE Tick
    BY <1>0, <1>4 DEF Tick
  <1>5. CASE Neighbours
    BY <1>0, <1>5 DEF Neighbours, add_destination, clear_destinations,
                      get_message_to_send
  <1>6. ASSUME NEW a \in net, handle_message(a) PROVE m \in local'
    <2>1. a.rfId \in RfId
      BY DEF Advert
    <2>2. CASE a.rfId = s
      <3>1. NewEntry(a).estate = "down"
        BY DEF NewEntry
      <3>2. /\ db[s].estate = "up"
            /\ m \in a.destinations
            /\ local' = Translated(db[s], a)
        <4>1. db[s].estate = "up"
          BY <1>6, <2>2, <3>1 DEF handle_message, Refreshed
        <4>2. /\ db' = [db EXCEPT ![s] = Refreshed(db[s], a)]
              /\ local' = Translated(db[s], a)
          BY <1>6, <2>2, <4>1 DEF handle_message
        <4>3. Refreshed(db[s], a).destinations = a.destinations
          BY DEF Refreshed
        <4> QED
          BY <4>1, <4>2, <4>3
      <3> QED
        BY <1>0, <3>2 DEF Translated
    <2>3. CASE a.rfId # s
      <3>1. db'[s] = db[s] /\ m \in local
        BY <1>0, <1>6, <2>1, <2>3 DEF handle_message
      <3> QED
        BY <1>6, <1>a, <2>1, <2>3, <3>1 DEF handle_message, Translated
    <2> QED
      BY <2>2, <2>3
  <1>7. ASSUME NEW a \in net, Lose(a) PROVE m \in local'
    BY <1>0, <1>7 DEF Lose
  <1>8. CASE UNCHANGED vars
    BY <1>0, <1>8 DEF vars
  <1> QED
    BY <1>1, <1>2, <1>3, <1>4, <1>5, <1>6, <1>7, <1>8
       DEF Next, Client, Timers, Network, Deliver, Duplicate

\* Every destination that a linked neighbour advertises is declared to the
\* modem's router, when every router attaches to one modem.
THEOREM Complete ==
  ASSUME RoutersDisjoint
  PROVE  Spec => []UpDestinationsAreLocal
  <1>1. Init => OwnAdverts /\ UpDestinationsAreLocal
    BY DEF Init, OwnAdverts, UpDestinationsAreLocal, UpDestinations, NoEntry, IsUp
  <1>2. TypeOK /\ OwnAdverts /\ [Next]_vars => OwnAdverts'
    BY OwnAdvertsStep
  <1>3. TypeOK /\ OwnAdverts /\ UpDestinationsAreLocal /\ [Next]_vars
          => UpDestinationsAreLocal'
    BY CompleteStep
  <1> QED
    BY <1>1, <1>2, <1>3, TypeCorrect, PTL DEF Spec
-----------------------------------------------------------------------------
(***************************************************************************)
(* The table remembers what the client declared.                           *)
(***************************************************************************)

\* Whatever is purged, an entry is up only when the client declared it so.
UpIsDeclared == \A r \in RfId : IsUp(db[r]) => declared[r]

\* Every step keeps that.
LEMMA UpIsDeclaredStep ==
  ASSUME TypeOK, UpIsDeclared, [Next]_vars
  PROVE  UpIsDeclared'
  <1> USE DEF TypeOK, IsUp, Entry, UpIsDeclared
  <1>1. ASSUME NEW r \in RfId, destination_up(r) \/ destination_down(r) PROVE UpIsDeclared'
    BY <1>1 DEF destination_up, destination_down
  <1>2. CASE handle_purge_advert_timeout
    <2>1. NoEntry.estate # "up"
      BY DEF NoEntry
    <2> QED
      BY <1>2, <2>1 DEF handle_purge_advert_timeout
  <1>3. CASE Tick
    BY <1>3 DEF Tick
  <1>4. CASE Neighbours
    BY <1>4 DEF Neighbours, add_destination, clear_destinations, get_message_to_send
  <1>5. ASSUME NEW a \in net, handle_message(a) PROVE UpIsDeclared'
    <2>1. a.rfId \in RfId
      BY DEF Advert
    <2>2. /\ NewEntry(a).estate = "down"
          /\ Refreshed(db[a.rfId], a).estate = db[a.rfId].estate
      BY <2>1 DEF NewEntry, Refreshed
    <2> QED
      BY <1>5, <2>1, <2>2 DEF handle_message
  <1>6. ASSUME NEW a \in net, Lose(a) PROVE UpIsDeclared'
    BY <1>6 DEF Lose
  <1>7. CASE UNCHANGED vars
    BY <1>7 DEF vars
  <1> QED
    BY <1>1, <1>2, <1>3, <1>4, <1>5, <1>6, <1>7
       DEF Next, Client, Timers, Network, Deliver, Duplicate

\* An entry goes down only against what the client last declared for it.
LEMMA DownIsDeclaredStep ==
  ASSUME TypeOK, [Next]_vars, NEW r \in RfId, db'[r].estate = "down", declared'[r]
  PROVE  declared[r] /\ ~IsUp(db[r])
  <1> USE DEF TypeOK, IsUp, Entry
  <1>1. ASSUME NEW s \in RfId, destination_up(s) PROVE declared[r] /\ ~IsUp(db[r])
    <2>1. Placeholder.estate = "up"
      BY DEF Placeholder, NoEntry
    <2> QED
      BY <1>1, <2>1 DEF destination_up
  <1>2. ASSUME NEW s \in RfId, destination_down(s) PROVE declared[r] /\ ~IsUp(db[r])
    BY <1>2 DEF destination_down
  <1>3. CASE handle_purge_advert_timeout
    <2>1. NoEntry.estate = "absent"
      BY DEF NoEntry
    <2> QED
      BY <1>3, <2>1 DEF handle_purge_advert_timeout
  <1>4. CASE Tick
    BY <1>4 DEF Tick
  <1>5. CASE Neighbours
    BY <1>5 DEF Neighbours, add_destination, clear_destinations, get_message_to_send
  <1>6. ASSUME NEW a \in net, handle_message(a) PROVE declared[r] /\ ~IsUp(db[r])
    <2>1. a.rfId \in RfId
      BY DEF Advert
    <2>2. Refreshed(db[a.rfId], a).estate = db[a.rfId].estate
      BY <2>1 DEF Refreshed
    <2> QED
      BY <1>6, <2>1, <2>2 DEF handle_message
  <1>7. ASSUME NEW a \in net, Lose(a) PROVE declared[r] /\ ~IsUp(db[r])
    BY <1>7 DEF Lose
  <1>8. CASE UNCHANGED vars
    BY <1>8 DEF vars
  <1> QED
    BY <1>1, <1>2, <1>3, <1>4, <1>5, <1>6, <1>7, <1>8
       DEF Next, Client, Timers, Network, Deliver, Duplicate

\* DestAdvert.cpp: an entry is up only when the client last declared it up, and
\* it is down against the client's word only when it was purged.
THEOREM ClientIsRemembered == Spec => StateReflectsClient
  <1>1. Init => UpIsDeclared
    BY DEF Init, UpIsDeclared, IsUp, NoEntry
  <1>2. TypeOK /\ UpIsDeclared /\ [Next]_vars => UpIsDeclared'
    BY UpIsDeclaredStep
  <1>3. TypeOK /\ UpIsDeclared /\ [Next]_vars
          => [\A r \in RfId :
                /\ IsUp(db'[r]) => declared'[r]
                /\ db'[r].estate = "down" /\ declared'[r] => declared[r] /\ ~IsUp(db[r])]_vars
    BY <1>2, DownIsDeclaredStep DEF UpIsDeclared, IsUp
  <1> QED
    BY <1>1, <1>2, <1>3, TypeCorrect, PTL DEF Spec, StateReflectsClient
=============================================================================
