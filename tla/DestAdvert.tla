----------------------------- MODULE DestAdvert -----------------------------
(***************************************************************************)
(* Destination Advertisement (DestAdvert.cpp, DlepServiceImpl.cpp).        *)
(*                                                                         *)
(* A modem keeps a table from the RF IDs of its radio neighbours to the    *)
(* advertisements it heard from them.  Its client declares RF IDs up and   *)
(* down; the neighbours multicast, over a lossy network, the MAC addresses *)
(* of the routers behind them; a one second timer purges old entries.  The *)
(* destinations of the entries that are up are what the modem declares to  *)
(* its own router: the local destinations (Dlep::local_pdp).               *)
(*                                                                         *)
(* The module describes one receiving modem and the sending half of each   *)
(* of its neighbours.  dest_advert_mutex makes each operation on the table *)
(* one step.                                                               *)
(***************************************************************************)
EXTENDS Naturals, FiniteSets

CONSTANTS
    RfId,           \* the neighbours, by radio identifier
    Mac,            \* router MAC addresses
    Routers,        \* Routers[r]: the routers that may attach to modem r
    HoldInterval,   \* destination-advert-hold-interval
    ExpireCount,    \* destination-advert-expire-count
    SendInterval,   \* destination-advert-send-interval of the neighbours
    MaxAge,         \* bound: ages are not told apart beyond it
    NetCap          \* bound: advertisements in flight

ASSUME ConstantsAssumption ==
    /\ RfId \cap Mac = {}
    /\ Routers \in [RfId -> SUBSET Mac]
    /\ HoldInterval \in Nat /\ ExpireCount \in Nat
    /\ SendInterval \in Nat \ {0}
    /\ NetCap \in Nat \ {0}
    /\ MaxAge \in Nat
    /\ MaxAge >= HoldInterval /\ MaxAge >= ExpireCount * SendInterval

VARIABLES
    db,         \* dest_advert_db
    local,      \* the destinations of local_pdp
    declared,   \* history: the client's last declaration was destination_up
    adv,        \* adv[r]: DestAdvert::destinations of neighbour r
    net         \* advertisements on the air

vars == <<db, local, declared, adv, net>>

Advert == [rfId : RfId, destinations : SUBSET Mac, reportInterval : Nat]

Entry == [estate       : {"absent", "down", "up"},
          placeholder  : BOOLEAN,
          destinations : SUBSET Mac,     \* info.destinations
          interval     : Nat,            \* info.reportInterval
          age          : Nat]            \* time(NULL) - timestamp

NoEntry == [estate |-> "absent", placeholder |-> FALSE,
            destinations |-> {}, interval |-> 0, age |-> 0]

IsUp(e) == e.estate = "up"

Init ==
    /\ db = [r \in RfId |-> NoEntry]
    /\ local = {}
    /\ declared = [r \in RfId |-> FALSE]
    /\ adv = [r \in RfId |-> {}]
    /\ net = {}
-----------------------------------------------------------------------------
(***************************************************************************)
(* The client's calls.                                                     *)
(***************************************************************************)

\* An entry that waits for its advertisement: DestAdvertInfo() has no
\* destinations and a report interval of zero.
Placeholder == [NoEntry EXCEPT !.estate = "up", !.placeholder = TRUE]

destination_up(r) ==
    /\ declared' = [declared EXCEPT ![r] = TRUE]
    /\ \/ /\ db[r].estate = "down"
          /\ local' = local \cup db[r].destinations
          /\ db' = [db EXCEPT ![r].estate = "up"]
       \/ /\ db[r].estate = "up"            \* returns destination_exists
          /\ UNCHANGED <<db, local>>
       \/ /\ db[r].estate = "absent"
          /\ db' = [db EXCEPT ![r] = Placeholder]
          /\ UNCHANGED local
    /\ UNCHANGED <<adv, net>>

\* Variant of destination_down: the destinations go down, the entry does not.
destination_down_StaysUp(r) ==
    /\ declared' = [declared EXCEPT ![r] = FALSE]
    /\ local' = IF db[r].estate = "up" THEN local \ db[r].destinations ELSE local
    /\ UNCHANGED <<db, adv, net>>

\* An RF ID without an entry is looked up among the destinations; RF IDs are
\* not destinations, so nothing is found and the call has no effect.
destination_down(r) ==
    /\ declared' = [declared EXCEPT ![r] = FALSE]
    /\ \/ /\ db[r].estate = "up"
          /\ local' = local \ db[r].destinations
          /\ db' = [db EXCEPT ![r].estate = "down"]
       \/ /\ db[r].estate # "up"
          /\ UNCHANGED <<db, local>>
    /\ UNCHANGED <<adv, net>>
-----------------------------------------------------------------------------
(***************************************************************************)
(* Receiving an advertisement.                                             *)
(***************************************************************************)
NewEntry(a) == [estate |-> "down", placeholder |-> FALSE,
                destinations |-> a.destinations,
                interval |-> a.reportInterval, age |-> 0]

\* The entry's advertisement is replaced; its state and its placeholder flag
\* are kept.
Refreshed(e, a) == [e EXCEPT !.destinations = a.destinations,
                             !.interval = a.reportInterval,
                             !.age = 0]

\* Variants of Translated: the deleted, or the added, destinations are
\* forgotten.
Translated_NoneDeleted(e, a) == local \cup (a.destinations \ e.destinations)
Translated_NoneAdded(e, a) == local \ (e.destinations \ a.destinations)

\* What an advertisement for an entry that is up does to the destinations:
\* the added ones come up, then the deleted ones go down.
Translated(e, a) ==
    LET added   == a.destinations \ e.destinations
        deleted == e.destinations \ a.destinations
    IN  (local \cup added) \ deleted

\* Variant of handle_message: an advertisement for an entry that is there is
\* only a sign of life.
handle_message_AgeOnly(a) ==
    /\ db' = IF db[a.rfId].estate = "absent"
             THEN [db EXCEPT ![a.rfId] = NewEntry(a)]
             ELSE [db EXCEPT ![a.rfId].age = 0]
    /\ UNCHANGED <<local, declared, adv>>

handle_message(a) ==
    LET e == db[a.rfId] IN
    /\ \/ /\ e.estate = "absent"
          /\ db' = [db EXCEPT ![a.rfId] = NewEntry(a)]
          /\ UNCHANGED local
       \/ /\ e.estate # "absent"
          /\ db' = [db EXCEPT ![a.rfId] = Refreshed(e, a)]
          /\ local' = IF IsUp(e) THEN Translated(e, a) ELSE local
    /\ UNCHANGED <<declared, adv>>
-----------------------------------------------------------------------------
(***************************************************************************)
(* The purge timer.                                                        *)
(***************************************************************************)
HeldTooLong(e) ==
    /\ HoldInterval > 0
    /\ e.placeholder
    /\ IsUp(e)
    /\ e.age >= HoldInterval

\* Variant of Expired: entries that are up stay.
Expired_DownOnly(e) ==
    /\ e.estate = "down"
    /\ ExpireCount > 0
    /\ e.age >= ExpireCount * e.interval

Expired(e) ==
    /\ e.estate # "absent"
    /\ ~HeldTooLong(e)
    /\ ExpireCount > 0
    /\ e.age >= ExpireCount * e.interval

\* Variant of handle_purge_advert_timeout: no destination goes down.
handle_purge_advert_timeout_Silent ==
    /\ db' = [r \in RfId |-> IF HeldTooLong(db[r]) \/ Expired(db[r])
                             THEN NoEntry ELSE db[r]]
    /\ UNCHANGED <<local, declared, adv, net>>

handle_purge_advert_timeout ==
    /\ db' = [r \in RfId |-> IF HeldTooLong(db[r]) \/ Expired(db[r])
                             THEN NoEntry ELSE db[r]]
    /\ local' = local \ UNION {db[r].destinations :
                                r \in {s \in RfId : Expired(db[s]) /\ IsUp(db[s])}}
    /\ UNCHANGED <<declared, adv, net>>

\* A second of wall clock time.
Tick ==
    /\ db' = [r \in RfId |->
                IF db[r].estate # "absent" /\ db[r].age < MaxAge
                THEN [db[r] EXCEPT !.age = @ + 1] ELSE db[r]]
    /\ UNCHANGED <<local, declared, adv, net>>
-----------------------------------------------------------------------------
(***************************************************************************)
(* The neighbours and the network.                                         *)
(***************************************************************************)

\* The session of neighbour r with a router comes up.
add_destination(r) ==
    /\ \E m \in Routers[r] : adv' = [adv EXCEPT ![r] = @ \cup {m}]
    /\ UNCHANGED <<db, local, declared, net>>

\* The session of neighbour r with its router goes down.
clear_destinations(r) ==
    /\ adv' = [adv EXCEPT ![r] = {}]
    /\ UNCHANGED <<db, local, declared, net>>

\* Variant of get_message_to_send: the RF ID is among the destinations.
get_message_to_send_OwnId(r) ==
    /\ Cardinality(net) < NetCap
    /\ net' = net \cup {[rfId |-> r, destinations |-> adv[r] \cup {r},
                         reportInterval |-> SendInterval]}
    /\ UNCHANGED <<db, local, declared, adv>>

\* The periodic advertisement; it is sent even when it is empty.
get_message_to_send(r) ==
    /\ Cardinality(net) < NetCap
    /\ net' = net \cup {[rfId |-> r, destinations |-> adv[r],
                         reportInterval |-> SendInterval]}
    /\ UNCHANGED <<db, local, declared, adv>>

\* UDP multicast: an advertisement arrives once, or more than once, or never,
\* and after ones that were sent later.
Deliver(a)   == handle_message(a) /\ net' = net \ {a}
Duplicate(a) == handle_message(a) /\ UNCHANGED net
Lose(a)      == net' = net \ {a} /\ UNCHANGED <<db, local, declared, adv>>
-----------------------------------------------------------------------------
Client == \E r \in RfId : destination_up(r) \/ destination_down(r)

Timers == handle_purge_advert_timeout \/ Tick

Neighbours == \E r \in RfId : \/ add_destination(r)
                              \/ clear_destinations(r)
                              \/ get_message_to_send(r)

Network == \E a \in net : Deliver(a) \/ Duplicate(a) \/ Lose(a)

Next == Client \/ Timers \/ Neighbours \/ Network

Spec == Init /\ [][Next]_vars

\* The purge timer is always rearmed and time passes.
TimerFairness == WF_vars(handle_purge_advert_timeout) /\ WF_vars(Tick)

\* The network does not lose every copy of an advertisement that is sent again
\* and again.  Nothing makes a neighbour send: it may fall silent.
AdvertFairness ==
    \A r \in RfId : \A D \in SUBSET Routers[r] :
        LET a == [rfId |-> r, destinations |-> D, reportInterval |-> SendInterval]
        IN  SF_vars(a \in net /\ Deliver(a))

FairSpec == Spec /\ TimerFairness /\ AdvertFairness
-----------------------------------------------------------------------------
(***************************************************************************)
(* Properties.                                                             *)
(***************************************************************************)

\* Every variable has its type.
TypeOK ==
    /\ db \in [RfId -> Entry]
    /\ local \in SUBSET Mac
    /\ declared \in [RfId -> BOOLEAN]
    /\ adv \in [RfId -> SUBSET Mac]
    /\ net \in SUBSET Advert

UpDestinations == UNION {db[r].destinations : r \in {s \in RfId : IsUp(db[s])}}

\* No destination outlives its advertisement: what the modem declares to its
\* router is advertised by some neighbour whose link is up, whatever the
\* order of client calls, advertisements (late and duplicated ones included)
\* and purges, even when two neighbours advertise the same router.
NoStaleDestination == local \subseteq UpDestinations

\* Nothing that a linked neighbour advertises is missing from what the modem
\* declares to its router.  It needs routers that attach to one modem each:
\* when two entries share a destination, the first one that drops it takes it
\* down for both.
UpDestinationsAreLocal == UpDestinations \subseteq local

\* The state of an entry is what the client last declared for its RF ID, but
\* an entry that was purged comes back down: an entry is up only when the client
\* declared it so, and only one that was purged is ever down against its word.
StateReflectsClient ==
    [][\A r \in RfId :
         /\ IsUp(db'[r]) => declared'[r]
         /\ db'[r].estate = "down" /\ declared'[r] => declared[r] /\ ~IsUp(db[r])]_vars

\* When an entry that is up leaves the table, its destinations go down with
\* it.
PurgeTakesDestinationsDown ==
    [][\A r \in RfId : /\ IsUp(db[r])
                       /\ db'[r].estate = "absent"
                       => local' \cap db[r].destinations = {}]_vars

\* The purge timer removes an entry that waits for its first advertisement
\* only for having waited HoldInterval seconds, never when HoldInterval is 0.
PendingWaitsForHoldInterval ==
    [][\A r \in RfId : /\ IsUp(db[r]) /\ db[r].interval = 0
                       /\ db'[r].estate = "absent"
                       => HoldInterval > 0 /\ db[r].age >= HoldInterval]_vars

\* A router that a linked neighbour keeps advertising becomes a destination,
\* whatever the entry held before; the exceptions are an entry that goes down
\* or is purged in the meantime, and a router that leaves.
AdvertisedBecomesLocal ==
    \A r \in RfId : \A m \in Routers[r] :
        []<>(\E a \in net : a.rfId = r /\ a.destinations = adv[r])
        => ((IsUp(db[r]) /\ m \in adv[r])
                ~> (m \in local \/ ~IsUp(db[r]) \/ m \notin adv[r]))

\* The routers behind a neighbour that falls silent, and behind no other one,
\* do not stay destinations.
SilentNeighbourIsWithdrawn ==
    \A r \in RfId : LET own == Routers[r] \ UNION {Routers[s] : s \in RfId \ {r}} IN
        <>[](\A a \in net : a.rfId # r) => <>[](local \cap own = {})
=============================================================================
