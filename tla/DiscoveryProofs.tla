--------------------------- MODULE DiscoveryProofs ---------------------------
(***************************************************************************)
(* Proofs about Discovery, for any number of routers and connections: with *)
(* signals that settle in time, the maps of both sides are right.          *)
(***************************************************************************)
EXTENDS Discovery, TLAPS

\* The types of all but patient and sending.
StateOK ==
    /\ net \subseteq Signal
    /\ conn \in [Conn -> Connection]
    /\ rpeers \in [Router -> Conn \cup {NoConn}]
    /\ mpeers \subseteq Conn

\* The modem has one Peer for each router.
OneEach == \A c, d \in mpeers : conn[c].router = conn[d].router => c = d

\* The Peers of a router are in its map.
AllMapped ==
    \A c \in Conn : conn[c].rtr \in {"alive", "terminating"} => rpeers[conn[c].router] = c

\* A router has one signal on its way at most.
SignalAlone == \A s, t \in net : s.router = t.router => s = t

\* While a signal is on its way no connection of its router is being made.
SignalMeansMade == \A s \in net : Made(s.router)

\* While an offer is on its way the modem has no Peer for its router.
OfferMeansNoPeer ==
    \A s \in net : s.type = "Peer_Offer" => \A c \in mpeers : conn[c].router # s.router

\* A connection that is being made is the only one of its router.
UnmadeIsAlone ==
    \A c, d \in Conn :
        /\ ~Free(c) /\ ~Free(d) /\ conn[c].router = conn[d].router
        /\ conn[c].rtr = "connecting" \/ conn[c].mdm = "none"
        => c = d

\* The modem's map has the Peers that exist at the modem.
ModemMap == mpeers = {c \in Conn : conn[c].mdm \in {"alive", "terminating"}}

\* A connection begins at the router, and is free when both ends are gone.
EndsMatch == \A c \in Conn : /\ conn[c].rtr = "none" => conn[c].mdm = "none"
                             /\ conn[c].rtr = "gone" => conn[c].mdm # "gone"

\* The inductive invariant.
IInv == /\ StateOK /\ SignalAlone /\ SignalMeansMade /\ OfferMeansNoPeer
        /\ UnmadeIsAlone /\ ModemMap /\ EndsMatch
        /\ OneEach /\ AllMapped
-----------------------------------------------------------------------------
(***************************************************************************)
(* What Reused does to a connection.                                       *)
(***************************************************************************)

\* A connection keeps its type, and one with an end left is not changed.
LEMMA ReusedType ==
  ASSUME NEW x \in Connection
  PROVE  /\ Reused(x) \in Connection
         /\ Reused(x).router = x.router
         /\ x.rtr = "gone" /\ x.mdm = "gone"
                => Reused(x).rtr = "none" /\ Reused(x).mdm = "none"
         /\ x.rtr # "gone" \/ x.mdm # "gone" => Reused(x) = x
  BY DEF Reused, Connection, RouterEnd, ModemEnd

\* The fields of a connection.
LEMMA ConnectionFields ==
  ASSUME NEW x \in Connection
  PROVE  x.router \in Router /\ x.rtr \in RouterEnd /\ x.mdm \in ModemEnd
  BY DEF Connection

\* The router's end of a connection changes, and nothing else of it.
LEMMA RouterEndChanges ==
  ASSUME NEW x \in Connection, NEW e \in RouterEnd
  PROVE  /\ [x EXCEPT !.rtr = e] \in Connection
         /\ [x EXCEPT !.rtr = e].router = x.router
         /\ [x EXCEPT !.rtr = e].rtr = e
         /\ [x EXCEPT !.rtr = e].mdm = x.mdm
  BY DEF Connection

\* The modem's end of a connection changes, and nothing else of it.
LEMMA ModemEndChanges ==
  ASSUME NEW x \in Connection, NEW e \in ModemEnd
  PROVE  /\ [x EXCEPT !.mdm = e] \in Connection
         /\ [x EXCEPT !.mdm = e].router = x.router
         /\ [x EXCEPT !.mdm = e].rtr = x.rtr
         /\ [x EXCEPT !.mdm = e].mdm = e
  BY DEF Connection

\* The router's Peer of a connection goes.
LEMMA RouterGone ==
  ASSUME NEW x \in Connection
  PROVE  LET y == Reused([x EXCEPT !.rtr = "gone"])
         IN  /\ y \in Connection /\ y.router = x.router
             /\ x.mdm = "gone" => y.rtr = "none" /\ y.mdm = "none"
             /\ x.mdm # "gone" => y.rtr = "gone" /\ y.mdm = x.mdm
  <1> DEFINE z == [x EXCEPT !.rtr = "gone"]
  <1>1. "gone" \in RouterEnd
    BY DEF RouterEnd
  <1>2. z \in Connection /\ z.router = x.router /\ z.rtr = "gone" /\ z.mdm = x.mdm
    BY <1>1, RouterEndChanges
  <1> HIDE DEF z
  <1>3. /\ Reused(z) \in Connection /\ Reused(z).router = x.router
        /\ x.mdm = "gone" => Reused(z).rtr = "none" /\ Reused(z).mdm = "none"
        /\ x.mdm # "gone" => Reused(z).rtr = "gone" /\ Reused(z).mdm = x.mdm
    BY <1>2, ReusedType
  <1> QED
    BY <1>3 DEF z

\* The modem's Peer of a connection goes.
LEMMA ModemGone ==
  ASSUME NEW x \in Connection
  PROVE  LET y == Reused([x EXCEPT !.mdm = "gone"])
         IN  /\ y \in Connection /\ y.router = x.router
             /\ x.rtr = "gone" => y.rtr = "none" /\ y.mdm = "none"
             /\ x.rtr # "gone" => y.rtr = x.rtr /\ y.mdm = "gone"
  <1> DEFINE z == [x EXCEPT !.mdm = "gone"]
  <1>1. "gone" \in ModemEnd
    BY DEF ModemEnd
  <1>2. z \in Connection /\ z.router = x.router /\ z.rtr = x.rtr /\ z.mdm = "gone"
    BY <1>1, ModemEndChanges
  <1> HIDE DEF z
  <1>3. /\ Reused(z) \in Connection /\ Reused(z).router = x.router
        /\ x.rtr = "gone" => Reused(z).rtr = "none" /\ Reused(z).mdm = "none"
        /\ x.rtr # "gone" => Reused(z).rtr = x.rtr /\ Reused(z).mdm = "gone"
    BY <1>2, ReusedType
  <1> QED
    BY <1>3 DEF z

\* A connection attempt fails.
LEMMA BothGone ==
  ASSUME NEW x \in Connection
  PROVE  LET y == Reused([x EXCEPT !.rtr = "gone", !.mdm = "gone"])
         IN  y \in Connection /\ y.router = x.router /\ y.rtr = "none" /\ y.mdm = "none"
  <1> DEFINE z == [x EXCEPT !.rtr = "gone", !.mdm = "gone"]
  <1>1. z \in Connection /\ z.router = x.router /\ z.rtr = "gone" /\ z.mdm = "gone"
    BY DEF Connection, RouterEnd, ModemEnd
  <1> HIDE DEF z
  <1>2. /\ Reused(z) \in Connection /\ Reused(z).router = x.router
        /\ Reused(z).rtr = "none" /\ Reused(z).mdm = "none"
    BY <1>1, ReusedType
  <1> QED
    BY <1>2 DEF z
-----------------------------------------------------------------------------
(***************************************************************************)
(* Signals.                                                                *)
(***************************************************************************)

\* Sending a discovery, or failing to.
LEMMA SendStep ==
  ASSUME patient, IInv, NEW r \in Router, start_send(r)
  PROVE  IInv'
  <1>0. /\ Made(r) /\ \A s \in net : s.router # r
        /\ conn' = conn /\ rpeers' = rpeers /\ mpeers' = mpeers
    BY DEF start_send
  <1>1. CASE net' = net \cup {Sig("Peer_Discovery", r)}
    <2> USE <1>0, <1>1 DEF IInv, Sig
    <2>1. StateOK'
      BY DEF StateOK, Signal
    <2>2. SignalAlone'
      BY DEF SignalAlone
    <2>3. SignalMeansMade'
      BY DEF SignalMeansMade, Made, Free
    <2>4. OfferMeansNoPeer'
      BY DEF OfferMeansNoPeer
    <2>5. UnmadeIsAlone' /\ ModemMap' /\ EndsMatch' /\ OneEach' /\ AllMapped'
      BY DEF UnmadeIsAlone, Free, ModemMap, EndsMatch, OneEach, AllMapped
    <2> QED
      BY <2>1, <2>2, <2>3, <2>4, <2>5
  <1>2. CASE net' = net
    BY <1>0, <1>2 DEF IInv, StateOK, SignalAlone, SignalMeansMade, Made, Free,
           OfferMeansNoPeer, UnmadeIsAlone, ModemMap, EndsMatch, OneEach, AllMapped
  <1> QED
    BY <1>1, <1>2 DEF start_send

\* Losing a signal.
LEMMA LoseStep ==
  ASSUME IInv, NEW s \in net, Lose(s)
  PROVE  IInv'
  BY DEF IInv, Lose, StateOK, SignalAlone, SignalMeansMade, Made, Free,
         OfferMeansNoPeer, UnmadeIsAlone, ModemMap, EndsMatch, OneEach,
         AllMapped

\* Answering a discovery, or not.
LEMMA DiscoveryStep ==
  ASSUME patient, IInv, NEW r \in Router, handle_discovery(r)
  PROVE  IInv'
  <1> DEFINE s == Sig("Peer_Discovery", r)
             o == Sig("Peer_Offer", r)
  <1>1. s \in net /\ s.router = r /\ s.type = "Peer_Discovery"
        /\ o.router = r /\ o.type = "Peer_Offer" /\ o \in Signal
    BY DEF handle_discovery, Sig, Signal
  <1>2. /\ net' = net \ {s} \/ (mpeers = {} /\ net' = (net \ {s}) \cup {o})
        /\ UNCHANGED <<conn, rpeers, mpeers>>
    BY DEF handle_discovery, Remaining, nonexistent_at_modem
  <1> HIDE DEF s, o
  <1> USE DEF IInv
  <1>3. StateOK'
    BY <1>1, <1>2 DEF StateOK
  <1>4. SignalAlone'
    BY <1>1, <1>2 DEF SignalAlone
  <1>5. SignalMeansMade'
    BY <1>1, <1>2 DEF SignalMeansMade, Made, Free
  <1>6. OfferMeansNoPeer'
    BY <1>1, <1>2 DEF OfferMeansNoPeer
  <1>7. UnmadeIsAlone' /\ ModemMap' /\ EndsMatch' /\ OneEach' /\ AllMapped'
    BY <1>2 DEF UnmadeIsAlone, Free, ModemMap, EndsMatch, OneEach, AllMapped
  <1> QED
    BY <1>3, <1>4, <1>5, <1>6, <1>7

\* Taking an offer, or not.  The router has no connection at all when it begins
\* one: its Peers are in its map, which is empty, the modem's are in the modem's
\* map, which has none for it, and none is being made.
LEMMA OfferStep ==
  ASSUME patient, IInv, NEW r \in Router, handle_peer_offer(r)
  PROVE  IInv'
  <1> DEFINE s == Sig("Peer_Offer", r)
  <1>1. s \in net /\ s.router = r /\ s.type = "Peer_Offer"
    BY DEF handle_peer_offer, Sig
  <1>2. net' = net \ {s} /\ UNCHANGED <<rpeers, mpeers>>
    BY DEF handle_peer_offer, Remaining
  <1> HIDE DEF s
  <1> USE DEF IInv
  <1>3. CASE UNCHANGED conn
    BY <1>1, <1>2, <1>3
       DEF StateOK, SignalAlone, SignalMeansMade, Made, Free, OfferMeansNoPeer,
           UnmadeIsAlone, ModemMap, EndsMatch, OneEach, AllMapped
  <1>4. CASE nonexistent_at_router(r) /\ start_async_connect(r)
    <2>1. PICK c \in Conn :
            /\ Free(c)
            /\ conn' = [conn EXCEPT ![c] = [router |-> r, rtr |-> "connecting",
                                            mdm |-> "none"]]
      BY <1>4 DEF start_async_connect
    <2>2. /\ conn' \in [Conn -> Connection]
          /\ conn'[c].router = r /\ conn'[c].rtr = "connecting" /\ conn'[c].mdm = "none"
          /\ \A d \in Conn \ {c} : conn'[d] = conn[d]
      BY <2>1 DEF StateOK, Connection, RouterEnd, ModemEnd
    <2>3. ASSUME NEW d \in Conn, ~Free(d), conn[d].router = r PROVE FALSE
      <3>1. conn[d].rtr \in RouterEnd /\ conn[d].mdm \in ModemEnd
        BY <2>3, ConnectionFields DEF StateOK
      <3>2. conn[d].rtr # "connecting" /\ conn[d].mdm # "none"
        BY <1>1, <2>3 DEF SignalMeansMade, Made
      <3>3. conn[d].rtr \notin {"alive", "terminating"}
        BY <1>4, <2>3, DiscoveryAssumption
           DEF AllMapped, nonexistent_at_router
      <3>4. conn[d].mdm \notin {"alive", "terminating"}
        BY <1>1, <2>3 DEF OfferMeansNoPeer, ModemMap
      <3> QED
        BY <3>1, <3>2, <3>3, <3>4 DEF EndsMatch, RouterEnd, ModemEnd
    <2>4. conn[c].rtr = "none" /\ conn[c].mdm = "none"
      BY <2>1 DEF Free
    <2>5. StateOK'
      BY <1>2, <2>2 DEF StateOK
    <2>6. SignalAlone'
      BY <1>2 DEF SignalAlone
    <2>7. SignalMeansMade'
      BY <1>1, <1>2, <2>2 DEF SignalMeansMade, SignalAlone, Made, Free
    <2>8. ModemMap' /\ EndsMatch'
      BY <1>2, <2>2, <2>4 DEF ModemMap, EndsMatch
    <2>9. c \notin mpeers
      BY <2>4 DEF ModemMap
    <2>10. OfferMeansNoPeer' /\ OneEach'
      BY <1>2, <2>2, <2>9 DEF OfferMeansNoPeer, OneEach, StateOK
    <2>11. UnmadeIsAlone'
      BY <2>2, <2>3 DEF UnmadeIsAlone, Free
    <2>12. AllMapped'
      BY <1>2, <2>2 DEF AllMapped
    <2> QED
      BY <2>5, <2>6, <2>7, <2>8, <2>10, <2>11, <2>12
  <1> QED
    BY <1>3, <1>4 DEF handle_peer_offer
-----------------------------------------------------------------------------
(***************************************************************************)
(* Connections and their ends.                                             *)
(***************************************************************************)

\* The router's Peer is made.
LEMMA MakeRouterStep ==
  ASSUME IInv, NEW c \in Conn, make_peer_router(c)
  PROVE  IInv'
  <1> USE DEF IInv
  <1>1. conn[c] \in Connection /\ conn[c].router \in Router
    BY ConnectionFields DEF StateOK
  <1>2. /\ conn[c].rtr = "connecting"
        /\ rpeers' = [rpeers EXCEPT ![conn[c].router] = c]
        /\ UNCHANGED <<net, mpeers>>
    BY DEF make_peer_router
  <1>3. conn' = [conn EXCEPT ![c] = [conn[c] EXCEPT !.rtr = "alive"]]
    BY DEF make_peer_router
  <1>4. /\ conn' \in [Conn -> Connection]
        /\ conn'[c].router = conn[c].router
        /\ conn'[c].rtr = "alive" /\ conn'[c].mdm = conn[c].mdm
        /\ \A d \in Conn \ {c} : conn'[d] = conn[d]
    <2>1. "alive" \in RouterEnd
      BY DEF RouterEnd
    <2>2. conn'[c] = [conn[c] EXCEPT !.rtr = "alive"]
      BY <1>3 DEF StateOK
    <2>3. /\ [conn[c] EXCEPT !.rtr = "alive"] \in Connection
          /\ [conn[c] EXCEPT !.rtr = "alive"].router = conn[c].router
          /\ [conn[c] EXCEPT !.rtr = "alive"].rtr = "alive"
          /\ [conn[c] EXCEPT !.rtr = "alive"].mdm = conn[c].mdm
      BY <1>1, <2>1, RouterEndChanges
    <2> QED
      BY <1>3, <2>2, <2>3 DEF StateOK
  <1>5. StateOK'
    BY <1>1, <1>2, <1>4 DEF StateOK
  <1>6. SignalAlone' /\ SignalMeansMade'
    BY <1>2, <1>4 DEF SignalAlone, SignalMeansMade, Made, Free
  <1>7. OfferMeansNoPeer' /\ OneEach'
    BY <1>2, <1>4 DEF OfferMeansNoPeer, OneEach, StateOK
  <1>8. UnmadeIsAlone'
    BY <1>2, <1>4 DEF UnmadeIsAlone, Free
  <1>9. ModemMap' /\ EndsMatch'
    BY <1>2, <1>4 DEF ModemMap, EndsMatch
  <1>10. AllMapped'
    <2> SUFFICES ASSUME NEW d \in Conn, conn'[d].rtr \in {"alive", "terminating"}
                 PROVE  rpeers'[conn'[d].router] = d
      BY DEF AllMapped
    <2>1. CASE d = c
      BY <1>1, <1>2, <1>4, <2>1 DEF StateOK
    <2>2. CASE d # c
      <3>1. conn'[d] = conn[d] /\ ~Free(d) /\ ~Free(c)
        BY <1>2, <1>4, <2>2 DEF Free
      <3>2. conn[d].router # conn[c].router
        BY <1>2, <2>2, <3>1 DEF UnmadeIsAlone
      <3> QED
        BY <1>1, <1>2, <3>1, <3>2 DEF AllMapped, StateOK
    <2> QED
      BY <2>1, <2>2
  <1> QED
    BY <1>5, <1>6, <1>7, <1>8, <1>9, <1>10

\* The modem's Peer is made.
LEMMA MakeModemStep ==
  ASSUME IInv, NEW c \in Conn, make_peer_modem(c)
  PROVE  IInv'
  <1> USE DEF IInv
  <1>1. conn[c] \in Connection /\ conn[c].router \in Router
    BY ConnectionFields DEF StateOK
  <1>2. /\ conn[c].rtr # "none" /\ conn[c].mdm = "none"
        /\ mpeers' = mpeers \cup {c}
        /\ UNCHANGED <<net, rpeers>>
    BY DEF make_peer_modem
  <1>3. conn' = [conn EXCEPT ![c] = [conn[c] EXCEPT !.mdm = "alive"]]
    BY DEF make_peer_modem
  <1>4. /\ conn' \in [Conn -> Connection]
        /\ conn'[c].router = conn[c].router
        /\ conn'[c].rtr = conn[c].rtr /\ conn'[c].mdm = "alive"
        /\ \A d \in Conn \ {c} : conn'[d] = conn[d]
    <2>1. "alive" \in ModemEnd
      BY DEF ModemEnd
    <2>2. conn'[c] = [conn[c] EXCEPT !.mdm = "alive"]
      BY <1>3 DEF StateOK
    <2>3. /\ [conn[c] EXCEPT !.mdm = "alive"] \in Connection
          /\ [conn[c] EXCEPT !.mdm = "alive"].router = conn[c].router
          /\ [conn[c] EXCEPT !.mdm = "alive"].rtr = conn[c].rtr
          /\ [conn[c] EXCEPT !.mdm = "alive"].mdm = "alive"
      BY <1>1, <2>1, ModemEndChanges
    <2> QED
      BY <1>3, <2>2, <2>3 DEF StateOK
  <1>5. StateOK'
    BY <1>2, <1>4 DEF StateOK
  <1>6. SignalAlone' /\ SignalMeansMade'
    BY <1>2, <1>4 DEF SignalAlone, SignalMeansMade, Made, Free
  <1>7. OfferMeansNoPeer'
    BY <1>2, <1>4 DEF OfferMeansNoPeer, SignalMeansMade, Made, Free, StateOK
  <1>8. ~Free(c) /\ \A d \in mpeers : d \in Conn /\ ~Free(d)
    BY <1>2 DEF Free, ModemMap
  <1>9. \A d \in mpeers : d # c => conn[d].router # conn[c].router
    BY <1>2, <1>8 DEF UnmadeIsAlone
  <1>10. OneEach'
    BY <1>2, <1>4, <1>8, <1>9 DEF OneEach
  <1>11. UnmadeIsAlone'
    BY <1>2, <1>4 DEF UnmadeIsAlone, Free
  <1>12. ModemMap' /\ EndsMatch' /\ AllMapped'
    BY <1>2, <1>4 DEF ModemMap, EndsMatch, AllMapped
  <1> QED
    BY <1>5, <1>6, <1>7, <1>10, <1>11, <1>12

\* No connection begins, and none that is made becomes one that is being made.
OnlyEnds ==
    \A c \in Conn :
        /\ conn'[c].router = conn[c].router
        /\ Free(c) => conn'[c].rtr = "none" /\ conn'[c].mdm = "none"
        /\ /\ conn'[c].rtr # "none"
           /\ conn'[c].rtr = "connecting" \/ conn'[c].mdm = "none"
           => conn[c].rtr = "connecting" \/ conn[c].mdm = "none"

\* What all steps by which a connection comes to its end have in common.
LEMMA EndingStep ==
  ASSUME IInv, StateOK', UNCHANGED net, mpeers' \subseteq mpeers,
         OnlyEnds,
         ModemMap', EndsMatch', AllMapped'
  PROVE  IInv'
  <1> USE DEF IInv
  <1>1. SignalAlone'
    BY DEF SignalAlone
  <1>2. SignalMeansMade'
    BY DEF SignalMeansMade, Made, OnlyEnds, Free, EndsMatch
  <1>3. OfferMeansNoPeer' /\ OneEach'
    BY DEF OfferMeansNoPeer, OneEach, OnlyEnds, StateOK
  <1>4. UnmadeIsAlone'
    BY DEF UnmadeIsAlone, OnlyEnds, Free, EndsMatch
  <1> QED
    BY <1>1, <1>2, <1>3, <1>4

\* An attempt fails.
LEMMA ConnectFailsStep ==
  ASSUME IInv, NEW c \in Conn, connect_fails(c)
  PROVE  IInv'
  <1>1. StateOK /\ ModemMap /\ EndsMatch /\ AllMapped
    BY DEF IInv
  <1>2. conn[c] \in Connection
    BY <1>1 DEF StateOK
  <1>3. /\ conn[c].rtr = "connecting" /\ conn[c].mdm \in {"none", "gone"}
        /\ conn' = [conn EXCEPT ![c] =
                        Reused([conn[c] EXCEPT !.rtr = "gone", !.mdm = "gone"])]
        /\ UNCHANGED <<net, rpeers, mpeers>>
    BY DEF connect_fails
  <1>4. conn'[c] = Reused([conn[c] EXCEPT !.rtr = "gone", !.mdm = "gone"])
    BY <1>1, <1>3 DEF StateOK
  <1>5. /\ conn'[c] \in Connection /\ conn'[c].router = conn[c].router
        /\ conn'[c].rtr = "none" /\ conn'[c].mdm = "none"
    BY <1>2, <1>4, BothGone
  <1>6. conn' \in [Conn -> Connection] /\ \A d \in Conn \ {c} : conn'[d] = conn[d]
    BY <1>1, <1>3, <1>4, <1>5 DEF StateOK
  <1>7. StateOK' /\ ModemMap' /\ EndsMatch' /\ AllMapped'
    BY <1>1, <1>3, <1>5, <1>6 DEF StateOK, ModemMap, EndsMatch, AllMapped
  <1>8. OnlyEnds
    BY <1>5, <1>6 DEF OnlyEnds, Free
  <1> QED
    BY <1>3, <1>7, <1>8, EndingStep

\* The router's Peer terminates.
LEMMA StopRouterStep ==
  ASSUME IInv, NEW c \in Conn, stop_router(c)
  PROVE  IInv'
  <1>1. StateOK /\ ModemMap /\ EndsMatch /\ AllMapped
    BY DEF IInv
  <1>2. conn[c] \in Connection /\ "terminating" \in RouterEnd
    BY <1>1 DEF StateOK, RouterEnd
  <1>3. /\ conn[c].rtr = "alive"
        /\ conn' = [conn EXCEPT ![c] = [conn[c] EXCEPT !.rtr = "terminating"]]
        /\ UNCHANGED <<net, rpeers, mpeers>>
    BY DEF stop_router
  <1>4. conn'[c] = [conn[c] EXCEPT !.rtr = "terminating"]
    BY <1>1, <1>3 DEF StateOK
  <1>5. /\ conn'[c] \in Connection /\ conn'[c].router = conn[c].router
        /\ conn'[c].rtr = "terminating" /\ conn'[c].mdm = conn[c].mdm
    BY <1>2, <1>4, RouterEndChanges
  <1>6. conn' \in [Conn -> Connection] /\ \A d \in Conn \ {c} : conn'[d] = conn[d]
    BY <1>1, <1>3, <1>4, <1>5 DEF StateOK
  <1>7. StateOK' /\ ModemMap' /\ EndsMatch' /\ AllMapped'
    BY <1>1, <1>3, <1>5, <1>6 DEF StateOK, ModemMap, EndsMatch, AllMapped
  <1>8. OnlyEnds
    BY <1>3, <1>5, <1>6 DEF OnlyEnds, Free
  <1> QED
    BY <1>3, <1>7, <1>8, EndingStep

\* The modem's Peer terminates.
LEMMA StopModemStep ==
  ASSUME IInv, NEW c \in Conn, stop_modem(c)
  PROVE  IInv'
  <1>1. StateOK /\ ModemMap /\ EndsMatch /\ AllMapped
    BY DEF IInv
  <1>2. conn[c] \in Connection /\ "terminating" \in ModemEnd
    BY <1>1 DEF StateOK, ModemEnd
  <1>3. /\ conn[c].mdm = "alive"
        /\ conn' = [conn EXCEPT ![c] = [conn[c] EXCEPT !.mdm = "terminating"]]
        /\ UNCHANGED <<net, rpeers, mpeers>>
    BY DEF stop_modem
  <1>4. conn'[c] = [conn[c] EXCEPT !.mdm = "terminating"]
    BY <1>1, <1>3 DEF StateOK
  <1>5. /\ conn'[c] \in Connection /\ conn'[c].router = conn[c].router
        /\ conn'[c].rtr = conn[c].rtr /\ conn'[c].mdm = "terminating"
    BY <1>2, <1>4, ModemEndChanges
  <1>6. conn' \in [Conn -> Connection] /\ \A d \in Conn \ {c} : conn'[d] = conn[d]
    BY <1>1, <1>3, <1>4, <1>5 DEF StateOK
  <1>7. StateOK' /\ ModemMap' /\ EndsMatch' /\ AllMapped'
    BY <1>1, <1>3, <1>5, <1>6 DEF StateOK, ModemMap, EndsMatch, AllMapped
  <1>8. OnlyEnds
    BY <1>3, <1>5, <1>6 DEF OnlyEnds, Free
  <1> QED
    BY <1>3, <1>7, <1>8, EndingStep

\* The clean-up timer of a router removes its Peer.
LEMMA CleanupRouterStep ==
  ASSUME IInv, NEW r \in Router, cleanup_router(r)
  PROVE  IInv'
  <1> DEFINE c == rpeers[r]
  <1>1. StateOK /\ ModemMap /\ EndsMatch /\ AllMapped
    BY DEF IInv
  <1>2. c \in Conn /\ conn[c] \in Connection
    BY <1>1 DEF StateOK, cleanup_router
  <1>3. /\ conn[c].rtr = "terminating"
        /\ conn' = [conn EXCEPT ![c] = Reused([conn[c] EXCEPT !.rtr = "gone"])]
        /\ rpeers' = [rpeers EXCEPT ![r] = NoConn]
        /\ UNCHANGED <<net, mpeers>>
    BY DEF cleanup_router
  <1>4. rpeers[conn[c].router] = c
    BY <1>1, <1>2, <1>3 DEF AllMapped
  <1>5. \A d \in Conn : d # c => rpeers[r] # d
    OBVIOUS
  <1> HIDE DEF c
  <1>6. conn'[c] = Reused([conn[c] EXCEPT !.rtr = "gone"])
    BY <1>1, <1>2, <1>3 DEF StateOK
  <1>7. /\ conn'[c] \in Connection /\ conn'[c].router = conn[c].router
        /\ conn[c].mdm = "gone" => conn'[c].rtr = "none" /\ conn'[c].mdm = "none"
        /\ conn[c].mdm # "gone" => conn'[c].rtr = "gone" /\ conn'[c].mdm = conn[c].mdm
    BY <1>2, <1>6, RouterGone
  <1>8. conn' \in [Conn -> Connection] /\ \A d \in Conn \ {c} : conn'[d] = conn[d]
    BY <1>1, <1>2, <1>3, <1>6, <1>7 DEF StateOK
  <1>9. StateOK'
    BY <1>1, <1>3, <1>8 DEF StateOK
  <1>10. ModemMap' /\ EndsMatch'
    BY <1>1, <1>2, <1>3, <1>7, <1>8 DEF ModemMap, EndsMatch
  <1>11. AllMapped'
    <2> SUFFICES ASSUME NEW d \in Conn, conn'[d].rtr \in {"alive", "terminating"}
                 PROVE  rpeers'[conn'[d].router] = d
      BY DEF AllMapped
    <2>1. d # c /\ conn'[d] = conn[d]
      BY <1>7, <1>8
    <2>2. rpeers[conn[d].router] = d /\ conn[d].router \in Router
      BY <1>1, <2>1, ConnectionFields DEF AllMapped, StateOK
    <2> QED
      BY <1>1, <1>3, <1>5, <2>1, <2>2 DEF StateOK
  <1>12. OnlyEnds
    BY <1>2, <1>3, <1>7, <1>8 DEF OnlyEnds, Free
  <1> QED
    BY <1>3, <1>9, <1>10, <1>11, <1>12, EndingStep

\* The clean-up timer of the modem removes its terminating Peers.
LEMMA CleanupModemStep ==
  ASSUME IInv, cleanup_modem
  PROVE  IInv'
  <1> DEFINE old == {c \in mpeers : conn[c].mdm = "terminating"}
  <1>1. StateOK /\ ModemMap /\ EndsMatch /\ AllMapped
    BY DEF IInv
  <1>2. /\ conn' = [c \in Conn |-> IF c \in old THEN Reused([conn[c] EXCEPT !.mdm = "gone"])
                                               ELSE conn[c]]
        /\ mpeers' = mpeers \ old
        /\ UNCHANGED <<net, rpeers>>
    BY DEF cleanup_modem
  <1>3. \A c \in Conn : c \in old <=> conn[c].mdm = "terminating"
    BY <1>1 DEF ModemMap
  <1> HIDE DEF old
  <1>4. ASSUME NEW c \in Conn, conn[c].mdm = "terminating"
        PROVE  /\ conn'[c] \in Connection /\ conn'[c].router = conn[c].router
               /\ conn[c].rtr = "gone" => conn'[c].rtr = "none" /\ conn'[c].mdm = "none"
               /\ conn[c].rtr # "gone" => conn'[c].rtr = conn[c].rtr /\ conn'[c].mdm = "gone"
    <2>1. conn[c] \in Connection
      BY <1>1 DEF StateOK
    <2>2. conn'[c] = Reused([conn[c] EXCEPT !.mdm = "gone"])
      BY <1>2, <1>3, <1>4
    <2> QED
      BY <2>1, <2>2, ModemGone
  <1>5. \A c \in Conn : conn[c].mdm # "terminating" => conn'[c] = conn[c]
    BY <1>2, <1>3
  <1>6. conn' \in [Conn -> Connection]
    <2>1. \A c \in Conn : conn'[c] \in Connection
      BY <1>1, <1>4, <1>5 DEF StateOK
    <2>2. conn' = [c \in Conn |-> conn'[c]]
      BY <1>2
    <2> QED
      BY <2>1, <2>2
  <1>7. StateOK'
    BY <1>1, <1>2, <1>6 DEF StateOK
  <1>8. ModemMap'
    BY <1>1, <1>2, <1>3, <1>4, <1>5 DEF ModemMap
  <1>9. EndsMatch' /\ AllMapped'
    BY <1>1, <1>2, <1>4, <1>5 DEF EndsMatch, AllMapped
  <1>10. OnlyEnds
    BY <1>4, <1>5 DEF OnlyEnds, Free
  <1> QED
    BY <1>2, <1>7, <1>8, <1>9, <1>10, EndingStep

\* The modem restarts.
LEMMA RestartStep ==
  ASSUME IInv, restart_modem
  PROVE  IInv'
  <1> DEFINE Stays(c) == conn[c].rtr \in {"none", "connecting"} /\ conn[c].mdm = "none"
  <1>1. StateOK /\ ModemMap /\ EndsMatch /\ AllMapped
    BY DEF IInv
  <1>2. /\ conn' = [c \in Conn |-> IF Stays(c) THEN conn[c]
                                   ELSE Reused([conn[c] EXCEPT !.mdm = "gone"])]
        /\ mpeers' = {}
        /\ UNCHANGED <<net, rpeers>>
    BY DEF restart_modem
  <1>3. ASSUME NEW c \in Conn, ~Stays(c)
        PROVE  /\ conn'[c] \in Connection /\ conn'[c].router = conn[c].router
               /\ conn[c].rtr = "gone" => conn'[c].rtr = "none" /\ conn'[c].mdm = "none"
               /\ conn[c].rtr # "gone" => conn'[c].rtr = conn[c].rtr /\ conn'[c].mdm = "gone"
    <2>1. conn[c] \in Connection
      BY <1>1 DEF StateOK
    <2>2. conn'[c] = Reused([conn[c] EXCEPT !.mdm = "gone"])
      BY <1>2, <1>3
    <2> QED
      BY <2>1, <2>2, ModemGone
  <1>4. \A c \in Conn : Stays(c) => conn'[c] = conn[c]
    BY <1>2
  <1>5. conn' \in [Conn -> Connection]
    <2>1. \A c \in Conn : conn'[c] \in Connection
      BY <1>1, <1>3, <1>4 DEF StateOK
    <2>2. conn' = [c \in Conn |-> conn'[c]]
      BY <1>2
    <2> QED
      BY <2>1, <2>2
  <1>6. StateOK' /\ ModemMap'
    BY <1>1, <1>2, <1>3, <1>4, <1>5 DEF StateOK, ModemMap
  <1>7. EndsMatch' /\ AllMapped'
    BY <1>1, <1>2, <1>3, <1>4 DEF EndsMatch, AllMapped
  <1>8. OnlyEnds
    BY <1>3, <1>4 DEF OnlyEnds, Free
  <1> QED
    BY <1>2, <1>6, <1>7, <1>8, EndingStep
-----------------------------------------------------------------------------
(***************************************************************************)
(* The theorem.                                                            *)
(***************************************************************************)

\* Every step keeps the invariant.  An end of file for a Peer outside the map
\* does not happen.
LEMMA Inductive ==
  ASSUME patient, IInv, [Next]_vars
  PROVE  IInv'
  <1>1. ASSUME NEW c \in Conn, eof_unmapped(c) PROVE FALSE
    BY <1>1 DEF eof_unmapped, IInv, AllMapped
  <1>2. CASE UNCHANGED vars
    BY <1>2 DEF vars, IInv, StateOK, SignalAlone, SignalMeansMade, Made, Free,
                OfferMeansNoPeer, UnmadeIsAlone, ModemMap, EndsMatch, OneEach,
                AllMapped
  <1>3. CASE Signals
    BY <1>3, SendStep, LoseStep, DiscoveryStep, OfferStep DEF Signals
  <1>4. CASE Connections
    BY <1>4, MakeRouterStep, ConnectFailsStep, MakeModemStep DEF Connections
  <1>5. CASE Ends
    BY <1>1, <1>5, StopRouterStep, StopModemStep, CleanupRouterStep,
       CleanupModemStep, RestartStep DEF Ends
  <1> QED
    BY <1>2, <1>3, <1>4, <1>5 DEF Next

\* The invariant holds initially.
LEMMA Initially == Init => IInv
  BY DEF Init, IInv, StateOK, SignalAlone, SignalMeansMade, Made, Free,
         OfferMeansNoPeer, UnmadeIsAlone, ModemMap, EndsMatch, OneEach,
         AllMapped

\* Whether signals settle does not change.
LEMMA PatientStep ==
  ASSUME [Next]_vars
  PROVE  patient' = patient
  BY DEF Next, vars, Signals, Connections, Ends, start_send, handle_discovery,
         handle_peer_offer, Lose, make_peer_router, connect_fails, make_peer_modem,
         stop_router, stop_modem, eof_unmapped, cleanup_router, cleanup_modem, restart_modem

\* The invariant holds in every behaviour in which signals settle.
LEMMA Invariant == Spec => [](patient => IInv)
  <1>1. Init => (patient => IInv)
    BY Initially
  <1>2. (patient => IInv) /\ [Next]_vars => (patient => IInv)'
    BY Inductive, PatientStep
  <1> QED
    BY <1>1, <1>2, PTL DEF Spec

\* One connection changes to another one.
LEMMA OneChanges ==
  ASSUME conn \in [Conn -> Connection], NEW c \in Conn, NEW x \in Connection,
         conn' = [conn EXCEPT ![c] = x]
  PROVE  conn' \in [Conn -> Connection]
  OBVIOUS

\* Every step keeps the types, whether signals settle or not.
LEMMA TypeStep ==
  ASSUME TypeOK, [Next]_vars
  PROVE  TypeOK'
  <1> USE DEF TypeOK
  <1>1. "alive" \in RouterEnd /\ "terminating" \in RouterEnd
        /\ "alive" \in ModemEnd /\ "terminating" \in ModemEnd
    BY DEF RouterEnd, ModemEnd
  <1>2. ASSUME NEW r \in Router, start_send(r) \/ handle_discovery(r) PROVE TypeOK'
    <2>1. Sig("Peer_Discovery", r) \in Signal /\ Sig("Peer_Offer", r) \in Signal
      BY DEF Sig, Signal
    <2> QED
      BY <1>2, <2>1 DEF start_send, handle_discovery, Remaining
  <1>3. ASSUME NEW r \in Router, handle_peer_offer(r) PROVE TypeOK'
    <2>1. ASSUME NEW c \in Conn,
                 conn' = [conn EXCEPT ![c] = [router |-> r, rtr |-> "connecting",
                                              mdm |-> "none"]]
          PROVE  conn' \in [Conn -> Connection]
      <3>1. [router |-> r, rtr |-> "connecting", mdm |-> "none"] \in Connection
        BY DEF Connection, RouterEnd, ModemEnd
      <3> QED
        BY <2>1, <3>1
    <2> QED
      BY <1>3, <2>1 DEF handle_peer_offer, start_async_connect, Remaining
  <1>4. ASSUME NEW s \in net, Lose(s) PROVE TypeOK'
    BY <1>4 DEF Lose
  <1>5. ASSUME NEW c \in Conn, make_peer_router(c) PROVE TypeOK'
    <2>1. [conn[c] EXCEPT !.rtr = "alive"] \in Connection /\ conn[c].router \in Router
      BY <1>1, RouterEndChanges, ConnectionFields
    <2>2. conn' = [conn EXCEPT ![c] = [conn[c] EXCEPT !.rtr = "alive"]]
      BY <1>5 DEF make_peer_router
    <2> QED
      BY <1>5, <2>1, <2>2 DEF make_peer_router
  <1>6. ASSUME NEW c \in Conn, connect_fails(c) PROVE TypeOK'
    <2>1. Reused([conn[c] EXCEPT !.rtr = "gone", !.mdm = "gone"]) \in Connection
      BY BothGone
    <2> QED
      BY <1>6, <2>1, OneChanges DEF connect_fails
  <1>7. ASSUME NEW c \in Conn, make_peer_modem(c) \/ stop_modem(c) PROVE TypeOK'
    <2>1. /\ [conn[c] EXCEPT !.mdm = "alive"] \in Connection
          /\ [conn[c] EXCEPT !.mdm = "terminating"] \in Connection
      BY <1>1, ModemEndChanges
    <2>2. \/ conn' = [conn EXCEPT ![c] = [conn[c] EXCEPT !.mdm = "alive"]]
          \/ conn' = [conn EXCEPT ![c] = [conn[c] EXCEPT !.mdm = "terminating"]]
      BY <1>7 DEF make_peer_modem, stop_modem
    <2>3. conn' \in [Conn -> Connection]
      BY <2>1, <2>2
    <2> QED
      BY <1>7, <2>3 DEF make_peer_modem, stop_modem
  <1>8. ASSUME NEW c \in Conn, stop_router(c) PROVE TypeOK'
    <2>1. [conn[c] EXCEPT !.rtr = "terminating"] \in Connection
      BY <1>1, RouterEndChanges
    <2>2. conn' = [conn EXCEPT ![c] = [conn[c] EXCEPT !.rtr = "terminating"]]
      BY <1>8 DEF stop_router
    <2> QED
      BY <1>8, <2>1, <2>2 DEF stop_router
  <1>9. ASSUME NEW c \in Conn PROVE Reused([conn[c] EXCEPT !.rtr = "gone"]) \in Connection
    BY RouterGone
  <1>10. ASSUME NEW c \in Conn PROVE Reused([conn[c] EXCEPT !.mdm = "gone"]) \in Connection
    BY ModemGone
  <1>11. ASSUME NEW c \in Conn, eof_unmapped(c) PROVE TypeOK'
    BY <1>9, <1>11, OneChanges DEF eof_unmapped
  <1>12. ASSUME NEW r \in Router, cleanup_router(r) PROVE TypeOK'
    <2>1. rpeers[r] \in Conn
      BY <1>12 DEF cleanup_router
    <2> QED
      BY <1>9, <1>12, <2>1, OneChanges DEF cleanup_router
  <1>13. CASE cleanup_modem
    BY <1>10, <1>13 DEF cleanup_modem
  <1>14. CASE restart_modem
    BY <1>10, <1>14 DEF restart_modem
  <1>15. CASE UNCHANGED vars
    BY <1>15 DEF vars
  <1> QED
    BY <1>2, <1>3, <1>4, <1>5, <1>6, <1>7, <1>8, <1>11, <1>12, <1>13, <1>14, <1>15
       DEF Next, Signals, Connections, Ends

\* Dlep.cpp: the peers maps hold connections of this modem and its routers, and
\* every Peer is in one of its states, even when signals do not settle.
THEOREM TypeCorrect == Spec => []TypeOK
  <1>1. Init => TypeOK
    BY DEF Init, TypeOK
  <1> QED
    BY <1>1, TypeStep, PTL DEF Spec

\* PeerDiscovery.cpp and Dlep.cpp: when a router's signals and connections
\* settle within discovery-interval, the modem never has two Peers for one
\* router.
THEOREM OnePeerForEachRouter == Spec => []OnePeerEach
  <1>1. (patient => IInv) => OnePeerEach
    BY DEF IInv, OneEach, OnePeerEach
  <1> QED
    BY <1>1, Invariant, PTL

\* Dlep.cpp: and no Peer of a router is ever outside its peers map, where
\* neither the client's calls nor the clean-up timer would find it.
THEOREM NoPeerIsLost == Spec => []PeersAreMapped
  <1>1. (patient => IInv) => PeersAreMapped
    BY DEF IInv, AllMapped, PeersAreMapped
  <1> QED
    BY <1>1, Invariant, PTL
=============================================================================
