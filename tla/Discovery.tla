------------------------------ MODULE Discovery ------------------------------
(***************************************************************************)
(* How a session comes to be and goes (PeerDiscovery.cpp, Dlep.cpp): the   *)
(* routers multicast Peer_Discovery, the modem answers with a Peer_Offer,  *)
(* a router that gets one connects, and each side puts the new Peer in its *)
(* peers map; a clean-up timer takes terminated Peers out again.           *)
(*                                                                         *)
(* Module DlepSession says what happens inside a session.  Here a Peer is  *)
(* alive from its creation, whether its session is established or not,     *)
(* until it is terminating.  All sessions are of one modem.                *)
(***************************************************************************)
EXTENDS Naturals, FiniteSets

CONSTANTS
    Router,     \* the routers
    Conn,       \* TCP connections: bound on those that exist at one time
    NoConn,     \* not a connection
    Failures    \* bound: routers with an error in sending a signal when not patient

ASSUME DiscoveryAssumption == NoConn \notin Conn /\ Failures \in Nat

VARIABLES
    patient,    \* no signal is duplicated, and a router's signals and
                \* connections settle within discovery-interval (fixed)
    sending,    \* routers whose send_timer is set, or about to be
    net,        \* UDP signals on their way
    conn,       \* conn[c]: the Peer objects at the two ends of c
    rpeers,     \* rpeers[r]: the Peer that router r's peers map has for the modem
    mpeers      \* the Peers in the modem's peers map

vars == <<patient, sending, net, conn, rpeers, mpeers>>

Signal == [type : {"Peer_Discovery", "Peer_Offer"}, router : Router]

\* none: no Peer yet; gone: the Peer is deleted and its socket closed.
RouterEnd == {"none", "connecting", "alive", "terminating", "gone"}
ModemEnd  == {"none", "alive", "terminating", "gone"}

Connection == [router : Router, rtr : RouterEnd, mdm : ModemEnd]

Free(c) == conn[c].rtr = "none" /\ conn[c].mdm = "none"

\* A connection that is closed at both ends may be used again.
Reused(x) == IF x.rtr = "gone" /\ x.mdm = "gone"
             THEN [x EXCEPT !.rtr = "none", !.mdm = "none"] ELSE x

Init ==
    /\ patient \in BOOLEAN
    /\ sending = Router
    /\ net = {}
    /\ conn \in [Conn -> {x \in Connection : x.rtr = "none" /\ x.mdm = "none"}]
    /\ rpeers = [r \in Router |-> NoConn]
    /\ mpeers = {}
-----------------------------------------------------------------------------
(***************************************************************************)
(* Signals.  A datagram may be lost, or arrive more than once.             *)
(***************************************************************************)
Sig(type, r) == [type |-> type, router |-> r]

\* The connections of r are made at both ends, or at neither.
Made(r) ==
    \A c \in Conn : ~Free(c) /\ conn[c].router = r
                    => conn[c].rtr # "connecting" /\ conn[c].mdm # "none"

\* handle_send sets the timer for the next signal, but not after an error: a
\* router whose socket refuses one signal never sends another.
start_send(r) ==
    /\ r \in sending
    /\ patient => Made(r) /\ \A s \in net : s.router # r
    /\ \/ net' = net \cup {Sig("Peer_Discovery", r)} /\ UNCHANGED sending
       \/ /\ patient \/ Cardinality(Router \ sending) < Failures
          /\ sending' = sending \ {r} /\ UNCHANGED net
    /\ UNCHANGED <<patient, conn, rpeers, mpeers>>

Lose(s) ==
    /\ net' = net \ {s}
    /\ UNCHANGED <<patient, sending, conn, rpeers, mpeers>>

\* What is left of net when s has arrived.
Remaining(s) == IF patient THEN {net \ {s}} ELSE {net \ {s}, net}

\* Variant of nonexistent_at_modem: an offer is always made.
nonexistent_at_modem_Always == TRUE

\* The modem looks at the first of its peers only: it offers if it has none.
nonexistent_at_modem == mpeers = {}

handle_discovery(r) ==
    LET s == Sig("Peer_Discovery", r) IN
    /\ s \in net
    /\ \E rest \in Remaining(s) :
         net' = IF nonexistent_at_modem THEN rest \cup {Sig("Peer_Offer", r)} ELSE rest
    /\ UNCHANGED <<patient, sending, conn, rpeers, mpeers>>

\* Variant of nonexistent_at_router: an offer is always taken.
nonexistent_at_router_Always(r) == TRUE

nonexistent_at_router(r) == rpeers[r] = NoConn

\* Variant of start_async_connect: the modem is taken to connect, too.
start_async_connect_Both(r) ==
    \E c \in Conn :
        /\ Free(c)
        /\ conn' = [conn EXCEPT ![c] = [router |-> r, rtr |-> "connecting",
                                        mdm |-> "connecting"]]

start_async_connect(r) ==
    \E c \in Conn :
        /\ Free(c)
        /\ conn' = [conn EXCEPT ![c] = [router |-> r, rtr |-> "connecting", mdm |-> "none"]]

handle_peer_offer(r) ==
    LET s == Sig("Peer_Offer", r) IN
    /\ s \in net
    /\ net' \in Remaining(s)
    /\ IF nonexistent_at_router(r) THEN start_async_connect(r) ELSE UNCHANGED conn
    /\ UNCHANGED <<patient, sending, rpeers, mpeers>>
-----------------------------------------------------------------------------
(***************************************************************************)
(* handle_async_make_peer, the completion of connect and of accept.  The   *)
(* two sides may see it in either order.  All connections of a router have *)
(* the same peer id, the modem's address: the map keeps the last one.      *)
(***************************************************************************)
make_peer_router(c) ==
    /\ conn[c].rtr = "connecting"
    /\ conn' = [conn EXCEPT ![c].rtr = "alive"]
    /\ rpeers' = [rpeers EXCEPT ![conn[c].router] = c]
    /\ UNCHANGED <<patient, sending, net, mpeers>>

connect_fails(c) ==
    /\ conn[c].rtr = "connecting" /\ conn[c].mdm \in {"none", "gone"}
    /\ conn' = [conn EXCEPT ![c] = Reused([@ EXCEPT !.rtr = "gone", !.mdm = "gone"])]
    /\ UNCHANGED <<patient, sending, net, rpeers, mpeers>>

make_peer_modem(c) ==
    /\ conn[c].rtr # "none" /\ conn[c].mdm = "none"
    /\ conn' = [conn EXCEPT ![c].mdm = "alive"]
    /\ mpeers' = mpeers \cup {c}
    /\ UNCHANGED <<patient, sending, net, rpeers>>
-----------------------------------------------------------------------------
(***************************************************************************)
(* The end of a session.                                                   *)
(***************************************************************************)

\* A Peer terminates on its own, because of a Session_Termination, or at the
\* end of file.
stop_router(c) ==
    /\ conn[c].rtr = "alive"
    /\ conn' = [conn EXCEPT ![c].rtr = "terminating"]
    /\ UNCHANGED <<patient, sending, net, rpeers, mpeers>>

stop_modem(c) ==
    /\ conn[c].mdm = "alive"
    /\ conn' = [conn EXCEPT ![c].mdm = "terminating"]
    /\ UNCHANGED <<patient, sending, net, rpeers, mpeers>>

\* Variant of eof_unmapped: the Peer is stopped and something keeps it.
eof_unmapped_Kept(c) ==
    /\ conn[c].rtr = "alive" /\ conn[c].mdm = "gone"
    /\ rpeers[conn[c].router] # c
    /\ conn' = [conn EXCEPT ![c].rtr = "terminating"]
    /\ UNCHANGED <<patient, sending, net, rpeers, mpeers>>

\* The end of file also ends the last read, which is all that keeps a Peer
\* that is not in the map.
eof_unmapped(c) ==
    /\ conn[c].rtr \in {"alive", "terminating"}
    /\ conn[c].mdm = "gone"
    /\ rpeers[conn[c].router] # c
    /\ conn' = [conn EXCEPT ![c] = Reused([@ EXCEPT !.rtr = "gone"])]
    /\ UNCHANGED <<patient, sending, net, rpeers, mpeers>>

cleanup_router(r) ==
    LET c == rpeers[r] IN
    /\ c # NoConn /\ conn[c].rtr = "terminating"
    /\ conn' = [conn EXCEPT ![c] = Reused([@ EXCEPT !.rtr = "gone"])]
    /\ rpeers' = [rpeers EXCEPT ![r] = NoConn]
    /\ UNCHANGED <<patient, sending, net, mpeers>>

\* Variant of cleanup_modem: the Peers are closed and stay in the map.
cleanup_modem_Kept ==
    LET old == {c \in mpeers : conn[c].mdm = "terminating"} IN
    /\ old # {}
    /\ conn' = [c \in Conn |-> IF c \in old THEN Reused([conn[c] EXCEPT !.mdm = "gone"])
                                            ELSE conn[c]]
    /\ UNCHANGED <<patient, sending, net, rpeers, mpeers>>

cleanup_modem ==
    LET old == {c \in mpeers : conn[c].mdm = "terminating"} IN
    /\ old # {}
    /\ conn' = [c \in Conn |-> IF c \in old THEN Reused([conn[c] EXCEPT !.mdm = "gone"])
                                            ELSE conn[c]]
    /\ mpeers' = mpeers \ old
    /\ UNCHANGED <<patient, sending, net, rpeers>>

\* The modem's process ends and is started again: all its sockets are closed.
restart_modem ==
    /\ conn' = [c \in Conn |-> IF conn[c].rtr \in {"none", "connecting"} /\ conn[c].mdm = "none"
                               THEN conn[c] ELSE Reused([conn[c] EXCEPT !.mdm = "gone"])]
    /\ mpeers' = {}
    /\ UNCHANGED <<patient, sending, net, rpeers>>
-----------------------------------------------------------------------------
Signals == \/ \E r \in Router : start_send(r) \/ handle_discovery(r) \/ handle_peer_offer(r)
           \/ \E s \in net : Lose(s)

Connections == \E c \in Conn : make_peer_router(c) \/ connect_fails(c) \/ make_peer_modem(c)

Ends == \/ \E c \in Conn : stop_router(c) \/ stop_modem(c) \/ eof_unmapped(c)
        \/ \E r \in Router : cleanup_router(r)
        \/ cleanup_modem
        \/ restart_modem

Next == Signals \/ Connections \/ Ends

Spec == Init /\ [][Next]_vars

\* A Peer learns, by Session_Termination, end of file or missing heartbeats,
\* that the other one has stopped.
LearnsEnd(c) ==
    \/ conn[c].mdm \in {"terminating", "gone"} /\ stop_router(c)
    \/ conn[c].rtr \in {"terminating", "gone"} /\ stop_modem(c)

\* A timer that is set fires and accepted connections are handled; of the
\* signals and connection attempts that are made again and again, some succeed.
Fairness ==
    /\ WF_vars(cleanup_modem)
    /\ \A r \in Router : /\ WF_vars(start_send(r)) /\ WF_vars(cleanup_router(r))
                         /\ SF_vars(handle_discovery(r)) /\ SF_vars(handle_peer_offer(r))
    /\ \A c \in Conn : /\ WF_vars(make_peer_modem(c) \/ LearnsEnd(c) \/ eof_unmapped(c))
                       /\ SF_vars(make_peer_router(c))

FairSpec == Spec /\ Fairness
-----------------------------------------------------------------------------
\* Every variable has its type.
TypeOK ==
    /\ patient \in BOOLEAN
    /\ sending \subseteq Router
    /\ net \subseteq Signal
    /\ conn \in [Conn -> Connection]
    /\ rpeers \in [Router -> Conn \cup {NoConn}]
    /\ mpeers \subseteq Conn

\* Dlep.cpp: "modems can only have 1 peer (router)", although neither side
\* looks for connections that are still being made.
OnePeer == \A c, d \in mpeers : c = d

\* When signals settle in time, a modem has one Peer for each router at most:
\* the old Peer is removed at both sides before there is a new one.
OnePeerEach ==
    patient => \A c, d \in mpeers : conn[c].router = conn[d].router => c = d

\* And the Peers of a router are in its map, where the client's calls and the
\* clean-up timer find them.
PeersAreMapped ==
    patient => \A c \in Conn : conn[c].rtr \in {"alive", "terminating"}
                                 => rpeers[conn[c].router] = c

\* When all sessions are lost, or there never was one, some router connects
\* (again), whatever restarts, lost signals and failed attempts there are, as
\* long as a single router is left that had no error in sending a signal.
Rediscovery ==
    (patient /\ \A r \in Router : rpeers[r] = NoConn)
        ~> ((\E r \in Router : rpeers[r] # NoConn) \/ sending = {})

\* Peer.cpp: when the Peer at one end terminates, both are removed in the end,
\* even one that the clean-up timer cannot find in the map.
TerminatingIsRemoved ==
    \A c \in Conn :
        (conn[c].rtr = "terminating" \/ conn[c].mdm = "terminating") ~> Free(c)
=============================================================================
