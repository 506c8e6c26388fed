----------------------------- MODULE DlepSession -----------------------------
(***************************************************************************)
(* A DLEP session: the router's and the modem's Peer objects over one TCP  *)
(* connection, the client threads that call their services, the acktivity  *)
(* timers and the clean-up of terminated peers.                            *)
(*                                                                         *)
(* Every step is one handler or one service call: both take dlep->mutex    *)
(* for as long as they run.  peer[s].out is the TCP stream from s to the   *)
(* other side.                                                             *)
(***************************************************************************)
EXTENDS Peer

CONSTANTS
    Calls,          \* Calls[s]: the service calls that the client of s makes
    ClientStatus,   \* what the clients return from destination_up
    ReplyStatus,    \* the status among the data items of a linkchar_reply
    LoseAcks,       \* ack-probability is below 100
    Eager,          \* clients do not wait for peer_up
    MaxCalls        \* bound: service calls in a behaviour

ServiceCalls == {"destination_up", "destination_down", "destination_update",
                 "peer_update", "linkchar_request", "linkchar_reply", "terminate"}

Side == {"modem", "router"}

ASSUME SessionAssumption ==
    /\ Calls \in [Side -> SUBSET ServiceCalls]
    /\ ClientStatus \subseteq Continue
    /\ ReplyStatus \subseteq {"none", "Success"}
    /\ LoseAcks \in BOOLEAN /\ Eager \in BOOLEAN
    /\ MaxCalls \in Nat

VARIABLES
    peer,       \* peer[s]: the end of side s
    calls       \* service calls so far

vars == <<peer, calls>>

Other(s) == IF s = "modem" THEN "router" ELSE "modem"

Dead(p) == p.pstate \in {"gone", "crashed"}

Env == [status : ClientStatus, ack : IF LoseAcks THEN BOOLEAN ELSE {TRUE},
        empty : BOOLEAN]

Init ==
    /\ calls = 0
    /\ \E local \in [Side -> SUBSET Mac] :
         /\ \A s \in Side : local[s] # {} => "destination_up" \in Calls[s]
         /\ peer = [s \in Side |-> start_peer(s = "modem", local[s])]

\* The bytes of an end whose connection is closed at the other side are lost.
Settled(p, q) == IF Dead(q) THEN [p EXCEPT !.out = <<>>] ELSE p

Becomes(s, p) ==
    peer' = [peer EXCEPT ![s] = Settled(p, peer[Other(s)]),
                         ![Other(s)] = Settled(@, p)]
-----------------------------------------------------------------------------
\* handle_session_receive for one message of the stream.
Receive(s) ==
    LET t == Other(s) IN
    /\ peer[s].reading
    /\ peer[t].out # <<>>
    /\ \E e \in Env :
         LET p == handle_peer_signal(peer[s], Head(peer[t].out), e)
         IN  peer' = [peer EXCEPT ![s] = Settled(p, peer[t]),
                                  ![t] = Settled([@ EXCEPT !.out = Tail(@)], p)]
    /\ UNCHANGED calls

\* The other side closed its socket.  Bytes not yet read may be lost: closing
\* a socket with unread bytes resets the connection.
Eof(s) ==
    /\ peer[s].reading
    /\ Dead(peer[Other(s)])
    /\ peer' = [peer EXCEPT ![s] = Settled(handle_session_eof(@), peer[Other(s)]),
                            ![Other(s)].out = <<>>]
    /\ UNCHANGED calls

\* Dlep::handle_ex_peers_timeout.
Cleanup(s) ==
    /\ peer[s].pstate = "terminating"
    /\ Becomes(s, cleanup_ex_peer(peer[s]))
    /\ UNCHANGED calls
-----------------------------------------------------------------------------
\* A call of the client's thread that takes the end of s to p; calls that
\* only return an error are left out.
Call(s, name, p) ==
    /\ name \in Calls[s]
    /\ ~Dead(peer[s])
    /\ Eager \/ peer[s].up
    /\ calls < MaxCalls
    /\ p # peer[s]
    /\ Becomes(s, p)
    /\ calls' = calls + 1

Client(s) ==
    \/ \E mac \in Mac : Call(s, "destination_up", destination_up(peer[s], mac))
    \/ \E mac \in Mac : Call(s, "destination_down", destination_down(peer[s], mac))
    \/ \E mac \in Mac : Call(s, "destination_update", destination_update(peer[s], mac))
    \/ Call(s, "peer_update", peer_update(peer[s]))
    \/ \E mac \in Mac : Call(s, "linkchar_request", linkchar_request(peer[s], mac))
    \/ \E mac \in peer[s].asked, status \in ReplyStatus, e \in Env :
           Call(s, "linkchar_reply", linkchar_reply(peer[s], mac, status, e.ack))
    \/ Call(s, "terminate", service_terminate(peer[s]))
-----------------------------------------------------------------------------
\* The acktivity timer expires, its handler is queued and later runs.
TimerExpires(s) ==
    /\ peer[s].ack = "armed"
    /\ peer' = [peer EXCEPT ![s].ack = "fired"]
    /\ UNCHANGED calls

handle_acktivity_timeout(s) ==
    /\ peer[s].ack = "fired"
    /\ \/ /\ peer[s].pdp                \* the peer's heartbeat interval is known
          /\ Becomes(s, timeout_inactive(peer[s]))
       \/ \E late \in SUBSET Waiting(peer[s]) :
            Becomes(s, timeout_active(peer[s], late))
    /\ UNCHANGED calls

Prompt(s) == Receive(s) \/ Eof(s) \/ Cleanup(s) \/ Client(s)

Timer(s) == TimerExpires(s) \/ handle_acktivity_timeout(s)

\* No response is ever late: the timers have nothing to do.
PromptNext == \E s \in Side : Prompt(s)
PromptSpec == Init /\ [][PromptNext]_vars

Next == \E s \in Side : Prompt(s) \/ Timer(s)
Spec == Init /\ [][Next]_vars

\* The io_service runs every handler that is ready; the clean-up timer is
\* always set again.
IoFairness ==
    \A s \in Side : WF_vars(Receive(s)) /\ WF_vars(Eof(s)) /\ WF_vars(Cleanup(s))

\* The acktivity timer fires once a second, so a request that is not answered
\* is at some time found to be overdue.
Overdue(s, k) ==
    /\ peer[s].ack = "fired"
    /\ \E late \in SUBSET Waiting(peer[s]) :
         k \in late /\ Becomes(s, timeout_active(peer[s], late))
    /\ UNCHANGED calls

TimerFairness ==
    \A s \in Side : /\ WF_vars(TimerExpires(s))
                    /\ WF_vars(handle_acktivity_timeout(s))
                    /\ \A k \in Key : SF_vars(Overdue(s, k))

FairSpec == Spec /\ IoFairness /\ TimerFairness
-----------------------------------------------------------------------------
\* Every variable has its type.
TypeOK == peer \in [Side -> End] /\ calls \in Nat

\* Peer.h: a peer has one message in flight for each destination, the one at
\* the head of its queue; the others have not been sent.  No message is sent
\* more often than send-tries.
QueueDiscipline ==
    \A s \in Side : \A k \in Key :
        LET queue == peer[s].pend[k] IN
        /\ queue # <<>> => queue[1].tries <= SendTries
        /\ \A i \in 2..Len(queue) : queue[i].tries = 0

\* Messages that stand for the transaction of side s on queue k: its request,
\* the response to it, or the response the other side has put off.
Responses == {ResponseTo(t) : t \in Requests}

InFlight(s, k) ==
    LET requests  == {i \in DOMAIN peer[s].out : /\ peer[s].out[i].mac = k
                                                /\ peer[s].out[i].type \in Requests}
        responses == {i \in DOMAIN peer[Other(s)].out :
                         /\ peer[Other(s)].out[i].mac = k
                         /\ peer[Other(s)].out[i].type \in Responses}
        owed      == {S \in {"needs", "asked"} : k \in peer[Other(s)][S]}
    IN  Cardinality(requests) + Cardinality(responses) + Cardinality(owed)

\* While no response is late or lost, a side has at most one transaction on a
\* destination under way, and then a request that waits for its response.
OneInFlight ==
    \A s \in Side : \A k \in Key :
        /\ InFlight(s, k) <= 1
        /\ InFlight(s, k) = 1 => peer[s].pend[k] # <<>> /\ peer[s].pend[k][1].tries = 1

\* Nothing is under way.
Quiet ==
    \A s \in Side : /\ peer[s].pstate = "in_session"
                    /\ peer[s].out = <<>>
                    /\ Waiting(peer[s]) = {}

\* When nothing is under way, each side knows the destinations that the other
\* one has declared, but for those it is not interested in.
Agreement ==
    Quiet => \A s \in Side : peer[Other(s)].dests = peer[s].local \ peer[s].ni

\* The next message for s withdraws a destination that s has refused.
WithdrawsRefused(s) ==
    LET t == Other(s) IN
    /\ peer[t].out # <<>>
    /\ Head(peer[t].out).type = "Destination_Down"
    /\ Head(peer[t].out).mac \in peer[t].ni

\* Peer.cpp: a side ends the session when its client asks for it; messages of
\* the other side end it only when one of them withdraws a destination that
\* was refused, having waited in the queue behind its declaration.
SessionSurvives ==
    [][\A s \in Side : peer'[s].why # peer[s].why
                          => peer'[s].why = "Success" \/ WithdrawsRefused(s)]_vars

\* No handler follows a null pointer and no exception is left uncaught.
NoCrash == \A s \in Side : peer[s].pstate # "crashed"

\* Peer.h: the message at the head of a queue has been sent.
HeadIsSent ==
    \A s \in Side : \A k \in Key :
        peer[s].pend[k] # <<>> => peer[s].pend[k][1].tries > 0

\* Peer.h: terminate() sends a Session_Termination to the peer.
TerminationIsSent ==
    \A s \in Side : peer[s].pstate = "terminating" =>
        \A i \in DOMAIN peer[s].pend[SessionQueue] :
            LET entry == peer[s].pend[SessionQueue][i]
            IN  entry.msg.type = "Session_Termination" => entry.tries > 0

\* Peer.cpp: after terminate() the peer is in state terminating until the
\* clean-up timer removes it.
TerminatingIsFinal ==
    [][\A s \in Side : peer[s].pstate = "terminating"
                         => peer'[s].pstate \in {"terminating", "gone"}]_vars

\* UserGuide.md: a message is sent send-tries times before giving up, so the
\* session ends only when there are no tries left.
GivesUpAfterSendTries == \A s \in Side : peer[s].why \in {"none", "Success", "Timed_Out"}

\* When one side ends the session, both sides do, whatever is lost or late.
TerminationSpreads ==
    \A s \in Side : peer[s].pstate = "terminating" ~> \A t \in Side : Dead(peer[t])

\* A request is answered in the end, or the session is over: nothing waits
\* for ever.
RequestSettles ==
    \A s \in Side : \A k \in Key :
        peer[s].pend[k] # <<>> ~> (peer[s].pend[k] = <<>> \/ Dead(peer[s]))
=============================================================================
