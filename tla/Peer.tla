-------------------------------- MODULE Peer --------------------------------
(***************************************************************************)
(* One end of a DLEP session (Peer.cpp), with the service calls that act   *)
(* on it (DlepServiceImpl.cpp, InfoBaseMgr.cpp).                           *)
(*                                                                         *)
(* The state of an end is a record; every method of class Peer is an       *)
(* operator that returns the record after the call.  Each runs under       *)
(* dlep->mutex, so whole calls are the steps of module DlepSession.        *)
(*                                                                         *)
(* Metrics and IP addresses are left out: a message is its type, its       *)
(* destination (SessionQueue for a session-level one) and its status.       *)
(***************************************************************************)
EXTENDS Integers, Sequences, FiniteSets

CONSTANTS
    Mac,            \* destinations, as numbers: queues are kept in their order
    SendTries,      \* send-tries
    CreditWindow    \* the credit windowing extension is configured

ASSUME PeerAssumption ==
    /\ Mac \subseteq Nat \ {0} /\ IsFiniteSet(Mac)
    /\ SendTries \in Nat \ {0}
    /\ CreditWindow \in BOOLEAN

\* The queue of session-level messages: the default DlepMac, below all others.
SessionQueue == 0
Key == Mac \cup {SessionQueue}

Requests == {"Session_Initialization", "Session_Update", "Session_Termination",
             "Destination_Up", "Destination_Announce", "Destination_Down",
             "Link_Characteristics_Request"}

\* The response a message expects (the <response> of its <signal>).
ResponseTo(type) ==
    CASE type = "Session_Initialization"       -> "Session_Initialization_Response"
      [] type = "Session_Update"               -> "Session_Update_Response"
      [] type = "Session_Termination"          -> "Session_Termination_Response"
      [] type = "Destination_Up"               -> "Destination_Up_Response"
      [] type = "Destination_Announce"         -> "Destination_Announce_Response"
      [] type = "Destination_Down"             -> "Destination_Down_Response"
      [] type = "Link_Characteristics_Request" -> "Link_Characteristics_Response"
      [] OTHER                                 -> "none"

Types == Requests \cup {ResponseTo(t) : t \in Requests} \cup {"Destination_Update"}

\* The status codes of dlep-rfc-8175.xml that the code uses, by failure mode.
\* A message without a status has "none".
Continue == {"Success", "Not_Interested", "Request_Denied"}
Fatal == {"Unexpected_Message", "Invalid_Data", "Invalid_Destination", "Timed_Out"}
Status == Continue \cup Fatal \cup {"none"}

Message == [type : Types, mac : Key, status : Status]

Msg(type, mac, status) == [type |-> type, mac |-> mac, status |-> status]

\* Variant of Invalid_Message: there is no fallback.
Invalid_Message_Unknown == "Invalid_Message"

\* RFC 8175 has no Invalid_Message: add_status falls back on Invalid_Data.
Invalid_Message == "Invalid_Data"

\* parse_and_validate: the sender may send this type of message, and a
\* message that must have a status has one.
ModemSends == Types \ {"Session_Initialization", "Destination_Announce",
                       "Destination_Up_Response", "Link_Characteristics_Request"}
RouterSends == Types \ {"Session_Initialization_Response", "Destination_Up",
                        "Destination_Announce_Response", "Destination_Update",
                        "Link_Characteristics_Response"}
NeedsStatus == {"Session_Initialization_Response", "Session_Update_Response",
                "Session_Termination", "Destination_Up_Response",
                "Destination_Announce_Response", "Destination_Down_Response",
                "Link_Characteristics_Response"}

Valid(m, fromModem) ==
    /\ m.type \in IF fromModem THEN ModemSends ELSE RouterSends
    /\ m.type \in NeedsStatus => m.status # "none"

Pending == [msg : Message, tries : Nat]

PState == {"connected", "in_session", "terminating", "gone", "crashed"}

End == [modem  : BOOLEAN,           \* dlep->is_modem()
        pstate : PState,            \* gone: closed and erased; crashed: the process died
        pdp    : BOOLEAN,           \* peer_pdp is not null
        dests  : SUBSET Mac,        \* destinations of peer_pdp
        needs  : SUBSET Mac,        \* those with a needs_response
        local  : SUBSET Mac,        \* destinations of dlep->local_pdp
        ni     : SUBSET Mac,        \* not_interested_destinations
        pend   : [Key -> Seq(Pending)],         \* responses_pending
        ack    : {"off", "armed", "fired"},     \* acktivity_timer
        reading: BOOLEAN,           \* a read is set up
        up     : BOOLEAN,           \* the client was told peer_up
        asked  : SUBSET Mac,        \* linkchar_request calls without a reply
        why    : Status,            \* history: status of our own terminate()
        out    : Seq(Message)]      \* written to the socket and not yet read
-----------------------------------------------------------------------------
(***************************************************************************)
(* Sending requests and matching responses.                                *)
(***************************************************************************)
send_session_message(p, m) == [p EXCEPT !.out = Append(@, m)]

is_not_interested(p, mac) == mac \in p.ni

not_interested(p, mac) == [p EXCEPT !.ni = @ \cup {mac}]

send_simple_response(p, m, ack) == IF ack THEN send_session_message(p, m) ELSE p

\* send_message_expecting_response for a message that is at the head of its
\* queue.
send_head(p, k) ==
    IF is_not_interested(p, k) THEN p
    ELSE [send_session_message(p, Head(p.pend[k]).msg)
            EXCEPT !.pend[k][1].tries = @ + 1]

\* Variant of send_message_expecting_response: the message is sent although
\* others are before it.
send_message_expecting_response_AtOnce(p, m) ==
    IF is_not_interested(p, m.mac) THEN p
    ELSE send_session_message(
             [p EXCEPT !.pend[m.mac] = Append(@, [msg |-> m, tries |-> 1])], m)

\* send_message_expecting_response for a new message.
send_message_expecting_response(p, m) ==
    LET queued == [p EXCEPT !.pend[m.mac] = Append(@, [msg |-> m, tries |-> 0])]
    IN  IF is_not_interested(p, m.mac) THEN p
        ELSE IF p.pend[m.mac] = <<>> THEN send_head(queued, m.mac) ELSE queued

\* timer.cancel() does not stop a handler that is already queued to run.
stop_timers(p) == [p EXCEPT !.ack = IF @ = "armed" THEN "off" ELSE @]

set_state_terminating(p) == [p EXCEPT !.pstate = "terminating", !.up = FALSE]

stop_peer(p) == set_state_terminating(stop_timers(p))

terminate(p, status) ==
    IF p.pstate = "terminating" THEN p
    ELSE [send_message_expecting_response(
              stop_peer(p), Msg("Session_Termination", SessionQueue, status))
            EXCEPT !.why = status]

expected(p, m) ==
    /\ p.pend[m.mac] # <<>>
    /\ ResponseTo(Head(p.pend[m.mac]).msg.type) = m.type

handle_response(p, m) ==
    LET popped == [p EXCEPT !.pend[m.mac] = Tail(@)]
    IN  IF ~expected(p, m) THEN terminate(p, "Unexpected_Message")
        ELSE IF popped.pend[m.mac] = <<>> THEN popped
        ELSE send_head(popped, m.mac)

\* An access through a null peer_pdp, or an exception nobody catches.
crash(p) == [p EXCEPT !.pstate = "crashed", !.ack = "off", !.reading = FALSE]
-----------------------------------------------------------------------------
(***************************************************************************)
(* The acktivity timer.                                                    *)
(***************************************************************************)

\* The elements of a finite set of numbers, in order.
Sorted(S) ==
    [i \in 1..Cardinality(S) |->
        CHOOSE x \in S : Cardinality({y \in S : y < x}) = i - 1]

Waiting(p) == {k \in Key : p.pend[k] # <<>>}

\* send_head for the queues of S, in their order.
send_heads(p, S) ==
    LET sent == {k \in S : ~is_not_interested(p, k)}
    IN  [p EXCEPT
           !.pend = [k \in Key |-> IF k \in sent THEN [p.pend[k] EXCEPT ![1].tries = @ + 1]
                                              ELSE p.pend[k]],
           !.out = @ \o [i \in 1..Cardinality(sent) |->
                            Head(p.pend[Sorted(sent)[i]]).msg]]

\* Variant of Exhausted: one try too many.
Exhausted_Late(p, k) == Head(p.pend[k]).tries > SendTries

\* The responses to the heads of the queues in late are overdue.  Queues are
\* looked at in order, up to one that has no tries left.
Exhausted(p, k) == Head(p.pend[k]).tries >= SendTries

check_for_retransmits(p, late) ==
    LET exhausted == {k \in late : Exhausted(p, k)}
        first     == {k \in late : \A x \in exhausted : k < x}
    IN  IF exhausted = {} THEN send_heads(p, late)
        ELSE terminate(send_heads(p, first), "Timed_Out")

\* Variant of rearm: the timer is not set again.
rearm_Never(p) == [p EXCEPT !.ack = "off"]

rearm(p) == [p EXCEPT !.ack = IF p.pstate = "terminating" THEN "off" ELSE "armed"]

\* handle_acktivity_timeout when the peer has been silent for too long, and
\* when it has not.
timeout_inactive(p) == rearm(terminate(p, "Timed_Out"))
timeout_active(p, late) == rearm(check_for_retransmits(p, late))
-----------------------------------------------------------------------------
(***************************************************************************)
(* Messages to the peer.                                                   *)
(***************************************************************************)
UpType(p) == IF p.modem THEN "Destination_Up" ELSE "Destination_Announce"

\* A response that was put off is sent without regard to ack-probability.
peer_destination_up(p, mac) ==
    IF mac \in p.needs
    THEN send_session_message([p EXCEPT !.needs = @ \ {mac}],
                              Msg("Destination_Announce_Response", mac, "Success"))
    ELSE send_message_expecting_response(p, Msg(UpType(p), mac, "none"))

peer_destination_down(p, mac) ==
    send_message_expecting_response(p, Msg("Destination_Down", mac, "none"))

peer_destination_update(p, mac) ==
    IF is_not_interested(p, mac) THEN p
    ELSE send_session_message(p, Msg("Destination_Update", mac, "none"))

\* destination_up for each local destination, in their order; no destination
\* of a peer that has just been added needs a response.
sendAllDestinations(p) ==
    LET wanted == {k \in p.local : ~is_not_interested(p, k)}
        idle   == wanted \ Waiting(p)
        up(k)  == Msg(UpType(p), k, "none")
    IN  [p EXCEPT
           !.pend = [k \in Key |->
                       IF k \in wanted
                       THEN Append(p.pend[k], [msg |-> up(k),
                                               tries |-> IF k \in idle THEN 1 ELSE 0])
                       ELSE p.pend[k]],
           !.out = @ \o [i \in 1..Cardinality(idle) |-> up(Sorted(idle)[i])]]

\* An end when its TCP connection is made (start_peer): the router sends
\* Session_Initialization.
start_peer(modem, local) ==
    LET init == Msg("Session_Initialization", SessionQueue, "none")
    IN  [modem |-> modem, pstate |-> "connected", pdp |-> FALSE,
         dests |-> {}, needs |-> {}, local |-> local, ni |-> {},
         pend |-> [k \in Key |-> IF ~modem /\ k = SessionQueue
                                 THEN <<[msg |-> init, tries |-> 1]>> ELSE <<>>],
         ack |-> "armed", reading |-> TRUE, up |-> FALSE, asked |-> {},
         why |-> "none", out |-> IF modem THEN <<>> ELSE <<init>>]
-----------------------------------------------------------------------------
(***************************************************************************)
(* Messages from the peer.  e is the environment of the handler: e.status  *)
(* is what the client's callback returns, e.ack is false when              *)
(* ack-probability suppresses the response.                                *)
(***************************************************************************)

\* What both ends do once the session is established.
begin_session(p) ==
    sendAllDestinations([p EXCEPT !.pstate = "in_session", !.up = TRUE])

\* Variant of addPeer: peer_pdp is not assigned.
addPeer_Unset(p) == p

addPeer(p) == [p EXCEPT !.pdp = TRUE, !.dests = {}, !.needs = {}]

handle_peer_initialization(p, m, e) ==
    LET response == Msg("Session_Initialization_Response", SessionQueue, "Success")
    IN  begin_session(send_simple_response(addPeer(p), response, e.ack))

handle_peer_initialization_response(p, m, e) ==
    IF expected(p, m) THEN begin_session(addPeer(handle_response(p, m)))
    ELSE handle_response(p, m)

handle_peer_update(p, m, e) ==
    IF p.pdp
    THEN send_simple_response(
             p, Msg("Session_Update_Response", SessionQueue, "Success"), e.ack)
    ELSE crash(p)

handle_peer_update_response(p, m, e) == handle_response(p, m)

handle_peer_termination(p, m, e) ==
    stop_peer(send_simple_response(
        p, Msg("Session_Termination_Response", SessionQueue, "none"), e.ack))

handle_peer_termination_response(p, m, e) ==
    IF p.pstate = "terminating" THEN stop_peer(handle_response(p, m)) ELSE p

\* Also what the router does with a successful Destination_Announce_Response,
\* to which there is no response.
handle_destination_up(p, m, e) ==
    LET known    == m.mac \in p.dests
        status   == IF known THEN Invalid_Message ELSE e.status
        accepted == [p EXCEPT !.ni = @ \ {m.mac},
                              !.dests = IF status = "Success" THEN @ \cup {m.mac} ELSE @]
        q        == IF known THEN p ELSE accepted
    IN  IF ~p.pdp THEN crash(p)
        ELSE IF m.type # "Destination_Up" THEN q
        ELSE send_simple_response(
                 q, Msg("Destination_Up_Response", m.mac, status), e.ack)

\* Destination_Up_Response and Destination_Announce_Response.
handle_destination_up_response(p, m, e) ==
    LET q == handle_response(p, m)
    IN  IF ~expected(p, m) THEN q
        ELSE IF m.status = "Not_Interested" THEN not_interested(q, m.mac)
        ELSE IF m.status # "Success" \/ p.modem THEN q
        ELSE handle_destination_up(q, m, e)

\* The destination is added before the client is asked about it.
handle_destination_announce(p, m, e) ==
    LET response(status) == Msg("Destination_Announce_Response", m.mac, status)
        added == [p EXCEPT !.ni = @ \ {m.mac}, !.dests = @ \cup {m.mac}]
        owing == [added EXCEPT !.needs = @ \cup {m.mac}]
    IN  IF ~p.pdp THEN crash(p)
        ELSE IF m.mac \in p.dests
             THEN send_simple_response(p, response(Invalid_Message), e.ack)
        ELSE IF m.mac \in p.local THEN peer_destination_up(owing, m.mac)
        ELSE IF e.status = "Success" THEN owing
        ELSE send_simple_response(added, response(e.status), e.ack)

\* For a local destination get_credit_request throws when the extension is
\* not configured, and returns false for the messages of this model.
handle_destination_update(p, m, e) ==
    IF ~p.pdp THEN crash(p)
    ELSE IF m.mac \in p.dests THEN p
    ELSE IF m.mac \in p.local /\ ~CreditWindow THEN crash(p)
    ELSE terminate(p, Invalid_Message)

\* Variant of handle_destination_down: the destination is not removed.
handle_destination_down_Kept(p, m, e) ==
    send_simple_response(
        p, Msg("Destination_Down_Response", m.mac, "Success"), e.ack)

handle_destination_down(p, m, e) ==
    LET response == Msg("Destination_Down_Response", m.mac, "Success")
        removed  == [p EXCEPT !.dests = @ \ {m.mac}, !.needs = @ \ {m.mac}]
    IN  IF ~p.pdp THEN crash(p)
        ELSE IF m.mac \in p.dests THEN send_simple_response(removed, response, e.ack)
        ELSE IF m.mac \in p.local
             THEN send_simple_response(not_interested(p, m.mac), response, e.ack)
        ELSE terminate(p, "Invalid_Destination")

handle_destination_down_response(p, m, e) == handle_response(p, m)

\* A request without metrics (e.empty) is answered at once, with no status.
link_characteristics_response(p, mac, status, ack) ==
    send_simple_response(p, Msg("Link_Characteristics_Response", mac, status), ack)

handle_link_characteristics_request(p, m, e) ==
    IF m.mac \notin p.local THEN terminate(p, "Invalid_Destination")
    ELSE IF e.empty THEN link_characteristics_response(p, m.mac, "none", e.ack)
    ELSE [p EXCEPT !.asked = @ \cup {m.mac}]

handle_link_characteristics_response(p, m, e) ==
    LET q == handle_response(p, m)
    IN  IF ~expected(p, m) THEN q
        ELSE IF ~p.pdp THEN crash(q)
        ELSE IF m.mac \in p.dests THEN q
        ELSE terminate(q, "Invalid_Destination")

\* Dispatch by message name.
dispatch(p, m, e) ==
    CASE m.type = "Session_Initialization" -> handle_peer_initialization(p, m, e)
      [] m.type = "Session_Initialization_Response" ->
             handle_peer_initialization_response(p, m, e)
      [] m.type = "Session_Update" -> handle_peer_update(p, m, e)
      [] m.type = "Session_Update_Response" -> handle_peer_update_response(p, m, e)
      [] m.type = "Session_Termination" -> handle_peer_termination(p, m, e)
      [] m.type = "Session_Termination_Response" ->
             handle_peer_termination_response(p, m, e)
      [] m.type = "Destination_Up" -> handle_destination_up(p, m, e)
      [] m.type \in {"Destination_Up_Response", "Destination_Announce_Response"} ->
             handle_destination_up_response(p, m, e)
      [] m.type = "Destination_Announce" -> handle_destination_announce(p, m, e)
      [] m.type = "Destination_Update" -> handle_destination_update(p, m, e)
      [] m.type = "Destination_Down" -> handle_destination_down(p, m, e)
      [] m.type = "Destination_Down_Response" ->
             handle_destination_down_response(p, m, e)
      [] m.type = "Link_Characteristics_Request" ->
             handle_link_characteristics_request(p, m, e)
      [] m.type = "Link_Characteristics_Response" ->
             handle_link_characteristics_response(p, m, e)

\* A status that is fatal is echoed in a termination, except in the two
\* termination messages themselves.
check_status_code_failure(m) ==
    /\ m.type \notin {"Session_Termination", "Session_Termination_Response"}
    /\ m.status \in Fatal

handle_peer_signal(p, m, e) ==
    IF ~Valid(m, ~p.modem) THEN terminate(p, Invalid_Message)
    ELSE IF check_status_code_failure(m) THEN terminate(p, m.status)
    ELSE dispatch(p, m, e)

\* Variant of handle_session_eof: only the reading stops.
handle_session_eof_Ignored(p) == [p EXCEPT !.reading = FALSE]

\* End of file on the session's socket.
handle_session_eof(p) == [stop_peer(p) EXCEPT !.reading = FALSE]
-----------------------------------------------------------------------------
(***************************************************************************)
(* The calls of DlepService, for a service with this one peer.             *)
(***************************************************************************)
\* Variant of destination_up: a destination that exists is declared again.
destination_up_Again(p, mac) ==
    IF ~p.pdp THEN crash(p)
    ELSE peer_destination_up([p EXCEPT !.local = @ \cup {mac}], mac)

destination_up(p, mac) ==
    IF mac \in p.local THEN p                       \* destination_exists
    ELSE IF ~p.pdp THEN crash(p)
    ELSE peer_destination_up([p EXCEPT !.local = @ \cup {mac}], mac)

\* A destination that is not ours goes down at the peer it came from.
destination_down(p, mac) ==
    IF mac \in p.local
    THEN peer_destination_down([p EXCEPT !.local = @ \ {mac}], mac)
    ELSE IF ~p.pdp THEN crash(p)
    ELSE IF mac \in p.dests
         THEN peer_destination_down([p EXCEPT !.dests = @ \ {mac},
                                              !.needs = @ \ {mac}], mac)
    ELSE p                                          \* destination_does_not_exist

destination_update(p, mac) ==
    IF mac \in p.local THEN peer_destination_update(p, mac)
    ELSE IF ~p.pdp THEN crash(p)
    ELSE IF mac \in p.dests THEN peer_destination_update(p, mac)
    ELSE p                                          \* destination_does_not_exist

peer_update(p) ==
    IF p.pstate = "in_session"
    THEN send_message_expecting_response(p, Msg("Session_Update", SessionQueue, "none"))
    ELSE p

linkchar_request(p, mac) ==
    IF ~p.pdp THEN crash(p)
    ELSE IF mac \in p.dests
         THEN send_message_expecting_response(
                  p, Msg("Link_Characteristics_Request", mac, "none"))
    ELSE p                                          \* peer_does_not_exist

linkchar_reply(p, mac, status, ack) ==
    link_characteristics_response([p EXCEPT !.asked = @ \ {mac}], mac, status, ack)

\* DlepService::terminate: after the peers are terminated they are erased,
\* the io_service is stopped and the Dlep object deleted.
service_terminate(p) ==
    [terminate(p, "Success") EXCEPT !.pstate = "gone", !.ack = "off",
                                    !.reading = FALSE]

\* Dlep::cleanup_ex_peers for this peer: its reads are cancelled, the peer is
\* erased and its socket closed.
cleanup_ex_peer(p) == [p EXCEPT !.pstate = "gone", !.ack = "off", !.reading = FALSE]
=============================================================================
