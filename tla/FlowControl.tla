----------------------------- MODULE FlowControl -----------------------------
(***************************************************************************)
(* Flow control between the virtual transport and the radio model          *)
(* (FlowControlClient, FlowControlManager), with the parts of              *)
(* VirtualTransport and of the RF Pipe MAC layer that drive it and a shim  *)
(* layer that may drop packets on the way.                                 *)
(*                                                                         *)
(* The client and the manager each hold a mutex for the whole of a call,   *)
(* and run in threads of their own.  cl.out and mgr.out are the queues of  *)
(* the layers between them (for a transport in another process: sockets).  *)
(* A layer that does not run refuses what it is sent.                      *)
(*                                                                         *)
(* The reader thread of the transport runs from its start on, so it may    *)
(* take tokens before the counts of both ends agree.  The history fields   *)
(* of the client record when that happens; no action depends on them.      *)
(***************************************************************************)
EXTENDS Integers, Sequences, FiniteSets

CONSTANTS
    Tokens,     \* flowcontroltokens
    Depth,      \* packets the MAC can hold: maxQueueSize_ and the pending one
    Width,      \* a std::uint16_t counts modulo Width
    Restarts    \* bound: how often the transport ends and is started anew

ASSUME FlowAssumption ==
    /\ Tokens \in Nat \ {0} /\ Depth \in Nat \ {0}
    /\ Width \in Nat /\ Width > Tokens
    /\ Restarts \in Nat

VARIABLES
    mgr,        \* the FlowControlManager of the MAC layer
    mac,        \* the state of the MAC layer
    held,       \* packets in the downstream queue of the MAC layer
    cl,         \* the virtual transport and its FlowControlClient
    restarts

vars == <<mgr, mac, held, cl, restarts>>

Count == 0 .. Width - 1

Manager == [avail   : Count,            \* u16TokensAvailable_
            total   : Count,            \* u16TotalTokensAvailable_
            shadow  : Count,            \* u16ShadowTokenCount_
            last    : Count,            \* u16LastTokensUpdate_
            pending : BOOLEAN,          \* bAckPending_
            out     : Seq(Count)]       \* control messages to the client

Message == [kind : {"packet", "tokens"}, tokens : Count]

Client == [running : BOOLEAN,
           posted  : BOOLEAN,           \* postStart was called
           use     : {"none", "settled", "early"},  \* history: its first token
           early   : BOOLEAN,           \* history: it or one before it was early
           lost    : BOOLEAN,           \* history: a shim dropped one of its packets
           tokens  : Count,             \* u16TokensAvailable_
           cancel  : BOOLEAN,           \* bCancel_
           reader  : {"idle", "sending", "done"},   \* thread of readDevice
           out     : Seq(Message)]      \* to the MAC layer

NewManager == [avail |-> 0, total |-> 0, shadow |-> 0, last |-> 0,
               pending |-> TRUE, out |-> <<>>]

NewClient == [running |-> FALSE, posted |-> FALSE, use |-> "none", early |-> FALSE,
              lost |-> FALSE, tokens |-> 0, cancel |-> FALSE, reader |-> "idle", out |-> <<>>]

Packet == [kind |-> "packet", tokens |-> 0]
TokensMessage(n) == [kind |-> "tokens", tokens |-> n]

Init ==
    /\ mgr = NewManager
    /\ mac = "configured"
    /\ held = 0
    /\ cl = NewClient
    /\ restarts = 0
-----------------------------------------------------------------------------
(***************************************************************************)
(* The manager.                                                            *)
(***************************************************************************)
\* Variant of sendFlowControlResponseMessage: the total is sent, not what is
\* available.
sendFlowControlResponseMessage_Total(m) ==
    [m EXCEPT !.out = Append(@, m.total), !.shadow = m.total, !.last = m.total,
              !.pending = TRUE]

sendFlowControlResponseMessage(m) ==
    [m EXCEPT !.out = Append(@, m.avail), !.shadow = m.avail, !.last = m.avail,
              !.pending = TRUE]

manager_start(m) ==
    sendFlowControlResponseMessage([m EXCEPT !.total = Tokens, !.avail = Tokens])

manager_stop(m) == [m EXCEPT !.total = 0, !.avail = 0, !.shadow = 0]

\* Variant of addToken: every token is reported to the transport.
addToken_Each(m) ==
    LET added == IF m.avail + 1 <= m.total THEN [m EXCEPT !.avail = @ + 1] ELSE m
    IN  sendFlowControlResponseMessage(added)

\* Variant of addToken: the transport is not told.
addToken_Silent(m) ==
    IF m.avail + 1 <= m.total THEN [m EXCEPT !.avail = @ + 1] ELSE m

addToken(m) ==
    LET added == IF m.avail + 1 <= m.total THEN [m EXCEPT !.avail = @ + 1] ELSE m
    IN  IF added.shadow = 0 /\ added.avail > 0
        THEN sendFlowControlResponseMessage(added) ELSE added

CanRemove(m) == ~m.pending /\ m.avail # 0

\* Variant of removeToken: the shadow count is left alone.
removeToken_NoShadow(m) == [m EXCEPT !.avail = @ - 1]

removeToken(m) == [m EXCEPT !.avail = @ - 1, !.shadow = (@ - 1) % Width]

\* Variant of manager_process: messages other than the answer are ignored.
manager_process_AckOnly(m, n) ==
    IF m.pending /\ n = m.last THEN [m EXCEPT !.pending = FALSE] ELSE m

\* An acknowledgement repeats the token count; any other message means that
\* the transport was started, or missed the count.
manager_process(m, n) ==
    IF m.pending /\ n = m.last THEN [m EXCEPT !.pending = FALSE]
    ELSE sendFlowControlResponseMessage(m)
-----------------------------------------------------------------------------
(***************************************************************************)
(* The MAC layer.                                                          *)
(***************************************************************************)

\* What a manager sends to a transport that does not run is lost.
Manages(m) == mgr' = IF cl.running THEN m ELSE [m EXCEPT !.out = <<>>]

MacStart ==
    /\ mac = "configured"
    /\ mac' = "running"
    /\ Manages(manager_start(mgr))
    /\ UNCHANGED <<held, cl, restarts>>

MacStop ==
    /\ mac = "running"
    /\ mac' = "stopped"
    /\ mgr' = manager_stop(mgr)
    /\ cl' = [cl EXCEPT !.out = <<>>]
    /\ UNCHANGED <<held, restarts>>

Arrives(kind) == mac = "running" /\ cl.out # <<>> /\ Head(cl.out).kind = kind

processDownstreamControl ==
    /\ Arrives("tokens")
    /\ Manages(manager_process(mgr, Head(cl.out).tokens))
    /\ cl' = [cl EXCEPT !.out = Tail(@)]
    /\ UNCHANGED <<mac, held, restarts>>

\* Variant of Enqueued: the queue has no limit.
Enqueued_Unbounded(m) ==
    \/ Manages(m) /\ held' = held + 1
    \/ Manages(addToken(m)) /\ held' = held

\* Variant of Enqueued: the token of a dropped packet is not replaced.
Enqueued_NoReplace(m) ==
    LET depth == IF held = Depth THEN held ELSE held + 1
    IN  \/ Manages(m) /\ held' = depth
        \/ Manages(addToken(m)) /\ held' = depth - 1

\* The packet joins the queue, out of which an overflow drops the oldest one
\* and replaces its token.  When the medium is free the packet that is next
\* is sent at once.
Enqueued(m) ==
    LET full  == held = Depth
        depth == IF full THEN held ELSE held + 1
        m1    == IF full THEN addToken(m) ELSE m
    IN  \/ Manages(m1) /\ held' = depth
        \/ Manages(addToken(m1)) /\ held' = depth - 1

processDownstreamPacket ==
    /\ Arrives("packet")
    /\ IF CanRemove(mgr) THEN Enqueued(removeToken(mgr))
       ELSE UNCHANGED <<mgr, held>>             \* dropped
    /\ cl' = [cl EXCEPT !.out = Tail(@)]
    /\ UNCHANGED <<mac, restarts>>

\* The end of a transmission: the next packet is sent and its token replaced.
\* A handler that is late and calls itself is several of these steps.
handleDownstreamQueueEntry ==
    /\ mac = "running"
    /\ held > 0
    /\ held' = held - 1
    /\ Manages(addToken(mgr))
    /\ UNCHANGED <<mac, cl, restarts>>

\* processDownstreamPacket of a shim layer whose filter rejects the packet.
ShimDrops ==
    /\ Arrives("packet")
    /\ cl' = [cl EXCEPT !.out = Tail(@), !.lost = (cl.use = "settled")]
    /\ UNCHANGED <<mgr, mac, held, restarts>>
-----------------------------------------------------------------------------
(***************************************************************************)
(* The transport.                                                          *)
(***************************************************************************)
Sent(c, m) == IF mac = "running" THEN [c EXCEPT !.out = Append(@, m)] ELSE c

\* Client steps that leave the MAC layer alone.
Transport(c) == cl' = c /\ UNCHANGED <<mgr, mac, held, restarts>>

TransportStart ==
    /\ ~cl.running
    /\ Transport([cl EXCEPT !.running = TRUE])

postStart ==
    /\ cl.running /\ ~cl.posted
    /\ Transport(Sent([cl EXCEPT !.posted = TRUE], TokensMessage(cl.tokens)))

AllPackets(s) == \A i \in DOMAIN s : s[i].kind = "packet"

\* No token count and no answer to one is under way.
Handshaken ==
    /\ cl.posted /\ mac = "running"
    /\ mgr.out = <<>> /\ ~mgr.pending
    /\ AllPackets(cl.out)

OneCount(s) == \E i \in DOMAIN s : \A j \in DOMAIN s : s[j].kind = "tokens" <=> j = i

\* No count is under way but the acknowledgement that the manager waits for.
Agreed ==
    /\ cl.posted /\ mgr.out = <<>>
    /\ IF mgr.pending THEN OneCount(cl.out) ELSE AllPackets(cl.out)

\* The history of a client that takes a token.
Use == IF cl.use # "none" THEN cl.use ELSE IF Agreed THEN "settled" ELSE "early"

\* readDevice takes a token, waiting for one, and sends the packet after it
\* has released the client's mutex.
client_removeToken ==
    /\ cl.running /\ cl.reader = "idle"
    /\ \/ /\ cl.cancel
          /\ Transport([cl EXCEPT !.reader = "done"])
       \/ /\ ~cl.cancel /\ cl.tokens # 0
          /\ Transport([cl EXCEPT !.tokens = @ - 1, !.reader = "sending",
                                  !.use = Use, !.early = @ \/ Use = "early"])

sendDownstreamPacket ==
    /\ cl.reader = "sending"
    /\ Transport(Sent([cl EXCEPT !.reader = "idle"], Packet))

client_processFlowControlMessage ==
    /\ cl.running
    /\ mgr.out # <<>>
    /\ cl' = Sent([cl EXCEPT !.tokens = Head(mgr.out)], TokensMessage(Head(mgr.out)))
    /\ mgr' = [mgr EXCEPT !.out = Tail(@)]
    /\ UNCHANGED <<mac, held, restarts>>

client_stop ==
    /\ cl.running /\ ~cl.cancel
    /\ Transport([cl EXCEPT !.cancel = TRUE])

\* The process of the transport ends, stopped or not, and another one starts.
TransportRestart ==
    /\ cl.running
    /\ restarts < Restarts
    /\ restarts' = restarts + 1
    /\ cl' = [NewClient EXCEPT !.out = cl.out, !.early = cl.early]
    /\ mgr' = [mgr EXCEPT !.out = <<>>]
    /\ UNCHANGED <<mac, held>>
-----------------------------------------------------------------------------
MacNext ==
    \/ MacStart \/ MacStop
    \/ processDownstreamControl \/ processDownstreamPacket
    \/ handleDownstreamQueueEntry \/ ShimDrops

TransportNext ==
    \/ TransportStart \/ postStart
    \/ client_removeToken \/ sendDownstreamPacket
    \/ client_processFlowControlMessage
    \/ client_stop \/ TransportRestart

Next == MacNext \/ TransportNext

Spec == Init /\ [][Next]_vars

\* Every layer's thread works off its queue, the timer of the downstream queue
\* fires, and the reader goes on after it has taken a token.
Fairness ==
    /\ WF_vars(processDownstreamControl)
    /\ WF_vars(processDownstreamPacket)
    /\ WF_vars(handleDownstreamQueueEntry)
    /\ WF_vars(client_processFlowControlMessage)
    /\ WF_vars(sendDownstreamPacket)
    /\ WF_vars(postStart)

FairSpec == Spec /\ Fairness
-----------------------------------------------------------------------------
\* Every variable has its type.
TypeOK ==
    /\ mgr \in Manager /\ cl \in Client
    /\ mac \in {"configured", "running", "stopped"}
    /\ held \in 0 .. Depth /\ restarts \in Nat

\* Packets between the reader and the MAC layer.
InFlight(s) == Cardinality({i \in DOMAIN s : s[i].kind = "packet"})
Taken(c) == IF c.reader = "sending" THEN 1 ELSE 0

Load == held + IF mac = "running" THEN InFlight(cl.out) + Taken(cl) ELSE 0

\* Every token is available or stands for a packet that the MAC layer holds.
TokensAreConserved == mac = "running" => mgr.avail + held = mgr.total

\* No packet is dropped for want of a token: one that arrives at the MAC layer
\* finds the token that the client took for it, and no acknowledgement is due.
\* It needs the client's first token to be taken when the counts agree, whatever
\* the transports before it did.
PacketsFindTokens ==
    cl.use = "settled" /\ Arrives("packet") => CanRemove(mgr)

\* The shadow count is the client's tokens and the packets on their way: it
\* becomes 0 just when the client has nothing left.
ShadowIsExact ==
    mac = "running" /\ cl.use = "settled" /\ ~mgr.pending /\ ~cl.lost
        => mgr.shadow = cl.tokens + InFlight(cl.out) + Taken(cl)

\* The counting of both ends, with the messages between them, is one counting
\* semaphore with Tokens permits, up to the first token that is taken early.
Permits == IF cl.early THEN 0 ELSE Load
Semaphore == INSTANCE Semaphore WITH size <- Tokens, taken <- Permits
IsSemaphore == Semaphore!Spec

Waits == cl.running /\ cl.tokens = 0 /\ cl.reader = "idle" /\ mac = "running"

Served == cl.tokens > 0 \/ cl.cancel \/ ~cl.running \/ mac = "stopped"

\* A transport that waits for a token gets one, unless it took its first one
\* early or a shim drops its packets.
WaitingIsServed == Waits ~> (Served \/ cl.use = "early" \/ cl.lost)

\* flowcontrolclient.h: removeToken blocks until a token is available.  It
\* does not block for ever when the manager has tokens (an early first token
\* left aside).
AvailableIsServed ==
    (Waits /\ mgr.avail > 0) ~> (Served \/ mgr.avail = 0 \/ cl.use = "early")

\* The start-up messages of both ends, in whatever order and number they are
\* sent, lead to one count that both have agreed on, unless a token is taken
\* before.
HandshakeEnds ==
    (cl.posted /\ mac = "running")
        ~> (Handshaken \/ cl.use = "early" \/ ~cl.posted \/ mac = "stopped")
=============================================================================
