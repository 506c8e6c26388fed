------------------------------- MODULE TdmaLink -------------------------------
(***************************************************************************)
(* Two nodes of the TDMA radio model: packets from the transport of one    *)
(* through its queues into the slots of the schedule, and from the slots   *)
(* through the ReceiveManager of the other, which puts fragments together. *)
(*                                                                         *)
(* A message counts only when it is received within its slot.  It is       *)
(* processed when the slot has ended, by a timer or by the arrival of the  *)
(* message of the next slot, whichever comes first.                        *)
(***************************************************************************)
EXTENDS TdmaQueue, FiniteSets, TLC

CONSTANTS
    Modes,          \* the configurations of the queue manager
    Lengths,        \* lengths of packets
    SlotBytes,      \* bytes that fit into a slot, by its data rate
    SlotDests,      \* destinations that the schedule gives to slots
    Tokens,         \* flowcontroltokens
    MaxPackets,     \* bound: packets from the transport
    MaxSlot         \* bound: slots

Receiver == "rx"
Destination == {Receiver, "other"}

ASSUME LinkAssumption ==
    /\ Modes \subseteq Mode
    /\ Lengths \subseteq Nat \ {0} /\ SlotBytes \subseteq Nat \ {0}
    /\ SlotDests \subseteq Destination \cup {AnyDestination}
    /\ Tokens \in Nat \ {0} /\ MaxPackets \in Nat /\ MaxSlot \in Nat

VARIABLES
    mode,           \* configuration, fixed
    queues,         \* the queues of the sender
    tokens,         \* flow control tokens available at the sender
    leaked,         \* packets that were dropped because they are too big
    life,           \* how often the sender has been started
    slot,           \* the current absolute slot, from 1
    sent,           \* the sender has used the current slot
    air,            \* messages of the current slot that have not arrived
    pending,        \* pendingInfo_ and u64PendingAbsoluteSlotIndex_ (0: none)
    timers,         \* slots for whose end process is scheduled
    store,          \* fragmentStore_
    delivered       \* packets sent upstream, in order

sender == <<queues, tokens, leaked>>
receiver == <<pending, timers, store, delivered>>
vars == <<mode, sender, life, slot, sent, air, receiver>>

NoMessage == [slot |-> 0, components |-> <<>>]

Init ==
    /\ mode \in Modes
    /\ queues = [u \in QueueIndex |-> NewQueue]
    /\ tokens = Tokens /\ leaked = 0 /\ life = 1
    /\ slot = 1 /\ sent = FALSE /\ air = {}
    /\ pending = NoMessage /\ timers = {} /\ store = <<>> /\ delivered = <<>>

Queued == SumFunction([u \in QueueIndex |-> Len(queues[u].packets)])
Received == SumFunction([u \in QueueIndex |-> queues[u].counter])
-----------------------------------------------------------------------------
(***************************************************************************)
(* The sender.                                                             *)
(***************************************************************************)

\* FlowControlManager::addToken: the tokens are added all or not at all.
addToken(available, n) == IF available + n <= Tokens THEN available + n ELSE available

\* A packet of the transport; one that finds no token is dropped.
processDownstreamPacket(u, len, dest) ==
    LET of      == [queue |-> u, seq |-> queues[u].counter, life |-> life, len |-> len]
        dropped == IF Len(queues[u].packets) = QueueDepth THEN 1 ELSE 0
    IN  /\ tokens > 0
        /\ Received < MaxPackets
        /\ queues' = [queues EXCEPT ![u] = enqueue(@, NewPacket(of, dest))]
        /\ tokens' = addToken(tokens - 1, dropped)
        /\ UNCHANGED <<mode, leaked, life, slot, sent, air, receiver>>

\* Variant of completedPackets: fragments count as well.
completedPackets_All(components) == Len(components)

completedPackets(components) ==
    Cardinality({i \in DOMAIN components : ~components[i].more})

\* sendDownstreamPacket in a slot for queue u, with room for some bytes.
sendDownstreamPacket(u, bytes, dest) ==
    LET m == manager_dequeue(mode, queues, u, bytes, dest)
    IN  /\ ~sent
        /\ sent' = TRUE
        /\ queues' = m.queues
        /\ leaked' = leaked + m.dropped
        /\ IF m.total > 0
           THEN /\ tokens' = addToken(tokens, completedPackets(m.components))
                /\ air' = {[slot |-> slot, components |-> m.components]}
           ELSE UNCHANGED <<tokens, air>>
        /\ UNCHANGED <<mode, life, slot, receiver>>

\* The slot ends.  A transmit opportunity or a message that has not been
\* dealt with is missed.
SlotEnds ==
    /\ slot < MaxSlot
    /\ slot' = slot + 1 /\ sent' = FALSE /\ air' = {}
    /\ UNCHANGED <<mode, sender, life, receiver>>

\* The emulator of the sender ends and another one starts.
Restart ==
    /\ life = 1
    /\ life' = life + 1
    /\ queues' = [u \in QueueIndex |-> NewQueue]
    /\ tokens' = Tokens /\ leaked' = 0
    /\ UNCHANGED <<mode, slot, sent, air, receiver>>
-----------------------------------------------------------------------------
(***************************************************************************)
(* The receiver.                                                           *)
(***************************************************************************)
\* Variant of Key: the priority is left out.
Key_NoPriority(c) == <<0, c.of.seq>>

\* Source and priority select a queue, which numbers its packets.
Key(c) == <<c.of.queue, c.of.seq>>

Part(c) == c.offset :> [of |-> c.of, n |-> c.n]

Upstream(c, parts) == [of |-> c.of, dest |-> c.dest, parts |-> parts, cut |-> c.cut]

Erase(f, S) == Restrict(f, DOMAIN f \ S)

\* Variant of Fragment: a fragment that is missing goes unnoticed.
Fragment_Gap(r, c) ==
    LET key == Key(c)
        old == IF key \in DOMAIN r.store THEN r.store[key]
               ELSE [indices |-> {}, parts |-> <<>>]
        a   == [indices |-> old.indices \cup {c.index}, parts |-> old.parts @@ Part(c)]
    IN  IF c.more THEN [r EXCEPT !.store = (key :> a) @@ @, !.fresh = @ \cup {key}]
        ELSE [r EXCEPT !.store = Erase(@, {key}),
                       !.delivered = Append(@, Upstream(c, a.parts))]

\* A fragment joins its assembly, where a part is not overwritten.  The last
\* one completes the packet; one that is missing ends the assembly, which
\* only a first fragment begins.
Fragment(r, c) ==
    LET key  == Key(c)
        a    == [indices |-> r.store[key].indices \cup {c.index},
                 parts   |-> r.store[key].parts @@ Part(c)]
        gone == Erase(r.store, {key})
    IN  CASE key \notin DOMAIN r.store ->
                IF c.index # 0 THEN r
                ELSE [r EXCEPT !.store = (key :> [indices |-> {0}, parts |-> Part(c)]) @@ @,
                               !.fresh = @ \cup {key}]
          [] key \in DOMAIN r.store /\ c.index \in r.store[key].indices -> r
          [] OTHER ->
                IF Cardinality(a.indices) # c.index + 1 THEN [r EXCEPT !.store = gone]
                ELSE IF c.more THEN [r EXCEPT !.store[key] = a, !.fresh = @ \cup {key}]
                ELSE [r EXCEPT !.store = gone,
                               !.delivered = Append(@, Upstream(c, a.parts))]

Accept(r, c) ==
    CASE c.dest # Receiver -> r
      [] c.dest = Receiver /\ isFragment(c) -> Fragment(r, c)
      [] OTHER -> [r EXCEPT !.delivered = Append(@, Upstream(c, Part(c)))]

Matches(n) == pending.slot + 1 = n

Outcome(r, stale, p) ==
    [store |-> Erase(r.store, stale), delivered |-> r.delivered, pending |-> p]

\* Variant of process: the message stays pending.
process_Kept(n) ==
    LET before == [store |-> store, delivered |-> delivered, fresh |-> {}]
        after  == IF Matches(n) THEN FoldLeft(Accept, before, pending.components) ELSE before
    IN  {Outcome(after, stale, pending) : stale \in SUBSET (DOMAIN after.store \ after.fresh)}
          \cup (IF Matches(n) THEN {Outcome(before, {}, pending)} ELSE {})

\* The outcomes of process: the message of the slot before n is lost in the
\* noise or its components are accepted, and assemblies that have waited too
\* long are abandoned.
process(n) ==
    LET before == [store |-> store, delivered |-> delivered, fresh |-> {}]
        after  == IF Matches(n) THEN FoldLeft(Accept, before, pending.components) ELSE before
        left   == IF Matches(n) THEN NoMessage ELSE pending
    IN  {Outcome(after, stale, left) : stale \in SUBSET (DOMAIN after.store \ after.fresh)}
          \cup (IF Matches(n) THEN {Outcome(before, {}, NoMessage)} ELSE {})

\* The timer for the end of slot n - 1.
ProcessTimer ==
    \E n \in timers :
        /\ n <= slot
        /\ timers' = timers \ {n}
        /\ \E o \in process(n) :
             store' = o.store /\ delivered' = o.delivered /\ pending' = o.pending
        /\ UNCHANGED <<mode, sender, life, slot, sent, air>>

\* ReceiveManager::enqueue: what is pending from an earlier slot is processed
\* first.
receive_enqueue(m) ==
    /\ \E o \in IF pending.slot # 0 /\ pending.slot < m.slot THEN process(m.slot)
                ELSE {[store |-> store, delivered |-> delivered]} :
         store' = o.store /\ delivered' = o.delivered
    /\ pending' = m

\* The message arrives within its slot.
processUpstreamPacket ==
    \E m \in air :
        /\ receive_enqueue(m)
        /\ timers' = timers \cup {m.slot + 1}
        /\ air' = {}
        /\ UNCHANGED <<mode, sender, life, slot, sent>>
-----------------------------------------------------------------------------
Next ==
    \/ \E u \in QueueIndex, len \in Lengths, dest \in Destination :
           processDownstreamPacket(u, len, dest)
    \/ \E u \in QueueIndex, bytes \in SlotBytes, dest \in SlotDests :
           sendDownstreamPacket(u, bytes, dest)
    \/ SlotEnds
    \/ ProcessTimer
    \/ processUpstreamPacket

Spec == Init /\ [][Next]_vars

\* The same with a sender that may be started anew.
RestartSpec == Init /\ [][Next \/ Restart]_vars
-----------------------------------------------------------------------------
Packets(u) == queues[u].packets

\* Every variable has its type.
TypeOK ==
    /\ mode \in Modes /\ tokens \in 0 .. Tokens /\ leaked \in Nat /\ life \in Nat
    /\ \A u \in QueueIndex :
         /\ Len(Packets(u)) <= QueueDepth
         /\ \A i \in DOMAIN Packets(u) : Remaining(Packets(u)[i]) > 0
    /\ slot \in 1 .. MaxSlot /\ sent \in BOOLEAN
    /\ Cardinality(air) <= 1 /\ pending.slot \in 0 .. slot /\ timers \subseteq 2 .. slot + 1

\* currentBytes_ is what is left of the packets in the queue, whatever was
\* sent in parts, dropped or replaced.
BytesAreExact ==
    \A u \in QueueIndex :
        queues[u].bytes =
            SumFunction([i \in DOMAIN Packets(u) |-> Remaining(Packets(u)[i])])

\* A token is available or stands for a packet in a queue, but for the tokens
\* of packets that were dropped because they are too big.
TokensAreConserved == tokens + Queued + leaked = Tokens

\* The same without the exception: the tokens of dropped packets are replaced.
DroppedTokensAreReplaced == tokens + Queued = Tokens

\* The parts of a packet that is sent upstream are of one packet.
NoMixing ==
    \A i \in DOMAIN delivered : \A o \in DOMAIN delivered[i].parts :
        delivered[i].parts[o].of = delivered[i].of

Bytes(d) == UNION {o .. o + d.parts[o].n - 1 : o \in DOMAIN d.parts}

Complete(d) ==
    /\ Bytes(d) = 0 .. d.of.len - 1
    /\ SumFunction([o \in DOMAIN d.parts |-> d.parts[o].n]) = d.of.len

\* A packet that is sent upstream has all of its bytes, each of them once,
\* whatever is lost, unless it was cut at the end of a slot that was full.
CompleteUnlessCut ==
    \A i \in DOMAIN delivered : Complete(delivered[i]) \/ delivered[i].cut

\* receivemanager.cc: a packet is put together when all of its fragments have
\* been received, so it has all of its bytes.
AllFragmentsReceived == \A i \in DOMAIN delivered : Complete(delivered[i])

\* The packets of a queue for one destination are sent upstream in the order
\* in which they were queued, none of them twice.
InOrder ==
    \A i, j \in DOMAIN delivered :
        /\ i < j
        /\ delivered[i].of.queue = delivered[j].of.queue
        => delivered[i].of.seq < delivered[j].of.seq
=============================================================================
