------------------------------ MODULE TdmaQueue ------------------------------
(***************************************************************************)
(* The downstream queues of the TDMA radio model: Queue and the queues of  *)
(* BasicQueueManager, as operators on their state.                         *)
(*                                                                         *)
(* The bytes of a packet are the numbers below its length.  destQueue_     *)
(* holds the packets of queue_ once more, by destination; every operation  *)
(* changes both, so one sequence stands for them.                          *)
(***************************************************************************)
EXTENDS Integers, Sequences, SequencesExt

CONSTANTS
    MaxQueues,      \* MAX_QUEUES; queue MaxQueues - 1 is served first
    QueueDepth,     \* queue.depth
    Threshold       \* queue.aggregationslotthreshold, per cent

ASSUME QueueAssumption ==
    /\ MaxQueues \in Nat \ {0}
    /\ QueueDepth \in Nat \ {0}
    /\ Threshold \in 0 .. 100

QueueIndex == 0 .. MaxQueues - 1

AnyDestination == "any"

\* queue.aggregationenable, queue.fragmentationenable, queue.strictdequeueenable.
Mode == [aggregate : BOOLEAN, fragment : BOOLEAN, strict : BOOLEAN]

\* A packet and its MetaInfo.  of identifies the packet; cut tells that an
\* empty fragment was made of it.
NewPacket(of, dest) == [of |-> of, dest |-> dest, offset |-> 0, index |-> 0, cut |-> FALSE]

NewQueue == [packets |-> <<>>, counter |-> 0, bytes |-> 0]

Remaining(p) == p.of.len - p.offset

\* The oldest packet that is not being fragmented, or else the oldest one.
Overflow(packets) ==
    LET whole == {i \in DOMAIN packets : packets[i].index = 0}
    IN  IF whole = {} THEN 1 ELSE Min(whole)

\* Variant of enqueue: the queue has no limit.
enqueue_Unbounded(q, p) ==
    [packets |-> Append(q.packets, p), counter |-> q.counter + 1, bytes |-> q.bytes + p.of.len]

\* Variant of enqueue: the whole length of a dropped packet is subtracted.
enqueue_WholeLength(q, p) ==
    LET full  == Len(q.packets) = QueueDepth
        out   == Overflow(q.packets)
        rest  == IF full THEN RemoveAt(q.packets, out) ELSE q.packets
        bytes == IF full THEN q.bytes - q.packets[out].of.len ELSE q.bytes
    IN  [packets |-> Append(rest, p), counter |-> q.counter + 1,
         bytes |-> bytes + p.of.len]

\* The queue after packet p has been put into it.
enqueue(q, p) ==
    LET full  == Len(q.packets) = QueueDepth
        out   == Overflow(q.packets)
        rest  == IF full THEN RemoveAt(q.packets, out) ELSE q.packets
        bytes == IF full THEN q.bytes - Remaining(q.packets[out]) ELSE q.bytes
    IN  [packets |-> Append(rest, p), counter |-> q.counter + 1,
         bytes |-> bytes + p.of.len]
-----------------------------------------------------------------------------
Component(p, index, n) ==
    [of |-> p.of, dest |-> p.dest, index |-> index, offset |-> p.offset, n |-> n,
     more |-> p.offset + n # p.of.len, cut |-> p.cut]

\* MessageComponent::isFragment.
isFragment(c) == c.offset # 0 \/ c.more

\* The next fragment of p, of at most the given number of bytes, and the
\* packet after it.
fragmentPacket(p, bytes) ==
    LET n == Min({bytes, Remaining(p)})
        q == [p EXCEPT !.cut = @ \/ n = 0]
    IN  [component |-> Component(q, p.index, n),
         packet    |-> [q EXCEPT !.offset = @ + n, !.index = @ + 1]]

\* Adds a component to those that a call of dequeue returns.
Gives(s, packets, c) ==
    [s EXCEPT !.packets = packets, !.components = Append(@, c), !.total = @ + c.n]

\* The loop of dequeue; s holds its local variables.
RECURSIVE dequeue_loop(_, _, _, _, _)
dequeue_loop(mode, s, requested, dest, drop) ==
    LET eligible == {i \in DOMAIN s.packets : dest \in {AnyDestination, s.packets[i].dest}}
        i        == Min(eligible)
        p        == s.packets[i]
        room     == requested - s.total
        rest     == RemoveAt(s.packets, i)
        part     == fragmentPacket(p, room)
        whole    == Component(p, p.index, p.of.len)
        sent     == Gives(s, rest, IF p.offset # 0 THEN part.component ELSE whole)
    IN  CASE eligible = {} -> s
          [] eligible # {} /\ Remaining(p) <= room ->
                IF mode.aggregate THEN dequeue_loop(mode, sent, requested, dest, drop)
                ELSE sent
          [] eligible # {} /\ Remaining(p) > room /\ mode.fragment ->
                Gives(s, [s.packets EXCEPT ![i] = part.packet], part.component)
          [] OTHER ->
                IF drop /\ s.components = <<>>
                THEN dequeue_loop(mode, [s EXCEPT !.packets = rest,
                                                  !.bytes = @ - p.of.len,
                                                  !.dropped = @ + 1],
                                  requested, dest, drop)
                ELSE s

\* The queue after a call of dequeue, and what the call returns.
dequeue(mode, q, requested, dest, drop) ==
    LET s == dequeue_loop(mode, [packets |-> q.packets, bytes |-> q.bytes,
                                 components |-> <<>>, total |-> 0, dropped |-> 0],
                          requested, dest, drop)
    IN  [queue      |-> [q EXCEPT !.packets = s.packets, !.bytes = s.bytes - s.total],
         components |-> s.components, total |-> s.total, dropped |-> s.dropped]
-----------------------------------------------------------------------------
\* One queue's share of BasicQueueManager::dequeue: components that have no
\* bytes are not spliced.
Take(mode, m, u, requested, dest, drop) ==
    LET d == dequeue(mode, m.queues[u], requested - m.total, dest, drop)
    IN  [queues     |-> [m.queues EXCEPT ![u] = d.queue],
         components |-> IF d.total > 0 THEN m.components \o d.components ELSE m.components,
         total      |-> m.total + d.total,
         dropped    |-> m.dropped + d.dropped]

\* There is room for components of another queue.
Room(mode, m, requested) ==
    (m.total = 0 \/ mode.aggregate) /\ m.total <= (requested * Threshold) \div 100

\* BasicQueueManager::dequeue for a slot of queue u.
manager_dequeue(mode, queues, u, requested, dest) ==
    LET own == Take(mode, [queues |-> queues, components |-> <<>>, total |-> 0, dropped |-> 0],
                    u, requested, dest, TRUE)
        other(m, v) == IF v # u /\ Room(mode, m, requested)
                       THEN Take(mode, m, v, requested, dest, FALSE) ELSE m
    IN  IF mode.strict THEN own
        ELSE FoldLeft(other, own, [k \in 1 .. MaxQueues |-> MaxQueues - k])
=============================================================================
