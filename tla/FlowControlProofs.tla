-------------------------- MODULE FlowControlProofs --------------------------
(***************************************************************************)
(* Proofs about FlowControl, for every number of tokens, queue depth and   *)
(* number of restarts.                                                     *)
(***************************************************************************)
EXTENDS FlowControl, FiniteSetTheorems, TLAPS

-----------------------------------------------------------------------------
(***************************************************************************)
(* Counting the packets in a queue.                                        *)
(***************************************************************************)
Places(s) == {i \in DOMAIN s : s[i].kind = "packet"}

\* The packets of a queue are finitely many.
LEMMA PlacesFinite ==
    ASSUME NEW s \in Seq(Message)
    PROVE  IsFiniteSet(Places(s)) /\ InFlight(s) \in Nat
<1>1. Places(s) \subseteq 1 .. Len(s)
  BY DEF Places
<1>2. IsFiniteSet(1 .. Len(s))
  BY FS_Interval
<1>3. IsFiniteSet(Places(s))
  BY <1>1, <1>2, FS_Subset
<1> QED
  BY <1>3, FS_CardinalityType DEF InFlight, Places

\* An empty queue holds no packet.
LEMMA InFlightEmpty == InFlight(<<>>) = 0
<1>1. {i \in DOMAIN << >> : << >>[i].kind = "packet"} = {}
  OBVIOUS
<1> QED
  BY <1>1, FS_EmptySet DEF InFlight

\* A message behind the others adds one packet if it is one.
LEMMA InFlightAppend ==
    ASSUME NEW s \in Seq(Message), NEW m \in Message
    PROVE  InFlight(Append(s, m)) = InFlight(s) + IF m.kind = "packet" THEN 1 ELSE 0
<1> DEFINE n == Len(s) + 1
<1>1. Len(s) \in Nat /\ DOMAIN Append(s, m) = 1 .. n /\ DOMAIN s = 1 .. Len(s)
  OBVIOUS
<1>2. Append(s, m)[n] = m /\ \A i \in 1 .. Len(s) : Append(s, m)[i] = s[i]
  OBVIOUS
<1>3. n \notin Places(s)
  BY <1>1 DEF Places
<1>4. CASE m.kind = "packet"
  <2>1. Places(Append(s, m)) = Places(s) \cup {n}
    BY <1>1, <1>2, <1>4 DEF Places
  <2> QED
    BY <2>1, <1>3, <1>4, PlacesFinite, FS_AddElement DEF InFlight, Places
<1>5. CASE m.kind # "packet"
  <2>1. Places(Append(s, m)) = Places(s)
    BY <1>1, <1>2, <1>5 DEF Places
  <2>2. InFlight(Append(s, m)) = InFlight(s)
    BY <2>1 DEF InFlight, Places
  <2> QED
    BY <2>2, <1>5, PlacesFinite
<1> QED
  BY <1>4, <1>5

\* Taking the first message off removes one packet if it is one.
LEMMA InFlightTail ==
    ASSUME NEW s \in Seq(Message), s # <<>>
    PROVE  /\ Tail(s) \in Seq(Message) /\ Head(s) \in Message
           /\ InFlight(s) = InFlight(Tail(s)) + IF Head(s).kind = "packet" THEN 1 ELSE 0
<1>0. Tail(s) \in Seq(Message) /\ Head(s) \in Message /\ Len(s) \in Nat \ {0}
  OBVIOUS
<1>1. DOMAIN s = 1 .. Len(s) /\ DOMAIN Tail(s) = 1 .. (Len(s) - 1) /\ Head(s) = s[1]
  OBVIOUS
<1>2. \A i \in 1 .. (Len(s) - 1) : Tail(s)[i] = s[i + 1]
  OBVIOUS
<1> DEFINE Rest == Places(s) \ {1}
           f == [i \in Places(Tail(s)) |-> i + 1]
<1>3. f \in Bijection(Places(Tail(s)), Rest)
  <2>1. \A i \in Places(Tail(s)) : i \in 1 .. (Len(s) - 1) /\ i + 1 \in Rest
    BY <1>0, <1>1, <1>2 DEF Places
  <2>2. \A j \in Rest : j - 1 \in Places(Tail(s)) /\ j = (j - 1) + 1
    BY <1>0, <1>1, <1>2 DEF Places
  <2>3. f \in [Places(Tail(s)) -> Rest]
    BY <2>1
  <2>4. \A a, b \in Places(Tail(s)) : f[a] = f[b] => a = b
    BY <2>1
  <2>5. \A j \in Rest : \E i \in Places(Tail(s)) : f[i] = j
    BY <2>2
  <2> QED
    BY <2>3, <2>4, <2>5 DEF Bijection, Injection, Surjection, IsInjective
<1>4. ExistsBijection(Places(Tail(s)), Rest)
  BY <1>3 DEF ExistsBijection
<1>5. IsFiniteSet(Places(Tail(s))) /\ IsFiniteSet(Places(s))
  BY <1>0, PlacesFinite
<1>6. Cardinality(Rest) = InFlight(Tail(s))
  BY <1>4, <1>5, FS_Bijection DEF InFlight, Places
<1>7. 1 \in Places(s) <=> Head(s).kind = "packet"
  BY <1>0, <1>1 DEF Places
<1>8. Cardinality(Places(s)) = InFlight(s) /\ InFlight(s) \in Nat /\ InFlight(Tail(s)) \in Nat
  BY <1>0, PlacesFinite DEF InFlight, Places
<1>9. ASSUME Head(s).kind = "packet" PROVE InFlight(s) = InFlight(Tail(s)) + 1
  <2>1. Cardinality(Rest) = Cardinality(Places(s)) - 1
    BY <1>9, <1>5, <1>7, FS_RemoveElement
  <2> QED
    BY <2>1, <1>6, <1>8
<1>10. ASSUME Head(s).kind # "packet" PROVE InFlight(s) = InFlight(Tail(s))
  <2>1. Rest = Places(s)
    BY <1>10, <1>7
  <2> QED
    BY <2>1, <1>6, <1>8
<1> HIDE DEF Rest, f
<1> QED
  BY <1>9, <1>10, <1>0, <1>8

\* A queue without packets holds none.
LEMMA InFlightZero ==
    ASSUME NEW s \in Seq(Message), InFlight(s) = 0, AllPackets(s)
    PROVE  s = <<>>
<1>1. Places(s) = {}
  BY PlacesFinite, FS_EmptySet DEF InFlight, Places
<1>2. DOMAIN s = {}
  BY <1>1 DEF Places, AllPackets
<1> QED
  BY <1>2
-----------------------------------------------------------------------------
(***************************************************************************)
(* The inductive invariant, as a predicate of the parts of a state, so     *)
(* that the steps of the manager within one action can be taken one by     *)
(* one.                                                                    *)
(***************************************************************************)
Spent(c) == c.tokens + InFlight(c.out) + Taken(c)

\* The tokens in use fit in what the manager thinks the client has.
Tight(m, c) == m.shadow <= m.avail /\ InFlight(c.out) + Taken(c) <= m.shadow

\* No message about tokens is under way.
Counting(m, c) ==
    /\ ~m.pending /\ m.out = <<>> /\ AllPackets(c.out)
    /\ Spent(c) <= m.shadow /\ (c.lost \/ Spent(c) = m.shadow)

\* A count is on its way to a client that has nothing left.
Updating(m, c) ==
    /\ m.pending /\ m.shadow > 0 /\ m.out = <<m.last>>
    /\ c.out = <<>> /\ c.tokens = 0 /\ c.reader # "sending"

\* The answer is on its way, ahead of the packets that use the new tokens.
Answering(m, c) ==
    /\ m.pending /\ m.shadow > 0 /\ m.out = <<>>
    /\ c.out # <<>> /\ Head(c.out) = TokensMessage(m.last) /\ AllPackets(Tail(c.out))
    /\ Spent(c) <= m.shadow /\ (c.lost \/ Spent(c) = m.shadow)

Settled(m, c) == Counting(m, c) \/ Updating(m, c) \/ Answering(m, c)

\* The client has sent its count, and its last message tells it.
Starting(m, c) ==
    /\ c.out # <<>> => c.out[Len(c.out)] = TokensMessage(c.tokens)
    /\ c.out = <<>> => m.shadow <= m.avail
    /\ c.out = <<>> /\ m.out = <<>> /\ ~m.pending => c.tokens = m.shadow

HasPacket(s) == \E i \in DOMAIN s : s[i].kind = "packet"
EndsInCount(s) == s # <<>> /\ s[Len(s)].kind = "tokens"
EndsInTwoCounts(s) == EndsInCount(s) /\ Len(s) >= 2 /\ s[Len(s) - 1].kind = "tokens"

\* A client that has not taken a token: the packets of the transports before it
\* are ahead of all that it has sent itself, its request and its answers.
Behind(c) ==
    HasPacket(c.out) => /\ c.posted \/ c.tokens # 0 => EndsInCount(c.out)
                        /\ c.posted /\ c.tokens # 0 => EndsInTwoCounts(c.out)

\* It has the last count that it was sent, or will get it.
Announced(m, c) ==
    /\ m.out # <<>> => m.out[Len(m.out)] = m.last
    /\ m.pending /\ m.out = <<>> /\ c.tokens # 0 => c.tokens = m.last

Running(m, h, c) ==
    /\ m.total = Tokens /\ m.avail + h = Tokens
    /\ m.pending => m.shadow = m.last /\ m.shadow <= m.avail
    /\ ~c.early \/ c.use = "settled" => Tight(m, c)
    /\ c.use = "settled" => Settled(m, c)
    /\ c.use = "none" => Behind(c) /\ Announced(m, c)
    /\ c.posted /\ c.use = "none" => Starting(m, c)

Life(c) ==
    /\ c.posted => c.running
    /\ c.use = "settled" => c.posted
    /\ c.use = "early" => c.early
    /\ c.reader = "sending" => c.use # "none"
    /\ ~c.running => c.tokens = 0 /\ c.use = "none"

Inv(a, m, h, c) ==
    /\ a \in {"configured", "running", "stopped"}
    /\ m \in Manager /\ h \in Nat /\ c \in Client
    /\ Life(c)
    /\ a # "running" => c.out = <<>>
    /\ a = "configured" => m = NewManager /\ h = 0 /\ c.tokens = 0 /\ c.use = "none"
    /\ a = "running" => Running(m, h, c)

IInv == Inv(mac, mgr, held, cl) /\ held <= Depth /\ restarts \in Nat
-----------------------------------------------------------------------------
(***************************************************************************)
(* The operations of the manager.                                          *)
(***************************************************************************)

\* What sending a count changes.
LEMMA SendChanges ==
    ASSUME NEW m \in Manager
    PROVE  LET s == sendFlowControlResponseMessage(m)
           IN  /\ s \in Manager /\ s.avail = m.avail /\ s.total = m.total
               /\ s.shadow = m.avail /\ s.last = m.avail /\ s.pending
               /\ s.out = Append(m.out, m.avail)
<1> DEFINE s == sendFlowControlResponseMessage(m)
<1>1. m.avail \in Count /\ m.out \in Seq(Count)
  BY DEF Manager
<1>2. s.avail = m.avail /\ s.total = m.total /\ s.shadow = m.avail /\ s.last = m.avail
  BY DEF Manager, sendFlowControlResponseMessage
<1>3. s.pending = TRUE /\ s.out = Append(m.out, m.avail)
  BY DEF Manager, sendFlowControlResponseMessage
<1>4. Append(m.out, m.avail) \in Seq(Count)
  BY <1>1
<1>5. s \in Manager
  BY <1>1, <1>4 DEF Manager, sendFlowControlResponseMessage
<1> QED
  BY <1>2, <1>3, <1>5

\* What adding a token changes.
LEMMA AddChanges ==
    ASSUME NEW m \in Manager, m.total = Tokens, m.avail < Tokens
    PROVE  LET s == addToken(m)
           IN  /\ s \in Manager /\ s.avail = m.avail + 1 /\ s.total = m.total
               /\ m.shadow = 0 => /\ s.shadow = m.avail + 1 /\ s.last = m.avail + 1
                                  /\ s.pending
                                  /\ s.out = Append(m.out, m.avail + 1)
               /\ m.shadow # 0 => /\ s.shadow = m.shadow /\ s.last = m.last
                                  /\ s.pending = m.pending /\ s.out = m.out
<1> DEFINE added == [m EXCEPT !.avail = @ + 1]
<1>0. m.avail + 1 \in Count
  BY FlowAssumption DEF Manager, Count
<1>1. /\ added \in Manager /\ added.avail = m.avail + 1 /\ added.total = m.total
      /\ added.shadow = m.shadow /\ added.last = m.last
      /\ added.pending = m.pending /\ added.out = m.out
  <2>1. added \in Manager
    BY <1>0 DEF Manager
  <2>2. added.avail = m.avail + 1 /\ added.total = m.total /\ added.shadow = m.shadow
    BY DEF Manager
  <2>3. added.last = m.last /\ added.pending = m.pending /\ added.out = m.out
    BY DEF Manager
  <2> QED
    BY <2>1, <2>2, <2>3
<1>2. m.avail + 1 <= m.total /\ added.avail > 0
  BY <1>1 DEF Manager, Count
<1>3. addToken(m) = IF added.shadow = 0 THEN sendFlowControlResponseMessage(added) ELSE added
  BY <1>2 DEF addToken
<1> HIDE DEF added
<1>4. CASE m.shadow = 0
  BY <1>1, <1>3, <1>4, SendChanges
<1>5. CASE m.shadow # 0
  BY <1>1, <1>3, <1>5
<1> QED
  BY <1>4, <1>5

\* What removing a token changes: the shadow count wraps around at 0.
LEMMA RemoveChanges ==
    ASSUME NEW m \in Manager, CanRemove(m)
    PROVE  LET s == removeToken(m)
           IN  /\ s \in Manager /\ s.avail = m.avail - 1 /\ s.total = m.total
               /\ m.shadow > 0 => s.shadow = m.shadow - 1
               /\ s.last = m.last /\ s.pending = m.pending /\ s.out = m.out
<1>1. m.avail \in 1 .. Width - 1 /\ m.shadow \in 0 .. Width - 1
  BY DEF Manager, Count, CanRemove
<1>2. m.shadow > 0 => (m.shadow - 1) % Width = m.shadow - 1
  BY <1>1, FlowAssumption
<1>3. m.avail - 1 \in Count /\ (m.shadow - 1) % Width \in Count
  BY <1>1, FlowAssumption DEF Count
<1> DEFINE k == (m.shadow - 1) % Width
<1>4. removeToken(m) = [m EXCEPT !.avail = m.avail - 1, !.shadow = k]
  BY DEF removeToken, Manager
<1> HIDE DEF k
<1>5. removeToken(m) \in Manager
  BY <1>3, <1>4 DEF Manager, k
<1>6. removeToken(m).avail = m.avail - 1 /\ removeToken(m).total = m.total
      /\ removeToken(m).shadow = k
  BY <1>4 DEF Manager
<1>7. removeToken(m).last = m.last /\ removeToken(m).pending = m.pending
      /\ removeToken(m).out = m.out
  BY <1>4 DEF Manager
<1> QED
  BY <1>2, <1>5, <1>6, <1>7 DEF k

\* What accepting an answer changes.
LEMMA AcceptChanges ==
    ASSUME NEW m \in Manager
    PROVE  LET s == [m EXCEPT !.pending = FALSE]
           IN  /\ s \in Manager /\ s.avail = m.avail /\ s.total = m.total
               /\ s.shadow = m.shadow /\ s.last = m.last
               /\ ~s.pending /\ s.out = m.out
<1> DEFINE s == [m EXCEPT !.pending = FALSE]
<1>1. s \in Manager
  BY DEF Manager
<1>2. s.avail = m.avail /\ s.total = m.total /\ s.shadow = m.shadow /\ s.last = m.last
  BY DEF Manager
<1>3. s.pending = FALSE /\ s.out = m.out
  BY DEF Manager
<1> QED
  BY <1>1, <1>2, <1>3

\* What the queue to the client changes.
LEMMA ManagerOutChanges ==
    ASSUME NEW m \in Manager, NEW q \in Seq(Count)
    PROVE  LET s == [m EXCEPT !.out = q]
           IN  /\ s \in Manager /\ s.avail = m.avail /\ s.total = m.total
               /\ s.shadow = m.shadow /\ s.last = m.last
               /\ s.pending = m.pending /\ s.out = q
<1> DEFINE s == [m EXCEPT !.out = q]
<1>1. s \in Manager
  BY DEF Manager
<1>2. s.avail = m.avail /\ s.total = m.total /\ s.shadow = m.shadow /\ s.last = m.last
  BY DEF Manager
<1>3. s.pending = m.pending /\ s.out = q
  BY DEF Manager
<1> QED
  BY <1>1, <1>2, <1>3

\* What the queue to the MAC layer changes.
LEMMA ClientOutChanges ==
    ASSUME NEW c \in Client, NEW q \in Seq(Message)
    PROVE  LET d == [c EXCEPT !.out = q]
           IN  /\ d \in Client /\ d.running = c.running /\ d.posted = c.posted
               /\ d.use = c.use /\ d.early = c.early /\ d.lost = c.lost /\ d.tokens = c.tokens
               /\ d.cancel = c.cancel /\ d.reader = c.reader /\ d.out = q
<1> DEFINE d == [c EXCEPT !.out = q]
<1>1. d \in Client
  BY DEF Client
<1>2. d.running = c.running /\ d.posted = c.posted /\ d.use = c.use /\ d.early = c.early
  BY DEF Client
<1>3. d.lost = c.lost /\ d.tokens = c.tokens /\ d.cancel = c.cancel /\ d.reader = c.reader
  BY DEF Client
<1>4. d.out = q
  BY DEF Client
<1> QED
  BY <1>1, <1>2, <1>3, <1>4
-----------------------------------------------------------------------------
(***************************************************************************)
(* Queues.                                                                 *)
(***************************************************************************)

\* The last message stays the last one when the first is taken off.
LEMMA LastOfTail ==
    ASSUME NEW s \in Seq(Message), s # <<>>
    PROVE  /\ Tail(s) # <<>> => Tail(s)[Len(Tail(s))] = s[Len(s)]
           /\ Tail(s) = <<>> => s[Len(s)] = Head(s)
OBVIOUS

\* The message sent last is the last one.
LEMMA LastOfAppend ==
    ASSUME NEW s \in Seq(Message), NEW m \in Message
    PROVE  /\ Append(s, m) # <<>> /\ Append(s, m) \in Seq(Message)
           /\ Append(s, m)[Len(Append(s, m))] = m
OBVIOUS

\* A message sent into an empty queue.
LEMMA OnlyMessage ==
    ASSUME NEW m \in Message
    PROVE  /\ Append(<<>>, m) # <<>>
           /\ Head(Append(<<>>, m)) = m /\ Tail(Append(<<>>, m)) = <<>>
OBVIOUS

\* Packets stay packets when the first is taken off.
LEMMA PacketsTail ==
    ASSUME NEW s \in Seq(Message), s # <<>>, AllPackets(s)
    PROVE  AllPackets(Tail(s)) /\ Head(s).kind = "packet"
BY DEF AllPackets

\* A packet behind packets.
LEMMA PacketsAppend ==
    ASSUME NEW s \in Seq(Message), AllPackets(s)
    PROVE  AllPackets(Append(s, Packet))
BY DEF AllPackets, Packet

\* Counts and packets are messages.
LEMMA MessageKinds ==
    /\ Packet \in Message /\ Packet.kind = "packet"
    /\ \A n \in Count : TokensMessage(n) \in Message /\ TokensMessage(n).kind = "tokens"
                        /\ TokensMessage(n).tokens = n
BY FlowAssumption DEF Packet, TokensMessage, Message, Count

\* The last count stays the last one when the first is taken off.
LEMMA LastCountOfTail ==
    ASSUME NEW s \in Seq(Count), s # <<>>
    PROVE  /\ Tail(s) # <<>> => Tail(s)[Len(Tail(s))] = s[Len(s)]
           /\ Tail(s) = <<>> => s[Len(s)] = Head(s)
OBVIOUS

\* The count sent last is the last one.
LEMMA LastCountOfAppend ==
    ASSUME NEW s \in Seq(Count), NEW n \in Count
    PROVE  /\ Append(s, n) # <<>>
           /\ Append(s, n)[Len(Append(s, n))] = n
OBVIOUS

\* The first message of a queue with a single one is its last.
LEMMA SingleMessage ==
    ASSUME NEW s \in Seq(Message), Len(s) = 1
    PROVE  s # <<>> /\ Head(s) = s[Len(s)] /\ Tail(s) = <<>>
<1>1. s # <<>>
  OBVIOUS
<1>2. Len(Tail(s)) = 0 /\ Tail(s) \in Seq(Message)
  BY <1>1
<1>3. ASSUME NEW q \in Seq(Message), Len(q) = 0 PROVE q = <<>>
  BY <1>3
<1>4. Tail(s) = <<>>
  BY ONLY <1>2, <1>3
<1> QED
  BY <1>1, <1>4, LastOfTail

\* The places of a queue without its first message.
LEMMA PlacesOfTail ==
    ASSUME NEW s \in Seq(Message), s # <<>>, HasPacket(Tail(s))
    PROVE  \E k \in Nat, i \in Nat :
              /\ Len(s) = k /\ Len(Tail(s)) = k - 1
              /\ 1 <= i /\ i < k /\ s[i + 1].kind = "packet" /\ i + 1 \in DOMAIN s
              /\ \A j \in Nat : 1 <= j /\ j < k => Tail(s)[j] = s[j + 1]
<1>1. /\ Len(s) \in Nat \ {0} /\ Len(Tail(s)) = Len(s) - 1
      /\ DOMAIN s = 1 .. Len(s) /\ DOMAIN Tail(s) = 1 .. (Len(s) - 1)
      /\ \A i \in 1 .. (Len(s) - 1) : Tail(s)[i] = s[i + 1]
  OBVIOUS
<1>2. PICK i \in 1 .. (Len(s) - 1) : s[i + 1].kind = "packet"
  BY <1>1 DEF HasPacket
<1>3. PICK k \in Nat \ {0} : k = Len(s)
  BY <1>1
<1>4. i \in Nat /\ 1 <= i /\ i < k /\ i + 1 \in 1 .. k
  BY <1>3
<1>5. \A j \in Nat : 1 <= j /\ j < k => j \in 1 .. (k - 1)
  BY <1>3
<1>6. \A j \in Nat : 1 <= j /\ j < k => Tail(s)[j] = s[j + 1]
  BY <1>1, <1>3, <1>5
<1> QED
  BY <1>1, <1>2, <1>3, <1>4, <1>6

\* The end of a queue stays the same when a message ahead of a packet is taken off.
LEMMA EndsOfTail ==
    ASSUME NEW s \in Seq(Message), s # <<>>, HasPacket(Tail(s))
    PROVE  /\ HasPacket(s)
           /\ EndsInCount(s) => EndsInCount(Tail(s))
           /\ EndsInTwoCounts(s) => EndsInTwoCounts(Tail(s))
<1>1. PICK k \in Nat, i \in Nat :
              /\ Len(s) = k /\ Len(Tail(s)) = k - 1
              /\ 1 <= i /\ i < k /\ s[i + 1].kind = "packet" /\ i + 1 \in DOMAIN s
              /\ \A j \in Nat : 1 <= j /\ j < k => Tail(s)[j] = s[j + 1]
  BY PlacesOfTail
<1>2. HasPacket(s)
  BY <1>1 DEF HasPacket
<1>3. k - 1 \in Nat /\ 1 <= k - 1 /\ k - 1 < k /\ (k - 1) + 1 = k
  BY <1>1
<1>4. Tail(s) # <<>> /\ Tail(s)[Len(Tail(s))] = s[Len(s)]
  <2>1. Tail(s)[k - 1] = s[k]
    BY <1>1, <1>3
  <2>2. Len(Tail(s)) # 0
    BY <1>1, <1>3
  <2>3. Len(<<>>) = 0
    OBVIOUS
  <2> QED
    BY <2>1, <2>2, <2>3, <1>1
<1>5. ASSUME EndsInTwoCounts(s) PROVE EndsInTwoCounts(Tail(s))
  <2>1. s[k].kind = "tokens" /\ s[k - 1].kind = "tokens"
    BY <1>1, <1>5 DEF EndsInTwoCounts, EndsInCount
  <2>2. i + 1 # k /\ i + 1 # k - 1
    BY <1>1, <2>1
  <2>3. k >= 3
    BY <1>1, <2>2
  <2>4. k - 2 \in Nat /\ 1 <= k - 2 /\ k - 2 < k /\ (k - 2) + 1 = k - 1
        /\ (k - 1) - 1 = k - 2 /\ k - 1 >= 2
    BY <2>3
  <2>5. Tail(s)[k - 2] = s[k - 1]
    BY <1>1, <2>4
  <2>6. Tail(s)[Len(Tail(s)) - 1] = s[k - 1] /\ Len(Tail(s)) >= 2
    BY <1>1, <2>4, <2>5
  <2> QED
    BY <1>4, <1>5, <2>1, <2>6 DEF EndsInTwoCounts, EndsInCount
<1> QED
  BY <1>2, <1>4, <1>5 DEF EndsInCount

\* A count behind the others.
LEMMA EndsOfAppend ==
    ASSUME NEW s \in Seq(Message), NEW n \in Message, n.kind = "tokens"
    PROVE  /\ EndsInCount(Append(s, n))
           /\ EndsInCount(s) => EndsInTwoCounts(Append(s, n))
           /\ HasPacket(Append(s, n)) => HasPacket(s)
<1> DEFINE t == Append(s, n)
<1>1. /\ Len(s) \in Nat /\ Len(t) = Len(s) + 1 /\ t # <<>> /\ t[Len(s) + 1] = n
      /\ DOMAIN s = 1 .. Len(s) /\ DOMAIN t = 1 .. (Len(s) + 1)
      /\ \A i \in 1 .. Len(s) : t[i] = s[i]
  OBVIOUS
<1> HIDE DEF t
<1>2. EndsInCount(t)
  BY <1>1 DEF EndsInCount
<1>3. ASSUME EndsInCount(s) PROVE EndsInTwoCounts(t)
  <2>1. Len(s) \in 1 .. Len(s)
    BY <1>1, <1>3 DEF EndsInCount
  <2>2. t[Len(t) - 1] = s[Len(s)] /\ Len(t) >= 2
    BY <1>1, <2>1
  <2> QED
    BY <1>2, <1>3, <2>2 DEF EndsInCount, EndsInTwoCounts
<1>4. ASSUME HasPacket(t) PROVE HasPacket(s)
  <2>1. PICK i \in 1 .. (Len(s) + 1) : t[i].kind = "packet"
    BY <1>1, <1>4 DEF HasPacket
  <2>2. i \in 1 .. Len(s)
    BY <1>1, <2>1
  <2> QED
    BY <1>1, <2>1, <2>2 DEF HasPacket
<1> QED
  BY <1>2, <1>3, <1>4 DEF t

\* The only count in a queue whose packets are ahead of two counts.
LEMMA OnlyCount ==
    ASSUME NEW s \in Seq(Message), OneCount(s), HasPacket(s) => EndsInTwoCounts(s)
    PROVE  Len(s) = 1 /\ ~HasPacket(s)
<1>1. /\ Len(s) \in Nat /\ DOMAIN s = 1 .. Len(s)
      /\ \A j \in DOMAIN s : s[j].kind \in {"packet", "tokens"}
  <2>1. Len(s) \in Nat /\ DOMAIN s = 1 .. Len(s)
    OBVIOUS
  <2>2. \A j \in DOMAIN s : s[j] \in Message
    OBVIOUS
  <2> QED
    BY <2>1, <2>2 DEF Message
<1>2. PICK i \in DOMAIN s : \A j \in DOMAIN s : s[j].kind = "tokens" <=> j = i
  BY DEF OneCount
<1>3. ~EndsInTwoCounts(s)
  <2> SUFFICES ASSUME EndsInTwoCounts(s) PROVE FALSE
    OBVIOUS
  <2>0. Len(s) >= 2
    BY DEF EndsInTwoCounts
  <2>1. Len(s) \in DOMAIN s /\ Len(s) - 1 \in DOMAIN s /\ Len(s) # Len(s) - 1
    <3>1. PICK k \in Nat : k = Len(s)
      BY <1>1
    <3>2. k \in 1 .. k /\ k - 1 \in 1 .. k /\ k # k - 1
      BY <3>1, <2>0
    <3> QED
      BY <1>1, <3>1, <3>2
  <2>2. Len(s) = i /\ Len(s) - 1 = i
    BY <1>2, <2>1 DEF EndsInTwoCounts, EndsInCount
  <2> QED
    BY <2>1, <2>2
<1>4. ~HasPacket(s)
  BY <1>3
<1>5. \A j \in DOMAIN s : j = i
  BY <1>1, <1>2, <1>4 DEF HasPacket
<1>6. 1 \in DOMAIN s /\ Len(s) \in DOMAIN s
  BY <1>1, <1>2
<1> QED
  BY <1>4, <1>5, <1>6

\* A queue without packets carries none.
LEMMA NoPacket ==
    ASSUME NEW s \in Seq(Message), ~HasPacket(s)
    PROVE  InFlight(s) = 0
<1>1. Places(s) = {}
  BY DEF Places, HasPacket
<1> QED
  BY <1>1, FS_EmptySet DEF InFlight, Places
-----------------------------------------------------------------------------
(***************************************************************************)
(* The steps of the manager keep the invariant.                            *)
(***************************************************************************)

\* The counts of a client are numbers.
LEMMA CountsOfClient ==
    ASSUME NEW c \in Client
    PROVE  /\ c.tokens \in Nat /\ c.out \in Seq(Message) /\ InFlight(c.out) \in Nat
           /\ Taken(c) \in {0, 1} /\ Spent(c) = c.tokens + InFlight(c.out) + Taken(c)
           /\ Spent(c) \in Nat
<1>1. c.tokens \in Nat /\ c.out \in Seq(Message)
  BY FlowAssumption DEF Client, Count
<1>2. InFlight(c.out) \in Nat /\ Taken(c) \in {0, 1}
  BY <1>1, PlacesFinite DEF Taken
<1> QED
  BY <1>1, <1>2 DEF Spent

\* The counts of a manager are numbers.
LEMMA CountsOfManager ==
    ASSUME NEW m \in Manager
    PROVE  /\ m.avail \in Nat /\ m.total \in Nat /\ m.shadow \in Nat /\ m.last \in Nat
           /\ m.avail \in Count /\ m.last \in Count /\ m.shadow \in Count
           /\ m.pending \in BOOLEAN /\ m.out \in Seq(Count)
BY FlowAssumption DEF Manager, Count

\* A client that is what it was but for its first message.
LEMMA BehindTail ==
    ASSUME NEW c \in Client, NEW d, c.out # <<>>, Behind(c),
           d.posted = c.posted, d.tokens = c.tokens, d.out = Tail(c.out)
    PROVE  Behind(d)
<1>1. c.out \in Seq(Message)
  BY CountsOfClient
<1> QED
  BY <1>1, EndsOfTail DEF Behind

\* A count behind what the client has sent so far.
LEMMA BehindAppend ==
    ASSUME NEW c \in Client, NEW d, NEW n \in Message, n.kind = "tokens", Behind(c),
           d.out = Append(c.out, n), d.posted /\ d.tokens # 0 => c.posted \/ c.tokens # 0
    PROVE  Behind(d)
<1>1. c.out \in Seq(Message)
  BY CountsOfClient
<1> QED
  BY <1>1, EndsOfAppend DEF Behind

\* A token added for a packet that leaves the MAC layer.
LEMMA AddKeeps ==
    ASSUME NEW m, NEW h, NEW c, Inv("running", m, h, c), h > 0
    PROVE  Inv("running", addToken(m), h - 1, c)
<1> DEFINE s == addToken(m)
<1>0. m \in Manager /\ h \in Nat /\ c \in Client /\ Life(c) /\ Running(m, h, c)
  BY DEF Inv
<1>1. m.total = Tokens /\ m.avail + h = Tokens /\ m.avail < Tokens /\ h - 1 \in Nat
  BY <1>0, CountsOfManager, FlowAssumption DEF Running
<1>2. s \in Manager /\ s.avail = m.avail + 1 /\ s.total = Tokens
  BY <1>0, <1>1, AddChanges
<1>3. s.avail + (h - 1) = Tokens
  BY <1>0, <1>1, <1>2, CountsOfManager
<1>4. CASE m.shadow = 0
  <2>1. /\ s.shadow = m.avail + 1 /\ s.last = m.avail + 1 /\ s.pending
        /\ s.out = Append(m.out, m.avail + 1)
    BY <1>0, <1>1, <1>4, AddChanges
  <2> HIDE DEF s
  <2>2. Tight(m, c) => InFlight(c.out) = 0 /\ Taken(c) = 0
    BY <1>0, <1>4, CountsOfClient DEF Tight
  <2>3. ASSUME c.use = "settled" PROVE Settled(s, c)
    <3>1. Counting(m, c)
      BY <1>0, <1>4, <2>3 DEF Running, Settled, Updating, Answering
    <3>2. Spent(c) = 0 /\ c.tokens = 0 /\ InFlight(c.out) = 0 /\ Taken(c) = 0
      BY <3>1, <1>0, <1>4, CountsOfClient DEF Counting
    <3>3. c.out = <<>> /\ m.out = <<>>
      BY <3>1, <3>2, <1>0, InFlightZero, CountsOfClient DEF Counting
    <3>4. c.reader # "sending"
      BY <3>2 DEF Taken
    <3>5. s.out = <<s.last>> /\ s.shadow > 0
      BY <2>1, <3>3, <1>0, CountsOfManager
    <3> QED
      BY <2>1, <3>2, <3>3, <3>4, <3>5 DEF Settled, Updating
  <2>5. s.shadow <= s.avail /\ 0 <= s.shadow /\ s.shadow = s.last
    BY <2>1, <1>2, <1>0, CountsOfManager
  <2>4. Starting(m, c) => Starting(s, c)
    BY <2>1, <2>5 DEF Starting
  <2>6. Announced(s, c)
    <3>0. m.out \in Seq(Count) /\ m.avail + 1 \in Count
      BY <2>1, <1>0, <1>2, CountsOfManager
    <3>1. s.out # <<>> /\ s.out[Len(s.out)] = m.avail + 1
      BY <2>1, <3>0, LastCountOfAppend
    <3> QED
      BY <3>1, <2>1 DEF Announced
  <2>7. Tight(m, c) => Tight(s, c)
    BY <2>2, <2>5 DEF Tight
  <2>8. Running(s, h - 1, c)
    BY <1>0, <1>2, <1>3, <2>1, <2>3, <2>4, <2>5, <2>6, <2>7 DEF Running
  <2> QED
    BY <2>8, <1>0, <1>1, <1>2 DEF Inv, s
<1>5. CASE m.shadow # 0
  <2>1. /\ s.shadow = m.shadow /\ s.last = m.last
        /\ s.pending = m.pending /\ s.out = m.out
    BY <1>0, <1>1, <1>5, AddChanges
  <2> HIDE DEF s
  <2>2. Settled(m, c) => Settled(s, c)
    BY <2>1 DEF Settled, Counting, Updating, Answering
  <2>3. m.shadow <= m.avail => s.shadow <= s.avail
    BY <2>1, <1>2, <1>0, CountsOfManager
  <2>4. Starting(m, c) => Starting(s, c)
    BY <2>1, <2>3 DEF Starting
  <2>5. (Tight(m, c) => Tight(s, c)) /\ (Announced(m, c) => Announced(s, c))
    BY <2>1, <2>3 DEF Tight, Announced
  <2>6. Running(s, h - 1, c)
    BY <1>0, <1>2, <1>3, <2>1, <2>2, <2>3, <2>4, <2>5 DEF Running
  <2> QED
    BY <2>6, <1>0, <1>1, <1>2 DEF Inv, s
<1> QED
  BY <1>4, <1>5, <1>0, CountsOfManager

\* A packet at the head of the queue is counted, and finds its token.
LEMMA PacketAtHead ==
    ASSUME NEW m, NEW h, NEW c, Inv("running", m, h, c),
           c.out # <<>>, Head(c.out).kind = "packet"
    PROVE  /\ InFlight(c.out) = InFlight(Tail(c.out)) + 1
           /\ Tail(c.out) \in Seq(Message) /\ InFlight(Tail(c.out)) \in Nat
           /\ Tight(m, c) => m.shadow > 0 /\ m.avail > 0
           /\ c.use = "settled" => ~m.pending /\ CanRemove(m) /\ Counting(m, c)
<1>0. m \in Manager /\ c \in Client /\ Running(m, h, c)
  BY DEF Inv
<1>1. /\ InFlight(c.out) = InFlight(Tail(c.out)) + 1
      /\ Tail(c.out) \in Seq(Message) /\ InFlight(Tail(c.out)) \in Nat
  BY <1>0, CountsOfClient, InFlightTail, PlacesFinite
<1>2. Tight(m, c) => m.shadow > 0 /\ m.avail > 0
  BY <1>0, <1>1, CountsOfClient, CountsOfManager DEF Tight
<1>3. ASSUME c.use = "settled" PROVE Counting(m, c) /\ Tight(m, c)
  <2>1. Settled(m, c) /\ Tight(m, c)
    BY <1>0, <1>3 DEF Running
  <2>2. ~Updating(m, c)
    BY DEF Updating
  <2>3. ~Answering(m, c)
    BY <1>0, MessageKinds, CountsOfManager DEF Answering
  <2> QED
    BY <2>1, <2>2, <2>3 DEF Settled
<1> QED
  BY <1>1, <1>2, <1>3 DEF Counting, CanRemove

\* A client whose first message is taken off, a packet.
LEMMA OnePacketLess ==
    ASSUME NEW c \in Client, NEW d \in Client, d.tokens = c.tokens, d.reader = c.reader,
           c.out # <<>>, Head(c.out).kind = "packet", d.out = Tail(c.out)
    PROVE  /\ InFlight(c.out) \in Nat /\ Taken(c) \in Nat /\ Spent(c) \in Nat
           /\ InFlight(d.out) = InFlight(c.out) - 1 /\ Taken(d) = Taken(c)
           /\ Spent(d) = Spent(c) - 1
<1>1. /\ c.tokens \in Nat /\ InFlight(c.out) \in Nat /\ Taken(c) \in Nat
      /\ Spent(c) = c.tokens + InFlight(c.out) + Taken(c) /\ Spent(c) \in Nat
      /\ c.out \in Seq(Message)
  BY CountsOfClient
<1>2. InFlight(d.out) \in Nat /\ Spent(d) = d.tokens + InFlight(d.out) + Taken(d)
  BY CountsOfClient
<1>3. InFlight(c.out) = InFlight(d.out) + 1
  BY <1>1, InFlightTail
<1>4. Taken(d) = Taken(c)
  BY DEF Taken
<1>5. InFlight(d.out) = InFlight(c.out) - 1
  BY <1>1, <1>2, <1>3
<1> QED
  BY <1>1, <1>2, <1>4, <1>5

\* What is said of a client that has sent its count holds without a packet of
\* an earlier one, whatever the manager makes of it.
LEMMA StartingTail ==
    ASSUME NEW c \in Client, NEW d, NEW m, NEW s, Starting(m, c),
           c.out # <<>>, Head(c.out).kind = "packet",
           d.tokens = c.tokens, d.out = Tail(c.out)
    PROVE  Starting(s, d)
<1>1. c.out \in Seq(Message) /\ c.tokens \in Count
  BY DEF Client
<1>2. c.out[Len(c.out)] = TokensMessage(c.tokens)
  BY DEF Starting
<1>3. d.out # <<>>
  BY <1>1, <1>2, LastOfTail, MessageKinds
<1> QED
  BY <1>1, <1>2, <1>3, LastOfTail DEF Starting

\* A packet that takes its token joins those the MAC layer holds.
LEMMA RemoveKeeps ==
    ASSUME NEW m, NEW h, NEW c, Inv("running", m, h, c),
           c.out # <<>>, Head(c.out).kind = "packet", CanRemove(m)
    PROVE  Inv("running", removeToken(m), h + 1, [c EXCEPT !.out = Tail(c.out)])
<1> DEFINE s == removeToken(m)
           d == [c EXCEPT !.out = Tail(c.out)]
<1>0. m \in Manager /\ h \in Nat /\ c \in Client /\ Life(c) /\ Running(m, h, c)
  BY DEF Inv
<1>1. /\ InFlight(c.out) = InFlight(Tail(c.out)) + 1
      /\ Tail(c.out) \in Seq(Message) /\ InFlight(Tail(c.out)) \in Nat
      /\ Tight(m, c) => m.shadow > 0 /\ m.avail > 0
      /\ c.use = "settled" => ~m.pending /\ Counting(m, c)
  BY PacketAtHead
<1>2. /\ s \in Manager /\ s.avail = m.avail - 1 /\ s.total = m.total
      /\ m.shadow > 0 => s.shadow = m.shadow - 1
      /\ s.last = m.last /\ s.pending = m.pending /\ s.out = m.out
  BY <1>0, RemoveChanges
<1>3. /\ d \in Client /\ d.running = c.running /\ d.posted = c.posted
      /\ d.use = c.use /\ d.early = c.early /\ d.lost = c.lost /\ d.tokens = c.tokens
      /\ d.cancel = c.cancel /\ d.reader = c.reader /\ d.out = Tail(c.out)
  BY <1>0, <1>1, ClientOutChanges
<1> HIDE DEF s, d
<1>4. /\ InFlight(c.out) \in Nat /\ Taken(c) \in Nat /\ Spent(c) \in Nat
      /\ InFlight(d.out) = InFlight(c.out) - 1 /\ Taken(d) = Taken(c)
      /\ Spent(d) = Spent(c) - 1
  BY <1>0, <1>3, OnePacketLess
<1>5. ~m.pending /\ m.avail \in Nat /\ m.shadow \in Nat
  BY <1>0, CountsOfManager DEF CanRemove
<1>6. ASSUME Tight(m, c) PROVE Tight(s, d) /\ s.shadow = m.shadow - 1
  <2>1. s.avail = m.avail - 1 /\ s.shadow = m.shadow - 1
    BY <1>1, <1>2, <1>6
  <2>2. s.shadow <= s.avail
    BY <1>5, <1>6, <2>1 DEF Tight
  <2>3. InFlight(d.out) + Taken(d) <= s.shadow
    BY <1>4, <1>5, <1>6, <2>1 DEF Tight
  <2> QED
    BY <2>1, <2>2, <2>3 DEF Tight
<1>7. ASSUME c.use = "settled" PROVE Settled(s, d)
  <2>1. Counting(m, c) /\ Tight(m, c)
    BY <1>0, <1>1, <1>7 DEF Running
  <2>2. AllPackets(d.out)
    BY <2>1, <1>0, <1>3, PacketsTail, CountsOfClient DEF Counting
  <2>3. Spent(d) <= s.shadow /\ (d.lost \/ Spent(d) = s.shadow)
    BY <2>1, <1>3, <1>4, <1>5, <1>6 DEF Counting
  <2> QED
    BY <2>1, <2>2, <2>3, <1>2 DEF Settled, Counting
<1>8. ASSUME c.use = "none" PROVE Behind(d) /\ Announced(s, d)
  <2>1. Behind(c) /\ Announced(m, c)
    BY <1>0, <1>8 DEF Running
  <2>2. Announced(s, d)
    BY <2>1, <1>2, <1>3 DEF Announced
  <2> QED
    BY <2>1, <2>2, <1>0, <1>3, BehindTail
<1>9. c.posted /\ c.use = "none" => Starting(s, d)
  BY <1>0, <1>3, StartingTail DEF Running
<1>10. s.avail + (h + 1) = Tokens /\ s.total = Tokens
  BY <1>0, <1>2, <1>5 DEF Running
<1>11. ~c.early \/ c.use = "settled" => Tight(s, d)
  BY <1>0, <1>6 DEF Running
<1>12. Running(s, h + 1, d)
  BY <1>2, <1>3, <1>5, <1>7, <1>8, <1>9, <1>10, <1>11 DEF Running
<1>13. Life(d) /\ h + 1 \in Nat
  BY <1>0, <1>3 DEF Life
<1>14. Inv("running", s, h + 1, d)
  BY <1>2, <1>3, <1>12, <1>13 DEF Inv
<1> QED
  BY <1>14 DEF s, d

\* A packet is dropped: when the counts of both ends agree, by a shim.
LEMMA DropKeeps ==
    ASSUME NEW m, NEW h, NEW c, Inv("running", m, h, c),
           c.out # <<>>, Head(c.out).kind = "packet",
           NEW d \in Client, d.running = c.running, d.posted = c.posted,
           d.use = c.use, d.early = c.early, d.tokens = c.tokens, d.reader = c.reader,
           d.out = Tail(c.out), c.use = "settled" => d.lost
    PROVE  Inv("running", m, h, d)
<1>0. m \in Manager /\ h \in Nat /\ c \in Client /\ Life(c) /\ Running(m, h, c)
  BY DEF Inv
<1>1. c.use = "settled" => ~m.pending /\ Counting(m, c)
  BY PacketAtHead
<1>2. /\ InFlight(c.out) \in Nat /\ Taken(c) \in Nat /\ Spent(c) \in Nat
      /\ InFlight(d.out) = InFlight(c.out) - 1 /\ Taken(d) = Taken(c)
      /\ Spent(d) = Spent(c) - 1
  BY <1>0, OnePacketLess
<1>3. m.avail \in Nat /\ m.shadow \in Nat
  BY <1>0, CountsOfManager
<1>4. ASSUME c.use = "settled" PROVE Settled(m, d)
  <2>1. Counting(m, c)
    BY <1>1, <1>4
  <2>2. AllPackets(d.out)
    BY <2>1, <1>0, PacketsTail, CountsOfClient DEF Counting
  <2>3. Spent(d) <= m.shadow /\ d.lost
    BY <2>1, <1>2, <1>3, <1>4 DEF Counting
  <2> QED
    BY <2>1, <2>2, <2>3 DEF Settled, Counting
<1>5. ASSUME c.use = "none" PROVE Behind(d) /\ Announced(m, d)
  <2>1. Behind(c) /\ Announced(m, c)
    BY <1>0, <1>5 DEF Running
  <2>2. Announced(m, d)
    BY <2>1 DEF Announced
  <2> QED
    BY <2>1, <2>2, <1>0, BehindTail
<1>6. c.posted /\ c.use = "none" => Starting(m, d)
  BY <1>0, StartingTail DEF Running
<1>7. Tight(m, c) => Tight(m, d)
  BY <1>2, <1>3 DEF Tight
<1>8. Running(m, h, d)
  BY <1>0, <1>4, <1>5, <1>6, <1>7 DEF Running
<1>9. Life(d)
  BY <1>0 DEF Life
<1> QED
  BY <1>0, <1>8, <1>9 DEF Inv

\* A manager whose client does not run: what it sends is lost.
LEMMA SilenceKeeps ==
    ASSUME NEW a, NEW m, NEW h, NEW c, Inv(a, m, h, c), ~c.running
    PROVE  Inv(a, [m EXCEPT !.out = <<>>], h, c)
<1> DEFINE s == [m EXCEPT !.out = <<>>]
<1>0. m \in Manager /\ c \in Client /\ Life(c)
  BY DEF Inv
<1>1. /\ s \in Manager /\ s.avail = m.avail /\ s.total = m.total
      /\ s.shadow = m.shadow /\ s.last = m.last /\ s.pending = m.pending
      /\ s.out = <<>>
  <2>1. << >> \in Seq(Count)
    OBVIOUS
  <2> QED
    BY <2>1, <1>0, ManagerOutChanges
<1>4. m = NewManager => s = NewManager
  BY DEF NewManager
<1> HIDE DEF s
<1>2. ~c.posted /\ c.use = "none" /\ c.tokens = 0
  BY <1>0 DEF Life
<1>3. Running(m, h, c) => Running(s, h, c)
  BY <1>1, <1>2 DEF Running, Tight, Announced
<1>5. Inv(a, s, h, c)
  BY <1>0, <1>1, <1>3, <1>4 DEF Inv
<1> QED
  BY <1>5 DEF s

\* A client whose first message is taken off, a count.
LEMMA OneCountLess ==
    ASSUME NEW c \in Client, NEW d \in Client, d.tokens = c.tokens, d.reader = c.reader,
           c.out # <<>>, Head(c.out).kind = "tokens", d.out = Tail(c.out)
    PROVE  /\ InFlight(d.out) = InFlight(c.out) /\ Taken(d) = Taken(c)
           /\ Spent(d) = Spent(c)
<1>1. InFlight(c.out) \in Nat /\ c.out \in Seq(Message)
  BY CountsOfClient
<1>2. InFlight(d.out) \in Nat
  BY CountsOfClient
<1>3. InFlight(c.out) = InFlight(d.out) + 0
  BY <1>1, InFlightTail
<1>4. Taken(d) = Taken(c)
  BY DEF Taken
<1>5. InFlight(d.out) = InFlight(c.out)
  BY <1>1, <1>2, <1>3
<1> QED
  BY <1>4, <1>5 DEF Spent

\* A count that arrives from the client.
LEMMA ControlKeeps ==
    ASSUME NEW m, NEW h, NEW c, Inv("running", m, h, c),
           c.out # <<>>, Head(c.out).kind = "tokens"
    PROVE  Inv("running", manager_process(m, Head(c.out).tokens), h,
               [c EXCEPT !.out = Tail(c.out)])
<1> DEFINE n == Head(c.out).tokens
           s == manager_process(m, n)
           d == [c EXCEPT !.out = Tail(c.out)]
<1>0. m \in Manager /\ h \in Nat /\ c \in Client /\ Life(c) /\ Running(m, h, c)
  BY DEF Inv
<1>1. c.out \in Seq(Message) /\ Tail(c.out) \in Seq(Message) /\ c.tokens \in Count
  BY <1>0 DEF Client
<1>2. /\ d \in Client /\ d.running = c.running /\ d.posted = c.posted
      /\ d.use = c.use /\ d.early = c.early /\ d.lost = c.lost /\ d.tokens = c.tokens
      /\ d.cancel = c.cancel /\ d.reader = c.reader /\ d.out = Tail(c.out)
  BY <1>0, <1>1, ClientOutChanges
<1> HIDE DEF d
<1>3. InFlight(d.out) = InFlight(c.out) /\ Taken(d) = Taken(c) /\ Spent(d) = Spent(c)
  BY <1>0, <1>2, OneCountLess
<1>4. Life(d)
  BY <1>0, <1>2 DEF Life
<1>5. c.use = "settled" => Answering(m, c) /\ m.pending /\ n = m.last
  <2>1. c.use = "settled" => Settled(m, c)
    BY <1>0 DEF Running
  <2>2. ~Counting(m, c)
    BY <1>1, PacketsTail DEF Counting
  <2>3. ~Updating(m, c)
    BY DEF Updating
  <2>4. Answering(m, c) => m.pending /\ n = m.last
    BY <1>0, MessageKinds, CountsOfManager DEF Answering
  <2> QED
    BY <2>1, <2>2, <2>3, <2>4 DEF Settled
<1>6. c.posted /\ c.use = "none" =>
        /\ d.out # <<>> => d.out[Len(d.out)] = TokensMessage(d.tokens)
        /\ d.out = <<>> => n = d.tokens
  <2>1. ASSUME c.posted, c.use = "none"
        PROVE  c.out[Len(c.out)] = TokensMessage(c.tokens)
    BY <2>1, <1>0 DEF Running, Starting
  <2> QED
    BY <2>1, <1>1, <1>2, LastOfTail, MessageKinds
<1>9. c.use = "none" => Behind(d)
  BY <1>0, <1>2, BehindTail DEF Running
<1>7. CASE m.pending /\ n = m.last
  <2>1. s = [m EXCEPT !.pending = FALSE]
    BY <1>7 DEF manager_process
  <2>2. /\ s \in Manager /\ s.avail = m.avail /\ s.total = m.total
        /\ s.shadow = m.shadow /\ s.last = m.last /\ ~s.pending /\ s.out = m.out
    BY <2>1, <1>0, AcceptChanges
  <2> HIDE DEF s
  <2>3. c.use = "settled" => Settled(s, d)
    BY <2>2, <1>2, <1>3, <1>5 DEF Settled, Counting, Answering
  <2>4. c.posted /\ c.use = "none" => Starting(s, d)
    BY <2>2, <1>6, <1>7, <1>0 DEF Starting, Running
  <2>7. (Tight(m, c) => Tight(s, d)) /\ (Announced(m, c) => Announced(s, d))
    BY <2>2, <1>2, <1>3 DEF Tight, Announced
  <2>5. Running(s, h, d)
    BY <2>2, <2>3, <2>4, <2>7, <1>0, <1>2, <1>9 DEF Running
  <2>6. Inv("running", s, h, d)
    BY <2>2, <2>5, <1>0, <1>2, <1>4 DEF Inv
  <2> QED
    BY <2>6 DEF s, d
<1>8. CASE ~(m.pending /\ n = m.last)
  <2>1. s = sendFlowControlResponseMessage(m) /\ c.use # "settled"
    BY <1>8, <1>5 DEF manager_process
  <2>2. /\ s \in Manager /\ s.avail = m.avail /\ s.total = m.total
        /\ s.shadow = m.avail /\ s.last = m.avail /\ s.pending
        /\ s.out = Append(m.out, m.avail)
    BY <2>1, <1>0, SendChanges
  <2> HIDE DEF s
  <2>3. m.avail \in Nat /\ m.shadow \in Nat /\ s.shadow <= s.avail
    BY <2>2, <1>0, CountsOfManager
  <2>4. c.posted /\ c.use = "none" => Starting(s, d)
    BY <2>1, <2>2, <2>3, <1>6 DEF Starting
  <2>5. Tight(m, c) => Tight(s, d)
    <3>1. InFlight(c.out) \in Nat /\ Taken(c) \in Nat
      BY <1>0, CountsOfClient
    <3> QED
      BY <3>1, <2>2, <2>3, <1>3 DEF Tight
  <2>6. Announced(s, d)
    <3>1. s.out # <<>> /\ s.out[Len(s.out)] = m.avail
      BY <2>2, <1>0, CountsOfManager, LastCountOfAppend
    <3> QED
      BY <3>1, <2>2 DEF Announced
  <2>7. Running(s, h, d)
    BY <2>1, <2>2, <2>3, <2>4, <2>5, <2>6, <1>0, <1>2, <1>9 DEF Running
  <2>8. Inv("running", s, h, d)
    BY <2>2, <2>7, <1>0, <1>2, <1>4 DEF Inv
  <2> QED
    BY <2>8 DEF s, d
<1> QED
  BY <1>7, <1>8
-----------------------------------------------------------------------------
(***************************************************************************)
(* The steps of the transport keep the invariant.                          *)
(***************************************************************************)

\* Steps that neither take tokens nor send anything.
LEMMA SameKeeps ==
    ASSUME NEW a, NEW m, NEW h, NEW c, Inv(a, m, h, c),
           NEW d \in Client, Life(d), d.posted = c.posted, d.use = c.use,
           d.early = c.early, d.lost = c.lost, d.tokens = c.tokens, d.out = c.out,
           d.reader = "sending" <=> c.reader = "sending"
    PROVE  Inv(a, m, h, d)
<1>1. Taken(d) = Taken(c)
  BY DEF Taken
<1>2. Spent(d) = Spent(c)
  BY <1>1 DEF Spent
<1>3. Settled(m, c) => Settled(m, d)
  BY <1>2 DEF Settled, Counting, Updating, Answering
<1>4. Starting(m, c) => Starting(m, d)
  BY DEF Starting
<1>5. (Behind(c) => Behind(d)) /\ (Announced(m, c) => Announced(m, d))
  BY DEF Behind, Announced
<1>6. Tight(m, c) => Tight(m, d)
  BY <1>1 DEF Tight
<1>7. Running(m, h, c) => Running(m, h, d)
  BY <1>3, <1>4, <1>5, <1>6 DEF Running
<1> QED
  BY <1>7 DEF Inv

\* The client sends its count when everything has been started.
LEMMA PostKeeps ==
    ASSUME NEW a, NEW m, NEW h, NEW c, Inv(a, m, h, c), c.running, ~c.posted,
           NEW d \in Client, d.running, d.posted, d.use = c.use, d.early = c.early,
           d.tokens = c.tokens, d.reader = c.reader,
           d.out = IF a = "running" THEN Append(c.out, TokensMessage(c.tokens)) ELSE c.out
    PROVE  Inv(a, m, h, d)
<1>0. m \in Manager /\ h \in Nat /\ c \in Client /\ Life(c) /\ c.use # "settled"
  BY DEF Inv, Life
<1>1. Life(d)
  BY <1>0 DEF Life
<1>2. a = "running" => Running(m, h, d)
  <2> SUFFICES ASSUME a = "running" PROVE Running(m, h, d)
    OBVIOUS
  <2>1. Running(m, h, c) /\ d.out = Append(c.out, TokensMessage(c.tokens))
    BY DEF Inv
  <2>2. c.out \in Seq(Message) /\ c.tokens \in Count /\ TokensMessage(c.tokens) \in Message
        /\ TokensMessage(c.tokens).kind = "tokens"
    BY <1>0, MessageKinds DEF Client
  <2>3. InFlight(d.out) = InFlight(c.out)
    <3>1. InFlight(d.out) = InFlight(c.out) + 0
      BY <2>1, <2>2, InFlightAppend
    <3>2. InFlight(c.out) \in Nat
      BY <1>0, CountsOfClient
    <3> QED
      BY <3>1, <3>2
  <2>4. Taken(d) = Taken(c)
    BY DEF Taken
  <2>5. d.out # <<>> /\ d.out[Len(d.out)] = TokensMessage(d.tokens)
    BY <2>1, <2>2, LastOfAppend
  <2>6. Starting(m, d)
    BY <2>5 DEF Starting
  <2>7. (Behind(c) => Behind(d)) /\ (Announced(m, c) => Announced(m, d))
    BY <1>0, <2>1, <2>2, BehindAppend DEF Announced
  <2>8. Tight(m, c) => Tight(m, d)
    BY <2>3, <2>4 DEF Tight
  <2> QED
    BY <1>0, <2>1, <2>6, <2>7, <2>8 DEF Running
<1> QED
  BY <1>0, <1>1, <1>2 DEF Inv

\* The first token of a client is taken when the counts agree.
LEMMA FirstKeeps ==
    ASSUME NEW m, NEW h, NEW c, Inv("running", m, h, c), c.use = "none",
           c.reader = "idle", c.tokens # 0, c.posted, m.out = <<>>,
           IF m.pending THEN OneCount(c.out) ELSE AllPackets(c.out)
    PROVE  /\ Counting(m, c) \/ Answering(m, c)
           /\ m.shadow <= m.avail
<1>0. m \in Manager /\ c \in Client /\ Life(c) /\ Running(m, h, c)
  BY DEF Inv
<1>1. c.out \in Seq(Message) /\ c.tokens \in Count /\ m.shadow \in Nat
      /\ c.tokens \in Nat
  BY <1>0, CountsOfManager, CountsOfClient DEF Client
<1>2. Starting(m, c) /\ Behind(c) /\ Announced(m, c)
  BY <1>0 DEF Running
<1>3. Taken(c) = 0
  BY DEF Taken
<1>4. CASE ~m.pending
  <2>1. c.out = <<>>
    <3> SUFFICES ASSUME c.out # <<>> PROVE FALSE
      OBVIOUS
    <3>1. c.out[Len(c.out)] = TokensMessage(c.tokens)
      BY <1>2 DEF Starting
    <3>2. Len(c.out) \in DOMAIN c.out
      BY <1>1
    <3>3. c.out[Len(c.out)].kind = "packet"
      BY <1>4, <3>2 DEF AllPackets
    <3> QED
      BY <3>1, <3>3, <1>1, MessageKinds
  <2>2. c.tokens = m.shadow /\ m.shadow <= m.avail
    BY <1>2, <1>4, <2>1 DEF Starting
  <2>3. Spent(c) = m.shadow /\ Spent(c) <= m.shadow
    BY <2>1, <2>2, <1>1, <1>3, InFlightEmpty DEF Spent
  <2> QED
    BY <1>4, <2>2, <2>3 DEF Counting
<1>5. CASE m.pending
  <2>1. Len(c.out) = 1 /\ ~HasPacket(c.out)
    BY <1>1, <1>2, <1>5, OnlyCount DEF Behind
  <2>2. c.out # <<>> /\ Head(c.out) = c.out[Len(c.out)] /\ Tail(c.out) = <<>>
    BY <1>1, <2>1, SingleMessage
  <2>3. c.tokens = m.last /\ m.shadow = m.last /\ m.shadow <= m.avail
    BY <1>0, <1>2, <1>5 DEF Announced, Running
  <2>4. Head(c.out) = TokensMessage(m.last)
    BY <2>2, <2>3, <1>2 DEF Starting
  <2>5. AllPackets(Tail(c.out))
    BY <2>2 DEF AllPackets
  <2>6. InFlight(c.out) = 0
    BY <1>1, <2>1, NoPacket
  <2>7. Spent(c) = m.shadow /\ Spent(c) <= m.shadow /\ m.shadow > 0
    BY <2>3, <2>6, <1>1, <1>3 DEF Spent
  <2> QED
    BY <1>5, <2>2, <2>3, <2>4, <2>5, <2>7 DEF Answering
<1> QED
  BY <1>0, <1>4, <1>5, CountsOfManager

\* The reader takes a token; when it is not early, there is one left.
LEMMA TakeKeeps ==
    ASSUME NEW a, NEW m, NEW h, NEW c, Inv(a, m, h, c),
           c.running, c.reader = "idle", c.tokens # 0,
           NEW d \in Client, d.running = c.running, d.posted = c.posted,
           d.use \in {"settled", "early"}, c.use # "none" => d.use = c.use,
           c.use = "none" /\ d.use = "settled" =>
               /\ c.posted /\ m.out = <<>>
               /\ IF m.pending THEN OneCount(c.out) ELSE AllPackets(c.out),
           d.early <=> c.early \/ d.use = "early", d.lost = c.lost,
           d.tokens = c.tokens - 1, d.reader = "sending", d.out = c.out
    PROVE  /\ Inv(a, m, h, d)
           /\ a = "running" /\ d.use = "settled" => InFlight(c.out) + Taken(c) + h < Tokens
<1>0. m \in Manager /\ h \in Nat /\ c \in Client /\ Life(c)
  BY DEF Inv
<1>1. Life(d)
  BY <1>0 DEF Life
<1>2. c.tokens \in Nat \ {0} /\ InFlight(c.out) \in Nat /\ m.shadow \in Nat /\ m.avail \in Nat
  BY <1>0, CountsOfClient, CountsOfManager
<1>3. Taken(c) = 0 /\ Taken(d) = 1
  BY DEF Taken
<1>4. Spent(d) = Spent(c) /\ Spent(c) = c.tokens + InFlight(c.out)
  BY <1>2, <1>3 DEF Spent
<1>5. ASSUME a = "running", d.use = "settled"
      PROVE  Running(m, h, d) /\ InFlight(c.out) + Taken(c) + h < Tokens
  <2>1. Running(m, h, c)
    BY <1>5 DEF Inv
  <2>2. (Counting(m, c) \/ Answering(m, c)) /\ m.shadow <= m.avail
    <3>1. CASE c.use = "none"
      BY <1>5, <3>1, FirstKeeps
    <3>2. CASE c.use # "none"
      BY <1>5, <2>1, <3>2 DEF Running, Settled, Updating, Tight
    <3> QED
      BY <3>1, <3>2
  <2>3. Spent(c) <= m.shadow
    BY <2>2 DEF Counting, Answering
  <2>4. Settled(m, d)
    BY <2>2, <1>4 DEF Settled, Counting, Answering
  <2>5. Tight(m, d)
    BY <2>2, <2>3, <1>2, <1>3, <1>4 DEF Tight
  <2>6. m.avail + h = Tokens
    BY <2>1 DEF Running
  <2>7. InFlight(c.out) + Taken(c) + h < Tokens
    BY <2>2, <2>3, <2>6, <1>0, <1>2, <1>3, <1>4
  <2> QED
    BY <2>1, <2>4, <2>5, <2>7, <1>5 DEF Running
<1>6. ASSUME a = "running", d.use = "early" PROVE Running(m, h, d)
  BY <1>6 DEF Inv, Running
<1>7. a # "configured"
  BY DEF Inv
<1> QED
  BY <1>0, <1>1, <1>5, <1>6, <1>7 DEF Inv

\* The reader sends the packet for which it has taken a token.
LEMMA SendKeeps ==
    ASSUME NEW a, NEW m, NEW h, NEW c, Inv(a, m, h, c), c.reader = "sending",
           NEW d \in Client, d.running = c.running, d.posted = c.posted,
           d.use = c.use, d.early = c.early, d.lost = c.lost, d.tokens = c.tokens,
           d.reader = "idle",
           d.out = IF a = "running" THEN Append(c.out, Packet) ELSE c.out
    PROVE  /\ Inv(a, m, h, d)
           /\ a = "running" => InFlight(d.out) + Taken(d) = InFlight(c.out) + Taken(c)
<1>0. m \in Manager /\ h \in Nat /\ c \in Client /\ Life(c) /\ c.use # "none"
  BY DEF Inv, Life
<1>1. Life(d)
  BY <1>0 DEF Life
<1>2. c.out \in Seq(Message) /\ c.tokens \in Nat /\ InFlight(c.out) \in Nat
  BY <1>0, CountsOfClient
<1>3. Taken(c) = 1 /\ Taken(d) = 0
  BY DEF Taken
<1>4. ASSUME a = "running"
      PROVE  Running(m, h, d) /\ InFlight(d.out) + Taken(d) = InFlight(c.out) + Taken(c)
  <2>1. Running(m, h, c) /\ d.out = Append(c.out, Packet)
    BY <1>4 DEF Inv
  <2>2. InFlight(d.out) = InFlight(c.out) + 1
    BY <2>1, <1>2, InFlightAppend, MessageKinds
  <2>3. Spent(d) = Spent(c) /\ InFlight(d.out) + Taken(d) = InFlight(c.out) + Taken(c)
    BY <2>2, <1>2, <1>3 DEF Spent
  <2>4. ~Updating(m, c)
    BY DEF Updating
  <2>5. Counting(m, c) => Counting(m, d)
    BY <2>1, <2>3, <1>2, PacketsAppend DEF Counting
  <2>6. ASSUME Answering(m, c) PROVE Answering(m, d)
    <3>1. Tail(d.out) = Append(Tail(c.out), Packet) /\ Head(d.out) = Head(c.out)
          /\ d.out # <<>> /\ Tail(c.out) \in Seq(Message)
      BY <2>1, <2>6, <1>2, MessageKinds DEF Answering
    <3>2. AllPackets(Tail(d.out))
      BY <3>1, <2>6, PacketsAppend DEF Answering
    <3> QED
      BY <3>1, <3>2, <2>3, <2>6 DEF Answering
  <2>7. Settled(m, c) => Settled(m, d)
    BY <2>4, <2>5, <2>6 DEF Settled
  <2>8. Tight(m, c) => Tight(m, d)
    BY <2>3 DEF Tight
  <2> QED
    BY <1>0, <2>1, <2>3, <2>7, <2>8 DEF Running
<1>5. a # "configured"
  BY <1>0 DEF Inv
<1> QED
  BY <1>0, <1>1, <1>4, <1>5 DEF Inv

\* The client gets a count and answers it.
LEMMA UpdateKeeps ==
    ASSUME NEW a, NEW m, NEW h, NEW c, Inv(a, m, h, c), c.running, m.out # <<>>,
           NEW d \in Client, d.running = c.running, d.posted = c.posted,
           d.use = c.use, d.early = c.early, d.lost = c.lost, d.tokens = Head(m.out),
           d.reader = c.reader,
           d.out = IF a = "running" THEN Append(c.out, TokensMessage(Head(m.out)))
                   ELSE c.out
    PROVE  Inv(a, [m EXCEPT !.out = Tail(m.out)], h, d)
<1> DEFINE s == [m EXCEPT !.out = Tail(m.out)]
<1>0. m \in Manager /\ h \in Nat /\ c \in Client /\ Life(c)
  BY DEF Inv
<1>1. /\ m.out \in Seq(Count) /\ Tail(m.out) \in Seq(Count) /\ Head(m.out) \in Count
      /\ m.shadow \in Nat
  <2>1. m.out \in Seq(Count) /\ m.shadow \in Nat
    BY <1>0, CountsOfManager
  <2> QED
    BY <2>1
<1>2. /\ s \in Manager /\ s.avail = m.avail /\ s.total = m.total
      /\ s.shadow = m.shadow /\ s.last = m.last
      /\ s.pending = m.pending /\ s.out = Tail(m.out)
  BY <1>0, <1>1, ManagerOutChanges
<1> HIDE DEF s
<1>3. Life(d) /\ Taken(d) = Taken(c)
  BY <1>0 DEF Life, Taken
<1>4. a # "configured"
  BY DEF Inv, NewManager
<1>5. ASSUME a = "running" PROVE Running(s, h, d)
  <2> DEFINE n == Head(m.out)
  <2>1. Running(m, h, c) /\ d.out = Append(c.out, TokensMessage(n))
    BY <1>5 DEF Inv
  <2>2. c.out \in Seq(Message) /\ TokensMessage(n) \in Message /\ InFlight(c.out) \in Nat
        /\ TokensMessage(n).kind = "tokens"
    BY <1>0, <1>1, MessageKinds, CountsOfClient
  <2>3. d.out # <<>> /\ d.out[Len(d.out)] = TokensMessage(d.tokens)
    BY <2>1, <2>2, LastOfAppend
  <2>4. InFlight(d.out) = InFlight(c.out)
    <3>1. InFlight(d.out) = InFlight(c.out) + 0
      BY <2>1, <2>2, InFlightAppend
    <3> QED
      BY <3>1, <2>2
  <2>5. ASSUME c.use = "settled" PROVE Answering(s, d)
    <3>1. Updating(m, c)
      BY <2>1, <2>5 DEF Running, Settled, Counting, Answering
    <3>2. n = m.last /\ Tail(m.out) = <<>> /\ m.shadow = m.last
      BY <3>1, <2>1, <1>1 DEF Updating, Running
    <3>3. d.out = Append(<<>>, TokensMessage(n))
      BY <3>1, <2>1 DEF Updating
    <3>4. Head(d.out) = TokensMessage(s.last) /\ Tail(d.out) = <<>>
      BY <3>2, <3>3, <2>2, <1>2, OnlyMessage
    <3>5. AllPackets(Tail(d.out))
      BY <3>4 DEF AllPackets
    <3>6. InFlight(d.out) = 0 /\ Taken(d) = 0 /\ d.tokens = s.shadow
      BY <3>1, <3>2, <2>4, <1>2, <1>3, InFlightEmpty DEF Updating, Taken
    <3>7. Spent(d) = s.shadow /\ Spent(d) <= s.shadow
      BY <3>6, <1>1, <1>2 DEF Spent
    <3> QED
      BY <3>1, <3>2, <3>4, <3>5, <3>7, <2>3, <1>2 DEF Answering, Updating
  <2>6. Starting(s, d)
    BY <2>3 DEF Starting
  <2>7. ASSUME c.use = "none" PROVE Behind(d) /\ Announced(s, d)
    <3>1. Behind(c) /\ Announced(m, c)
      BY <2>1, <2>7 DEF Running
    <3>2. /\ Tail(m.out) # <<>> => Tail(m.out)[Len(Tail(m.out))] = m.out[Len(m.out)]
          /\ Tail(m.out) = <<>> => Head(m.out) = m.out[Len(m.out)]
      BY <1>1, LastCountOfTail
    <3>3. Announced(s, d)
      BY <3>1, <3>2, <1>2 DEF Announced
    <3>4. Behind(d)
      <4>1. HasPacket(d.out) => HasPacket(c.out)
        BY <2>1, <2>2, EndsOfAppend
      <4>2. EndsInCount(d.out) /\ (EndsInCount(c.out) => EndsInTwoCounts(d.out))
        BY <2>1, <2>2, EndsOfAppend
      <4> QED
        BY <4>1, <4>2, <3>1 DEF Behind
    <3> QED
      BY <3>3, <3>4
  <2>8. Tight(m, c) => Tight(s, d)
    BY <2>4, <1>2, <1>3 DEF Tight
  <2> QED
    BY <2>1, <2>5, <2>6, <2>7, <2>8, <1>2 DEF Running, Settled
<1>6. Inv(a, s, h, d)
  BY <1>0, <1>2, <1>3, <1>4, <1>5 DEF Inv
<1> QED
  BY <1>6 DEF s

\* A new transport takes the place of the old one.
LEMMA RestartKeeps ==
    ASSUME NEW a, NEW m, NEW h, NEW c, Inv(a, m, h, c)
    PROVE  Inv(a, [m EXCEPT !.out = <<>>], h,
               [NewClient EXCEPT !.out = c.out, !.early = c.early])
<1> DEFINE d == [NewClient EXCEPT !.out = c.out, !.early = c.early]
           s == [m EXCEPT !.out = <<>>]
<1>0. m \in Manager /\ h \in Nat /\ c \in Client
  BY DEF Inv
<1>1. NewClient \in Client /\ c.out \in Seq(Message) /\ c.early \in BOOLEAN
  BY <1>0, FlowAssumption DEF NewClient, Client, Count
<1>2. d \in Client /\ d.out = c.out /\ d.reader = "idle" /\ d.tokens = 0
      /\ ~d.running /\ ~d.posted /\ d.use = "none" /\ d.early = c.early
  BY <1>1, FlowAssumption DEF NewClient, Client, Count
<1>3. /\ s \in Manager /\ s.avail = m.avail /\ s.total = m.total
      /\ s.shadow = m.shadow /\ s.last = m.last /\ s.pending = m.pending
      /\ s.out = <<>>
  <2>1. << >> \in Seq(Count)
    OBVIOUS
  <2> QED
    BY <2>1, <1>0, ManagerOutChanges
<1>4. m = NewManager => s = NewManager
  BY DEF NewManager
<1> HIDE DEF d, s
<1>5. Taken(d) = 0 /\ Life(d)
  BY <1>2 DEF Taken, Life
<1>6. Tight(m, c) => Tight(s, d)
  <2>1. InFlight(c.out) \in Nat /\ Taken(c) \in Nat /\ m.shadow \in Nat
    BY <1>0, CountsOfClient, CountsOfManager
  <2> QED
    BY <2>1, <1>2, <1>3, <1>5 DEF Tight
<1>7. Behind(d) /\ Announced(s, d)
  BY <1>2, <1>3 DEF Behind, Announced
<1>8. Running(m, h, c) => Running(s, h, d)
  BY <1>2, <1>3, <1>6, <1>7 DEF Running
<1>9. Inv(a, s, h, d)
  BY <1>0, <1>2, <1>3, <1>4, <1>5, <1>8 DEF Inv
<1> QED
  BY <1>9 DEF d, s
-----------------------------------------------------------------------------
(***************************************************************************)
(* Every step keeps the invariant, and is a step of the semaphore.         *)
(***************************************************************************)

\* What the manager sends reaches a client that runs.
LEMMA ManagesKeeps ==
    ASSUME NEW m, NEW h, NEW d, Inv(mac, m, h, d), d.running = cl.running, Manages(m)
    PROVE  Inv(mac, mgr', h, d)
BY SilenceKeeps DEF Manages

\* The initial state satisfies the invariant.
LEMMA InitInv == Init => IInv /\ Permits = 0
<1> SUFFICES ASSUME Init PROVE IInv /\ Permits = 0
  OBVIOUS
<1>1. 0 \in Count /\ << >> \in Seq(Count) /\ << >> \in Seq(Message)
  BY FlowAssumption DEF Count
<1>2. mgr \in Manager /\ mgr = NewManager
  BY <1>1 DEF Init, NewManager, Manager
<1>3. cl \in Client
  BY <1>1 DEF Init, NewClient, Client
<1>4. Life(cl) /\ cl.use = "none" /\ cl.tokens = 0 /\ cl.out = <<>>
  BY DEF Init, NewClient, Life
<1>5. mac = "configured" /\ held = 0 /\ restarts = 0 /\ held <= Depth
  BY FlowAssumption DEF Init
<1> QED
  BY <1>2, <1>3, <1>4, <1>5 DEF IInv, Inv, Load, Permits

\* What sending a message to the MAC layer changes.
LEMMA SentChanges ==
    ASSUME NEW c \in Client, NEW n \in Message
    PROVE  LET d == Sent(c, n)
           IN  /\ d \in Client /\ d.running = c.running /\ d.posted = c.posted
               /\ d.use = c.use /\ d.early = c.early /\ d.lost = c.lost /\ d.tokens = c.tokens
               /\ d.cancel = c.cancel /\ d.reader = c.reader
               /\ d.out = IF mac = "running" THEN Append(c.out, n) ELSE c.out
<1>1. c.out \in Seq(Message)
  BY DEF Client
<1> DEFINE q == Append(c.out, n)
           e == [c EXCEPT !.out = q]
<1>2. q \in Seq(Message)
  BY <1>1, LastOfAppend
<1>3. CASE mac = "running"
  <2>1. Sent(c, n) = e
    BY <1>3 DEF Sent
  <2>2. /\ e \in Client /\ e.running = c.running /\ e.posted = c.posted
        /\ e.use = c.use /\ e.early = c.early /\ e.lost = c.lost /\ e.tokens = c.tokens
        /\ e.cancel = c.cancel /\ e.reader = c.reader /\ e.out = q
    <3> HIDE DEF q
    <3> QED
      BY <1>2, ClientOutChanges
  <2> HIDE DEF e
  <2> QED
    BY <2>1, <2>2, <1>3
<1>4. CASE mac # "running"
  BY <1>4 DEF Sent
<1> QED
  BY <1>3, <1>4

\* A step of the semaphore, or none, up to the first early token.
SemaphoreStep ==
    /\ cl.early => cl'.early
    /\ cl'.early \/ (Load < Tokens /\ Load' = Load + 1) \/ Load' \in 0 .. Load

\* The numbers that the load is made of.
LEMMA LoadParts ==
    ASSUME IInv
    PROVE  /\ held \in Nat /\ held <= Depth /\ restarts \in Nat
           /\ mgr \in Manager /\ cl \in Client /\ Life(cl)
           /\ InFlight(cl.out) \in Nat /\ Taken(cl) \in Nat /\ Load \in Nat
<1>1. /\ held \in Nat /\ held <= Depth /\ restarts \in Nat
      /\ mgr \in Manager /\ cl \in Client /\ Life(cl)
  BY DEF IInv, Inv
<1>2. InFlight(cl.out) \in Nat /\ Taken(cl) \in Nat
  BY <1>1, CountsOfClient
<1> QED
  BY <1>1, <1>2 DEF Load

\* MacStart: the manager has all its tokens.
LEMMA MacStartStep == ASSUME IInv, MacStart PROVE IInv' /\ SemaphoreStep
<1> DEFINE m == manager_start(mgr)
<1>0. /\ mgr = NewManager /\ held = 0 /\ cl.use = "none" /\ cl.out = <<>> /\ Life(cl)
      /\ mac' = "running" /\ held' = held /\ cl' = cl /\ restarts' = restarts
      /\ Manages(m) /\ mac = "configured"
  BY DEF IInv, Inv, MacStart
<1>1. /\ m \in Manager /\ m.avail = Tokens /\ m.total = Tokens /\ m.shadow = Tokens
      /\ m.last = Tokens /\ m.pending /\ m.out = Append(<<>>, Tokens)
  <2> DEFINE k == [mgr EXCEPT !.total = Tokens, !.avail = Tokens]
  <2>1. Tokens \in Count
    BY FlowAssumption DEF Count
  <2>2. k \in Manager
    BY <2>1, LoadParts DEF Manager
  <2>3. k.avail = Tokens /\ k.total = Tokens /\ k.out = <<>>
    BY <1>0 DEF NewManager
  <2>4. m = sendFlowControlResponseMessage(k)
    BY DEF manager_start
  <2> HIDE DEF k, m
  <2> QED
    BY <2>2, <2>3, <2>4, SendChanges
<1> HIDE DEF m
<1>2. InFlight(cl.out) = 0 /\ Taken(cl) = 0
  BY <1>0, InFlightEmpty DEF Life, Taken
<1>3. m.out # <<>> /\ m.out[Len(m.out)] = Tokens /\ Tokens <= Tokens
  BY <1>1, FlowAssumption
<1>4. Running(m, 0, cl)
  <2>1. Starting(m, cl) /\ Announced(m, cl)
    BY <1>0, <1>1, <1>3 DEF Starting, Announced
  <2>2. Behind(cl)
    BY <1>0 DEF Behind, HasPacket
  <2>3. Tight(m, cl)
    BY <1>1, <1>2, FlowAssumption DEF Tight
  <2> QED
    BY <2>1, <2>2, <2>3, <1>0, <1>1, <1>3, FlowAssumption DEF Running
<1>5. Inv("running", m, 0, cl)
  BY <1>0, <1>1, <1>4, LoadParts DEF Inv
<1>6. Inv("running", mgr', 0, cl)
  BY <1>0, <1>5, SilenceKeeps DEF Manages
<1>7. Load = 0 /\ Load' = 0
  BY <1>0, <1>2 DEF Load
<1> QED
  BY <1>0, <1>6, <1>7, LoadParts DEF IInv, SemaphoreStep

\* MacStop: nothing is counted any more.
LEMMA MacStopStep == ASSUME IInv, MacStop PROVE IInv' /\ SemaphoreStep
<1>0. /\ mac' = "stopped" /\ held' = held /\ restarts' = restarts /\ mac = "running"
      /\ mgr' = manager_stop(mgr) /\ cl' = [cl EXCEPT !.out = <<>>]
  BY DEF MacStop
<1>1. mgr' \in Manager
  <2>1. 0 \in Count
    BY FlowAssumption DEF Count
  <2> QED
    BY <1>0, <2>1, LoadParts DEF manager_stop, Manager
<1>2. /\ cl' \in Client /\ cl'.running = cl.running /\ cl'.posted = cl.posted
      /\ cl'.use = cl.use /\ cl'.early = cl.early /\ cl'.tokens = cl.tokens
      /\ cl'.reader = cl.reader /\ cl'.out = <<>>
  <2>1. << >> \in Seq(Message)
    OBVIOUS
  <2> QED
    BY <1>0, <2>1, LoadParts, ClientOutChanges
<1>3. Life(cl')
  BY <1>2, LoadParts DEF Life
<1>4. Inv(mac', mgr', held', cl')
  BY <1>0, <1>1, <1>2, <1>3, LoadParts DEF Inv
<1>5. held \in Nat /\ InFlight(cl.out) \in Nat /\ Taken(cl) \in Nat
  BY LoadParts
<1>6. Load' = held /\ Load = held + (InFlight(cl.out) + Taken(cl))
  BY <1>0, <1>5 DEF Load
<1>7. Load' \in 0 .. Load
  BY <1>5, <1>6
<1> QED
  BY <1>0, <1>2, <1>4, <1>7, LoadParts DEF IInv, SemaphoreStep

\* processDownstreamControl: the manager gets a count or an answer.
LEMMA ControlStep ==
    ASSUME IInv, processDownstreamControl PROVE IInv' /\ SemaphoreStep
<1> DEFINE m == manager_process(mgr, Head(cl.out).tokens)
           d == [cl EXCEPT !.out = Tail(cl.out)]
<1>0. /\ mac = "running" /\ mac' = mac /\ held' = held /\ restarts' = restarts
      /\ cl.out # <<>> /\ Head(cl.out).kind = "tokens" /\ Manages(m) /\ cl' = d
  BY DEF processDownstreamControl, Arrives
<1>1. Inv("running", mgr, held, cl) /\ cl.out \in Seq(Message)
  BY <1>0, LoadParts, CountsOfClient DEF IInv
<1>2. Inv("running", m, held, d)
  BY <1>0, <1>1, ControlKeeps
<1>3. /\ d \in Client /\ d.running = cl.running /\ d.tokens = cl.tokens
      /\ d.early = cl.early /\ d.reader = cl.reader /\ d.out = Tail(cl.out)
  <2>1. Tail(cl.out) \in Seq(Message)
    BY <1>0, <1>1
  <2> QED
    BY <2>1, LoadParts, ClientOutChanges
<1>4. InFlight(d.out) = InFlight(cl.out) /\ Taken(d) = Taken(cl)
  BY <1>0, <1>3, LoadParts, OneCountLess
<1> HIDE DEF m, d
<1>5. Inv(mac, mgr', held, d)
  BY <1>0, <1>2, <1>3, ManagesKeeps
<1>6. Load' = Load
  BY <1>0, <1>4 DEF Load
<1> QED
  BY <1>0, <1>3, <1>5, <1>6, LoadParts DEF IInv, SemaphoreStep

\* processDownstreamPacket: the packet is held, sent or dropped.
LEMMA PacketStep ==
    ASSUME IInv, processDownstreamPacket PROVE IInv' /\ SemaphoreStep
<1> DEFINE d == [cl EXCEPT !.out = Tail(cl.out)]
           m == removeToken(mgr)
<1>0. /\ mac = "running" /\ mac' = mac /\ restarts' = restarts
      /\ cl.out # <<>> /\ Head(cl.out).kind = "packet" /\ cl' = d
  BY DEF processDownstreamPacket, Arrives
<1>1. /\ Inv("running", mgr, held, cl) /\ cl.out \in Seq(Message)
      /\ held \in Nat /\ held <= Depth /\ Depth \in Nat \ {0}
  BY <1>0, LoadParts, CountsOfClient, FlowAssumption DEF IInv
<1>2. /\ d \in Client /\ d.running = cl.running /\ d.posted = cl.posted
      /\ d.use = cl.use /\ d.early = cl.early /\ d.lost = cl.lost /\ d.tokens = cl.tokens
      /\ d.reader = cl.reader /\ d.out = Tail(cl.out)
  <2>1. Tail(cl.out) \in Seq(Message)
    BY <1>0, <1>1
  <2> QED
    BY <2>1, LoadParts, ClientOutChanges
<1>3. /\ InFlight(cl.out) \in Nat /\ Taken(cl) \in Nat /\ InFlight(d.out) \in Nat
      /\ InFlight(d.out) = InFlight(cl.out) - 1 /\ Taken(d) = Taken(cl)
  BY <1>0, <1>2, LoadParts, OnePacketLess, CountsOfClient
<1>4. ASSUME Inv(mac, mgr', held', d), held' <= Depth, held' <= held + 1
      PROVE  IInv' /\ SemaphoreStep
  <2>1. held' \in Nat
    BY <1>4 DEF Inv
  <2>2. Load = held + (InFlight(cl.out) + Taken(cl))
        /\ Load' = held' + (InFlight(d.out) + Taken(d))
    BY <1>0 DEF Load
  <2>3. Load' \in 0 .. Load
    BY <2>1, <2>2, <1>1, <1>3, <1>4
  <2> QED
    BY <2>3, <1>0, <1>2, <1>4, LoadParts DEF IInv, SemaphoreStep
<1>5. CASE ~CanRemove(mgr)
  <2>1. mgr' = mgr /\ held' = held
    BY <1>5 DEF processDownstreamPacket
  <2>2. cl.use # "settled"
    BY <1>0, <1>1, <1>5, PacketAtHead
  <2>3. Inv("running", mgr, held, d)
    BY <2>2, <1>0, <1>1, <1>2, DropKeeps
  <2> HIDE DEF d
  <2> QED
    BY <2>1, <2>3, <1>0, <1>1, <1>4
<1>6. CASE CanRemove(mgr)
  <2>1. Inv("running", m, held + 1, d)
    BY <1>0, <1>1, <1>6, RemoveKeeps
  <2>2. Enqueued(m)
    BY <1>6 DEF processDownstreamPacket
  <2> DEFINE m1 == IF held = Depth THEN addToken(m) ELSE m
             depth == IF held = Depth THEN held ELSE held + 1
  <2>3. \/ Manages(m1) /\ held' = depth
        \/ Manages(addToken(m1)) /\ held' = depth - 1
    BY <2>2 DEF Enqueued
  <2> HIDE DEF d, m
  <2>4. Inv("running", m1, depth, d)
    <3>1. CASE held = Depth
      <4>0. PICK k \in Nat : k = held + 1
        BY <1>1
      <4>1. Inv("running", m, k, d) /\ k > 0 /\ k - 1 = held
        BY <2>1, <4>0, <1>1
      <4>2. Inv("running", addToken(m), k - 1, d)
        BY <4>1, AddKeeps
      <4> QED
        BY <3>1, <4>1, <4>2
    <3>2. CASE held # Depth
      BY <2>1, <3>2
    <3> QED
      BY <3>1, <3>2
  <2>5. depth \in Nat /\ depth > 0 /\ depth <= Depth /\ depth <= held + 1
    BY <1>1
  <2> HIDE DEF m1, depth
  <2>6. Inv("running", addToken(m1), depth - 1, d)
    BY <2>4, <2>5, AddKeeps
  <2>7. CASE Manages(m1) /\ held' = depth
    <3>1. Inv(mac, mgr', held', d)
      BY <2>4, <2>7, <1>0, <1>2, ManagesKeeps
    <3> QED
      BY <3>1, <2>5, <2>7, <1>4
  <2>8. CASE Manages(addToken(m1)) /\ held' = depth - 1
    <3>1. Inv(mac, mgr', held', d)
      BY <2>6, <2>8, <1>0, <1>2, ManagesKeeps
    <3>2. held' <= Depth /\ held' <= held + 1
      BY <2>5, <2>8, <1>1
    <3> QED
      BY <3>1, <3>2, <1>4
  <2> QED
    BY <2>3, <2>7, <2>8
<1> QED
  BY <1>5, <1>6

\* handleDownstreamQueueEntry: a packet leaves.
LEMMA TransmitStep ==
    ASSUME IInv, handleDownstreamQueueEntry PROVE IInv' /\ SemaphoreStep
<1>0. /\ mac = "running" /\ mac' = mac /\ restarts' = restarts /\ cl' = cl
      /\ held > 0 /\ held' = held - 1 /\ Manages(addToken(mgr))
  BY DEF handleDownstreamQueueEntry
<1>1. Inv("running", addToken(mgr), held - 1, cl)
  BY <1>0, AddKeeps DEF IInv
<1>2. Inv(mac, mgr', held', cl)
  BY <1>0, <1>1, ManagesKeeps
<1>3. /\ held \in Nat /\ held <= Depth /\ Depth \in Nat
      /\ InFlight(cl.out) \in Nat /\ Taken(cl) \in Nat
  BY LoadParts, FlowAssumption
<1>4. Load = held + (InFlight(cl.out) + Taken(cl))
      /\ Load' = (held - 1) + (InFlight(cl.out) + Taken(cl))
  BY <1>0 DEF Load
<1>5. Load' \in 0 .. Load /\ held' <= Depth
  BY <1>0, <1>3, <1>4
<1> QED
  BY <1>0, <1>2, <1>5, LoadParts DEF IInv, SemaphoreStep

\* ShimDrops: the packet never arrives.
LEMMA ShimStep == ASSUME IInv, ShimDrops PROVE IInv' /\ SemaphoreStep
<1> DEFINE d == [cl EXCEPT !.out = Tail(cl.out), !.lost = (cl.use = "settled")]
<1>0. /\ mac = "running" /\ mac' = mac /\ restarts' = restarts /\ held' = held
      /\ cl.out # <<>> /\ Head(cl.out).kind = "packet" /\ cl' = d /\ mgr' = mgr
  BY DEF ShimDrops, Arrives
<1>1. Inv("running", mgr, held, cl) /\ cl \in Client
  BY <1>0, LoadParts DEF IInv
<1>2. /\ d \in Client /\ d.running = cl.running /\ d.posted = cl.posted
      /\ d.use = cl.use /\ d.early = cl.early
      /\ (cl.use = "settled" => d.lost) /\ d.tokens = cl.tokens
      /\ d.reader = cl.reader /\ d.out = Tail(cl.out)
  <2>1. Tail(cl.out) \in Seq(Message) /\ (cl.use = "settled") \in BOOLEAN
    BY <1>0, <1>1 DEF Client
  <2>2. d \in Client
    BY <2>1, <1>1 DEF Client
  <2>3. d.running = cl.running /\ d.posted = cl.posted /\ d.use = cl.use /\ d.early = cl.early
    BY <1>1 DEF Client
  <2>4. (cl.use = "settled" => d.lost) /\ d.tokens = cl.tokens /\ d.reader = cl.reader
    BY <1>1 DEF Client
  <2>5. d.out = Tail(cl.out)
    BY <1>1 DEF Client
  <2> QED
    BY <2>2, <2>3, <2>4, <2>5
<1> HIDE DEF d
<1>3. Inv("running", mgr, held, d)
  BY <1>0, <1>1, <1>2, DropKeeps
<1>4. /\ InFlight(cl.out) \in Nat /\ Taken(cl) \in Nat /\ InFlight(d.out) \in Nat
      /\ InFlight(d.out) = InFlight(cl.out) - 1 /\ Taken(d) = Taken(cl)
      /\ held \in Nat
  BY <1>0, <1>1, <1>2, LoadParts, OnePacketLess, CountsOfClient
<1>5. Load = held + (InFlight(cl.out) + Taken(cl))
      /\ Load' = held + (InFlight(d.out) + Taken(d))
  BY <1>0 DEF Load
<1>6. Load' \in 0 .. Load
  BY <1>4, <1>5
<1> QED
  BY <1>0, <1>2, <1>3, <1>6, LoadParts DEF IInv, SemaphoreStep

\* TransportStart, client_stop and the end of the reader change no count.
LEMMA QuietStep ==
    ASSUME IInv, TransportStart \/ client_stop \/ (client_removeToken /\ cl.cancel)
    PROVE  IInv' /\ SemaphoreStep
<1>1. mac' = mac /\ restarts' = restarts /\ held' = held /\ mgr' = mgr
  BY DEF TransportStart, client_stop, client_removeToken, Transport
<1>2. cl \in Client /\ Life(cl)
  BY LoadParts
<1>3. /\ cl' \in Client /\ cl'.posted = cl.posted /\ cl'.use = cl.use
      /\ cl'.early = cl.early /\ cl'.lost = cl.lost
      /\ cl'.tokens = cl.tokens /\ cl'.out = cl.out
      /\ (cl'.reader = "sending" <=> cl.reader = "sending") /\ Life(cl')
  <2>1. CASE TransportStart
    <3>1. cl' = [cl EXCEPT !.running = TRUE]
      BY <2>1 DEF TransportStart, Transport
    <3>2. cl' \in Client /\ cl'.running
      BY <3>1, <1>2 DEF Client
    <3>3. cl'.posted = cl.posted /\ cl'.use = cl.use /\ cl'.early = cl.early
          /\ cl'.lost = cl.lost
      BY <3>1, <1>2 DEF Client
    <3>4. cl'.tokens = cl.tokens /\ cl'.out = cl.out /\ cl'.reader = cl.reader
      BY <3>1, <1>2 DEF Client
    <3> QED
      BY <3>2, <3>3, <3>4, <1>2 DEF Life
  <2>2. CASE client_stop
    <3>1. cl' = [cl EXCEPT !.cancel = TRUE]
      BY <2>2 DEF client_stop, Transport
    <3>2. cl' \in Client /\ cl'.running = cl.running
      BY <3>1, <1>2 DEF Client
    <3>3. cl'.posted = cl.posted /\ cl'.use = cl.use /\ cl'.early = cl.early
          /\ cl'.lost = cl.lost
      BY <3>1, <1>2 DEF Client
    <3>4. cl'.tokens = cl.tokens /\ cl'.out = cl.out /\ cl'.reader = cl.reader
      BY <3>1, <1>2 DEF Client
    <3> QED
      BY <3>2, <3>3, <3>4, <1>2 DEF Life
  <2>3. CASE client_removeToken /\ cl.cancel
    <3>1. cl' = [cl EXCEPT !.reader = "done"] /\ cl.reader = "idle"
      BY <2>3 DEF client_removeToken, Transport
    <3>2. cl' \in Client /\ cl'.running = cl.running
      BY <3>1, <1>2 DEF Client
    <3>3. cl'.posted = cl.posted /\ cl'.use = cl.use /\ cl'.early = cl.early
          /\ cl'.lost = cl.lost
      BY <3>1, <1>2 DEF Client
    <3>4. cl'.tokens = cl.tokens /\ cl'.out = cl.out /\ cl'.reader = "done"
      BY <3>1, <1>2 DEF Client
    <3> QED
      BY <3>1, <3>2, <3>3, <3>4, <1>2 DEF Life
  <2> QED
    BY <2>1, <2>2, <2>3
<1>4. Inv(mac, mgr, held, cl')
  BY <1>3, SameKeeps DEF IInv
<1>5. Load' = Load
  BY <1>1, <1>3 DEF Load, Taken
<1> QED
  BY <1>1, <1>3, <1>4, <1>5, LoadParts DEF IInv, SemaphoreStep

\* postStart: the client sends its count.
LEMMA PostStep == ASSUME IInv, postStart PROVE IInv' /\ SemaphoreStep
<1> DEFINE e == [cl EXCEPT !.posted = TRUE]
           n == TokensMessage(cl.tokens)
<1>1. /\ mac' = mac /\ restarts' = restarts /\ held' = held /\ mgr' = mgr
      /\ cl.running /\ ~cl.posted /\ cl' = Sent(e, n)
  BY DEF postStart, Transport
<1>2. cl \in Client /\ n \in Message /\ cl.out \in Seq(Message) /\ n.kind = "tokens"
  BY LoadParts, MessageKinds DEF Client
<1>3. /\ e \in Client /\ e.running = cl.running /\ e.posted /\ e.use = cl.use
      /\ e.early = cl.early /\ e.tokens = cl.tokens /\ e.reader = cl.reader /\ e.out = cl.out
  <2>1. e \in Client /\ e.running = cl.running /\ e.posted /\ e.use = cl.use
        /\ e.early = cl.early
    BY <1>2 DEF Client
  <2>2. e.tokens = cl.tokens /\ e.reader = cl.reader /\ e.out = cl.out
    BY <1>2 DEF Client
  <2> QED
    BY <2>1, <2>2
<1> HIDE DEF e, n
<1>4. /\ cl' \in Client /\ cl'.running = cl.running /\ cl'.posted /\ cl'.use = cl.use
      /\ cl'.early = cl.early /\ cl'.tokens = cl.tokens /\ cl'.reader = cl.reader
      /\ cl'.out = IF mac = "running" THEN Append(cl.out, n) ELSE cl.out
  <2>1. cl'.posted = e.posted /\ cl'.out = IF mac = "running" THEN Append(e.out, n) ELSE e.out
    BY <1>1, <1>2, <1>3, SentChanges
  <2> QED
    BY <2>1, <1>1, <1>2, <1>3, SentChanges
<1>5. Inv(mac, mgr, held, cl')
  BY <1>1, <1>4, PostKeeps DEF IInv, n
<1>6. Taken(cl') = Taken(cl) /\ (mac = "running" => InFlight(cl'.out) = InFlight(cl.out) + 0)
  BY <1>2, <1>4, InFlightAppend DEF Taken
<1>7. Load' = Load
  BY <1>1, <1>6, LoadParts DEF Load
<1> QED
  BY <1>1, <1>4, <1>5, <1>7, LoadParts DEF IInv, SemaphoreStep

\* client_removeToken: the only step in which the load grows.
LEMMA TakeStep ==
    ASSUME IInv, client_removeToken, ~cl.cancel PROVE IInv' /\ SemaphoreStep
<1> DEFINE u == Use
           r == cl.early \/ u = "early"
<1>1. /\ mac' = mac /\ restarts' = restarts /\ held' = held /\ mgr' = mgr
      /\ cl.running /\ cl.reader = "idle" /\ cl.tokens # 0
      /\ cl' = [cl EXCEPT !.tokens = cl.tokens - 1, !.reader = "sending",
                          !.use = u, !.early = r]
  BY DEF client_removeToken, Transport
<1>2. cl \in Client
  BY LoadParts
<1>u. /\ u \in {"settled", "early"} /\ (cl.use # "none" => u = cl.use)
      /\ cl.use = "none" /\ u = "settled" =>
           /\ cl.posted /\ mgr.out = <<>>
           /\ IF mgr.pending THEN OneCount(cl.out) ELSE AllPackets(cl.out)
  BY <1>2 DEF Use, Agreed, Client
<1>r. r \in BOOLEAN /\ (r <=> cl.early \/ u = "early")
  OBVIOUS
<1> HIDE DEF u, r
<1>3. /\ cl' \in Client /\ cl'.running = cl.running /\ cl'.posted = cl.posted
      /\ cl'.use = u /\ cl'.early = r /\ cl'.lost = cl.lost /\ cl'.tokens = cl.tokens - 1
      /\ cl'.reader = "sending" /\ cl'.out = cl.out
  <2>0. cl.tokens - 1 \in Count
    BY <1>1, <1>2, FlowAssumption DEF Client, Count
  <2>1. cl' \in Client /\ cl'.running = cl.running /\ cl'.posted = cl.posted
    BY <2>0, <1>1, <1>2, <1>u, <1>r DEF Client
  <2>2. cl'.use = u /\ cl'.early = r /\ cl'.lost = cl.lost
    BY <1>1, <1>2 DEF Client
  <2>3. cl'.tokens = cl.tokens - 1 /\ cl'.reader = "sending" /\ cl'.out = cl.out
    BY <1>1, <1>2 DEF Client
  <2> QED
    BY <2>1, <2>2, <2>3
<1>4. /\ Inv(mac, mgr, held, cl')
      /\ mac = "running" /\ u = "settled" => InFlight(cl.out) + Taken(cl) + held < Tokens
  <2>1. cl'.early <=> cl.early \/ cl'.use = "early"
    BY <1>3, <1>r
  <2>2. Inv(mac, mgr, held, cl)
    BY DEF IInv
  <2>3. /\ cl'.use \in {"settled", "early"} /\ (cl.use # "none" => cl'.use = cl.use)
        /\ cl.use = "none" /\ cl'.use = "settled" =>
             /\ cl.posted /\ mgr.out = <<>>
             /\ IF mgr.pending THEN OneCount(cl.out) ELSE AllPackets(cl.out)
    BY <1>3, <1>u
  <2>4. /\ Inv(mac, mgr, held, cl')
        /\ mac = "running" /\ cl'.use = "settled"
             => InFlight(cl.out) + Taken(cl) + held < Tokens
    BY ONLY <2>1, <2>2, <2>3, <1>1, <1>3, TakeKeeps
  <2> QED
    BY <2>4, <1>3
<1>5. /\ InFlight(cl.out) \in Nat /\ held \in Nat /\ Taken(cl) = 0 /\ Taken(cl') = 1
      /\ Tokens \in Nat /\ Load \in Nat
  BY <1>1, <1>3, LoadParts, FlowAssumption DEF Taken
<1>6. IInv'
  BY <1>1, <1>4, LoadParts DEF IInv
<1>7. (cl.early => cl'.early) /\ (~cl'.early => u = "settled")
  BY <1>3, <1>u, <1>r
<1>8. CASE mac = "running" /\ u = "settled"
  <2>1. Load = held + (InFlight(cl.out) + 0) /\ Load' = held + (InFlight(cl.out) + 1)
    BY <1>1, <1>3, <1>5, <1>8 DEF Load
  <2>2. Load < Tokens /\ Load' = Load + 1
    BY <2>1, <1>4, <1>5, <1>8
  <2> QED
    BY <2>2, <1>6, <1>7 DEF SemaphoreStep
<1>9. CASE mac # "running"
  <2>1. Load' = Load
    BY <1>1, <1>9 DEF Load
  <2> QED
    BY <2>1, <1>5, <1>6, <1>7 DEF SemaphoreStep
<1> QED
  BY <1>6, <1>7, <1>8, <1>9 DEF SemaphoreStep

\* sendDownstreamPacket: the packet leaves the reader for the queue.
LEMMA SendStep == ASSUME IInv, sendDownstreamPacket PROVE IInv' /\ SemaphoreStep
<1> DEFINE e == [cl EXCEPT !.reader = "idle"]
<1>1. /\ mac' = mac /\ restarts' = restarts /\ held' = held /\ mgr' = mgr
      /\ cl.reader = "sending" /\ cl' = Sent(e, Packet)
  BY DEF sendDownstreamPacket, Transport
<1>2. cl \in Client /\ Packet \in Message
  BY LoadParts, MessageKinds
<1>3. /\ e \in Client /\ e.running = cl.running /\ e.posted = cl.posted
      /\ e.use = cl.use /\ e.early = cl.early /\ e.lost = cl.lost
      /\ e.tokens = cl.tokens /\ e.reader = "idle" /\ e.out = cl.out
  <2>1. e \in Client /\ e.running = cl.running /\ e.posted = cl.posted
    BY <1>2 DEF Client
  <2>2. e.use = cl.use /\ e.early = cl.early /\ e.lost = cl.lost /\ e.tokens = cl.tokens
    BY <1>2 DEF Client
  <2>3. e.reader = "idle" /\ e.out = cl.out
    BY <1>2 DEF Client
  <2> QED
    BY <2>1, <2>2, <2>3
<1> HIDE DEF e
<1>4. /\ cl' \in Client /\ cl'.running = cl.running /\ cl'.posted = cl.posted
      /\ cl'.use = cl.use /\ cl'.early = cl.early /\ cl'.lost = cl.lost
      /\ cl'.tokens = cl.tokens /\ cl'.reader = "idle"
      /\ cl'.out = IF mac = "running" THEN Append(cl.out, Packet) ELSE cl.out
  BY <1>1, <1>2, <1>3, SentChanges
<1>5. /\ Inv(mac, mgr, held, cl')
      /\ mac = "running" => InFlight(cl'.out) + Taken(cl') = InFlight(cl.out) + Taken(cl)
  BY <1>1, <1>4, SendKeeps DEF IInv
<1>6. Load' = Load
  BY <1>1, <1>5 DEF Load
<1> QED
  BY <1>1, <1>4, <1>5, <1>6, LoadParts DEF IInv, SemaphoreStep

\* client_processFlowControlMessage: the client has the manager's count.
LEMMA UpdateStep ==
    ASSUME IInv, client_processFlowControlMessage PROVE IInv' /\ SemaphoreStep
<1> DEFINE k == Head(mgr.out)
           e == [cl EXCEPT !.tokens = k]
<1>1. /\ mac' = mac /\ restarts' = restarts /\ held' = held
      /\ mgr' = [mgr EXCEPT !.out = Tail(mgr.out)]
      /\ cl.running /\ mgr.out # <<>> /\ cl' = Sent(e, TokensMessage(k))
  BY DEF client_processFlowControlMessage
<1>2. cl \in Client /\ k \in Count /\ TokensMessage(k) \in Message
      /\ TokensMessage(k).kind = "tokens" /\ cl.out \in Seq(Message)
  <2>1. mgr.out \in Seq(Count)
    BY LoadParts, CountsOfManager
  <2>2. k \in Count
    BY <2>1, <1>1
  <2> QED
    BY <2>2, LoadParts, MessageKinds, CountsOfClient
<1> HIDE DEF k
<1>3. /\ e \in Client /\ e.running = cl.running /\ e.posted = cl.posted
      /\ e.use = cl.use /\ e.early = cl.early /\ e.lost = cl.lost
      /\ e.tokens = k /\ e.reader = cl.reader /\ e.out = cl.out
  <2>1. e \in Client /\ e.running = cl.running /\ e.posted = cl.posted
    BY <1>2 DEF Client
  <2>2. e.use = cl.use /\ e.early = cl.early /\ e.lost = cl.lost /\ e.tokens = k
    BY <1>2 DEF Client
  <2>3. e.reader = cl.reader /\ e.out = cl.out
    BY <1>2 DEF Client
  <2> QED
    BY <2>1, <2>2, <2>3
<1> HIDE DEF e
<1>4. /\ cl' \in Client /\ cl'.running = cl.running /\ cl'.posted = cl.posted
      /\ cl'.use = cl.use /\ cl'.early = cl.early /\ cl'.lost = cl.lost
      /\ cl'.tokens = k /\ cl'.reader = cl.reader
      /\ cl'.out = IF mac = "running" THEN Append(cl.out, TokensMessage(k)) ELSE cl.out
  <2> DEFINE d == Sent(e, TokensMessage(k))
  <2>1. /\ d \in Client /\ d.running = e.running /\ d.posted = e.posted
        /\ d.use = e.use /\ d.early = e.early /\ d.lost = e.lost /\ d.tokens = e.tokens
        /\ d.reader = e.reader
        /\ d.out = IF mac = "running" THEN Append(e.out, TokensMessage(k)) ELSE e.out
    BY <1>2, <1>3, SentChanges
  <2> HIDE DEF d
  <2>2. cl' = d
    BY <1>1 DEF d
  <2> QED
    BY <2>1, <2>2, <1>3
<1>5. Inv(mac, mgr', held, cl')
  BY <1>1, <1>4, UpdateKeeps DEF IInv, k
<1>6. Taken(cl') = Taken(cl) /\ (mac = "running" => InFlight(cl'.out) = InFlight(cl.out) + 0)
  BY <1>2, <1>4, InFlightAppend DEF Taken
<1>7. Load' = Load
  BY <1>1, <1>6, LoadParts DEF Load
<1> QED
  BY <1>1, <1>4, <1>5, <1>7, LoadParts DEF IInv, SemaphoreStep

\* TransportRestart: a packet that the reader had not sent is lost.
LEMMA RestartStep == ASSUME IInv, TransportRestart PROVE IInv' /\ SemaphoreStep
<1>1. /\ mac' = mac /\ restarts' = restarts + 1 /\ held' = held
      /\ mgr' = [mgr EXCEPT !.out = <<>>]
      /\ cl' = [NewClient EXCEPT !.out = cl.out, !.early = cl.early]
  BY DEF TransportRestart
<1>2. Inv(mac, mgr', held, cl')
  BY <1>1, RestartKeeps DEF IInv
<1>3. cl'.out = cl.out /\ cl'.reader = "idle" /\ cl'.early = cl.early
  BY <1>1 DEF NewClient
<1>4. /\ Taken(cl') = 0 /\ InFlight(cl.out) \in Nat /\ Taken(cl) \in Nat
      /\ held \in Nat /\ restarts + 1 \in Nat
  BY <1>3, LoadParts DEF Taken
<1>5. Load' \in 0 .. Load
  <2>1. CASE mac = "running"
    <3>1. Load = held + (InFlight(cl.out) + Taken(cl))
          /\ Load' = held + (InFlight(cl.out) + 0)
      BY <2>1, <1>1, <1>3, <1>4 DEF Load
    <3> QED
      BY <3>1, <1>4
  <2>2. CASE mac # "running"
    <3>1. Load' = Load /\ Load \in Nat
      BY <2>2, <1>1, LoadParts DEF Load
    <3> QED
      BY <3>1
  <2> QED
    BY <2>1, <2>2
<1> QED
  BY <1>1, <1>2, <1>3, <1>4, <1>5, LoadParts DEF IInv, SemaphoreStep

\* Every step.
LEMMA NextStep ==
    ASSUME IInv, [Next]_vars PROVE IInv' /\ SemaphoreStep
<1>1. CASE MacNext
  BY <1>1, MacStartStep, MacStopStep, ControlStep, PacketStep, TransmitStep, ShimStep
     DEF MacNext
<1>2. CASE TransportNext
  BY <1>2, QuietStep, PostStep, TakeStep, SendStep, UpdateStep, RestartStep
     DEF TransportNext
<1>3. CASE UNCHANGED vars
  <2>1. Load' = Load
    BY <1>3 DEF vars, Load
  <2> QED
    BY <2>1, <1>3, LoadParts DEF vars, IInv, SemaphoreStep
<1> QED
  BY <1>1, <1>2, <1>3 DEF Next
-----------------------------------------------------------------------------
(***************************************************************************)
(* The theorems.                                                           *)
(***************************************************************************)

\* The invariant implies the properties of FlowControl.
LEMMA InvImplies ==
    ASSUME IInv
    PROVE  TypeOK /\ TokensAreConserved /\ PacketsFindTokens /\ ShadowIsExact
<1>1. TypeOK
  BY FlowAssumption DEF IInv, Inv, TypeOK
<1>2. TokensAreConserved
  BY DEF IInv, Inv, Running, TokensAreConserved
<1>3. PacketsFindTokens
  BY PacketAtHead DEF IInv, PacketsFindTokens, Arrives
<1>4. ShadowIsExact
  <2> SUFFICES ASSUME mac = "running", cl.use = "settled", ~mgr.pending, ~cl.lost
               PROVE  mgr.shadow = cl.tokens + InFlight(cl.out) + Taken(cl)
    BY DEF ShadowIsExact
  <2>1. Counting(mgr, cl)
    BY DEF IInv, Inv, Running, Settled, Updating, Answering
  <2> QED
    BY <2>1 DEF Counting, Spent
<1> QED
  BY <1>1, <1>2, <1>3, <1>4

\* The invariant holds in every state.
THEOREM Invariance == Spec => []IInv
<1>1. Init => IInv
  BY InitInv
<1>2. IInv /\ [Next]_vars => IInv'
  BY NextStep
<1> QED
  BY <1>1, <1>2, PTL DEF Spec

\* No token is lost or made up by the MAC layer, however its packets leave it.
THEOREM Conservation == Spec => [](TypeOK /\ TokensAreConserved)
<1>1. IInv => TypeOK /\ TokensAreConserved
  BY InvImplies
<1> QED
  BY <1>1, Invariance, PTL

\* The MAC layer drops no packet for want of a token, when the client took its
\* first one after the counts of both ends had come to agree.
THEOREM NoFlowControlDrop == Spec => []PacketsFindTokens
<1>1. IInv => PacketsFindTokens
  BY InvImplies
<1> QED
  BY <1>1, Invariance, PTL

\* The shadow count follows such a client exactly, as long as no shim interferes.
THEOREM ShadowFollowsClient == Spec => []ShadowIsExact
<1>1. IInv => ShadowIsExact
  BY InvImplies
<1> QED
  BY <1>1, Invariance, PTL

\* The permits change as those of a semaphore.
LEMMA PermitsStep ==
    ASSUME IInv, IInv', SemaphoreStep
    PROVE  (Permits < Tokens /\ Permits' = Permits + 1) \/ Permits' \in 0 .. Permits
<1>1. Load \in Nat /\ Permits \in Nat
  BY LoadParts DEF Permits
<1>2. CASE cl'.early
  <2>1. Permits' = 0
    BY <1>2 DEF Permits
  <2> QED
    BY <1>1, <2>1
<1>3. CASE ~cl'.early
  <2>1. Permits' = Load' /\ Permits = Load
    BY <1>3 DEF Permits, SemaphoreStep
  <2> QED
    BY <1>3, <2>1 DEF SemaphoreStep
<1> QED
  BY <1>2, <1>3

\* Flow control implements the counting semaphore up to the first token taken
\* early, shims and restarts of the transport included.
THEOREM Refinement == Spec => IsSemaphore
<1>1. Init => Semaphore!Init
  BY InitInv DEF Semaphore!Init
<1>2. IInv /\ [Next]_vars => [Semaphore!Next]_Permits
  BY NextStep, PermitsStep DEF Semaphore!Next, Semaphore!Acquire, Semaphore!Release
<1> QED
  BY <1>1, <1>2, Invariance, PTL DEF Spec, IsSemaphore, Semaphore!Spec
=============================================================================
