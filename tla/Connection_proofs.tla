--------------------------- MODULE Connection_proofs ---------------------------
(***************************************************************************)
(* Proofs about Connection, for every MaxWrites, MaxBlocks and            *)
(* PeerCloseKinds satisfying ConnAssumption.                               *)
(*                                                                         *)
(*  - TypeCorrect: Spec => []TypeOK.                                       *)
(*  - ShutdownRunsOnce: Spec => []ShutdownOnce, from the inductive         *)
(*    invariant IInv: on_shutdown has run exactly when closed is set (it  *)
(*    runs in the same call of shutdown() that sets it, and the closed    *)
(*    guard stops a second run), and the loop only exits when closed.     *)
(*  - WritesInOrder: when write_all never returns WouldBlock,             *)
(*    Spec => []DeliveredInOrder, from OrderInv: the Writes left in the   *)
(*    channel carry increasing ids after those on the wire, and while the *)
(*    socket takes bytes every id not yet written is still queued.        *)
(***************************************************************************)
EXTENDS Connection, SequenceTheorems, TLAPS

USE ConnAssumption

-----------------------------------------------------------------------------
(* Type correctness                                                        *)

(* A Write event at the head of the channel carries a payload id.          *)
LEMMA WriteHead ==
    ASSUME chan \in Seq(Events), chan # <<>>, Head(chan).kind = "write"
    PROVE  Head(chan).data \in 1..MaxWrites
BY DEF Events, Write, Closing, Closed

LEMMA BytesType ==
    ASSUME NEW i \in 1..MaxWrites
    PROVE  Bytes(i) \in Seq((1..MaxWrites) \X {1, 2})
BY DEF Bytes

LEMMA InitTypeOK == Init => TypeOK
<1> SUFFICES ASSUME Init PROVE TypeOK
    OBVIOUS
<1>1. chan \in Seq(Events) /\ wire \in Seq((1..MaxWrites) \X {1, 2}) /\ sent \in Seq(1..MaxWrites)
    BY DEF Init
<1>2. blocks \in 0..MaxBlocks /\ shutdownCalls \in Nat
    BY DEF Init
<1>3. closed \in BOOLEAN /\ remoteClosing \in BOOLEAN
    BY DEF Init
<1>4. pc \in {"read", "events", "exited"} /\ peer \in {"open", "fin", "rst"}
    BY DEF Init
<1>5. QED
    BY <1>1, <1>2, <1>3, <1>4 DEF TypeOK

LEMMA NextTypeOK == TypeOK /\ [Next]_vars => TypeOK'
<1> SUFFICES ASSUME TypeOK, [Next]_vars PROVE TypeOK'
    OBVIOUS
<1>1. CASE ReadQuiet
    BY <1>1 DEF ReadQuiet, TypeOK
<1>2. CASE ReadFails
    BY <1>2 DEF ReadFails, TypeOK, Events
<1>3. CASE WriteAll
    <2>1. Head(chan).data \in 1..MaxWrites
        BY <1>3, WriteHead DEF WriteAll, TypeOK
    <2>2. wire' \in Seq((1..MaxWrites) \X {1, 2})
        BY <1>3, <2>1, BytesType DEF WriteAll, TypeOK
    <2>3. QED
        BY <1>3, <2>2 DEF WriteAll, TypeOK
<1>4. CASE WriteWouldBlock
    <2>1. Head(chan).data \in 1..MaxWrites
        BY <1>4, WriteHead DEF WriteWouldBlock, TypeOK
    <2>2. PICK n \in 0..1 : wire' = wire \o SubSeq(Bytes(Head(chan).data), 1, n)
        BY <1>4 DEF WriteWouldBlock
    <2>3. wire' \in Seq((1..MaxWrites) \X {1, 2})
        <3> DEFINE d == Head(chan).data
        <3>1. <<d, 1>> \in (1..MaxWrites) \X {1, 2} /\ <<d, 2>> \in (1..MaxWrites) \X {1, 2}
            BY <2>1
        <3>2. SubSeq(<<<<d, 1>>, <<d, 2>>>>, 1, n) \in Seq((1..MaxWrites) \X {1, 2})
            BY <3>1
        <3>3. QED
            BY <2>2, <3>2 DEF TypeOK, Bytes
    <2>4. chan' \in Seq(Events)
        BY <1>4 DEF WriteWouldBlock, TypeOK
    <2>5. QED
        BY <1>4, <2>3, <2>4 DEF WriteWouldBlock, TypeOK
<1>5. CASE WriteFails
    BY <1>5 DEF WriteFails, TypeOK, Events
<1>6. CASE ClosingWhenClosed
    BY <1>6 DEF ClosingWhenClosed, TypeOK
<1>7. CASE Shutdown
    BY <1>7 DEF Shutdown, TypeOK, Events
<1>8. CASE ShutdownFails
    BY <1>8 DEF ShutdownFails, TypeOK
<1>9. CASE EventsEmpty
    BY <1>9 DEF EventsEmpty, AfterEvents, TypeOK
<1>10. CASE EventClosed
    BY <1>10 DEF EventClosed, AfterEvents, TypeOK
<1>11. CASE RemoteWrite
    BY <1>11 DEF RemoteWrite, TypeOK, Events
<1>12. CASE RemoteClose
    BY <1>12 DEF RemoteClose, TypeOK, Events
<1>13. CASE PeerClose
    BY <1>13 DEF PeerClose, TypeOK
<1>14. CASE UNCHANGED vars
    BY <1>14 DEF vars, TypeOK
<1>15. QED
    BY <1>1, <1>2, <1>3, <1>4, <1>5, <1>6, <1>7, <1>8, <1>9, <1>10, <1>11,
       <1>12, <1>13, <1>14 DEF Next, PollStep

(* Type correctness of the connection model, about every step of          *)
(* poll_connection and of the threads feeding its channel.                 *)
THEOREM TypeCorrect == Spec => []TypeOK
BY InitTypeOK, NextTypeOK, PTL DEF Spec

-----------------------------------------------------------------------------
(* on_shutdown runs once                                                   *)

IInv ==
    /\ TypeOK
    /\ shutdownCalls = IF closed THEN 1 ELSE 0
    /\ pc = "exited" => closed

LEMMA InitIInv == Init => IInv
BY InitTypeOK DEF Init, IInv

(* Only Shutdown changes closed and shutdownCalls, and only the end of the *)
(* 'EVENTS loop moves pc to "exited"; every other action leaves the three  *)
(* untouched.                                                              *)
LEMMA NextIInv == IInv /\ [Next]_vars => IInv'
<1> SUFFICES ASSUME IInv, [Next]_vars PROVE IInv'
    OBVIOUS
<1>0. TypeOK'
    BY NextTypeOK DEF IInv
<1>1. CASE Shutdown
    BY <1>0, <1>1 DEF Shutdown, IInv, TypeOK
<1>2. CASE EventsEmpty \/ EventClosed
    BY <1>0, <1>2 DEF EventsEmpty, EventClosed, AfterEvents, IInv
<1>3. CASE ReadQuiet \/ ReadFails
    BY <1>0, <1>3 DEF ReadQuiet, ReadFails, IInv
<1>4. CASE \/ WriteAll \/ WriteWouldBlock \/ WriteFails
           \/ ClosingWhenClosed \/ ShutdownFails
           \/ RemoteWrite \/ RemoteClose \/ PeerClose
           \/ UNCHANGED vars
    <2>1. UNCHANGED <<closed, pc, shutdownCalls>>
        BY <1>4 DEF WriteAll, WriteWouldBlock, WriteFails, ClosingWhenClosed,
                    ShutdownFails, RemoteWrite, RemoteClose, PeerClose, vars
    <2>2. QED
        BY <1>0, <2>1 DEF IInv
<1>5. QED
    BY <1>1, <1>2, <1>3, <1>4 DEF Next, PollStep

(* Spec 4.3, about shutdown() and the exit of poll_connection: in every    *)
(* reachable state on_shutdown has run at most once, and exactly once when *)
(* the poll loop has exited, however many Closing events were queued.     *)
THEOREM ShutdownRunsOnce == Spec => []ShutdownOnce
<1>1. Spec => []IInv
    BY InitIInv, NextIInv, PTL DEF Spec
<1>2. IInv => ShutdownOnce
    BY DEF IInv, ShutdownOnce
<1>3. QED
    BY <1>1, <1>2, PTL

-----------------------------------------------------------------------------
(* The Write events in the channel                                         *)

(* The Write events of a channel carry increasing payload ids.            *)
Ordered(c) ==
    \A p, q \in 1..Len(c) :
        p < q /\ c[p].kind = "write" /\ c[q].kind = "write" => c[p].data < c[q].data

(* Every Write event of a channel carries an id in lo..hi.                 *)
InRange(c, lo, hi) == \A p \in 1..Len(c) : c[p].kind = "write" => c[p].data \in lo..hi

(* Every id in lo..hi has a Write event in the channel.                    *)
Covers(c, lo, hi) == \A i \in lo..hi : \E p \in 1..Len(c) : c[p].kind = "write" /\ c[p].data = i

(* Queuing Closing or Closed leaves the Write events as they were.        *)
LEMMA AppendOther ==
    ASSUME NEW c \in Seq(Events), NEW e \in Events, e.kind # "write",
           NEW lo \in Int, NEW hi \in Int
    PROVE  /\ Ordered(c) => Ordered(Append(c, e))
           /\ InRange(c, lo, hi) => InRange(Append(c, e), lo, hi)
           /\ Covers(c, lo, hi) => Covers(Append(c, e), lo, hi)
<1>1. /\ Len(Append(c, e)) = Len(c) + 1
      /\ \A i \in 1..Len(c) : Append(c, e)[i] = c[i]
      /\ Append(c, e)[Len(c) + 1] = e
    BY AppendProperties
<1>2. Len(c) \in Nat
    BY LenProperties
<1>3. QED
    BY <1>1, <1>2 DEF Ordered, InRange, Covers

(* Taking any event off the channel keeps the rest in order and in range. *)
LEMMA TailAny ==
    ASSUME NEW c \in Seq(Events), c # <<>>, NEW lo \in Int, NEW hi \in Int
    PROVE  /\ Ordered(c) => Ordered(Tail(c))
           /\ InRange(c, lo, hi) => InRange(Tail(c), lo, hi)
<1>1. /\ Len(Tail(c)) = Len(c) - 1
      /\ \A i \in 1..Len(Tail(c)) : Tail(c)[i] = c[i + 1]
    BY HeadTailProperties
<1>2. Len(c) \in Nat
    BY LenProperties
<1>3. QED
    BY <1>1, <1>2 DEF Ordered, InRange

(* Taking a Closing or Closed event off the channel loses no Write.       *)
LEMMA TailOther ==
    ASSUME NEW c \in Seq(Events), c # <<>>, Head(c).kind # "write",
           NEW lo \in Int, NEW hi \in Int, Covers(c, lo, hi)
    PROVE  Covers(Tail(c), lo, hi)
<1>1. /\ Len(Tail(c)) = Len(c) - 1
      /\ \A i \in 1..Len(Tail(c)) : Tail(c)[i] = c[i + 1]
    BY HeadTailProperties
<1>2. Len(c) \in Nat /\ Head(c) = c[1]
    BY LenProperties
<1>3. ASSUME NEW i \in lo..hi PROVE \E p \in 1..Len(Tail(c)) : Tail(c)[p].kind = "write" /\ Tail(c)[p].data = i
    <2>1. PICK p \in 1..Len(c) : c[p].kind = "write" /\ c[p].data = i
        BY DEF Covers
    <2>2. p # 1
        BY <1>2, <2>1
    <2>3. p - 1 \in 1..Len(Tail(c)) /\ Tail(c)[p - 1] = c[p]
        BY <1>1, <1>2, <2>2
    <2>4. QED
        BY <2>1, <2>3
<1>4. QED
    BY <1>3 DEF Covers

(* RemoteWrite: a Write with the next id joins the back of the channel.   *)
LEMMA AppendWrite ==
    ASSUME NEW c \in Seq(Events), NEW lo \in Int, NEW hi \in Nat, hi + 1 \in 1..MaxWrites,
           Ordered(c), InRange(c, lo, hi), lo <= hi + 1
    PROVE  /\ Ordered(Append(c, Write(hi + 1)))
           /\ InRange(Append(c, Write(hi + 1)), lo, hi + 1)
           /\ Covers(c, lo, hi) => Covers(Append(c, Write(hi + 1)), lo, hi + 1)
<1>0. Write(hi + 1) \in Events /\ Write(hi + 1).kind = "write" /\ Write(hi + 1).data = hi + 1
    BY DEF Events, Write
<1>1. /\ Len(Append(c, Write(hi + 1))) = Len(c) + 1
      /\ \A i \in 1..Len(c) : Append(c, Write(hi + 1))[i] = c[i]
      /\ Append(c, Write(hi + 1))[Len(c) + 1] = Write(hi + 1)
    BY <1>0, AppendProperties
<1>2. Len(c) \in Nat
    BY LenProperties
<1>3. QED
    BY <1>0, <1>1, <1>2 DEF Ordered, InRange, Covers

(* WriteAll: the Write at the head of a channel whose Writes are in order *)
(* and cover lo..hi is Write(lo); the rest cover lo+1..hi.                *)
LEMMA TailWrite ==
    ASSUME NEW c \in Seq(Events), c # <<>>, Head(c).kind = "write",
           NEW lo \in Int, NEW hi \in Int,
           Ordered(c), InRange(c, lo, hi), Covers(c, lo, hi)
    PROVE  /\ Head(c).data = lo /\ lo <= hi
           /\ Ordered(Tail(c))
           /\ InRange(Tail(c), lo + 1, hi)
           /\ Covers(Tail(c), lo + 1, hi)
<1>1. /\ Len(Tail(c)) = Len(c) - 1
      /\ \A i \in 1..Len(Tail(c)) : Tail(c)[i] = c[i + 1]
    BY HeadTailProperties
<1>2. Len(c) \in Nat /\ Len(c) >= 1 /\ Head(c) = c[1]
    BY LenProperties, EmptySeq
<1>3. c[1].data \in lo..hi
    BY <1>2 DEF InRange
<1>4. Head(c).data = lo
    <2>1. PICK p \in 1..Len(c) : c[p].kind = "write" /\ c[p].data = lo
        BY <1>3 DEF Covers
    <2>2. p = 1
        BY <1>2, <1>3, <2>1 DEF Ordered
    <2>3. QED
        BY <1>2, <2>1, <2>2
<1>5. \A q \in 2..Len(c) : c[q].kind = "write" => c[q].data > lo
    BY <1>2, <1>4 DEF Ordered
<1>6. Ordered(Tail(c)) /\ InRange(Tail(c), lo, hi)
    BY TailAny
<1>7. InRange(Tail(c), lo + 1, hi)
    BY <1>1, <1>2, <1>5, <1>6 DEF InRange
<1>8. ASSUME NEW i \in lo + 1..hi
      PROVE  \E p \in 1..Len(Tail(c)) : Tail(c)[p].kind = "write" /\ Tail(c)[p].data = i
    <2>1. PICK p \in 1..Len(c) : c[p].kind = "write" /\ c[p].data = i
        BY DEF Covers
    <2>2. p # 1
        BY <1>2, <1>4, <2>1
    <2>3. p - 1 \in 1..Len(Tail(c)) /\ Tail(c)[p - 1] = c[p]
        BY <1>1, <1>2, <2>2
    <2>4. QED
        BY <2>1, <2>3
<1>9. QED
    BY <1>2, <1>3, <1>4, <1>6, <1>7, <1>8 DEF Covers

-----------------------------------------------------------------------------
(* The bytes on the wire                                                   *)

(* The bytes of the Writes with ids 1..k, in order.                        *)
WireOf(k) == [j \in 1..2 * k |-> <<(j + 1) \div 2, 2 - (j % 2)>>]

LEMMA WireOfSeq ==
    ASSUME NEW k \in Nat
    PROVE  WireOf(k) \in Seq(Nat \X {1, 2}) /\ Len(WireOf(k)) = 2 * k
<1>1. WireOf(k) \in [1..2 * k -> Nat \X {1, 2}]
    BY DEF WireOf
<1>2. 2 * k \in Nat
    OBVIOUS
<1>3. WireOf(k) \in Seq(Nat \X {1, 2})
    BY <1>1, <1>2, SeqDef
<1>4. QED
    BY <1>1, <1>3, LenProperties

(* write_all of the next payload extends the wire by its two bytes.        *)
LEMMA WireGrows ==
    ASSUME NEW k \in Nat
    PROVE  WireOf(k) \o Bytes(k + 1) = WireOf(k + 1)
<1>1. Bytes(k + 1) \in Seq(Nat \X {1, 2}) /\ Len(Bytes(k + 1)) = 2
    BY DEF Bytes
<1>2. WireOf(k) \in Seq(Nat \X {1, 2}) /\ Len(WireOf(k)) = 2 * k
      /\ WireOf(k + 1) \in Seq(Nat \X {1, 2}) /\ Len(WireOf(k + 1)) = 2 * k + 2
    BY WireOfSeq
<1> DEFINE w == WireOf(k)
           b == Bytes(k + 1)
<1>3. /\ w \o b \in Seq(Nat \X {1, 2})
      /\ Len(w \o b) = Len(w) + Len(b)
      /\ \A j \in 1..Len(w) + Len(b) : (w \o b)[j] = IF j <= Len(w) THEN w[j] ELSE b[j - Len(w)]
    BY <1>1, <1>2, ConcatProperties DEF w, b
<1>4. Len(w) = 2 * k /\ Len(b) = 2
    BY <1>1, <1>2 DEF w, b
<1>5. ASSUME NEW j \in 1..2 * k + 2 PROVE (w \o b)[j] = WireOf(k + 1)[j]
    <2>1. WireOf(k + 1)[j] = <<(j + 1) \div 2, 2 - (j % 2)>>
        BY DEF WireOf
    <2>2. CASE j <= 2 * k
        <3>1. (w \o b)[j] = w[j]
            BY <1>3, <1>4, <2>2
        <3>2. QED
            BY <2>1, <2>2, <3>1 DEF w, WireOf
    <2>3. CASE j > 2 * k
        <3>1. (w \o b)[j] = b[j - 2 * k]
            BY <1>3, <1>4, <2>3
        <3>2. j - 2 * k \in {1, 2}
            BY <2>3
        <3>3. CASE j - 2 * k = 1
            <4>1. b[j - 2 * k] = <<k + 1, 1>>
                BY <3>3 DEF b, Bytes
            <4>2. (j + 1) \div 2 = k + 1 /\ 2 - (j % 2) = 1
                BY <3>3
            <4>3. QED
                BY <2>1, <3>1, <4>1, <4>2
        <3>4. CASE j - 2 * k = 2
            <4>1. b[j - 2 * k] = <<k + 1, 2>>
                BY <3>4 DEF b, Bytes
            <4>2. (j + 1) \div 2 = k + 1 /\ 2 - (j % 2) = 2
                BY <3>4
            <4>3. QED
                BY <2>1, <3>1, <4>1, <4>2
        <3>5. QED
            BY <3>2, <3>3, <3>4
    <2>4. j <= 2 * k \/ j > 2 * k
        OBVIOUS
    <2>5. QED
        BY <2>2, <2>3, <2>4, Zenon
<1>6. QED
    BY <1>2, <1>3, <1>4, <1>5, SeqEqual DEF w, b

-----------------------------------------------------------------------------
(* Writes are delivered in order when write_all never blocks              *)

(* Writes whose bytes are on the wire.                                     *)
Delivered == Len(wire) \div 2

(* The inductive invariant: the visitor's Writes have ids 1, 2, ... in    *)
(* turn; the wire holds the bytes of the first Delivered of them; the      *)
(* Writes still in the channel are in order and come after those; and     *)
(* while the socket takes bytes, none of them has been dropped.           *)
OrderInv ==
    /\ TypeOK
    /\ sent = [i \in 1..Len(sent) |-> i]
    /\ wire = WireOf(Delivered)
    /\ Delivered <= Len(sent)
    /\ Ordered(chan)
    /\ InRange(chan, Delivered + 1, Len(sent))
    /\ Writable => Covers(chan, Delivered + 1, Len(sent))

LEMMA InitOrderInv == Init => OrderInv
<1> SUFFICES ASSUME Init PROVE OrderInv
    OBVIOUS
<1>1. Delivered = 0 /\ WireOf(0) = <<>>
    BY DEF Init, Delivered, WireOf
<1>2. QED
    BY <1>1, InitTypeOK DEF Init, OrderInv, Ordered, InRange, Covers

(* A wire that holds the first k payloads: how many it holds.            *)
LEMMA DeliveredOfWire ==
    ASSUME NEW k \in Nat
    PROVE  Len(WireOf(k)) \div 2 = k
<1>1. Len(WireOf(k)) = 2 * k
    BY WireOfSeq
<1>2. QED
    BY <1>1

(* Every step keeps OrderInv when write_all never returns WouldBlock.      *)
LEMMA NextOrderInv ==
    ASSUME MaxBlocks = 0
    PROVE  OrderInv /\ [Next]_vars => OrderInv'
<1> SUFFICES ASSUME OrderInv, [Next]_vars PROVE OrderInv'
    OBVIOUS
<1> DEFINE d == Delivered
           n == Len(sent)
<1>0. /\ TypeOK'
      /\ chan \in Seq(Events) /\ d \in Nat /\ n \in Nat /\ blocks = 0
      /\ wire = WireOf(d) /\ d <= n /\ Ordered(chan)
      /\ InRange(chan, d + 1, n) /\ (Writable => Covers(chan, d + 1, n))
    <2>1. TypeOK'
        BY NextTypeOK DEF OrderInv
    <2>2. wire = WireOf(d) /\ d \in Nat
        <3>1. Len(wire) \in Nat
            BY LenProperties DEF OrderInv, TypeOK
        <3>2. QED
            BY <3>1 DEF OrderInv, Delivered
    <2>3. QED
        BY <2>1, <2>2, LenProperties DEF OrderInv, TypeOK
(* The steps that leave the wire and the visitor's Writes alone, and do   *)
(* not make the socket writable again, keep the invariant once the        *)
(* channel's Writes still satisfy it.                                      *)
<1>1. ASSUME UNCHANGED <<wire, sent>>, Writable' => Writable,
             Ordered(chan'), InRange(chan', d + 1, n),
             Writable' => Covers(chan', d + 1, n)
      PROVE  OrderInv'
    BY <1>0, <1>1 DEF OrderInv, Delivered
<1>2. CASE WriteAll
    <2>1. /\ Head(chan).data = d + 1 /\ d + 1 <= n
          /\ Ordered(Tail(chan))
          /\ InRange(Tail(chan), d + 2, n)
          /\ Covers(Tail(chan), d + 2, n)
        BY <1>0, <1>2, TailWrite DEF WriteAll
    <2>2. wire' = WireOf(d + 1)
        BY <1>0, <1>2, <2>1, WireGrows DEF WriteAll
    <2>3. Delivered' = d + 1
        BY <2>2, DeliveredOfWire DEF Delivered
    <2>4. QED
        BY <1>0, <1>2, <2>1, <2>2, <2>3 DEF WriteAll, OrderInv, Writable
<1>3. CASE WriteWouldBlock
    BY <1>0, <1>3 DEF WriteWouldBlock
<1>4. CASE WriteFails
    <2>1. ~Writable'
        BY <1>4 DEF WriteFails, Writable
    <2>2. Ordered(Tail(chan)) /\ InRange(Tail(chan), d + 1, n) /\ Tail(chan) \in Seq(Events)
        BY <1>0, <1>4, TailAny, HeadTailProperties DEF WriteFails
    <2>3. Ordered(chan') /\ InRange(chan', d + 1, n)
        <3>1. Closing \in Events /\ Closing.kind # "write"
            BY DEF Closing, Events
        <3>2. d + 1 \in Int /\ n \in Int
            BY <1>0
        <3>3. Ordered(Append(Tail(chan), Closing)) /\ InRange(Append(Tail(chan), Closing), d + 1, n)
            BY <2>2, <3>1, <3>2, AppendOther
        <3>4. chan' = Append(Tail(chan), Closing)
            BY <1>4 DEF WriteFails
        <3>5. QED
            BY <3>3, <3>4
    <2>4. QED
        BY <1>1, <1>4, <2>1, <2>3 DEF WriteFails
<1>5. CASE ReadFails \/ RemoteClose
    <2>1. chan' = Append(chan, Closing) /\ UNCHANGED <<wire, sent, closed, peer>>
        BY <1>5 DEF ReadFails, RemoteClose
    <2>2. Ordered(chan') /\ InRange(chan', d + 1, n) /\ (Writable => Covers(chan', d + 1, n))
        BY <1>0, <2>1, AppendOther DEF Closing, Events
    <2>3. QED
        BY <1>1, <2>1, <2>2 DEF Writable
<1>6. CASE Shutdown
    <2>1. Head(chan).kind # "write" /\ chan # <<>>
        BY <1>6 DEF Shutdown, Closing
    <2>2. Ordered(Tail(chan)) /\ InRange(Tail(chan), d + 1, n) /\ Tail(chan) \in Seq(Events)
        BY <1>0, <2>1, TailAny, HeadTailProperties
    <2>3. Ordered(chan') /\ InRange(chan', d + 1, n)
        <3>1. Closed \in Events /\ Closed.kind # "write"
            BY DEF Closed, Events
        <3>2. d + 1 \in Int /\ n \in Int
            BY <1>0
        <3>3. Ordered(Append(Tail(chan), Closed)) /\ InRange(Append(Tail(chan), Closed), d + 1, n)
            BY <2>2, <3>1, <3>2, AppendOther
        <3>4. chan' = Append(Tail(chan), Closed)
            BY <1>6 DEF Shutdown
        <3>5. QED
            BY <3>3, <3>4
    <2>4. ~Writable'
        BY <1>6 DEF Shutdown, Writable
    <2>5. QED
        BY <1>1, <1>6, <2>3, <2>4 DEF Shutdown
<1>7. CASE ClosingWhenClosed \/ ShutdownFails \/ EventClosed
    <2>1. /\ chan # <<>> /\ Head(chan).kind # "write" /\ chan' = Tail(chan)
          /\ UNCHANGED <<wire, sent, closed, peer>>
        BY <1>7 DEF ClosingWhenClosed, ShutdownFails, EventClosed, Closing, Closed
    <2>2. Ordered(chan') /\ InRange(chan', d + 1, n)
        BY <1>0, <2>1, TailAny
    <2>3. Writable => Covers(chan', d + 1, n)
        BY <1>0, <2>1, TailOther
    <2>4. QED
        BY <1>1, <2>1, <2>2, <2>3 DEF Writable
<1>8. CASE RemoteWrite
    <2>1. n + 1 \in 1..MaxWrites /\ chan' = Append(chan, Write(n + 1))
          /\ sent' = Append(sent, n + 1) /\ UNCHANGED <<wire, closed, peer>>
        BY <1>8 DEF RemoteWrite
    <2>2. /\ Ordered(chan')
          /\ InRange(chan', d + 1, n + 1)
          /\ Covers(chan, d + 1, n) => Covers(chan', d + 1, n + 1)
        BY <1>0, <2>1, AppendWrite
    <2>3. sent' = [i \in 1..n + 1 |-> i] /\ Len(sent') = n + 1
        <3>1. sent \in Seq(1..MaxWrites)
            BY DEF OrderInv, TypeOK
        <3>2. /\ Len(sent') = n + 1
              /\ \A i \in 1..n : sent'[i] = sent[i]
              /\ sent'[n + 1] = n + 1
              /\ sent' \in Seq(1..MaxWrites)
            BY <2>1, <3>1, AppendProperties
        <3>3. QED
            BY <3>2, LenProperties DEF OrderInv
    <2>4. QED
        BY <1>0, <2>1, <2>2, <2>3 DEF OrderInv, Delivered, Writable
<1>9. CASE ReadQuiet \/ EventsEmpty \/ PeerClose \/ UNCHANGED vars
    <2>1. UNCHANGED <<chan, wire, sent, closed>> /\ (Writable' => Writable)
        BY <1>9 DEF ReadQuiet, EventsEmpty, PeerClose, vars, Writable
    <2>2. QED
        BY <1>0, <1>1, <2>1
<1>10. QED
    BY <1>2, <1>3, <1>4, <1>5, <1>6, <1>7, <1>8, <1>9 DEF Next, PollStep

LEMMA OrderInvDelivered == OrderInv => DeliveredInOrder
<1> SUFFICES ASSUME OrderInv PROVE DeliveredInOrder
    OBVIOUS
<1> DEFINE d == Delivered
           n == Len(sent)
<1>1. n \in Nat /\ sent = [i \in 1..n |-> i]
    BY LenProperties DEF OrderInv, TypeOK
<1>2. d \in Nat /\ d <= n /\ wire = WireOf(d)
    <2>1. Len(wire) \in Nat
        BY LenProperties DEF OrderInv, TypeOK
    <2>2. QED
        BY <2>1 DEF OrderInv, Delivered
<1>3. Len(wire) = 2 * d
    BY <1>2, WireOfSeq
<1>4. Len(SentBytes) = 2 * n
    <2>1. SentBytes \in [1..2 * n -> Nat \X {1, 2}]
        BY <1>1 DEF SentBytes
    <2>2. SentBytes \in Seq(Nat \X {1, 2})
        BY <1>1, <2>1, SeqDef
    <2>3. QED
        BY <1>1, <2>1, <2>2, LenProperties
<1>5. ASSUME NEW j \in 1..Len(wire) PROVE wire[j] = SentBytes[j]
    <2>1. (j + 1) \div 2 \in 1..n
        BY <1>1, <1>2, <1>3
    <2>2. wire[j] = <<(j + 1) \div 2, 2 - (j % 2)>>
        BY <1>2, <1>3 DEF WireOf
    <2>3. SentBytes[j] = <<sent[(j + 1) \div 2], 2 - (j % 2)>>
        BY <1>1, <1>2, <1>3 DEF SentBytes
    <2>4. QED
        BY <1>1, <2>1, <2>2, <2>3
<1>6. QED
    BY <1>2, <1>3, <1>4, <1>5 DEF DeliveredInOrder

(* Spec 4.2/4.3 and section 5 ("writes on a single TCP direction are       *)
(* delivered in order"), about the Write handling of poll_connection: when *)
(* write_all never returns WouldBlock, the bytes on the socket are, in     *)
(* every reachable state, the payloads the visitor queued, in order,       *)
(* without repeats or gaps, whatever the peer does and however many        *)
(* Closing events interleave. (With WouldBlock it fails: ConnWriteOrder.)  *)
THEOREM WritesInOrder ==
    ASSUME MaxBlocks = 0
    PROVE  Spec => []DeliveredInOrder
<1>1. Init => OrderInv
    BY InitOrderInv
<1>2. OrderInv /\ [Next]_vars => OrderInv'
    BY NextOrderInv
<1>3. QED
    BY <1>1, <1>2, OrderInvDelivered, PTL DEF Spec

=============================================================================
