----------------------------- MODULE Connection -----------------------------
(***************************************************************************)
(* One accepted TCP connection served by Connection::poll_connection       *)
(* (crates/common/src/net/tcp_server/conn_std.rs).                         *)
(*                                                                         *)
(* The poll thread alternates a non-blocking read with a drain of its own  *)
(* event channel (Write, Closing, Closed). Other threads hold clones of    *)
(* the channel's sender: the proxy visitor queues Write(data) for bytes    *)
(* arriving from the tunnel and Closing when the tunnel ends. The local    *)
(* application at the other end of the socket may close it (FIN) or reset *)
(* it (RST).                                                               *)
(*                                                                         *)
(* A payload is two bytes, <<i, 1>> and <<i, 2>> for the i-th Write, so    *)
(* that a write_all interrupted half way is visible on the wire.           *)
(***************************************************************************)
EXTENDS Naturals, Sequences

CONSTANTS
    MaxWrites,       \* Write events the visitor queues in a run
    MaxBlocks,       \* write_all calls that end in WouldBlock in a run
    PeerCloseKinds   \* how the local application may end: {"fin", "rst"}

ASSUME ConnAssumption ==
    /\ MaxWrites \in Nat
    /\ MaxBlocks \in Nat
    /\ PeerCloseKinds \subseteq {"fin", "rst"}

Write(i) == [kind |-> "write", data |-> i]
Closing == [kind |-> "closing", data |-> 0]
Closed == [kind |-> "closed", data |-> 0]
Events == {Write(i) : i \in 1..MaxWrites} \cup {Closing, Closed}

(* Mutant of Bytes: the buffer indexed from 0.                            *)
BytesFromZero(i) == <<<<i, 0>>, <<i, 1>>>>

Bytes(i) == <<<<i, 1>>, <<i, 2>>>>

VARIABLES
    chan,           \* event_channel: the queued ConnectionEvents
    closed,         \* Connection.closed
    pc,             \* poll thread: "read", "events" (draining) or "exited"
    peer,           \* the application's end: "open", "fin" or "rst"
    wire,           \* bytes written to the socket, in order
    sent,           \* payload ids of the Write events queued, in order
    blocks,         \* write_all calls that returned WouldBlock so far
    shutdownCalls,  \* times visitor.on_shutdown() has run
    remoteClosing   \* the visitor has queued Closing

vars == <<chan, closed, pc, peer, wire, sent, blocks, shutdownCalls, remoteClosing>>

Init ==
    /\ chan = <<>>
    /\ closed = FALSE
    /\ pc = "read"
    /\ peer = "open"
    /\ wire = <<>>
    /\ sent = <<>>
    /\ blocks = 0
    /\ shutdownCalls = 0
    /\ remoteClosing = FALSE

-----------------------------------------------------------------------------
(* The poll thread: one iteration of poll_connection is read(), then the    *)
(* 'EVENTS loop, then the closed check.                                    *)

(* read(): a read that yields data handed to on_connection_read, one that *)
(* would block, or one that returns Ok(0) because the peer sent FIN (or    *)
(* reset the connection and the reset was already reported): Ok(0) gives   *)
(* an empty buffer, which read() treats like "no data".                    *)
ReadQuiet ==
    /\ pc = "read"
    /\ pc' = "events"
    /\ UNCHANGED <<chan, closed, peer, wire, sent, blocks, shutdownCalls, remoteClosing>>

(* read(): the read fails (connection reset) or on_connection_read returns *)
(* Err: Closing is queued and the error logged.                            *)
ReadFails ==
    /\ pc = "read"
    /\ peer \in {"open", "rst"}
    /\ chan' = Append(chan, Closing)
    /\ pc' = "events"
    /\ UNCHANGED <<closed, peer, wire, sent, blocks, shutdownCalls, remoteClosing>>

(* Whether the socket still accepts bytes: not after our shutdown(Both)    *)
(* and not once the peer has reset the connection.                         *)
Writable == ~closed /\ peer # "rst"

(* Write(data) taken off the channel: write_all succeeds.                  *)
WriteAll ==
    /\ pc = "events"
    /\ chan # <<>> /\ Head(chan).kind = "write"
    /\ Writable
    /\ wire' = wire \o Bytes(Head(chan).data)
    /\ chan' = Tail(chan)
    /\ UNCHANGED <<closed, pc, peer, sent, blocks, shutdownCalls, remoteClosing>>

(* write_all returns WouldBlock after writing n of the bytes: the whole    *)
(* buffer is sent again as a new Write event, behind everything queued.   *)
WriteWouldBlock ==
    /\ pc = "events"
    /\ chan # <<>> /\ Head(chan).kind = "write"
    /\ Writable
    /\ blocks < MaxBlocks
    /\ \E n \in 0..1 : wire' = wire \o SubSeq(Bytes(Head(chan).data), 1, n)
    /\ chan' = Append(Tail(chan), Head(chan))
    /\ blocks' = blocks + 1
    /\ UNCHANGED <<closed, pc, peer, sent, shutdownCalls, remoteClosing>>

(* write_all fails (EPIPE or ECONNRESET) and write() queues Closing: on a *)
(* socket that no longer accepts bytes, or once the peer has closed, when *)
(* its stack answers our data with RST; from then on the socket is reset. *)
WriteFails ==
    /\ pc = "events"
    /\ chan # <<>> /\ Head(chan).kind = "write"
    /\ \/ ~Writable /\ UNCHANGED peer
       \/ Writable /\ peer = "fin" /\ peer' = "rst"
    /\ chan' = Append(Tail(chan), Closing)
    /\ UNCHANGED <<closed, pc, wire, sent, blocks, shutdownCalls, remoteClosing>>

(* Closing taken off the channel: shutdown() returns at once when the      *)
(* connection is already closed.                                           *)
ClosingWhenClosed ==
    /\ pc = "events"
    /\ chan # <<>> /\ Head(chan) = Closing
    /\ closed
    /\ chan' = Tail(chan)
    /\ UNCHANGED <<closed, pc, peer, wire, sent, blocks, shutdownCalls, remoteClosing>>

(* Mutant of Shutdown: the `if self.closed { return Ok(()) }` guard       *)
(* dropped.                                                                *)
ShutdownUnguarded ==
    /\ pc = "events"
    /\ chan # <<>> /\ Head(chan) = Closing
    /\ peer # "rst"
    /\ closed' = TRUE
    /\ chan' = Append(Tail(chan), Closed)
    /\ shutdownCalls' = shutdownCalls + 1
    /\ UNCHANGED <<pc, peer, wire, sent, blocks, remoteClosing>>

(* shutdown(): TcpStream::shutdown(Both) succeeds, closed is set, Closed   *)
(* is queued and visitor.on_shutdown() runs.                               *)
Shutdown ==
    /\ pc = "events"
    /\ chan # <<>> /\ Head(chan) = Closing
    /\ ~closed
    /\ peer # "rst"
    /\ closed' = TRUE
    /\ chan' = Append(Tail(chan), Closed)
    /\ shutdownCalls' = shutdownCalls + 1
    /\ UNCHANGED <<pc, peer, wire, sent, blocks, remoteClosing>>

(* shutdown(): on a connection the peer has reset, shutdown(Both) fails    *)
(* with ENOTCONN; the `?` returns before closed is set, and the error is   *)
(* only logged.                                                            *)
ShutdownFails ==
    /\ pc = "events"
    /\ chan # <<>> /\ Head(chan) = Closing
    /\ ~closed
    /\ peer = "rst"
    /\ chan' = Tail(chan)
    /\ UNCHANGED <<closed, pc, peer, wire, sent, blocks, shutdownCalls, remoteClosing>>

(* Mutant of AfterEvents: the `if self.closed { break; }` check lost.     *)
AfterEventsNoExit == pc' = "read"

(* The outer loop, after the 'EVENTS loop: exit if closed, else sleep and *)
(* read again.                                                             *)
AfterEvents == pc' = IF closed THEN "exited" ELSE "read"

(* try_recv finds the channel empty: the 'EVENTS loop ends.               *)
EventsEmpty ==
    /\ pc = "events"
    /\ chan = <<>>
    /\ AfterEvents
    /\ UNCHANGED <<chan, closed, peer, wire, sent, blocks, shutdownCalls, remoteClosing>>

(* try_recv returns Closed: the 'EVENTS loop ends.                         *)
EventClosed ==
    /\ pc = "events"
    /\ chan # <<>> /\ Head(chan) = Closed
    /\ chan' = Tail(chan)
    /\ AfterEvents
    /\ UNCHANGED <<closed, peer, wire, sent, blocks, shutdownCalls, remoteClosing>>

PollStep ==
    \/ ReadQuiet \/ ReadFails
    \/ WriteAll \/ WriteWouldBlock \/ WriteFails
    \/ ClosingWhenClosed \/ Shutdown \/ ShutdownFails
    \/ EventsEmpty \/ EventClosed

-----------------------------------------------------------------------------
(* The other threads and the peer                                          *)

(* The visitor forwards a tunnel payload: Write(data) on the channel. The  *)
(* send fails once the connection is gone and its receiver dropped.        *)
RemoteWrite ==
    /\ pc # "exited"
    /\ Len(sent) < MaxWrites
    /\ sent' = Append(sent, Len(sent) + 1)
    /\ chan' = Append(chan, Write(Len(sent) + 1))
    /\ UNCHANGED <<closed, pc, peer, wire, blocks, shutdownCalls, remoteClosing>>

(* The visitor asks for the connection to close (the tunnel ended).        *)
RemoteClose ==
    /\ pc # "exited"
    /\ ~remoteClosing
    /\ remoteClosing' = TRUE
    /\ chan' = Append(chan, Closing)
    /\ UNCHANGED <<closed, pc, peer, wire, sent, blocks, shutdownCalls>>

(* The local application closes (FIN) or resets (RST) its socket.          *)
PeerClose ==
    /\ peer = "open"
    /\ \E kind \in PeerCloseKinds : peer' = kind
    /\ UNCHANGED <<chan, closed, pc, wire, sent, blocks, shutdownCalls, remoteClosing>>

Next == PollStep \/ RemoteWrite \/ RemoteClose \/ PeerClose

(* The poll thread never blocks (non-blocking I/O, try_recv, sleeps), so   *)
(* it keeps taking steps until it exits. The visitor and the peer are not  *)
(* obliged to act.                                                         *)
Spec == Init /\ [][Next]_vars /\ WF_vars(PollStep)

-----------------------------------------------------------------------------
(* Properties                                                              *)

TypeOK ==
    /\ chan \in Seq(Events)
    /\ closed \in BOOLEAN
    /\ pc \in {"read", "events", "exited"}
    /\ peer \in {"open", "fin", "rst"}
    /\ wire \in Seq((1..MaxWrites) \X {1, 2})
    /\ sent \in Seq(1..MaxWrites)
    /\ blocks \in 0..MaxBlocks
    /\ shutdownCalls \in Nat
    /\ remoteClosing \in BOOLEAN

(* Spec 4.3, about shutdown() and the Closing events that read(), write()  *)
(* and the visitor all queue: on_shutdown runs at most once, and the poll  *)
(* loop only exits after it has run.                                       *)
ShutdownOnce ==
    /\ shutdownCalls <= 1
    /\ pc = "exited" => (closed /\ shutdownCalls = 1)

(* The bytes of all queued Writes, in the order they were queued.          *)
SentBytes == [j \in 1..2 * Len(sent) |-> <<sent[(j + 1) \div 2], 2 - (j % 2)>>]

(* Spec 4.2/4.3 and section 5 ("writes on a single TCP direction are       *)
(* delivered in order"), about the Write handling of poll_connection: the  *)
(* bytes on the socket are a prefix of the queued payloads, in order and   *)
(* without repeats, even when write_all would block.                       *)
DeliveredInOrder ==
    /\ Len(wire) <= Len(SentBytes)
    /\ \A j \in 1..Len(wire) : wire[j] = SentBytes[j]

(* Spec 4.3, about shutdown() and the exit of poll_connection: once the    *)
(* visitor has asked for a close, the poll loop ends.                      *)
CloseRequestEndsPoll == remoteClosing ~> pc = "exited"

(* Spec 4.3 ("on Eof enqueue Closing ... on other error enqueue Closing"), *)
(* about read() and shutdown(): once the application closes or resets its *)
(* end, the poll loop ends.                                                *)
PeerCloseEndsPoll == peer # "open" ~> pc = "exited"

=============================================================================
