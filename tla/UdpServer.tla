------------------------------ MODULE UdpServer ------------------------------
(***************************************************************************)
(* The UDP server (crates/common/src/net/udp_server/server_std.rs).        *)
(*                                                                         *)
(* One owner thread drives the Server through its &mut self API:           *)
(* bind_listener, poll_new_messages (a loop that runs until polling is     *)
(* turned off) and shutdown. Because every method takes &mut self, none of *)
(* them runs while the poll loop runs; the only state shared with other    *)
(* threads is the visitor's shutdown-requested flag, which the REPL or the *)
(* service manager sets, and the socket's receive queue, which peers fill. *)
(*                                                                         *)
(* A datagram is a number: the i-th datagram any peer sends is i.          *)
(***************************************************************************)
EXTENDS Naturals, Sequences

CONSTANTS
    MaxDatagrams,   \* datagrams peers send in a run
    MaxBinds,       \* bind_listener calls that succeed in a run
    PollMayFail     \* whether mio's poll() can return an error

ASSUME UdpAssumption ==
    /\ MaxDatagrams \in Nat
    /\ MaxBinds \in Nat \ {0}
    /\ PollMayFail \in BOOLEAN

VARIABLES
    socket,       \* server_socket: "none" or "bound"
    polling,      \* Server.polling
    closing,      \* Server.closing
    closed,       \* Server.closed
    pc,           \* owner thread: "idle" between calls, "loop" in poll_new_messages
    shutdownReq,  \* the visitor's get_shutdown_requested()
    queue,        \* datagrams waiting in the socket's receive buffer
    delivered,    \* datagrams handed to visitor.on_message_received, in order
    sent,         \* datagrams sent by peers so far
    binds         \* successful bind_listener calls so far

vars == <<socket, polling, closing, closed, pc, shutdownReq, queue, delivered, sent, binds>>

(* Server::new: no socket yet, all flags false.                            *)
Init ==
    /\ socket = "none"
    /\ polling = FALSE
    /\ closing = FALSE
    /\ closed = FALSE
    /\ pc = "idle"
    /\ shutdownReq = FALSE
    /\ queue = <<>>
    /\ delivered = <<>>
    /\ sent = 0
    /\ binds = 0

-----------------------------------------------------------------------------
(* The owner thread                                                        *)

(* bind_listener: a fresh non-blocking socket on [::]:port (the bind fails *)
(* while the server still holds its previous socket, leaving everything as *)
(* it was), the flags reset, then visitor.on_listening(), whose error is   *)
(* returned with the socket kept.                                          *)
BindListener ==
    /\ pc = "idle"
    /\ socket = "none"
    /\ binds < MaxBinds
    /\ socket' = "bound"
    /\ closing' = FALSE
    /\ closed' = FALSE
    /\ polling' = FALSE
    /\ binds' = binds + 1
    /\ queue' = <<>>
    /\ UNCHANGED <<pc, shutdownReq, delivered, sent>>

(* perform_shutdown: the flags set and the socket dropped, with whatever   *)
(* datagrams its buffer still held (queue is only read while a socket is   *)
(* bound, and a new socket starts empty).                                  *)
PerformShutdown ==
    /\ closing' = TRUE
    /\ closed' = TRUE
    /\ polling' = FALSE
    /\ socket' = "none"

(* shutdown(): shut down unless the poll loop is running, in which case    *)
(* only ask it to stop.                                                    *)
Shutdown ==
    /\ pc = "idle"
    /\ IF ~polling
       THEN PerformShutdown
       ELSE /\ polling' = FALSE
            /\ UNCHANGED <<closing, closed, socket>>
    /\ UNCHANGED <<pc, shutdownReq, queue, delivered, sent, binds>>

(* assert_listening                                                        *)
Listening == socket = "bound"

(* poll_new_messages up to the loop: assert_listening and the "Already     *)
(* polling" check return Err with nothing changed, as do failures to clone *)
(* the socket or to create and register the mio poller; otherwise polling  *)
(* is set and the loop starts.                                             *)
PollStart ==
    /\ pc = "idle"
    /\ Listening
    /\ ~polling
    /\ polling' = TRUE
    /\ pc' = "loop"
    /\ UNCHANGED <<socket, closing, closed, shutdownReq, queue, delivered, sent, binds>>

(* accept_message: recv_from takes the next datagram, if any (WouldBlock   *)
(* otherwise), and hands it to on_message_received, whose error is only    *)
(* logged.                                                                 *)
AcceptMessage ==
    IF queue = <<>>
    THEN UNCHANGED <<queue, delivered>>
    ELSE /\ queue' = Tail(queue)
         /\ delivered' = Append(delivered, Head(queue))

PollOutcomes == IF PollMayFail THEN {"ready", "wouldblock", "error"}
                                ELSE {"ready", "wouldblock"}

(* Mutant of PollingAfterCheck: the shutdown check leaves polling on.      *)
PollingAfterCheckNoStop(p) == p

(* The shutdown check that ends an iteration: polling after it, given      *)
(* polling after poll(), and closing after it.                             *)
PollingAfterCheck(p) == p /\ ~shutdownReq

(* Mutant of ClosingAfterCheck: the check does not set closing.            *)
ClosingAfterCheckDropped == closing

ClosingAfterCheck == closing \/ shutdownReq

(* One iteration of the `while self.polling` loop of poll_new_messages:    *)
(* poll() waits up to 1 s and returns WouldBlock (nothing to do), an error *)
(* (kept in polling_error, polling turned off) or Ok, after which          *)
(* accept_message runs whether or not the socket was reported readable.    *)
(* Then the visitor's shutdown flag is read. When polling is off the loop  *)
(* ends, the error (if any) is logged, perform_shutdown runs if closing is *)
(* set, and Ok(()) is returned.                                            *)
PollIteration ==
    /\ pc = "loop"
    /\ \E outcome \in PollOutcomes :
          /\ IF outcome = "ready" THEN AcceptMessage
                                  ELSE UNCHANGED <<queue, delivered>>
          /\ IF PollingAfterCheck(outcome # "error")
             THEN /\ closing' = ClosingAfterCheck
                  /\ UNCHANGED <<pc, polling, closed, socket>>
             ELSE /\ pc' = "idle"
                  /\ IF ClosingAfterCheck
                     THEN PerformShutdown
                     ELSE /\ polling' = FALSE
                          /\ UNCHANGED <<closing, closed, socket>>
    /\ UNCHANGED <<shutdownReq, sent, binds>>

-----------------------------------------------------------------------------
(* Peers and the visitor's owner                                           *)

(* Mutant of NextDatagram: datagrams numbered from 0.                     *)
NextDatagramFromZero == sent

NextDatagram == sent + 1

(* A peer sends a datagram to the server's port: it is queued while a      *)
(* socket is bound and lost otherwise.                                     *)
PeerSend ==
    /\ sent < MaxDatagrams
    /\ sent' = sent + 1
    /\ queue' = IF socket = "bound" THEN Append(queue, NextDatagram) ELSE queue
    /\ UNCHANGED <<socket, polling, closing, closed, pc, shutdownReq, delivered, binds>>

(* The visitor's set_shutdown_requested(true), from another thread.        *)
RequestShutdown ==
    /\ ~shutdownReq
    /\ shutdownReq' = TRUE
    /\ UNCHANGED <<socket, polling, closing, closed, pc, queue, delivered, sent, binds>>

Next ==
    \/ BindListener \/ Shutdown \/ PollStart \/ PollIteration
    \/ PeerSend \/ RequestShutdown

(* Each poll() returns within POLL_DURATION_MSECS, so the loop keeps       *)
(* iterating while it runs. Nothing obliges the owner to call the API, the *)
(* peers to send or anyone to request a shutdown.                          *)
Spec == Init /\ [][Next]_vars /\ WF_vars(PollIteration)

-----------------------------------------------------------------------------
(* Properties                                                              *)

TypeOK ==
    /\ socket \in {"none", "bound"}
    /\ polling \in BOOLEAN
    /\ closing \in BOOLEAN
    /\ closed \in BOOLEAN
    /\ pc \in {"idle", "loop"}
    /\ shutdownReq \in BOOLEAN
    /\ queue \in Seq(1..MaxDatagrams)
    /\ delivered \in Seq(1..MaxDatagrams)
    /\ sent \in 0..MaxDatagrams
    /\ binds \in 0..MaxBinds

(* Spec 4.4 ("a shutdown-requested flag, checked each iteration, turns off *)
(* polling and releases the socket"), about the exit of poll_new_messages: *)
(* the loop only returns (Ok) once perform_shutdown has released the       *)
(* socket and marked the server closed.                                    *)
LoopEndsClosed ==
    [][pc = "loop" /\ pc' = "idle" => socket' = "none" /\ closed']_vars

(* Spec 4.4, about the shutdown check of the poll loop: once shutdown is   *)
(* requested while the loop runs, the socket is eventually released.      *)
ShutdownReleasesSocket ==
    (shutdownReq /\ pc = "loop") ~> socket = "none"

=============================================================================
