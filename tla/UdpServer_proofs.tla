--------------------------- MODULE UdpServer_proofs ---------------------------
(***************************************************************************)
(* Proofs about UdpServer, for every value of the constants that satisfies *)
(* UdpAssumption.                                                          *)
(*                                                                         *)
(*  - TypeCorrect: Spec => []TypeOK; TypeOK is inductive as it stands.     *)
(*  - LoopClosesSocket: when mio's poll() cannot fail, LoopEndsClosed     *)
(*    holds. The only step that leaves the loop is an iteration after     *)
(*    which polling is off; without a poll error that happens only when   *)
(*    the shutdown check saw the request, which also sets closing, so     *)
(*    perform_shutdown runs. No invariant is needed. (With PollMayFail    *)
(*    the property fails: UdpPollError.cfg.)                              *)
(***************************************************************************)
EXTENDS UdpServer, SequenceTheorems, TLAPS

-----------------------------------------------------------------------------
(* Type correctness                                                        *)

(* The empty buffer and the empty delivery log.                           *)
LEMMA EmptyDatagrams == <<>> \in Seq(1..MaxDatagrams)
BY EmptySeq

LEMMA InitTypeOK == Init => TypeOK
<1> SUFFICES ASSUME Init PROVE TypeOK
    OBVIOUS
<1>1. queue \in Seq(1..MaxDatagrams) /\ delivered \in Seq(1..MaxDatagrams)
    BY EmptyDatagrams DEF Init
<1>2. sent \in 0..MaxDatagrams /\ binds \in 0..MaxBinds
    BY UdpAssumption DEF Init
<1>3. QED
    BY <1>1, <1>2 DEF Init, TypeOK

LEMMA AcceptMessageType ==
    ASSUME TypeOK, AcceptMessage
    PROVE  /\ queue' \in Seq(1..MaxDatagrams)
           /\ delivered' \in Seq(1..MaxDatagrams)
<1>1. CASE queue = <<>>
    BY <1>1 DEF AcceptMessage, TypeOK
<1>2. CASE queue # <<>>
    <2>1. Head(queue) \in 1..MaxDatagrams /\ Tail(queue) \in Seq(1..MaxDatagrams)
        BY <1>2, HeadTailProperties DEF TypeOK
    <2>2. Append(delivered, Head(queue)) \in Seq(1..MaxDatagrams)
        BY <2>1, AppendProperties DEF TypeOK
    <2>3. QED
        BY <1>2, <2>1, <2>2 DEF AcceptMessage
<1>3. QED
    BY <1>1, <1>2

LEMMA NextTypeOK == TypeOK /\ [Next]_vars => TypeOK'
<1> SUFFICES ASSUME TypeOK, [Next]_vars PROVE TypeOK'
    OBVIOUS
<1> USE UdpAssumption
<1>1. CASE BindListener
    <2>1. queue' \in Seq(1..MaxDatagrams)
        BY <1>1, EmptyDatagrams DEF BindListener
    <2>2. binds' \in 0..MaxBinds
        BY <1>1 DEF BindListener, TypeOK
    <2>3. QED
        BY <1>1, <2>1, <2>2 DEF BindListener, TypeOK
<1>2. CASE Shutdown
    BY <1>2 DEF Shutdown, PerformShutdown, TypeOK
<1>3. CASE PollStart
    BY <1>3 DEF PollStart, TypeOK
<1>4. CASE PollIteration
    <2>1. PICK outcome \in PollOutcomes :
              /\ IF outcome = "ready" THEN AcceptMessage
                                      ELSE UNCHANGED <<queue, delivered>>
              /\ IF PollingAfterCheck(outcome # "error")
                 THEN /\ closing' = ClosingAfterCheck
                      /\ UNCHANGED <<pc, polling, closed, socket>>
                 ELSE /\ pc' = "idle"
                      /\ IF ClosingAfterCheck
                         THEN PerformShutdown
                         ELSE /\ polling' = FALSE
                              /\ UNCHANGED <<closing, closed, socket>>
        BY <1>4 DEF PollIteration
    <2>2. queue' \in Seq(1..MaxDatagrams) /\ delivered' \in Seq(1..MaxDatagrams)
        BY <2>1, AcceptMessageType DEF TypeOK
    <2>3. QED
        BY <1>4, <2>1, <2>2
           DEF PollIteration, PerformShutdown, PollingAfterCheck, ClosingAfterCheck, TypeOK
<1>5. CASE PeerSend
    <2>1. NextDatagram \in 1..MaxDatagrams
        BY <1>5 DEF PeerSend, NextDatagram, TypeOK
    <2>2. queue' \in Seq(1..MaxDatagrams)
        <3>1. CASE socket = "bound"
            <4>1. Append(queue, NextDatagram) \in Seq(1..MaxDatagrams)
                BY <2>1, AppendProperties DEF TypeOK
            <4>2. QED
                BY <1>5, <3>1, <4>1 DEF PeerSend
        <3>2. CASE socket # "bound"
            BY <1>5, <3>2 DEF PeerSend, TypeOK
        <3>3. QED
            BY <3>1, <3>2
    <2>3. QED
        BY <1>5, <2>2 DEF PeerSend, TypeOK
<1>6. CASE RequestShutdown
    BY <1>6 DEF RequestShutdown, TypeOK
<1>7. CASE UNCHANGED vars
    BY <1>7 DEF vars, TypeOK
<1>8. QED
    BY <1>1, <1>2, <1>3, <1>4, <1>5, <1>6, <1>7 DEF Next

(* Every reachable state of the server model is well typed, for every     *)
(* MaxDatagrams, MaxBinds and PollMayFail.                                 *)
THEOREM TypeCorrect == Spec => []TypeOK
BY InitTypeOK, NextTypeOK, PTL DEF Spec

-----------------------------------------------------------------------------
(* The loop's exit                                                         *)

(* The step LoopEndsClosed constrains.                                     *)
LoopExitCloses == pc = "loop" /\ pc' = "idle" => socket' = "none" /\ closed'

(* Spec 4.4, about the exit of poll_new_messages: while mio's poll() never *)
(* fails, the loop returns only after perform_shutdown has released the    *)
(* socket and marked the server closed, for every value of the constants.  *)
THEOREM LoopClosesSocket ==
    ASSUME ~PollMayFail
    PROVE  Spec => LoopEndsClosed
<1>1. ASSUME [Next]_vars PROVE [LoopExitCloses]_vars
    <2>1. CASE PollIteration
        <3>1. PICK outcome \in {"ready", "wouldblock"} :
                  IF PollingAfterCheck(outcome # "error")
                  THEN /\ closing' = ClosingAfterCheck
                       /\ UNCHANGED <<pc, polling, closed, socket>>
                  ELSE /\ pc' = "idle"
                       /\ IF ClosingAfterCheck
                          THEN PerformShutdown
                          ELSE /\ polling' = FALSE
                               /\ UNCHANGED <<closing, closed, socket>>
            BY <2>1 DEF PollIteration, PollOutcomes
        <3>2. CASE PollingAfterCheck(outcome # "error")
            BY <3>1, <3>2 DEF LoopExitCloses
        <3>3. CASE ~PollingAfterCheck(outcome # "error")
            <4>1. shutdownReq
                BY <3>3 DEF PollingAfterCheck
            <4>2. ClosingAfterCheck
                BY <4>1 DEF ClosingAfterCheck
            <4>3. QED
                BY <3>1, <3>3, <4>2 DEF PerformShutdown, LoopExitCloses
        <3>4. QED
            BY <3>2, <3>3
    <2>2. CASE ~PollIteration
        <3>1. pc = "loop" => pc' = "loop"
            BY <1>1, <2>2
               DEF Next, vars, BindListener, Shutdown, PollStart, PeerSend, RequestShutdown
        <3>2. QED
            BY <3>1 DEF LoopExitCloses
    <2>3. QED
        BY <2>1, <2>2
<1>2. QED
    BY <1>1, PTL DEF Spec, LoopEndsClosed, LoopExitCloses

=============================================================================
