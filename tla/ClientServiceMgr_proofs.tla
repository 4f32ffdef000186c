----------------------- MODULE ClientServiceMgr_proofs -----------------------
(***************************************************************************)
(* Proofs about ClientServiceMgr, for every value of the constants that    *)
(* satisfies ClientAssumption.                                             *)
(*                                                                         *)
(*  - TypeCorrect: Spec => []TypeOK.                                       *)
(*  - RegistryConsistent: Spec => []RegistryTracksProxies. The invariant   *)
(*    is not inductive alone: PollClosed only cleans a key up when the    *)
(*    service the registry names is started, and StartupNew resets the    *)
(*    visitor's connection set. IInv adds that only a started service has *)
(*    a listener, and that the registry only names started services (so   *)
(*    a service being started holds no connection yet).                   *)
(***************************************************************************)
EXTENDS ClientServiceMgr, TLAPS

-----------------------------------------------------------------------------
(* Type correctness                                                        *)

LEMMA InitTypeOK == Init => TypeOK
BY DEF Init, TypeOK, ListenerStates, TunnelStates

LEMMA NextTypeOK == TypeOK /\ [Next]_vars => TypeOK'
<1> SUFFICES ASSUME TypeOK, [Next]_vars PROVE TypeOK'
    OBVIOUS
<1>1. ASSUME NEW s \in Services, NEW a \in Addrs, StartupExisting(s, a) PROVE TypeOK'
    BY <1>1 DEF StartupExisting, vars, TypeOK
<1>2. ASSUME NEW s \in Services, NEW a \in Addrs, StartupNew(s, a) PROVE TypeOK'
    BY <1>2 DEF StartupNew, vars, TypeOK, ListenerStates
<1>3. ASSUME NEW S \in SUBSET Services, ShutdownVisitors(S) PROVE TypeOK'
    BY <1>3 DEF ShutdownVisitors, TypeOK
<1>4. ASSUME NEW s \in Services, NEW k \in Keys, Accept(s, k) PROVE TypeOK'
    BY <1>4 DEF Accept, TypeOK, TunnelStates
<1>5. ASSUME NEW s \in Services, ListenerStop(s) PROVE TypeOK'
    BY <1>5 DEF ListenerStop, TypeOK, ListenerStates
<1>6. ASSUME NEW k \in Keys, ExecOpen(k) \/ ExecClose(k) \/ TunnelEof(k) PROVE TypeOK'
    BY <1>6 DEF ExecOpen, ExecClose, TunnelEof, TypeOK, TunnelStates
<1>7. ASSUME NEW k \in Keys, PollClosed(k) PROVE TypeOK'
    BY <1>7 DEF PollClosed, TypeOK, TunnelStates
<1>8. CASE UNCHANGED vars
    BY <1>8 DEF vars, TypeOK
<1>9. Started \in SUBSET Services /\ \A s \in Services : Started \cap {s} \in SUBSET Services
    BY DEF Started
<1>10. QED
    BY <1>1, <1>2, <1>3, <1>4, <1>5, <1>6, <1>7, <1>8, <1>9
       DEF Next, Shutdown, ShutdownForService

THEOREM TypeCorrect == Spec => []TypeOK
BY InitTypeOK, NextTypeOK, PTL DEF Spec

-----------------------------------------------------------------------------
(* The registry invariant                                                  *)

(* A listener thread exists only for a service startup recorded.           *)
ListenerStarted ==
    \A s \in Services : listener[s] # "none" => serviceAddrs[s] # NoAddrs

(* The registry only names started services.                               *)
RegisteredStarted ==
    \A k \in Keys : registry[k] # NoService => serviceAddrs[registry[k]] # NoAddrs

IInv == TypeOK /\ RegistryTracksProxies /\ ListenerStarted /\ RegisteredStarted

LEMMA InitIInv == Init => IInv
BY InitTypeOK, ClientAssumption
   DEF Init, IInv, RegistryTracksProxies, ListenerStarted, RegisteredStarted, Uncleaned

LEMMA NextIInv == IInv /\ [Next]_vars => IInv'
<1> SUFFICES ASSUME IInv, [Next]_vars PROVE IInv'
    OBVIOUS
<1> USE ClientAssumption DEF IInv
<1>0. TypeOK'
    BY NextTypeOK
<1>1. ASSUME NEW s \in Services, NEW a \in Addrs, StartupExisting(s, a) PROVE IInv'
    BY <1>0, <1>1 DEF StartupExisting, vars, RegistryTracksProxies, ListenerStarted, RegisteredStarted
<1>2. ASSUME NEW s \in Services, NEW a \in Addrs, StartupNew(s, a) PROVE IInv'
    <2>1. proxies[s] = {}
        BY <1>2 DEF StartupNew, TypeOK, RegistryTracksProxies, RegisteredStarted
    <2>2. QED
        BY <1>0, <1>2, <2>1
           DEF StartupNew, vars, TypeOK, RegistryTracksProxies, ListenerStarted, RegisteredStarted
<1>3. ASSUME NEW S \in SUBSET Services, ShutdownVisitors(S) PROVE IInv'
    BY <1>0, <1>3 DEF ShutdownVisitors, RegistryTracksProxies, ListenerStarted, RegisteredStarted
<1>4. ASSUME NEW s \in Services, NEW k \in Keys, Accept(s, k) PROVE IInv'
    <2>1. registry[k] = NoService /\ \A t \in Services : k \notin proxies[t]
        BY <1>4 DEF Accept, RegistryTracksProxies, Uncleaned
    <2>2. serviceAddrs[s] # NoAddrs
        BY <1>4 DEF Accept, ListenerStarted
    <2>3. QED
        BY <1>0, <1>4, <2>1, <2>2
           DEF Accept, TypeOK, RegistryTracksProxies, ListenerStarted, RegisteredStarted, Uncleaned
<1>5. ASSUME NEW s \in Services, ListenerStop(s) PROVE IInv'
    BY <1>0, <1>5 DEF ListenerStop, RegistryTracksProxies, ListenerStarted, RegisteredStarted
<1>6. ASSUME NEW k \in Keys, ExecOpen(k) \/ ExecClose(k) \/ TunnelEof(k) PROVE IInv'
    BY <1>0, <1>6
       DEF ExecOpen, ExecClose, TunnelEof, TypeOK, RegistryTracksProxies, ListenerStarted,
           RegisteredStarted, Uncleaned
<1>7. ASSUME NEW k \in Keys, PollClosed(k) PROVE IInv'
    <2>1. registry[k] \in Services /\ registry[k] \in Started
        BY <1>7 DEF PollClosed, TypeOK, RegistryTracksProxies, RegisteredStarted, Uncleaned, Started
    <2>2. /\ proxies' = [proxies EXCEPT ![registry[k]] = @ \ {k}]
          /\ registry' = [registry EXCEPT ![k] = NoService]
        BY <1>7, <2>1 DEF PollClosed
    <2>3. QED
        BY <1>0, <1>7, <2>1, <2>2
           DEF PollClosed, TypeOK, RegistryTracksProxies, ListenerStarted, RegisteredStarted, Uncleaned
<1>8. CASE UNCHANGED vars
    BY <1>0, <1>8 DEF vars, RegistryTracksProxies, ListenerStarted, RegisteredStarted
<1>9. Started \in SUBSET Services /\ \A s \in Services : Started \cap {s} \in SUBSET Services
    BY DEF Started
<1>10. QED
    BY <1>1, <1>2, <1>3, <1>4, <1>5, <1>6, <1>7, <1>8, <1>9
       DEF Next, Shutdown, ShutdownForService

(* Spec P1 and 4.7, about the registry the visitors fill and the Closed    *)
(* routing of poll_proxy_events: in every reachable state a key is         *)
(* registered exactly while its tunnel is not cleaned up, and is held by   *)
(* the one visitor the registry names.                                     *)
THEOREM RegistryConsistent == Spec => []RegistryTracksProxies
<1>1. IInv => RegistryTracksProxies
    BY DEF IInv
<1>2. QED
    BY InitIInv, NextIInv, <1>1, PTL DEF Spec

=============================================================================
