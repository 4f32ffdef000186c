----------------------- MODULE GatewayServiceMgr_proofs -----------------------
(***************************************************************************)
(* Proofs about GatewayServiceMgr, for every value of the constants that   *)
(* satisfies PortAssumption and ModeAssumption.                            *)
(*                                                                         *)
(*  - TypeCorrect: Spec => []TypeOK.                                       *)
(*  - RegistryConsistent: Spec => []RegistryTracksTunnels, from the        *)
(*    inductive invariant IInv, which adds that the registry only ever    *)
(*    names started services (so on_closed_proxy always finds a visitor).  *)
(*  - PortsDistinct: Spec => []PortsDistinctInRange when the allocator     *)
(*    cannot wrap (a debug build, or PortEnd < u16::MAX). The inductive   *)
(*    invariant AllocInv adds that every port handed out lies below       *)
(*    next_service_port, so the next one is fresh.                         *)
(***************************************************************************)
EXTENDS GatewayServiceMgr, TLAPS

-----------------------------------------------------------------------------
(* Facts about the port arithmetic. PortRange (2^PortBits) is kept opaque: *)
(* all that is used is that it is a positive natural.                      *)

LEMMA NoPortNotPort == NoPort \notin Ports
BY PortAssumption DEF NoPort, Ports, PortMax

LEMMA NextServicePortType ==
    ASSUME nextPort \in Ports
    PROVE  NextServicePort \in Ports
BY PortAssumption DEF NextServicePort, Ports, PortMax

LEMMA ServicePortType ==
    ASSUME nextPort \in Ports
    PROVE  ServicePort \in Ports
BY PortAssumption DEF ServicePort

LEMMA PortStartType == PortStart \in Ports
BY PortAssumption DEF Ports, PortMax

-----------------------------------------------------------------------------
(* Type correctness                                                        *)

LEMMA InitTypeOK == Init => TypeOK
BY PortStartType DEF Init, TypeOK, TunnelStates

LEMMA NextTypeOK == TypeOK /\ [Next]_vars => TypeOK'
<1> SUFFICES ASSUME TypeOK, [Next]_vars PROVE TypeOK'
    OBVIOUS
<1>1. ASSUME NEW s \in Services, Startup(s) PROVE TypeOK'
    <2>1. nextPort' \in Ports
        BY <1>1, NextServicePortType DEF Startup, TypeOK
    <2>2. servicePorts' \in [Services -> Ports \cup {NoPort}]
        BY <1>1, ServicePortType DEF Startup, TypeOK
    <2>3. QED
        BY <1>1, <2>1, <2>2 DEF Startup, TypeOK
<1>2. ASSUME NEW s \in Services, StartupPanic(s) PROVE TypeOK'
    BY <1>2 DEF StartupPanic, TypeOK
<1>3. ASSUME NEW uOpt \in Users \cup {NoFilter}, NEW sOpt \in Services \cup {NoFilter},
             ShutdownConnections(uOpt, sOpt)
      PROVE  TypeOK'
    BY <1>3 DEF ShutdownConnections, Selected, TypeOK
<1>4. ASSUME NEW s \in Services, NEW u \in Users, NEW k \in Keys, Accept(s, u, k)
      PROVE  TypeOK'
    BY <1>4 DEF Accept, TypeOK, TunnelStates
<1>5. ASSUME NEW k \in Keys, ExecOpen(k) PROVE TypeOK'
    BY <1>5 DEF ExecOpen, TypeOK, TunnelStates
<1>6. ASSUME NEW k \in Keys, ExecClose(k) PROVE TypeOK'
    BY <1>6 DEF ExecClose, TypeOK, TunnelStates
<1>7. ASSUME NEW k \in Keys, TunnelEof(k) PROVE TypeOK'
    BY <1>7 DEF TunnelEof, TypeOK, TunnelStates
<1>8. ASSUME NEW k \in Keys, PollClosed(k) PROVE TypeOK'
    BY <1>8 DEF PollClosed, OnClosedProxy, GetServiceIdByProxyKey, TypeOK, TunnelStates
<1>9. CASE UNCHANGED vars
    BY <1>9 DEF vars, TypeOK
<1>10. QED
    BY <1>1, <1>2, <1>3, <1>4, <1>5, <1>6, <1>7, <1>8, <1>9 DEF Next

THEOREM TypeCorrect == Spec => []TypeOK
BY InitTypeOK, NextTypeOK, PTL DEF Spec

-----------------------------------------------------------------------------
(* The registry invariant                                                  *)

(* Every service the registry names has been started, so it has a visitor *)
(* for on_closed_proxy to call.                                            *)
RegisteredStarted ==
    \A k \in Keys : registry[k] # NoService => servicePorts[registry[k]] # NoPort

IInv == TypeOK /\ RegistryTracksTunnels /\ RegisteredStarted

LEMMA InitIInv == Init => IInv
BY InitTypeOK, PortAssumption
   DEF Init, IInv, RegistryTracksTunnels, RegisteredStarted, Uncleaned

(* One step per action; only Accept and PollClosed touch the registry and *)
(* the visitors, and each needs a case split on the key it changes.       *)
LEMMA NextIInv == IInv /\ [Next]_vars => IInv'
<1> SUFFICES ASSUME IInv, [Next]_vars PROVE IInv'
    OBVIOUS
<1>0. TypeOK'
    BY NextTypeOK DEF IInv
<1> USE NoPortNotPort, ModeAssumption
<1>1. ASSUME NEW s \in Services, Startup(s) PROVE IInv'
    <2>1. \A t \in Services : servicePorts[t] # NoPort => servicePorts'[t] # NoPort
        BY <1>1, ServicePortType DEF Startup, IInv, TypeOK
    <2>2. RegistryTracksTunnels'
        BY <1>1 DEF Startup, IInv, RegistryTracksTunnels
    <2>3. RegisteredStarted'
        BY <1>1, <2>1 DEF Startup, IInv, RegisteredStarted, TypeOK
    <2>4. QED
        BY <1>0, <2>2, <2>3 DEF IInv
<1>2. ASSUME NEW s \in Services, StartupPanic(s) PROVE IInv'
    BY <1>0, <1>2 DEF StartupPanic, IInv, RegistryTracksTunnels, RegisteredStarted
<1>3. ASSUME NEW uOpt \in Users \cup {NoFilter}, NEW sOpt \in Services \cup {NoFilter},
             ShutdownConnections(uOpt, sOpt)
      PROVE  IInv'
    BY <1>0, <1>3 DEF ShutdownConnections, IInv, RegistryTracksTunnels, RegisteredStarted
<1>4. ASSUME NEW s \in Services, NEW u \in Users, NEW k \in Keys, Accept(s, u, k)
      PROVE  IInv'
    <2>1. registry[k] = NoService
        BY <1>4 DEF Accept, IInv, RegistryTracksTunnels, Uncleaned
    <2>2. \A t \in Services, v \in Users : <<v, k>> \notin conns[t]
        BY <2>1, ModeAssumption DEF IInv, RegistryTracksTunnels
    <2>3. RegistryTracksTunnels'
        <3> SUFFICES ASSUME NEW j \in Keys
                     PROVE  /\ (tunnel'[j] \in Uncleaned) <=> (registry'[j] # NoService)
                            /\ registry'[j] # NoService =>
                                  \E v \in Users : <<v, j>> \in conns'[registry'[j]]
                            /\ \A t \in Services, v \in Users :
                                  <<v, j>> \in conns'[t] => registry'[j] = t
            BY DEF RegistryTracksTunnels
        <3>1. CASE j = k
            BY <1>4, <2>2, <3>1 DEF Accept, IInv, TypeOK, Uncleaned
        <3>2. CASE j # k
            <4>1. registry'[j] = registry[j] /\ tunnel'[j] = tunnel[j]
                BY <1>4, <3>2 DEF Accept, IInv, TypeOK
            <4>2. \A t \in Services, v \in Users : <<v, j>> \in conns'[t] <=> <<v, j>> \in conns[t]
                BY <1>4, <3>2 DEF Accept, IInv, TypeOK
            <4>3. QED
                BY <4>1, <4>2 DEF IInv, TypeOK, RegistryTracksTunnels
        <3>3. QED
            BY <3>1, <3>2
    <2>4. RegisteredStarted'
        BY <1>4 DEF Accept, IInv, TypeOK, RegisteredStarted
    <2>5. QED
        BY <1>0, <2>3, <2>4 DEF IInv
<1>5. ASSUME NEW k \in Keys, ExecOpen(k) PROVE IInv'
    BY <1>0, <1>5 DEF ExecOpen, IInv, TypeOK, RegistryTracksTunnels, RegisteredStarted, Uncleaned
<1>6. ASSUME NEW k \in Keys, ExecClose(k) PROVE IInv'
    BY <1>0, <1>6 DEF ExecClose, IInv, TypeOK, RegistryTracksTunnels, RegisteredStarted, Uncleaned
<1>7. ASSUME NEW k \in Keys, TunnelEof(k) PROVE IInv'
    BY <1>0, <1>7 DEF TunnelEof, IInv, TypeOK, RegistryTracksTunnels, RegisteredStarted, Uncleaned
<1>8. ASSUME NEW k \in Keys, PollClosed(k) PROVE IInv'
    <2> DEFINE s == registry[k]
    <2>1. s \in Services /\ servicePorts[s] # NoPort
        BY <1>8 DEF PollClosed, IInv, TypeOK, RegistryTracksTunnels, RegisteredStarted, Uncleaned
    <2>2. /\ conns' = [conns EXCEPT ![s] = {c \in @ : c[2] # k}]
          /\ registry' = [registry EXCEPT ![k] = NoService]
          /\ tunnel' = [tunnel EXCEPT ![k] = "done"]
          /\ servicePorts' = servicePorts
        BY <1>8, <2>1 DEF PollClosed, OnClosedProxy, GetServiceIdByProxyKey
    <2>3. RegistryTracksTunnels'
        <3> SUFFICES ASSUME NEW j \in Keys
                     PROVE  /\ (tunnel'[j] \in Uncleaned) <=> (registry'[j] # NoService)
                            /\ registry'[j] # NoService =>
                                  \E v \in Users : <<v, j>> \in conns'[registry'[j]]
                            /\ \A t \in Services, v \in Users :
                                  <<v, j>> \in conns'[t] => registry'[j] = t
            BY DEF RegistryTracksTunnels
        <3>1. CASE j = k
            <4>1. \A t \in Services, v \in Users : <<v, k>> \notin conns'[t]
                BY <2>1, <2>2 DEF IInv, TypeOK, RegistryTracksTunnels
            <4>2. QED
                BY <2>2, <3>1, <4>1 DEF IInv, TypeOK, Uncleaned
        <3>2. CASE j # k
            <4>1. registry'[j] = registry[j] /\ tunnel'[j] = tunnel[j]
                BY <2>2, <3>2 DEF IInv, TypeOK
            <4>2. \A t \in Services, v \in Users : <<v, j>> \in conns'[t] <=> <<v, j>> \in conns[t]
                BY <2>1, <2>2, <3>2 DEF IInv, TypeOK
            <4>3. QED
                BY <4>1, <4>2 DEF IInv, TypeOK, RegistryTracksTunnels
        <3>3. QED
            BY <3>1, <3>2
    <2>4. RegisteredStarted'
        BY <2>2 DEF IInv, TypeOK, RegisteredStarted
    <2>5. QED
        BY <1>0, <2>3, <2>4 DEF IInv
<1>9. CASE UNCHANGED vars
    BY <1>0, <1>9 DEF vars, IInv, RegistryTracksTunnels, RegisteredStarted
<1>10. QED
    BY <1>1, <1>2, <1>3, <1>4, <1>5, <1>6, <1>7, <1>8, <1>9 DEF Next

THEOREM RegistryConsistent == Spec => []RegistryTracksTunnels
<1>1. Spec => []IInv
    BY InitIInv, NextIInv, PTL DEF Spec
<1>2. QED
    BY <1>1, PTL DEF IInv

-----------------------------------------------------------------------------
(* The port allocator                                                      *)

(* The allocator in distinct-port mode: it never moves below the range's   *)
(* start, and every started service holds a port of the range below it,   *)
(* no two the same.                                                        *)
AllocInv ==
    ~SharedPort =>
        /\ nextPort >= PortStart
        /\ \A s \in Started : /\ servicePorts[s] \in PortStart..PortEnd
                              /\ servicePorts[s] < nextPort
        /\ \A s, t \in Started : s # t => servicePorts[s] # servicePorts[t]

PInv == TypeOK /\ AllocInv

(* Without a wrap (a debug build traps the increment at PortMax, or the    *)
(* range stops below it) a startup moves the allocator up by one.          *)
LEMMA StartupIncrements ==
    ASSUME TypeOK, ~SharedPort, Profile = "debug" \/ PortEnd < PortMax,
           PortAvailable, ~IncrementPanics
    PROVE  NextServicePort = nextPort + 1
<1>1. nextPort < PortMax
    BY PortAssumption, ModeAssumption DEF PortAvailable, IncrementPanics, TypeOK, Ports, PortMax
<1>2. QED
    BY <1>1, PortAssumption DEF NextServicePort, TypeOK, Ports, PortMax

LEMMA InitPInv == Init => PInv
<1> SUFFICES ASSUME Init PROVE PInv
    OBVIOUS
<1>1. Started = {}
    BY DEF Init, Started
<1>2. QED
    BY <1>1, InitTypeOK, PortAssumption DEF Init, PInv, AllocInv

LEMMA NextPInv ==
    ASSUME Profile = "debug" \/ PortEnd < PortMax
    PROVE  PInv /\ [Next]_vars => PInv'
<1> SUFFICES ASSUME PInv, [Next]_vars PROVE PInv'
    OBVIOUS
<1>0. TypeOK'
    BY NextTypeOK DEF PInv
<1> USE DEF PInv
<1>1. ASSUME NEW s \in Services, Startup(s) PROVE AllocInv'
    <2> SUFFICES ASSUME ~SharedPort PROVE AllocInv'
        BY ModeAssumption DEF AllocInv
    <2>1. nextPort' = nextPort + 1 /\ nextPort \in PortStart..PortEnd
        BY <1>1, StartupIncrements DEF Startup, AllocInv, PortAvailable, TypeOK, Ports
    <2>2. s \notin Started
        BY <1>1 DEF Startup, Started
    <2>3. \A t \in Services : servicePorts'[t] = IF t = s /\ t \in Started'
                                                THEN nextPort ELSE servicePorts[t]
        BY <1>1, NoPortNotPort DEF Startup, Started, ServicePort, TypeOK
    <2>4. Started' \subseteq Started \cup {s}
        BY <1>1 DEF Startup, Started, TypeOK
    <2>5. nextPort' >= PortStart
        BY <2>1, PortAssumption DEF TypeOK, Ports, PortMax
    <2>6. ASSUME NEW t \in Started' PROVE /\ servicePorts'[t] \in PortStart..PortEnd
                                         /\ servicePorts'[t] < nextPort'
        <3>1. CASE t = s
            BY <2>1, <2>3, <2>4, <3>1, PortAssumption DEF TypeOK, Ports, PortMax
        <3>2. CASE t # s
            BY <2>1, <2>3, <2>4, <3>2 DEF AllocInv, TypeOK, Ports, Started
        <3>3. QED
            BY <3>1, <3>2
    <2>7. ASSUME NEW t \in Started', NEW u \in Started', t # u
          PROVE  servicePorts'[t] # servicePorts'[u]
        <3>1. CASE t # s /\ u # s
            BY <2>3, <2>4, <2>7, <3>1 DEF AllocInv, Started
        <3>2. CASE t = s \/ u = s
            <4>1. \A v \in Started : servicePorts[v] < nextPort
                BY DEF AllocInv
            <4>2. QED
                BY <2>1, <2>3, <2>4, <2>7, <3>2, <4>1 DEF TypeOK, Ports, PortMax, Started
        <3>3. QED
            BY <3>1, <3>2
    <2>8. QED
        BY <2>5, <2>6, <2>7 DEF AllocInv
<1>2. ASSUME UNCHANGED <<servicePorts, nextPort>> PROVE AllocInv'
    BY <1>2 DEF AllocInv, Started
<1>3. QED
    BY <1>0, <1>1, <1>2
       DEF Next, StartupPanic, ShutdownConnections, Accept, ExecOpen, ExecClose, TunnelEof,
           PollClosed, vars

(* Spec 4.8 and S2, about startup's allocator in distinct-port mode: in a  *)
(* debug build, or with a range that ends below u16::MAX, the started     *)
(* services hold distinct ports of the configured range in every          *)
(* reachable state, for every range and number of services. (A release    *)
(* build with the range reaching u16::MAX wraps: TLC finds the property  *)
(* violated under GatewayPortsReleaseWrap.cfg.)                            *)
THEOREM PortsDistinct ==
    ASSUME Profile = "debug" \/ PortEnd < PortMax
    PROVE  Spec => []PortsDistinctInRange
<1>1. PInv => PortsDistinctInRange
    BY DEF PInv, AllocInv, PortsDistinctInRange
<1>2. QED
    BY InitPInv, NextPInv, <1>1, PTL DEF Spec

=============================================================================
