-------------------------- MODULE GatewayServiceMgr --------------------------
(***************************************************************************)
(* The gateway's service-proxy plane: GatewayServiceMgr                    *)
(* (crates/gateway/src/service/manager.rs) with the pieces it drives.      *)
(*                                                                         *)
(*  - the manager: service_ports (one entry per started service proxy,     *)
(*    inserted together with its visitor), next_service_port and the       *)
(*    port allocator, shutdown_connections, on_closed_proxy;               *)
(*  - the per-service visitors: the set of (user, proxy_key) connections   *)
(*    each one tracks;                                                     *)
(*  - the process-wide registry services_by_proxy_key;                     *)
(*  - the proxy executor (ProxyExecutorEvent Open/Close tasks) and the     *)
(*    stream copier that publishes ProxyEvent::Closed when a tunnel ends;  *)
(*  - the event-poller thread (poll_proxy_events).                         *)
(*                                                                         *)
(* Every manager operation runs holding the manager mutex, so each is one  *)
(* atomic step. A panic while that mutex is held poisons it: every later   *)
(* service_mgr.lock().unwrap() panics too, which is what `poisoned` means. *)
(***************************************************************************)
EXTENDS Naturals, FiniteSets

CONSTANTS
    Services,       \* service ids
    Users,          \* user ids
    Keys,           \* proxy keys; each one names at most one connection
    PortBits,       \* width of a port integer (u16 in the code)
    PortStart,      \* next_service_port after new(): range start or 8200
    PortEnd,        \* last_service_port after new(): range end or 8250
    SharedPort,     \* TRUE iff gateway_service_ports is None
    ServerPort,     \* app_config.server_port, the shared listener port
    Profile,        \* "debug" (overflow panics) or "release" (wraps)
    VisitorMayFail, \* TRUE iff a proxy visitor constructor may return Err
    NoService       \* no service: the unwrap_or(u64::MAX) of a failed lookup

PortRange == 2^PortBits
PortMax == PortRange - 1
Ports == 0..PortMax
NoPort == PortRange     \* not a u16 value: "no entry in service_ports"

ASSUME PortAssumption ==
    /\ PortBits \in Nat \ {0}
    /\ PortRange \in Nat \ {0}
    /\ PortStart \in 1..PortMax       \* parse_gateway_service_ports rejects 0
    /\ PortEnd \in 1..PortMax
    /\ ServerPort \in Ports

ASSUME ModeAssumption ==
    /\ SharedPort \in BOOLEAN
    /\ VisitorMayFail \in BOOLEAN
    /\ Profile \in {"debug", "release"}
    /\ NoService \notin Services

(* Life of the tunnel that a proxy key names:                              *)
(*   free    - no connection has this key yet                              *)
(*   opening - accepted, OpenTcp/OpenUdp task queued for the executor      *)
(*   open    - the executor's copier pumps are running                     *)
(*   closed  - the tunnel is reaped and ProxyEvent::Closed(key) is queued  *)
(*   done    - the event poller has consumed that Closed event            *)
TunnelStates == {"free", "opening", "open", "closed", "done"}
Uncleaned == {"opening", "open", "closed"}

VARIABLES
    servicePorts,   \* service_ports: service -> port, NoPort if not started
    nextPort,       \* next_service_port
    poisoned,       \* the manager mutex is poisoned
    conns,          \* per-service visitor: its (user, proxy_key) connections
    registry,       \* services_by_proxy_key: key -> service or NoService
    tunnel,         \* key -> TunnelStates
    closeReq        \* keys with a ProxyExecutorEvent::Close task queued

vars == <<servicePorts, nextPort, poisoned, conns, registry, tunnel, closeReq>>

Started == {s \in Services : servicePorts[s] # NoPort}

-----------------------------------------------------------------------------
(* The manager                                                             *)

Init ==
    /\ servicePorts = [s \in Services |-> NoPort]
    /\ nextPort = PortStart
    /\ poisoned = FALSE
    /\ conns = [s \in Services |-> {}]
    /\ registry = [k \in Keys |-> NoService]
    /\ tunnel = [k \in Keys |-> "free"]
    /\ closeReq = {}

(* The port a new service proxy gets, and the allocator's next value. In  *)
(* distinct-port mode `self.next_service_port += 1` is u16 arithmetic.     *)
ServicePort == IF SharedPort THEN ServerPort ELSE nextPort
NextServicePort == IF SharedPort THEN nextPort ELSE (nextPort + 1) % PortRange

(* The allocator's guards: exhaustion is an early Err with no change, and  *)
(* in a debug build the increment past PortMax panics.                     *)
(* Mutant: the exhaustion check off by one.                               *)
PortAvailableOffByOne == SharedPort \/ nextPort <= PortEnd + 1
PortAvailable == SharedPort \/ nextPort <= PortEnd
(* Mutant: an increment that never traps (wrapping_add in any build).     *)
IncrementNeverPanics == FALSE
IncrementPanics == ~SharedPort /\ Profile = "debug" /\ nextPort = PortMax

(* startup(service): a service not started yet gets a port and a visitor. *)
(* The port is consumed before the visitor is built, and a visitor whose  *)
(* constructor fails (the `?`) leaves the service unstarted.               *)
Startup(s) ==
    /\ ~poisoned
    /\ servicePorts[s] = NoPort
    /\ PortAvailable
    /\ ~IncrementPanics
    /\ nextPort' = NextServicePort
    /\ \E built \in IF VisitorMayFail THEN BOOLEAN ELSE {TRUE} :
          servicePorts' = IF built THEN [servicePorts EXCEPT ![s] = ServicePort]
                                   ELSE servicePorts
    /\ UNCHANGED <<poisoned, conns, registry, tunnel, closeReq>>

(* startup(service) in a debug build when next_service_port = u16::MAX:    *)
(* the increment overflows and the thread panics holding the manager lock. *)
StartupPanic(s) ==
    /\ ~poisoned
    /\ servicePorts[s] = NoPort
    /\ PortAvailable
    /\ IncrementPanics
    /\ poisoned' = TRUE
    /\ UNCHANGED <<servicePorts, nextPort, conns, registry, tunnel, closeReq>>

(* Mutant of HasProxyForUserAndService: the visitor's address set read   *)
(* for every user.                                                         *)
HasProxyForAnyUser(u, s) == servicePorts[s] # NoPort /\ conns[s] # {}

(* has_proxy_for_user_and_service(user, service): the service's visitor,  *)
(* if any, has a connection for the user (get_proxy_addrs_for_user is not *)
(* empty). A read under the manager lock; it changes nothing.              *)
HasProxyForUserAndService(u, s) ==
    /\ servicePorts[s] # NoPort
    /\ \E k \in Keys : <<u, k>> \in conns[s]

(* The connections shutdown_connections(user, service) selects: None for  *)
(* either filter (modelled as NoFilter) selects every value.               *)
NoFilter == "None"

(* Mutant of Selected: the visitor's (user, key) entries taken for keys.  *)
SelectedEntries(uOpt, sOpt) ==
    {c \in Users \X Keys : \E s \in Started :
                      /\ sOpt \in {NoFilter, s}
                      /\ uOpt \in {NoFilter, c[1]}
                      /\ c \in conns[s]}

Selected(uOpt, sOpt) ==
    {k \in Keys : \E s \in Started, u \in Users :
                      /\ sOpt \in {NoFilter, s}
                      /\ uOpt \in {NoFilter, u}
                      /\ <<u, k>> \in conns[s]}

(* shutdown_connections(user, service): every selected visitor sends a     *)
(* Close task to the executor for each selected connection. Entries stay  *)
(* in the visitor and the registry until the Closed event comes back.     *)
ShutdownConnections(uOpt, sOpt) ==
    /\ ~poisoned
    /\ closeReq' = closeReq \cup Selected(uOpt, sOpt)
    /\ UNCHANGED <<servicePorts, nextPort, poisoned, conns, registry, tunnel>>

GetServiceIdByProxyKey(k) == registry[k]

(* Mutant: the visitor forgets the registry entry.                       *)
OnClosedProxyKeepsRegistry(k) ==
    LET s == GetServiceIdByProxyKey(k) IN
    IF s # NoService /\ servicePorts[s] # NoPort
    THEN /\ conns' = [conns EXCEPT ![s] = {c \in @ : c[2] # k}]
         /\ UNCHANGED registry
    ELSE UNCHANGED <<conns, registry>>

(* on_closed_proxy(key): the visitor of the service the registry names    *)
(* removes the connection; its remove_proxy_for_key also drops the        *)
(* registry entry. An unknown key resolves to u64::MAX and is ignored.    *)
OnClosedProxy(k) ==
    LET s == GetServiceIdByProxyKey(k) IN
    IF s # NoService /\ servicePorts[s] # NoPort
    THEN /\ conns' = [conns EXCEPT ![s] = {c \in @ : c[2] # k}]
         /\ registry' = [registry EXCEPT ![k] = NoService]
    ELSE UNCHANGED <<conns, registry>>

(* poll_proxy_events: the event-poller thread takes ProxyEvent::Closed(k) *)
(* off the channel and calls on_closed_proxy under the manager lock.      *)
PollClosed(k) ==
    /\ ~poisoned
    /\ tunnel[k] = "closed"
    /\ tunnel' = [tunnel EXCEPT ![k] = "done"]
    /\ OnClosedProxy(k)
    /\ UNCHANGED <<servicePorts, nextPort, poisoned, closeReq>>

-----------------------------------------------------------------------------
(* The visitors' accept path and the proxy executor (not in this source   *)
(* tree: modelled from the specification, sections 4.1, 4.2 and 4.5).     *)

(* A client connects to a started service proxy: the visitor registers    *)
(* the new key in the registry and in its own set, then queues OpenTcp.   *)
Accept(s, u, k) ==
    /\ servicePorts[s] # NoPort
    /\ tunnel[k] = "free"
    /\ registry' = [registry EXCEPT ![k] = s]
    /\ conns' = [conns EXCEPT ![s] = @ \cup {<<u, k>>}]
    /\ tunnel' = [tunnel EXCEPT ![k] = "opening"]
    /\ UNCHANGED <<servicePorts, nextPort, poisoned, closeReq>>

(* The executor takes the Open task and starts the copier pumps.          *)
ExecOpen(k) ==
    /\ tunnel[k] = "opening"
    /\ tunnel' = [tunnel EXCEPT ![k] = "open"]
    /\ UNCHANGED <<servicePorts, nextPort, poisoned, conns, registry, closeReq>>

(* Mutant: Close handled without waiting for the key's Open.              *)
ExecCloseUnordered(k) ==
    /\ k \in closeReq
    /\ closeReq' = closeReq \ {k}
    /\ tunnel' = IF tunnel[k] = "open" THEN [tunnel EXCEPT ![k] = "closed"]
                                       ELSE tunnel
    /\ UNCHANGED <<servicePorts, nextPort, poisoned, conns, registry>>

(* The executor takes a Close task. The task channel is FIFO and the Open *)
(* task of a key is queued before any Close of it, so Close is taken only *)
(* once the tunnel has left "opening". A live tunnel is shut down and its *)
(* Closed event published; a Close for a tunnel already gone is dropped.   *)
ExecClose(k) ==
    /\ k \in closeReq
    /\ tunnel[k] # "opening"
    /\ closeReq' = closeReq \ {k}
    /\ tunnel' = IF tunnel[k] = "open" THEN [tunnel EXCEPT ![k] = "closed"]
                                       ELSE tunnel
    /\ UNCHANGED <<servicePorts, nextPort, poisoned, conns, registry>>

(* Either end of a live tunnel reaches EOF or an I/O error: the copier    *)
(* reaps the tunnel and publishes Closed(key).                            *)
TunnelEof(k) ==
    /\ tunnel[k] = "open"
    /\ tunnel' = [tunnel EXCEPT ![k] = "closed"]
    /\ UNCHANGED <<servicePorts, nextPort, poisoned, conns, registry, closeReq>>

-----------------------------------------------------------------------------

Next ==
    \/ \E s \in Services : Startup(s) \/ StartupPanic(s)
    \/ \E uOpt \in Users \cup {NoFilter}, sOpt \in Services \cup {NoFilter} :
          ShutdownConnections(uOpt, sOpt)
    \/ \E s \in Services, u \in Users, k \in Keys : Accept(s, u, k)
    \/ \E k \in Keys : ExecOpen(k) \/ ExecClose(k) \/ TunnelEof(k) \/ PollClosed(k)

(* The executor and the event poller are dedicated threads blocked in     *)
(* recv() on their channels: each takes a queued message eventually.      *)
(* Clients (startup, accept, shutdown) and tunnel EOFs are not obliged.   *)
Fairness ==
    \A k \in Keys : /\ WF_vars(ExecOpen(k))
                    /\ WF_vars(ExecClose(k))
                    /\ WF_vars(PollClosed(k))

Spec == Init /\ [][Next]_vars /\ Fairness

-----------------------------------------------------------------------------
(* Properties                                                              *)

TypeOK ==
    /\ servicePorts \in [Services -> Ports \cup {NoPort}]
    /\ nextPort \in Ports
    /\ poisoned \in BOOLEAN
    /\ conns \in [Services -> SUBSET (Users \X Keys)]
    /\ registry \in [Keys -> Services \cup {NoService}]
    /\ tunnel \in [Keys -> TunnelStates]
    /\ closeReq \subseteq Keys

(* Spec P1 and section 4.1, about Accept, on_closed_proxy and the copier: *)
(* a key is in the registry exactly while its tunnel is not yet cleaned   *)
(* up (opening, open, or its Closed event still queued); the registry     *)
(* names the one visitor that holds the key, and no visitor holds a key   *)
(* the registry does not route to it. So a Closed event always reaches    *)
(* the visitor that owns the connection, and nothing leaks after it.      *)
RegistryTracksTunnels ==
    \A k \in Keys :
        /\ (tunnel[k] \in Uncleaned) <=> (registry[k] # NoService)
        /\ registry[k] # NoService => \E u \in Users : <<u, k>> \in conns[registry[k]]
        /\ \A s \in Services, u \in Users : <<u, k>> \in conns[s] => registry[k] = s

(* Spec 4.8 and S2, about startup's allocator in distinct-port mode: every *)
(* started service has a port of the configured range and no two share   *)
(* one.                                                                    *)
PortsDistinctInRange ==
    ~SharedPort =>
        /\ \A s \in Started : servicePorts[s] \in PortStart..PortEnd
        /\ \A s, t \in Started : s # t => servicePorts[s] # servicePorts[t]

(* Spec section 8, about startup's allocator: exhaustion is reached after *)
(* exactly end-start+1 live allocations, i.e. every port the allocator    *)
(* has handed out belongs to a started service.                           *)
PortExhaustionExact ==
    (~SharedPort /\ ~poisoned /\ PortStart <= PortEnd) =>
        Cardinality(Started) = nextPort - PortStart

(* Spec P4 and QUIT, about shutdown_connections and the executor: every   *)
(* connection a shutdown selected is eventually torn down and its         *)
(* registry entry removed, whatever EOFs and other requests interleave.   *)
CloseRequestHonoured ==
    \A k \in Keys : k \in closeReq ~> (tunnel[k] = "done" /\ registry[k] = NoService)

(* A connection of the user to the service whose tunnel is still up.      *)
LiveProxy(u, s) == \E k \in Keys : <<u, k>> \in conns[s] /\ tunnel[k] \in {"opening", "open"}

(* Spec 4.8 and S3, about has_proxy_for_user_and_service, which reads the *)
(* visitor's connection set: once every tunnel of the user to the service *)
(* has ended, its stale "yes" is withdrawn when the event poller handles  *)
(* the Closed events, unless a new connection makes it true again.        *)
StaleHasProxyClears ==
    \A u \in Users, s \in Services :
        HasProxyForUserAndService(u, s) /\ ~LiveProxy(u, s)
            ~> ~HasProxyForUserAndService(u, s) \/ LiveProxy(u, s)

=============================================================================
