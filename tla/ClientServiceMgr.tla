--------------------------- MODULE ClientServiceMgr ---------------------------
(***************************************************************************)
(* The client's ServiceMgr (crates/client/src/service/manager.rs): one     *)
(* proxy listener per service the user has connected to, the shared        *)
(* services_by_proxy_key registry, and the event poller that routes       *)
(* ProxyEvent::Closed(key) to the visitor owning the key.                 *)
(*                                                                         *)
(* Manager operations (startup, shutdown, _shutdown_for_service) run from  *)
(* the REPL under the manager mutex and are atomic steps. The visitors,    *)
(* the listener threads and the proxy executor are not under src/ and are  *)
(* modelled from spec sections 4.7 and 5: a visitor registers a key when  *)
(* its listener accepts a connection and removes it in                    *)
(* remove_proxy_for_key; the executor opens a tunnel, closes it on request *)
(* (in channel order) or when a side ends, and then publishes Closed.     *)
(***************************************************************************)
EXTENDS Naturals, FiniteSets

CONSTANTS
    Services,        \* service ids
    Keys,            \* proxy keys of client connections
    Addrs,           \* ProxyAddrs values a CONNECT response can carry
    VisitorMayFail,  \* whether a proxy visitor constructor can return Err
    NoService,       \* not a service id: "no entry in the registry"
    NoAddrs          \* not a ProxyAddrs: "no entry in service_addrs"

ASSUME ClientAssumption ==
    /\ VisitorMayFail \in BOOLEAN
    /\ NoService \notin Services
    /\ NoAddrs \notin Addrs

TunnelStates == {"free", "opening", "open", "closed", "done"}
Uncleaned == {"opening", "open", "closed"}
ListenerStates == {"none", "running", "stopped"}

VARIABLES
    serviceAddrs,  \* service_addrs
    listener,      \* the listener thread of each service's proxy
    shutdownReq,   \* each visitor's shutdown_requested flag
    proxies,       \* each visitor's connections, by proxy key
    registry,      \* services_by_proxy_key
    tunnel,        \* executor state of each proxy key
    closeReq       \* keys with a Close task queued for the executor

vars == <<serviceAddrs, listener, shutdownReq, proxies, registry, tunnel, closeReq>>

Started == {s \in Services : serviceAddrs[s] # NoAddrs}

Init ==
    /\ serviceAddrs = [s \in Services |-> NoAddrs]
    /\ listener = [s \in Services |-> "none"]
    /\ shutdownReq = [s \in Services |-> FALSE]
    /\ proxies = [s \in Services |-> {}]
    /\ registry = [k \in Keys |-> NoService]
    /\ tunnel = [k \in Keys |-> "free"]
    /\ closeReq = {}

-----------------------------------------------------------------------------
(* ServiceMgr operations                                                   *)

(* startup(service, proxy_addrs) for a service already in service_addrs:  *)
(* the stored addresses are returned, the given ones ignored, and nothing *)
(* changes.                                                                *)
StartupExisting(s, a) ==
    /\ serviceAddrs[s] # NoAddrs
    /\ UNCHANGED vars

(* startup(service, proxy_addrs) for a new service: build the visitor     *)
(* (its constructor's `?` may return early with nothing changed), spawn   *)
(* the listener thread and record the addresses.                          *)
StartupNew(s, a) ==
    /\ serviceAddrs[s] = NoAddrs
    /\ \E built \in IF VisitorMayFail THEN BOOLEAN ELSE {TRUE} :
          IF built
          THEN /\ serviceAddrs' = [serviceAddrs EXCEPT ![s] = a]
               /\ listener' = [listener EXCEPT ![s] = "running"]
               /\ shutdownReq' = [shutdownReq EXCEPT ![s] = FALSE]
               /\ proxies' = [proxies EXCEPT ![s] = {}]
               /\ UNCHANGED <<registry, tunnel, closeReq>>
          ELSE UNCHANGED vars

(* Mutant of ShutdownVisitors: one Close task per visitor rather than per  *)
(* connection.                                                             *)
ShutdownVisitorsPerVisitor(S) ==
    /\ shutdownReq' = [s \in Services |-> shutdownReq[s] \/ s \in S]
    /\ closeReq' = closeReq \cup {proxies[s] : s \in S}
    /\ UNCHANGED <<serviceAddrs, listener, proxies, registry, tunnel>>

(* The body shared by shutdown() and _shutdown_for_service for one        *)
(* visitor: set_shutdown_requested(true), then shutdown_connections, which *)
(* queues a Close task for each of the visitor's connections.             *)
ShutdownVisitors(S) ==
    /\ shutdownReq' = [s \in Services |-> shutdownReq[s] \/ s \in S]
    /\ closeReq' = closeReq \cup UNION {proxies[s] : s \in S}
    /\ UNCHANGED <<serviceAddrs, listener, proxies, registry, tunnel>>

(* shutdown(): every visitor.                                              *)
Shutdown == ShutdownVisitors(Started)

(* _shutdown_for_service(service_id): the service's visitor, if any.       *)
ShutdownForService(s) == ShutdownVisitors(Started \cap {s})

(* Mutant of PollClosed: the event consumed without calling               *)
(* remove_proxy_for_key.                                                   *)
PollClosedDropped(k) ==
    /\ tunnel[k] = "closed"
    /\ tunnel' = [tunnel EXCEPT ![k] = "done"]
    /\ UNCHANGED <<serviceAddrs, listener, shutdownReq, proxies, registry, closeReq>>

(* poll_proxy_events on Closed(key): look the key up (u64::MAX when it is *)
(* unknown), and have that service's visitor remove the key, which also   *)
(* drops it from the registry. A key the registry no longer knows is       *)
(* dropped.                                                                *)
PollClosed(k) ==
    /\ tunnel[k] = "closed"
    /\ tunnel' = [tunnel EXCEPT ![k] = "done"]
    /\ LET s == registry[k] IN
          IF s # NoService /\ s \in Started
          THEN /\ proxies' = [proxies EXCEPT ![s] = @ \ {k}]
               /\ registry' = [registry EXCEPT ![k] = NoService]
          ELSE UNCHANGED <<proxies, registry>>
    /\ UNCHANGED <<serviceAddrs, listener, shutdownReq, closeReq>>

-----------------------------------------------------------------------------
(* Listener threads and the proxy executor (spec 4.7, 5)                   *)

(* A running listener accepts a connection: the visitor records it and    *)
(* registers its key; the executor is asked to open the tunnel.            *)
Accept(s, k) ==
    /\ listener[s] = "running"
    /\ tunnel[k] = "free"
    /\ registry' = [registry EXCEPT ![k] = s]
    /\ proxies' = [proxies EXCEPT ![s] = @ \cup {k}]
    /\ tunnel' = [tunnel EXCEPT ![k] = "opening"]
    /\ UNCHANGED <<serviceAddrs, listener, shutdownReq, closeReq>>

(* The listener sees shutdown_requested on its next poll tick and exits.  *)
ListenerStop(s) ==
    /\ listener[s] = "running"
    /\ shutdownReq[s]
    /\ listener' = [listener EXCEPT ![s] = "stopped"]
    /\ UNCHANGED <<serviceAddrs, shutdownReq, proxies, registry, tunnel, closeReq>>

ExecOpen(k) ==
    /\ tunnel[k] = "opening"
    /\ tunnel' = [tunnel EXCEPT ![k] = "open"]
    /\ UNCHANGED <<serviceAddrs, listener, shutdownReq, proxies, registry, closeReq>>

(* Mutant of ExecClose: a Close task handled before the Open queued ahead *)
(* of it.                                                                  *)
ExecCloseUnordered(k) ==
    /\ k \in closeReq
    /\ closeReq' = closeReq \ {k}
    /\ tunnel' = [tunnel EXCEPT ![k] = IF @ = "open" THEN "closed" ELSE @]
    /\ UNCHANGED <<serviceAddrs, listener, shutdownReq, proxies, registry>>

(* A Close task is taken after the Open task queued before it.            *)
ExecClose(k) ==
    /\ k \in closeReq
    /\ tunnel[k] # "opening"
    /\ closeReq' = closeReq \ {k}
    /\ tunnel' = [tunnel EXCEPT ![k] = IF @ = "open" THEN "closed" ELSE @]
    /\ UNCHANGED <<serviceAddrs, listener, shutdownReq, proxies, registry>>

(* One side of the tunnel ends on its own.                                 *)
TunnelEof(k) ==
    /\ tunnel[k] = "open"
    /\ tunnel' = [tunnel EXCEPT ![k] = "closed"]
    /\ UNCHANGED <<serviceAddrs, listener, shutdownReq, proxies, registry, closeReq>>

Next ==
    \/ \E s \in Services, a \in Addrs : StartupExisting(s, a) \/ StartupNew(s, a)
    \/ Shutdown
    \/ \E s \in Services : ShutdownForService(s) \/ ListenerStop(s)
    \/ \E s \in Services, k \in Keys : Accept(s, k)
    \/ \E k \in Keys : ExecOpen(k) \/ ExecClose(k) \/ TunnelEof(k) \/ PollClosed(k)

(* The executor and the event poller are threads blocked in recv, and a   *)
(* listener polls its shutdown flag every tick: each takes its step once   *)
(* it is enabled.                                                          *)
Fairness ==
    /\ \A k \in Keys : WF_vars(ExecOpen(k)) /\ WF_vars(ExecClose(k)) /\ WF_vars(PollClosed(k))
    /\ \A s \in Services : WF_vars(ListenerStop(s))

Spec == Init /\ [][Next]_vars /\ Fairness

-----------------------------------------------------------------------------
(* Properties                                                              *)

TypeOK ==
    /\ serviceAddrs \in [Services -> Addrs \cup {NoAddrs}]
    /\ listener \in [Services -> ListenerStates]
    /\ shutdownReq \in [Services -> BOOLEAN]
    /\ proxies \in [Services -> SUBSET Keys]
    /\ registry \in [Keys -> Services \cup {NoService}]
    /\ tunnel \in [Keys -> TunnelStates]
    /\ closeReq \subseteq Keys

(* Spec P1 and 4.7, about the registry the visitors fill and the Closed    *)
(* routing of poll_proxy_events: a key is registered exactly while its     *)
(* tunnel is not yet cleaned up, and then it is held by the visitor of the *)
(* service the registry names and by no other.                            *)
RegistryTracksProxies ==
    \A k \in Keys :
        /\ (tunnel[k] \in Uncleaned) <=> (registry[k] # NoService)
        /\ \A s \in Services : k \in proxies[s] <=> registry[k] = s

(* Spec 4.7 and 5, about shutdown(): once a shutdown is requested, every   *)
(* connection the visitors held is closed and cleaned up.                  *)
ShutdownDrains ==
    \A k \in Keys : k \in closeReq ~> (tunnel[k] = "done" /\ registry[k] = NoService)

(* Spec 4.7 ("for each active service, a (ClientProxy, ProxyVisitor,      *)
(* worker_thread, ProxyAddrs) quadruple"), about shutdown() and the early  *)
(* return of startup(): service_addrs only holds services whose listener   *)
(* runs, so the addresses startup hands back are served.                   *)
StartupAddrsLive ==
    \A s \in Services : serviceAddrs[s] # NoAddrs => listener[s] = "running"

(* Spec 4.7 and 5 ("listener shutdown is cooperative"), about shutdown()  *)
(* racing the listener's accept: once a service's shutdown is requested,   *)
(* its listener stops and its visitor ends up holding no connection.       *)
ShutdownLeavesNoConnections ==
    \A s \in Services : shutdownReq[s] ~> (listener[s] = "stopped" /\ proxies[s] = {})

=============================================================================
