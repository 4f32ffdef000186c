# TLA+ models of trust0's service-proxy plane

This directory holds TLA+ models of the trust0 sources under `src/`, together with
the TLC configurations that check them and TLAPS proofs about them. trust0 is a
zero-trust network access tool. A client proxies local TCP/UDP connections through
TLS tunnels to a gateway. The gateway authorizes the user and forwards the bytes to
the service.

## 1. The system

These are the parts the sources contain, and how they interact.

| Part | Source | State | Operations |
|---|---|---|---|
| Gateway service manager | `crates/gateway/src/service/manager.rs` | `service_ports`, visitors, proxy threads, `next_service_port`/`last_service_port` (u16), shared port, the shared `services_by_proxy_key` registry | `new`, `startup`, `shutdown_connections(user?, svc?)`, `on_closed_proxy`, `poll_proxy_events`, `has_proxy_for_user_and_service` |
| Client service manager | `crates/client/src/service/manager.rs` | `service_addrs`, visitors, proxies, threads, the registry | `new`, `startup` (idempotent), `shutdown`, `_shutdown_for_service`, `poll_proxy_events` |
| TCP connection | `crates/common/src/net/tcp_server/conn_std.rs` | event channel (Write, Closing, Closed), `closed`, the socket | `poll_connection`, `read`, `write`, `shutdown`, `read_tcp_stream`, `write_tcp_stream` |
| UDP server | `crates/common/src/net/udp_server/server_std.rs` | `polling`, `closing`, `closed`, the socket | `bind_listener`, `poll_new_messages`, `accept_message`, `shutdown`, `perform_shutdown` |
| Gateway config | `crates/gateway/src/config.rs` | parsed configuration, ALPN list | `parse_gateway_service_ports`, TLS config building |
| Repositories | `crates/gateway/src/repository/...` | `RwLock<HashMap>` of access entries and services | `put`, `get`, `get_all(_for_user)`, `delete` |
| ASN.1 decoder | `crates/common/src/crypto/asn.rs` | none | `stringify_asn_value` |

The visitors, proxies, proxy executor and stream copier are not under `src/`. These
are the pieces the managers drive. Where a model needs them, they are modelled from
`spec.md` and marked `spec_modelled` in `PROJECT.json`.

**How the parts interact.**

- **Accept.** A listener thread (one per service) accepts a connection. Its visitor
  does three things:
  - registers the connection's proxy key in `services_by_proxy_key`;
  - records the key in its own connection set;
  - queues an Open task for the proxy executor.
- **Tunnel end.** The executor runs the tunnel. When the tunnel ends, either on its
  own or after a Close task, it publishes `ProxyEvent::Closed(key)` on the event bus.
- **Event poller.** The manager's event-poller thread takes the manager mutex. It
  resolves the key's service in the registry, and that service's visitor removes the
  key.
- **Manager operations.** These run on control-plane or REPL threads under the
  manager mutex. On the client side, each accepted local connection is a
  `Connection`: its poll thread alternates a non-blocking read with a drain of its
  event channel, and the visitor feeds that channel from the tunnel.

**What is hard here:**

- threads interleaving around the shared registry;
- Close tasks racing Open tasks on the executor channel;
- u16 port arithmetic at the top of its range, which wraps in release builds and
  panics (poisoning the mutex) in debug builds;
- a constructor failing after a port was taken;
- non-blocking I/O:
  - WouldBlock in the middle of a `write_all`;
  - `Ok(0)` at end of stream;
  - a shutdown that fails after a reset;
  - a write that fails after the peer closed, dropping its payload;
- listeners that stop only at their next tick.

`PROJECT.json` lists each of these hazards at the line where it bites, together with
the property that covers it.

## 2. The modules

### `GatewayServiceMgr.tla`: gateway manager, visitors, registry, executor

- **Constants:**
  - `Services`, `Users` and `Keys` (model values).
  - The port allocator: `PortBits`, the width (16 in the code); `PortStart` and
    `PortEnd`, from `gateway_service_ports`; `SharedPort` and `ServerPort`.
  - `Profile`, `"debug"` or `"release"`, which decides what `+= 1` does at 2^W − 1.
  - `VisitorMayFail`, whether a visitor constructor can return `Err`.
  - `NoService`, the `unwrap_or(u64::MAX)` of a failed lookup.
- **State:**
  - `servicePorts` (the `NoPort` entry means absent) and `nextPort`;
  - `poisoned`, whether the manager mutex is poisoned;
  - `conns`, the (user, key) pairs of each visitor;
  - `registry`, i.e. `services_by_proxy_key`;
  - `tunnel`, the executor's view of each key;
  - `closeReq`, the Close tasks queued.
- **Manager actions** (each is one atomic step under the mutex):
  - `Startup(s)` is the whole of `startup`. Its port is `ServicePort`, its increment
    is `NextServicePort`, taken modulo 2^W. Its exhaustion check is `PortAvailable`.
    The constructor's `?` may return early after the increment.
  - `StartupPanic(s)` is the debug overflow panic, which poisons the mutex.
  - `ShutdownConnections(uOpt, sOpt)` applies the service filter and the visitor's
    user filter (`Selected`).
  - `PollClosed(k)` is `poll_proxy_events` handling `Closed(k)` through
    `OnClosedProxy`. It is disabled once the mutex is poisoned.
- **Spec-modelled actions:**
  - `Accept` (the visitor);
  - `ExecOpen` and `ExecClose`. Close is taken only after the Open queued before it,
    because the channel is FIFO;
  - `TunnelEof` (the copier).

### `Connection.tla`: one TCP connection's poll thread

- **Constants:**
  - `MaxWrites`, the Writes the visitor queues;
  - `MaxBlocks`, the `write_all` calls that return WouldBlock;
  - `PeerCloseKinds`, a subset of `{"fin", "rst"}`: how the local application may end
    its socket.
- **State:**
  - `chan`, the event channel, a FIFO sequence;
  - `closed`;
  - `pc`, the poll thread's position: `read`, `events` or `exited`;
  - `peer`;
  - `wire`, the bytes written to the socket;
  - `sent`, the payloads queued;
  - `blocks`;
  - `shutdownCalls`, the number of `on_shutdown` calls;
  - `remoteClosing`.
- **Payloads.** Each payload is two bytes, so that a half-finished `write_all` is
  visible.
- **Poll-thread actions.** Each one is one arm of the code:
  - `ReadQuiet` covers data, WouldBlock and `Ok(0)`. `ReadFails` covers a read error
    or a visitor error.
  - `WriteAll`, `WriteWouldBlock` (a partial write, then the whole buffer re-queued
    at the tail) and `WriteFails`. A write fails on a socket that no longer accepts
    bytes, or after the peer's FIN, when the peer's stack answers the data with RST;
    the socket is then reset (`peer` becomes `rst`).
  - `ClosingWhenClosed`, `Shutdown` and `ShutdownFails` (ENOTCONN after a reset).
  - `EventsEmpty` and `EventClosed`, each followed by the `closed` check
    (`AfterEvents`).
- **Other actors:**
  - `RemoteWrite` and `RemoteClose`, the visitor;
  - `PeerClose`, the application.
- **Not modelled.** The `UnexpectedEof` arms cannot be reached with a `TcpStream` and
  are not modelled.

### `ClientServiceMgr.tla`: client manager, listeners, registry, executor

- **State:**
  - `serviceAddrs`;
  - `listener`, which is `none`, `running` or `stopped`;
  - `shutdownReq`, each visitor's `shutdown_requested`;
  - `proxies`;
  - `registry`;
  - `tunnel`;
  - `closeReq`.
- **Manager actions:**
  - `StartupExisting`, the early return at line 126;
  - `StartupNew`, where the constructor may fail;
  - `Shutdown` and `ShutdownForService`, which share `ShutdownVisitors`;
  - `PollClosed`.
- **Spec-modelled actions:**
  - `Accept`;
  - `ListenerStop`, when the listener sees the flag on its next tick;
  - `ExecOpen`, `ExecClose` and `TunnelEof`.

### `UdpServer.tla`: the UDP server's owner thread

- **Constants:**
  - `MaxDatagrams`, the datagrams peers send;
  - `MaxBinds`, the successful `bind_listener` calls;
  - `PollMayFail`, whether mio's `poll()` can return an error.
- **State:**
  - `socket`, `polling`, `closing` and `closed`, the fields of `Server`;
  - `pc`, which is `idle` between calls and `loop` inside `poll_new_messages`;
  - `shutdownReq`, the visitor's flag;
  - `queue` and `delivered`, the datagrams in the receive buffer and those
    handed to the visitor;
  - `sent` and `binds`, the counters the bounds cap.
- **Actions:**
  - `BindListener`, `PollStart` and `Shutdown` (with `PerformShutdown`);
  - `PollIteration`, one pass of the loop: the poll outcome (`ready`,
    `wouldblock` or `error`), `AcceptMessage`, the shutdown check, and the exit
    when polling is off;
  - the other actors: `PeerSend` and `RequestShutdown`.
- **Why `&mut self` matters.** Every method takes `&mut self`, so no method runs
  while the loop runs. The only shared state is the visitor's flag and the
  socket's buffer.

### `RepositoryContract.tla` and `GatewayRepos.tla`: the repositories

- **`RepositoryContract` is the abstract specification.** It describes what a
  repository promises:
  - a set of records, at most one per primary key (`table`);
  - a load from a file, which yields exactly the file's records (spec P5);
  - then `put`, `get`, `get_all` and `delete`, each one step with its result
    (`ret`).
- **`GatewayRepos` is the detailed model.** It models how `AppConfig::new`
  builds the in-memory access and service repositories:
  - `CreateDatasourceRepositories` connects each repository, one
    `HashMap::insert` per record in array order. `PutAll` states what that
    loop leaves: under a key the file names, the file's last record with that
    key; under any other key, what the map held. `MCGatewayRepos` checks this
    against the loop itself, a `FoldLeft` of the inserts, on every file of the
    model (the assumption `LoadIsPutLoop`). The closed form keeps
    `GatewayRepos` free of RECURSIVE definitions, so it can be reasoned about
    with TLAPS;
  - the ALPN list is then built from the services (`AlpnProtocols`);
  - `AppConfigFails` covers any `?` or `unwrap` that stops the gateway;
  - each repository method is one atomic action. The `RwLock` makes each call
    atomic.
- **Constants.** `ReposAssumption` requires `Tags # {}`: every record has
  some value in its other fields, so every key is the key of some record.
- **The refinement mappings.** They map the `HashMap`s to the set of records they
  hold (`AccessTable`, `ServiceTable`) and `pc = "running"` to `open`. The
  properties `AccessRefines` and `ServiceRefines` are the contract's `Spec` under
  these mappings.

### `PortRange.tla`: `parse_gateway_service_ports`

The argument is a sequence over a small alphabet of digits, `-` and `x`.

- **`Captures`** is the regex search, as the regex crate does it: the leftmost
  match, with greedy groups, anywhere in the argument.
- **`ParseUnsigned`** is `parse::<u16>().unwrap_or(0)` for a `Width`-bit type. A
  value the type cannot hold reads as 0.
- **`ParseGatewayServicePorts`** rejects a zero on either side.
- **The reference definition.** `WellFormed` and `Denoted` are the START-END
  format of spec 6 and the range it denotes.
- **Model shape.** One `Parse` step maps each argument up to `MaxLen` characters
  to its result.

### `AsnDecoder.tla`: `stringify_asn_value`

- **The value.** It is abstracted to:
  - its tag;
  - its content length;
  - whether its content is a valid encoding for the arm's conversion;
  - for an INTEGER, whether it fits an i64. Only an INTEGER of more than 8
    content bytes can be beyond i64 (two's complement), so the runs go up to 9
    bytes.
- **The supported tags.** `SupportedTags` is spec 4.9's list, written from the
  spec and not from the match, so `TagsAndErrors` compares the two.
- **The arms.** One operator per arm of the match: `StringArm`, `DisplayArm`,
  `IntegerArm`, `OctetStringArm` and `OidArm`.
- **The results.** A result is `Ok` (with whether the string is empty),
  `Conversion`, `UnsupportedTag` or `Panic`.

### The `_proofs` modules

`GatewayServiceMgr_proofs`, `Connection_proofs`, `ClientServiceMgr_proofs`,
`UdpServer_proofs`, `GatewayRepos_proofs` and `AsnDecoder_proofs` hold the TLAPS
proofs. They are described in section 5.

## 3. Runs

Each run is a TLC configuration in this directory. The "pass" runs hold. The
"violation" runs check a single property that the spec states and the code breaks.

| Run | Config | Checks | Result |
|---|---|---|---|
| gateway_main | `GatewayServiceMgr.cfg` | TypeOK, RegistryTracksTunnels, PortsDistinctInRange, CloseRequestHonoured, StaleHasProxyClears | pass (~150k states) |
| gateway_ports_debug_edge | `GatewayPortsDebugEdge.cfg` | PortsDistinctInRange | pass: the increment panics instead of wrapping |
| gateway_poisoned_poller | `GatewayPoisonedPoller.cfg` | CloseRequestHonoured | violation: the debug panic poisons the mutex and the event poller dies |
| connection_main | `Connection.cfg` | TypeOK, ShutdownOnce, CloseRequestEndsPoll | pass |
| connection_peer_close | `ConnectionPeerClose.cfg` | ShutdownOnce, DeliveredInOrder | pass: with either peer close and no WouldBlock, every Write reaches the wire once and in order |
| connection_write_order | `ConnWriteOrder.cfg` | DeliveredInOrder | violation: a byte is written twice |
| client_main | `ClientServiceMgr.cfg` | TypeOK, RegistryTracksProxies, ShutdownDrains | pass (~90k states) |
| udp_main | `UdpServer.cfg` | TypeOK, LoopEndsClosed, ShutdownReleasesSocket | pass |
| gateway_repos | `GatewayRepos.cfg` | TypeOK, AccessRefines, ServiceRefines | pass (~78k states): both repositories implement the contract on files without repeated keys |
| port_range | `PortRange.cfg` | TypeOK, ParsesWellFormed | pass: every START-END argument up to 5 characters parses to the range it writes, u16 overflow included (4-bit width) |
| asn_decoder | `AsnDecoder.cfg` | TagsAndErrors | pass: exactly the unsupported tags give UnsupportedTag, and an invalid encoding gives Conversion |
| asn_integer_panic | `AsnIntegerPanic.cfg` | DecodesSupported | violation: a valid 9-byte INTEGER beyond i64 panics |

**Further configurations.** Each of these checks a single property that the spec
states and that the code breaks. TLC finds each one violated, as described in
section 4. They are kept beside the model so that a reader can replay them with
`tlc -config <cfg> <module>`. They are not among the runs listed in `PROJECT.json`;
the hazards they concern say so in a note.

| Name | Config | Checks | Result |
|---|---|---|---|
| gateway_ports_release_wrap | `GatewayPortsReleaseWrap.cfg` | PortsDistinctInRange | violation: ports 6, 7, then 0 |
| gateway_port_leak | `GatewayPortLeak.cfg` | PortExhaustionExact | violation: a failed constructor consumes a port |
| connection_peer_fin | `ConnPeerFin.cfg` | PeerCloseEndsPoll | violation: `Ok(0)` is ignored forever |
| connection_peer_reset | `ConnPeerReset.cfg` | PeerCloseEndsPoll | violation: shutdown fails forever after a reset |
| client_stale_addrs | `ClientStaleAddrs.cfg` | StartupAddrsLive | violation: stored addresses outlive their listener |
| client_shutdown_window | `ClientShutdownWindow.cfg` | ShutdownLeavesNoConnections | violation: a connection accepted before the listener's tick survives shutdown |
| udp_poll_error | `UdpPollError.cfg` | LoopEndsClosed | violation: a poll error ends the loop with the socket still bound |
| repos_load_repeated | `ReposLoadRepeated.cfg` | AccessRefines | violation: a file with a repeated key loads fewer records |
| repos_alpn_stale | `ReposAlpnStale.cfg` | AlpnAdvertisesServices | violation: a service put after startup is not advertised |
| port_range_unanchored | `PortRangeUnanchored.cfg` | AcceptsOnlyWellFormed | violation: `-9-9` is accepted |
| port_range_inverted | `PortRangeInverted.cfg` | AcceptsNonEmptyRange | violation: `9-1` is accepted |
| asn_relative_oid | `AsnRelativeOid.cfg` | DecodesSupported | violation: every RELATIVE-OID fails |
| asn_empty_string | `AsnEmptyString.cfg` | DecodesSupported | violation: an empty string decodes to "" |

**The properties that matter:**

- `RegistryTracksTunnels` and `RegistryTracksProxies` are spec P1. A key is
  registered exactly while its tunnel is uncleaned. The visitor of the registered
  service holds it, and no other visitor does. Breaking this takes an accept, a Close
  task and a Closed event, in different threads.
- `PortsDistinctInRange` requires that started services in distinct mode get
  distinct ports inside `[start, end]`.
- `PortExhaustionExact` is spec section 8: in a non-empty range, the services started
  equal the ports taken.
- `CloseRequestHonoured` and `ShutdownDrains` say that a Close request always ends in
  a reaped tunnel and a cleaned registry, even when it was queued while the Open was
  still pending.
- `ShutdownOnce`, `DeliveredInOrder`, `CloseRequestEndsPoll` and `PeerCloseEndsPoll`
  are the contract of spec 4.3 for one connection.
- `StaleHasProxyClears` (spec S3) concerns `has_proxy_for_user_and_service`. That
  method reads the visitor's connection set, which lags the tunnels. Once every
  tunnel of the user to the service has ended, the stale "yes" must be withdrawn
  when the event poller handles the Closed events.
- `LoopEndsClosed` and `ShutdownReleasesSocket` are spec 4.4 for the UDP loop.
  The loop returns only after `perform_shutdown`, and a shutdown request always
  releases the socket.
- `AccessRefines` and `ServiceRefines` are the repository contract of spec 6 and 8,
  as a refinement. They include P5: a load holds exactly the file's records.
- `ParsesWellFormed` and `TagsAndErrors` compare the pure functions with reference
  definitions written from the spec, over every input up to the bound.

**Bounds.** Three services, two users and three keys let a shutdown filter select
some connections and not others. They also let a Close race an Open, and let two
services share the registry. The port range has two slots (4..5, inside a 3-bit
width), so the range can be exhausted and the off-by-one mutant shows. The edge runs
put the range at the top of the width, where the increment overflows. In the
`Connection` runs, two or three Writes and one or two WouldBlocks are enough to
reorder and to duplicate bytes. Two closers (the visitor and a read or write error)
are enough to issue Closing twice.

The bounds of the other runs:

- **UDP.** Three datagrams and two binds let a datagram arrive before a bind,
  during the loop, and after shutdown.
- **Repositories.** Two users, two services and two record variants allow a
  replacing put, a user filter that selects some records but not others, and a
  file with a repeated key.
- **Port ranges.** Arguments up to five characters over `0 1 6 9 - x`, with a
  4-bit width (ports below 16), include `16` (the first value that overflows) and
  every shape the regex can match.
- **ASN.1 tags.** Every tag of the match, plus two it does not name, with contents
  up to three bytes.

**Mutants.** Each property of a passing run has a mutant in the module that TLC
catches under the run's own configuration. Each mutant is defined just before the
definition it replaces and is listed in `PROJECT.json`. Examples:

- a dropped guard (`ShutdownUnguarded`);
- an off-by-one (`PortAvailableOffByOne`, `BytesFromZero`);
- a lost check (`AfterEventsNoExit`);
- an unordered channel (`ExecCloseUnordered`);
- a dropped call (`PollClosedDropped`).

**Fairness.** Weak fairness is assumed only for threads that the code keeps running:

- the proxy executor and the event pollers, which are blocked in `recv` and handle
  every event;
- a listener, which checks its shutdown flag on every tick;
- a `Connection` poll thread, which never blocks because its I/O is non-blocking and
  it sleeps between polls.

- the UDP poll loop (`PollIteration`), which spins on a non-blocking poll with a
  timeout.

The visitor, the application at the other end and the REPL are not obliged to act.

**Deadlock.** Some runs disable the deadlock check, because in each of them the
system really may stop:

- the `Connection` runs, because the poll thread stops once it exits;
- the UDP runs, because the owner thread may stop calling the server;
- the repository runs, after a failed start;
- the pure-function runs, after their single step;
- the poisoned-poller run, because every manager operation is then blocked.

## 4. Findings

Findings 3, 8 and 14 are the violation runs of `PROJECT.json`, where they are
listed in full. The others are shown by the further configurations of section 3.

1. **Port wrap in release builds.** `next_service_port += 1` wraps at 65535 in
   release builds, so ports outside the range are handed out again
   (manager.rs:178).
2. **Port leak.** A failing visitor constructor leaks the port already taken
   (manager.rs:200).
3. **WouldBlock re-queue.** When `write_all` returns WouldBlock, the whole buffer is
   re-queued at the tail. This duplicates the bytes already written and reorders
   later Writes (conn_std.rs:298).
4. **`Ok(0)` ignored.** `Ok(0)` is never treated as end of stream, so a connection
   the application closed is polled forever (conn_std.rs:245).
5. **Shutdown fails after a reset.** After a reset, `shutdown(Both)` fails before
   `closed` is set. The loop never exits and `on_shutdown` never runs
   (conn_std.rs:221).
6. **Stale client addresses.** Client `startup` after `shutdown` returns addresses
   whose listener has stopped (client manager.rs:126). The spec is silent on this.
7. **Shutdown race.** A connection accepted between `shutdown_connections` and the
   listener's next tick escapes the shutdown. The spec is silent on this.
8. **Poisoned poller.** In a debug build, the overflow panic of `startup` poisons
   the manager mutex. The event poller's `lock().unwrap()` then panics, and no
   Closed event is handled again (manager.rs:125).
9. **UDP poll error.** A poll error ends `poll_new_messages` with `Ok(())`, the
   socket still bound and `closed` false (server_std.rs:218).
10. **Repeated key on load.** A repeated (user, service) key in the access file
    silently replaces the earlier entry, against P5 (access
    in_memory_repo.rs:55).
11. **Stale ALPN list.** The ALPN list is built once, so services put or deleted
    later are not reflected in it (config.rs:343).
12. **Unanchored regex.** The port-range regex is not anchored, so `-9-9` or
    `1-2x` is accepted (config.rs:429).
13. **Inverted range.** A range with start > end is accepted (config.rs:441).
14. **INTEGER panic.** `as_i64().unwrap()` panics on an INTEGER beyond i64
    (asn.rs:28).
15. **RELATIVE-OID fails.** The RELATIVE-OID arm goes through `oid()`, so it
    always fails (asn.rs:47).
16. **Empty strings.** Empty strings decode to "", against P6 (asn.rs:58).

## 5. Proofs

`GatewayServiceMgr_proofs.tla` proves three theorems with TLAPS. They hold for all
constants that satisfy `PortAssumption` and `ModeAssumption`. `PortRange` (2^W) is
kept opaque, and only its positivity is used.

- `TypeCorrect: Spec => []TypeOK`. This follows from `InitTypeOK` and `NextTypeOK`,
  with one step per action. The port lemmas show that `NextServicePort` stays below
  2^W.
- `RegistryConsistent: Spec => []RegistryTracksTunnels`. The invariant is not
  inductive on its own:
  - `PollClosed` removes the key from the visitor of `registry[k]`;
  - the code does that only if that service has a visitor (`get_service_proxy`);
  - so the proof needs to know that a registered service is always started.
  
  The inductive invariant is `IInv == TypeOK /\ RegistryTracksTunnels /\
  RegisteredStarted`. The proof has one step per action. `Accept` and `PollClosed`
  split on whether the key considered is the one the action changes.

`Connection_proofs.tla` proves three theorems for every `MaxWrites`, `MaxBlocks` and
`PeerCloseKinds` that satisfy `ConnAssumption`.

- `TypeCorrect: Spec => []TypeOK`. It has one step per action. The step for
  `WriteWouldBlock` shows that the partial write `SubSeq(Bytes(d), 1, n)`, for
  n in 0..1, is a sequence of bytes.
- `ShutdownRunsOnce: Spec => []ShutdownOnce`. `ShutdownOnce` alone is not
  inductive: a second `Closing` after the first shutdown looks harmless only if
  `closed` is known to be set whenever `on_shutdown` has run. The inductive
  invariant is `IInv == TypeOK /\ shutdownCalls = IF closed THEN 1 ELSE 0 /\
  (pc = "exited" => closed)`. It ties the call count to the flag that
  `shutdown()` sets in the same call, and ties the exit of the loop to that flag.
  TLC checked `IInv` as an invariant before it was proved.
- `WritesInOrder`, under `MaxBlocks = 0`: `Spec => []DeliveredInOrder`, for
  either way the peer closes. The wire is always `WireOf(d)`, the two bytes of
  payloads 1 to d in order, where d is `Len(wire) \div 2`. The property alone is
  not inductive: the next `WriteAll` appends the payload at the head of the
  channel, so the proof must know which payload that is. The inductive invariant
  `OrderInv` says:
  - the payloads queued are 1, 2, ... in order, and d of them are on the wire;
  - the Writes in the channel carry increasing payloads, all above d
    (`Ordered`, `InRange`);
  - while the socket is writable, every payload above d has a Write in the
    channel (`Covers`). So no payload has been dropped before it was written,
    and the head Write is d + 1.

  `Covers` holds only while the socket is writable: a failed write drops its
  payload, and nothing reaches the wire after that. The channel lemmas
  (`AppendWrite`, `AppendOther`, `TailWrite`, `TailAny`, `TailOther`) show how
  `Append` and `Tail` preserve the three channel facts, and `WireGrows` shows
  that `WireOf(d) \o Bytes(d + 1) = WireOf(d + 1)`. TLC checked `OrderInv` first.
  With WouldBlock the property is false: `ConnWriteOrder.cfg` shows a payload
  re-queued behind a later one (finding 3).

`GatewayServiceMgr_proofs.tla` also proves `PortsDistinct`. It assumes the
allocator cannot wrap: either a debug build, or `PortEnd < 2^W - 1`. That
assumption excludes exactly finding 1. Under it, the theorem is
`Spec => []PortsDistinctInRange`, for every width, range and set of services.

- The invariant is not inductive: a new port differs from the old ones only
  because the allocator has moved past them.
- The inductive invariant `AllocInv` adds that `nextPort >= PortStart` and that
  every started service's port is below `nextPort`.
- `StartupIncrements` shows that, without a wrap, `NextServicePort = nextPort + 1`.

`ClientServiceMgr_proofs.tla` proves, for every value of the constants that
satisfies `ClientAssumption`:

- `TypeCorrect: Spec => []TypeOK`.
- `RegistryConsistent: Spec => []RegistryTracksProxies`. This needs more than the
  property itself, for two reasons:
  - `PollClosed` cleans a key up only when the service in the registry is
    started;
  - `StartupNew` resets the visitor's key set.

  The inductive invariant adds `ListenerStarted` (only a started service has a
  listener) and `RegisteredStarted` (the registry names only started services).
  Together these show that a service being started holds no key. TLC checked this
  invariant first (90k states).

`UdpServer_proofs.tla` proves:

- `TypeCorrect: Spec => []TypeOK`. The sequence facts come from
  `SequenceTheorems`.
- `LoopClosesSocket`, under `~PollMayFail`: `Spec => LoopEndsClosed`, an action
  property. No invariant is needed:
  - the loop is left only by an iteration after which polling is off;
  - without a poll error, that happens only when the shutdown check saw the
    request;
  - the same check sets `closing`, so `perform_shutdown` runs in that step.

  With poll errors the property is false (finding 9).

`GatewayRepos_proofs.tla` proves, for every value of the constants that
satisfies `ReposAssumption`:

- `TypeCorrect: Spec => []TypeOK`, for every data file, repeated keys included.
  The load is well typed because a file's last record with a given key exists.
  `LastIndexExists` shows this from the well-foundedness of `<` on `Nat`
  (`WFMin`, applied to the distances from the end of the file).
- `AccessRefinement` and `ServiceRefinement`: if no file repeats a key, then
  `Spec => AccessRefines` and `Spec => ServiceRefines`.
  - These are the refinements the `gateway_repos` run checks. They hold for
    every set of users, services, tags and files.
  - The hypothesis is needed: `ReposLoadRepeated.cfg` shows P5 failing for a
    file that repeats a key.
  - The inductive invariant `IInv` adds two facts to `TypeOK`. Every record of
    a map is stored under its own key (`AccessKeysMatch`, `ServiceKeysMatch`);
    without this, a put of a record would not remove the one with its key from
    the table. The maps are also empty until `AppConfig::new` loads them
    (`EmptyUntilLoaded`); without this, the load would not start from the
    contract's empty table.
  - The proof shows, step by step, that the initial state maps to the
    contract's, and that every action maps to a contract step or a stutter:
    - `AppConfigNew` maps to `Load` (`AccessTableLoad`);
    - `put` maps to `Put` (`AccessTableInsert`, `AccessLookup`);
    - `get` and `delete` map to `Get` and `Delete`;
    - `get_all_for_user` maps to `GetAll` (`AccessTableForUser`);
    - the other repository's calls, and `AppConfigFails`, are stutters.

`AsnDecoder_proofs.tla` proves, for every set of tags and every `MaxLen`:

- `ErrorsCorrect: Spec => []TagsAndErrors`. `ArmsTagsAndErrors` proves the
  property of `StringifyAsnValue` for every value, with one case per arm: the
  arms cover exactly the tags of spec 4.9's list, and each converts with
  `or_else(convert_err_fn)`. The
  inductive invariant says that, once the decoder is done, the result is the
  decoder's on the attribute.
- `DecodeFailures`. On a valid value of a supported tag, the decoder fails to
  return a non-empty string exactly in three cases:
  - an INTEGER beyond i64;
  - a RELATIVE-OID;
  - an empty string or OCTET STRING.

  These are the three ways spec P6 is broken (findings 14 to 16, shown by
  `AsnIntegerPanic.cfg`, `AsnRelativeOid.cfg` and `AsnEmptyString.cfg`). The
  theorem states them for all inputs.

**What stays with TLC.** These properties are checked by TLC only:

- the liveness properties (`CloseRequestHonoured`, `ShutdownDrains`,
  `CloseRequestEndsPoll`, `StaleHasProxyClears`, `ShutdownReleasesSocket`). They
  need fairness and ENABLED, which are out of the prover's reach.
- `PortRange.TypeOK` and `ParsesWellFormed`. `DecimalValue` and the regex
  search are recursive over the argument, and the module reaches RECURSIVE
  definitions through `SequencesExt`. A result for every input would need
  induction over data, and the library's induction theorems take an operator
  parameter that the provers cannot instantiate.
- `LoadIsPutLoop`: the closed form of the load equals the insert loop. This is
  checked by TLC on every file of the model, for the same reason.
- `PortExhaustionExact`, and the properties the violation runs refute.

## 6. Not modelled, and the plan

- **Threads and locks beyond one atomic step.** The managers' mutexes are modelled
  as atomic actions. The client's lock order between the manager and its visitors
  is not modelled, so a deadlock there is not checked.
- **The user model** (`model/user.rs`) has no operations. It enters only as data,
  and its repository is left out of `GatewayRepos` for the same reason.
- **TLS, DNS, certificates and the CLI.** These are I/O or library code; only the
  port-range value parser of the configuration is modelled.
- **Plan.** An abstract tunnel-registry specification that both managers refine,
  and a model of the client's lock order between the manager and its visitors.
