----------------------------- MODULE GatewayRepos -----------------------------
(***************************************************************************)
(* The gateway's in-memory repositories and how AppConfig::new fills them  *)
(* (crates/gateway/src/repository/{access,service}_repo/in_memory_repo.rs, *)
(* crates/gateway/src/config.rs).                                          *)
(*                                                                         *)
(* Each repository is a HashMap behind an RwLock (and, in AppConfig, a     *)
(* Mutex): every operation is one atomic step. The maps are total          *)
(* functions onto the records and None. AppConfig::new loads the access,   *)
(* service and user repositories from their JSON files and builds the      *)
(* TLS server's ALPN list from the services loaded; after that the         *)
(* repositories serve the control plane's reads and any writes.            *)
(***************************************************************************)
EXTENDS Naturals, Sequences

CONSTANTS
    Users,         \* user ids
    Services,      \* service ids
    Tags,          \* what else a record can hold (name, host, port, ...)
    AccessFiles,   \* contents of access-db-file the gateway may start with
    ServiceFiles,  \* contents of service-db-file the gateway may start with
    None           \* Option::None

AccessRecs == [user : Users, service : Services, tag : Tags]
ServiceRecs == [id : Services, tag : Tags]

ASSUME ReposAssumption ==
    /\ Tags # {}      \* a record's other fields always have some value
    /\ None \notin AccessRecs \cup ServiceRecs
    /\ AccessFiles \subseteq Seq(AccessRecs)
    /\ ServiceFiles \subseteq Seq(ServiceRecs)

(* ALPN protocol ids: "T0CP", and "T0SRV" followed by a service id.        *)
ControlPlane == <<"T0CP">>
ServiceProtocol(id) == <<"T0SRV", id>>

VARIABLES
    pc,          \* "config" (AppConfig::new), "running" or "failed"
    access,      \* InMemAccessRepo.accesses
    services,    \* InMemServiceRepo.services
    alpn,        \* tls_server_config_builder.alpn_protocols
    accessRet,   \* the result of the last access repository call
    serviceRet   \* the result of the last service repository call; both
                 \* are sets of records (an Option as a set of at most one)

vars == <<pc, access, services, alpn, accessRet, serviceRet>>

EmptyAccess == [k \in Users \X Services |-> None]
EmptyServices == [id \in Services |-> None]

Init ==
    /\ pc = "config"
    /\ access = EmptyAccess
    /\ services = EmptyServices
    /\ alpn = {}
    /\ accessRet = {}
    /\ serviceRet = {}

-----------------------------------------------------------------------------
(* The maps                                                                *)

AccessKey(r) == <<r.user, r.service>>

(* A map entry as the Option a HashMap call returns.                       *)
Opt(x) == IF x = None THEN {} ELSE {x}

(* HashMap::insert keyed by (access.user_id, access.service_id).           *)
AccessInsert(data, r) == [data EXCEPT ![AccessKey(r)] = r]

(* HashMap::insert keyed by service.service_id.                           *)
ServiceInsert(data, r) == [data EXCEPT ![r.id] = r]

(* Mutant of ServiceRemove: a retain with its predicate inverted, keeping  *)
(* only the entry to delete.                                               *)
ServiceRemoveInverted(data, id) ==
    [i \in DOMAIN data |-> IF i = id THEN data[i] ELSE None]

(* HashMap::remove.                                                        *)
ServiceRemove(data, id) == [data EXCEPT ![id] = None]

(* Mutant of ForUser: get_all_for_user's filter dropped.                   *)
ForUserAll(k, u) == TRUE

(* get_all_for_user's filter on the entry's key: entry.0 .0 == user_id.    *)
ForUser(k, u) == k[1] = u

(* The map after each record of the file is put in turn (HashMap::insert *)
(* in array order): under a key the file names, the last record with that *)
(* key; under any other, what the map held. MCGatewayRepos checks this    *)
(* against the loop itself, a FoldLeft of the inserts.                     *)
PutAll(data, file, KeyOf(_)) ==
    [k \in DOMAIN data |->
        LET is == {i \in DOMAIN file : KeyOf(file[i]) = k}
        IN  IF is = {} THEN data[k] ELSE file[CHOOSE i \in is : \A j \in is : j <= i]]

(* connect_to_datasource, once the file is read and parsed: put each      *)
(* record of the array in turn.                                            *)
ConnectAccess(data, file) == PutAll(data, file, AccessKey)
ConnectServices(data, file) == PutAll(data, file, LAMBDA r : r.id)

(* Mutant of AlpnProtocols: the service record pushed instead of its      *)
(* protocol id.                                                            *)
AlpnProtocolsOfRecords(data) == {ControlPlane} \cup {data[id] : id \in Services}

(* The ALPN list of AppConfig::new: T0CP, then one protocol per service    *)
(* that get_all returns.                                                   *)
AlpnProtocols(data) ==
    {ControlPlane} \cup {ServiceProtocol(id) : id \in {i \in Services : data[i] # None}}

-----------------------------------------------------------------------------
(* AppConfig::new                                                          *)

(* create_datasource_repositories for the in-memory DataSource: fresh     *)
(* access, service and user repositories connect to their files in turn.  *)
CreateDatasourceRepositories(af, sf) ==
    /\ access' = ConnectAccess(EmptyAccess, af)
    /\ services' = ConnectServices(EmptyServices, sf)

(* AppConfig::new when every step succeeds: the repositories, then the    *)
(* ALPN list built from the service repository.                            *)
AppConfigNew ==
    /\ pc = "config"
    /\ \E af \in AccessFiles, sf \in ServiceFiles :
          /\ CreateDatasourceRepositories(af, sf)
          /\ alpn' = AlpnProtocols(services')
    /\ pc' = "running"
    /\ UNCHANGED <<accessRet, serviceRet>>

(* Any `?` of AppConfig::new (a file that cannot be read or parsed, the   *)
(* user repository, the DNS client) or one of its unwraps (certificates,  *)
(* key) fails: the gateway does not start and the repositories are        *)
(* dropped.                                                                *)
AppConfigFails ==
    /\ pc = "config"
    /\ pc' = "failed"
    /\ UNCHANGED <<access, services, alpn, accessRet, serviceRet>>

-----------------------------------------------------------------------------
(* InMemAccessRepo                                                         *)

AccessPut(r) ==
    /\ pc = "running"
    /\ access' = AccessInsert(access, r)
    /\ accessRet' = Opt(access[AccessKey(r)])
    /\ UNCHANGED <<pc, services, alpn, serviceRet>>

AccessGet(u, s) ==
    /\ pc = "running"
    /\ accessRet' = Opt(access[<<u, s>>])
    /\ UNCHANGED <<pc, access, services, alpn, serviceRet>>

AccessGetAllForUser(u) ==
    /\ pc = "running"
    /\ accessRet' = {access[k] : k \in {k \in DOMAIN access : access[k] # None /\ ForUser(k, u)}}
    /\ UNCHANGED <<pc, access, services, alpn, serviceRet>>

AccessDelete(u, s) ==
    /\ pc = "running"
    /\ access' = [access EXCEPT ![<<u, s>>] = None]
    /\ accessRet' = Opt(access[<<u, s>>])
    /\ UNCHANGED <<pc, services, alpn, serviceRet>>

-----------------------------------------------------------------------------
(* InMemServiceRepo                                                        *)

ServicePut(r) ==
    /\ pc = "running"
    /\ services' = ServiceInsert(services, r)
    /\ serviceRet' = Opt(services[r.id])
    /\ UNCHANGED <<pc, access, alpn, accessRet>>

ServiceGet(id) ==
    /\ pc = "running"
    /\ serviceRet' = Opt(services[id])
    /\ UNCHANGED <<pc, access, services, alpn, accessRet>>

ServiceGetAll ==
    /\ pc = "running"
    /\ serviceRet' = {services[id] : id \in {i \in Services : services[i] # None}}
    /\ UNCHANGED <<pc, access, services, alpn, accessRet>>

ServiceDelete(id) ==
    /\ pc = "running"
    /\ services' = ServiceRemove(services, id)
    /\ serviceRet' = Opt(services[id])
    /\ UNCHANGED <<pc, access, alpn, accessRet>>

Next ==
    \/ AppConfigNew \/ AppConfigFails
    \/ \E r \in AccessRecs : AccessPut(r)
    \/ \E u \in Users, s \in Services : AccessGet(u, s) \/ AccessDelete(u, s)
    \/ \E u \in Users : AccessGetAllForUser(u)
    \/ \E r \in ServiceRecs : ServicePut(r)
    \/ \E id \in Services : ServiceGet(id) \/ ServiceDelete(id)
    \/ ServiceGetAll

Spec == Init /\ [][Next]_vars

-----------------------------------------------------------------------------
(* Properties                                                              *)

TypeOK ==
    /\ pc \in {"config", "running", "failed"}
    /\ access \in [Users \X Services -> AccessRecs \cup {None}]
    /\ services \in [Services -> ServiceRecs \cup {None}]
    /\ alpn \subseteq {ControlPlane} \cup {ServiceProtocol(id) : id \in Services}

(* The records the maps hold: the refinement mappings.                     *)
AccessTable == {access[k] : k \in {k \in DOMAIN access : access[k] # None}}
ServiceTable == {services[id] : id \in {i \in Services : services[i] # None}}

AccessContract == INSTANCE RepositoryContract
    WITH Records <- AccessRecs, KeyOf <- AccessKey, Filters <- Users,
         Matches <- LAMBDA r, u : r.user = u, Files <- AccessFiles,
         open <- pc = "running",
         table <- AccessTable, ret <- accessRet

ServiceContract == INSTANCE RepositoryContract
    WITH Records <- ServiceRecs, KeyOf <- LAMBDA r : r.id, Filters <- {"all"},
         Matches <- LAMBDA r, f : TRUE, Files <- ServiceFiles,
         open <- pc = "running",
         table <- ServiceTable, ret <- serviceRet

(* Spec 6 and 8 (the repository contract, P5 and the put/get/delete round *)
(* trips), about InMemAccessRepo and its load by AppConfig::new: every     *)
(* step of the access repository is a step of the contract.               *)
AccessRefines == AccessContract!Spec

(* The same for InMemServiceRepo.                                          *)
ServiceRefines == ServiceContract!Spec

(* Spec 4.5 ("the server advertises T0CP plus, for each service present in *)
(* the repository, T0SRV<id>"), about the ALPN list AppConfig::new builds  *)
(* once: while the gateway runs, the protocols advertised are those of the *)
(* services the repository holds.                                          *)
AlpnAdvertisesServices ==
    pc = "running" => alpn = AlpnProtocols(services)

=============================================================================
