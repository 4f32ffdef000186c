------------------------- MODULE GatewayRepos_proofs -------------------------
(***************************************************************************)
(* Proofs about GatewayRepos, for every value of the constants that        *)
(* satisfies ReposAssumption.                                              *)
(*                                                                         *)
(*  - TypeCorrect: Spec => []TypeOK, whatever the data files hold. The    *)
(*    load is well typed because the last record of a file with a given    *)
(*    key exists (LastIndexExists, from the well-foundedness of <).        *)
(*  - AccessRefinement and ServiceRefinement: when no file repeats a key, *)
(*    each in-memory repository implements RepositoryContract under the   *)
(*    mappings AccessTable and ServiceTable. The inductive invariant IInv *)
(*    adds that every record is stored under its own key and that the     *)
(*    maps are empty until AppConfig::new loads them. (A file that repeats *)
(*    a key breaks P5: ReposLoadRepeated.cfg.)                             *)
(***************************************************************************)
EXTENDS GatewayRepos, WellFoundedInduction, SequenceTheorems, TLAPS

(* Every record of an access map is stored under its own key.            *)
AccessKeysMatch(m) == \A k \in DOMAIN m : m[k] # None => AccessKey(m[k]) = k

(* Every record of a service map is stored under its own id.              *)
ServiceKeysMatch(m) == \A id \in DOMAIN m : m[id] # None => m[id].id = id

(* The records an access map holds: AccessTable for any map.              *)
AccessTableOf(m) == {m[k] : k \in {k \in DOMAIN m : m[k] # None}}

AccessMaps == [Users \X Services -> AccessRecs \cup {None}]

(* The records a service map holds: ServiceTable for any map.             *)
ServiceTableOf(m) == {m[id] : id \in {i \in Services : m[i] # None}}

ServiceMaps == [Services -> ServiceRecs \cup {None}]

(* Until AppConfig::new has run, the repositories are the new, empty ones. *)
EmptyUntilLoaded ==
    pc = "config" => access = EmptyAccess /\ services = EmptyServices

IInv == TypeOK /\ AccessKeysMatch(access) /\ ServiceKeysMatch(services) /\ EmptyUntilLoaded

(* A file whose records have distinct keys.                               *)
AccessKeysDistinct(file) ==
    \A i, j \in DOMAIN file : AccessKey(file[i]) = AccessKey(file[j]) => i = j
ServiceIdsDistinct(file) ==
    \A i, j \in DOMAIN file : file[i].id = file[j].id => i = j

-----------------------------------------------------------------------------
(* The load                                                                *)

(* A non-empty set of indices of a sequence has a largest element.         *)
LEMMA LastIndexExists ==
    ASSUME NEW L \in Nat, NEW S \in SUBSET (1..L), S # {}
    PROVE  \E m \in S : \A k \in S : k <= m
<1> DEFINE T == {L - i : i \in S}
<1>1. T \subseteq Nat /\ T # {}
    <2>1. \A i \in S : L - i \in Nat
        OBVIOUS
    <2>2. QED
        BY <2>1 DEF T
<1>2. PICK x \in T : \A y \in T : ~(<<y, x>> \in OpToRel(<, Nat))
    BY <1>1, WFMin, NatLessThanWellFounded
<1>3. \A y \in T : ~(y < x)
    BY <1>1, <1>2 DEF OpToRel
<1>4. QED
    BY <1>3 DEF T

(* What connect_to_datasource leaves under an access key: what the map   *)
(* held if the file does not name the key, else the last record with it. *)
LEMMA LoadAccess ==
    ASSUME NEW data \in [Users \X Services -> AccessRecs \cup {None}],
           NEW file \in Seq(AccessRecs), NEW k \in Users \X Services
    PROVE  \/ /\ \A i \in DOMAIN file : AccessKey(file[i]) # k
              /\ ConnectAccess(data, file)[k] = data[k]
           \/ \E i \in DOMAIN file :
                 /\ AccessKey(file[i]) = k
                 /\ ConnectAccess(data, file)[k] = file[i]
                 /\ \A j \in DOMAIN file : AccessKey(file[j]) = k => j <= i
<1> DEFINE is == {i \in DOMAIN file : AccessKey(file[i]) = k}
<1>1. ConnectAccess(data, file)[k] =
          IF is = {} THEN data[k] ELSE file[CHOOSE i \in is : \A j \in is : j <= i]
    BY DEF ConnectAccess, PutAll
<1>2. CASE is = {}
    BY <1>1, <1>2
<1>3. CASE is # {}
    <2>1. Len(file) \in Nat /\ is \subseteq 1..Len(file)
        BY LenProperties
    <2>2. \E m \in is : \A j \in is : j <= m
        BY <1>3, <2>1, LastIndexExists
    <2>3. QED
        BY <1>1, <1>3, <2>2
<1>4. QED
    BY <1>2, <1>3

(* The load puts each record of a file without repeated keys under its    *)
(* own key.                                                                *)
LEMMA LoadAccessDistinct ==
    ASSUME NEW data \in [Users \X Services -> AccessRecs \cup {None}],
           NEW file \in Seq(AccessRecs), AccessKeysDistinct(file),
           NEW i \in DOMAIN file
    PROVE  ConnectAccess(data, file)[AccessKey(file[i])] = file[i]
<1> DEFINE k == AccessKey(file[i])
<1>1. file[i] \in AccessRecs
    BY ElementOfSeq
<1>2. k \in Users \X Services
    BY <1>1 DEF AccessKey, AccessRecs
<1>3. \/ /\ \A i2 \in DOMAIN file : AccessKey(file[i2]) # k
         /\ ConnectAccess(data, file)[k] = data[k]
      \/ \E j \in DOMAIN file :
            /\ AccessKey(file[j]) = k
            /\ ConnectAccess(data, file)[k] = file[j]
            /\ \A j2 \in DOMAIN file : AccessKey(file[j2]) = k => j2 <= j
    BY <1>2, LoadAccess
<1>4. PICK j \in DOMAIN file :
          /\ AccessKey(file[j]) = k
          /\ ConnectAccess(data, file)[k] = file[j]
    BY <1>3 DEF k
<1>5. j = i
    BY <1>4 DEF AccessKeysDistinct, k
<1>6. QED
    BY <1>4, <1>5

-----------------------------------------------------------------------------
(* The access table under each operation                                   *)

(* get: the record under a key is the table's record with that key.       *)
LEMMA AccessLookup ==
    ASSUME NEW m \in AccessMaps, AccessKeysMatch(m), NEW k \in Users \X Services
    PROVE  {x \in AccessTableOf(m) : AccessKey(x) = k} = Opt(m[k])
BY DEF AccessTableOf, AccessKeysMatch, Opt, AccessMaps

(* put: the record replaces the one with its key.                          *)
LEMMA AccessTableInsert ==
    ASSUME NEW m \in AccessMaps, AccessKeysMatch(m), NEW r \in AccessRecs
    PROVE  /\ AccessInsert(m, r) \in AccessMaps
           /\ AccessKeysMatch(AccessInsert(m, r))
           /\ AccessTableOf(AccessInsert(m, r))
                 = {x \in AccessTableOf(m) : AccessKey(x) # AccessKey(r)} \cup {r}
<1>1. AccessKey(r) \in Users \X Services
    BY DEF AccessKey, AccessRecs
<1>2. r # None
    BY ReposAssumption
<1>3. QED
    BY <1>1, <1>2 DEF AccessInsert, AccessTableOf, AccessKeysMatch, AccessMaps

(* delete: the record with the key leaves the table.                      *)
LEMMA AccessTableDelete ==
    ASSUME NEW m \in AccessMaps, AccessKeysMatch(m), NEW k \in Users \X Services
    PROVE  /\ [m EXCEPT ![k] = None] \in AccessMaps
           /\ AccessKeysMatch([m EXCEPT ![k] = None])
           /\ AccessTableOf([m EXCEPT ![k] = None]) = {x \in AccessTableOf(m) : AccessKey(x) # k}
BY DEF AccessTableOf, AccessKeysMatch, AccessMaps

(* get_all_for_user: the entries whose key names the user are the table's *)
(* records of the user.                                                    *)
LEMMA AccessTableForUser ==
    ASSUME NEW m \in AccessMaps, AccessKeysMatch(m), NEW u \in Users
    PROVE  {m[k] : k \in {k \in DOMAIN m : m[k] # None /\ ForUser(k, u)}}
              = {x \in AccessTableOf(m) : x.user = u}
BY DEF AccessTableOf, AccessKeysMatch, AccessMaps, ForUser, AccessKey

(* connect_to_datasource on the new repository: well typed, every record  *)
(* under its own key, and, when the file repeats no key, exactly the      *)
(* file's records (P5).                                                    *)
LEMMA AccessTableLoad ==
    ASSUME NEW file \in Seq(AccessRecs)
    PROVE  /\ ConnectAccess(EmptyAccess, file) \in AccessMaps
           /\ AccessKeysMatch(ConnectAccess(EmptyAccess, file))
           /\ AccessKeysDistinct(file) =>
                 AccessTableOf(ConnectAccess(EmptyAccess, file)) = {file[i] : i \in DOMAIN file}
<1> DEFINE m == ConnectAccess(EmptyAccess, file)
<1>0. EmptyAccess \in AccessMaps
    BY DEF EmptyAccess, AccessMaps
<1>1. DOMAIN m = Users \X Services
    BY DEF ConnectAccess, PutAll, EmptyAccess
<1>2. ASSUME NEW k \in Users \X Services
      PROVE  /\ m[k] \in AccessRecs \cup {None}
             /\ m[k] # None => AccessKey(m[k]) = k
             /\ m[k] # None => \E i \in DOMAIN file : m[k] = file[i]
    <2>1. \/ /\ \A i \in DOMAIN file : AccessKey(file[i]) # k
             /\ m[k] = EmptyAccess[k]
          \/ \E i \in DOMAIN file :
                /\ AccessKey(file[i]) = k
                /\ m[k] = file[i]
                /\ \A j \in DOMAIN file : AccessKey(file[j]) = k => j <= i
        BY <1>0, LoadAccess DEF AccessMaps
    <2>2. \A i \in DOMAIN file : file[i] \in AccessRecs
        BY ElementOfSeq
    <2>3. QED
        BY <2>1, <2>2 DEF EmptyAccess
<1>3. m \in AccessMaps
    <2>1. m = [k \in Users \X Services |-> m[k]]
        BY <1>1 DEF ConnectAccess, PutAll
    <2>2. QED
        BY <1>2, <2>1 DEF AccessMaps
<1>4. ASSUME AccessKeysDistinct(file)
      PROVE  AccessTableOf(m) = {file[i] : i \in DOMAIN file}
    <2>1. AccessTableOf(m) \subseteq {file[i] : i \in DOMAIN file}
        BY <1>1, <1>2 DEF AccessTableOf
    <2>2. ASSUME NEW i \in DOMAIN file PROVE file[i] \in AccessTableOf(m)
        <3>1. file[i] \in AccessRecs /\ file[i] # None
            BY ElementOfSeq, ReposAssumption
        <3>2. AccessKey(file[i]) \in Users \X Services
            BY <3>1 DEF AccessKey, AccessRecs
        <3>3. m[AccessKey(file[i])] = file[i]
            BY <1>0, <1>4, LoadAccessDistinct DEF AccessMaps
        <3>4. QED
            BY <1>1, <3>1, <3>2, <3>3 DEF AccessTableOf
    <2>3. QED
        BY <2>1, <2>2
<1>5. QED
    BY <1>1, <1>2, <1>3, <1>4 DEF AccessKeysMatch

-----------------------------------------------------------------------------
(* The service table under each operation                                  *)

(* What connect_to_datasource leaves under a service id: what the map     *)
(* held if the file does not name the id, else the last record with it.  *)
LEMMA LoadServices ==
    ASSUME NEW data \in ServiceMaps, NEW file \in Seq(ServiceRecs), NEW k \in Services
    PROVE  \/ /\ \A i \in DOMAIN file : file[i].id # k
              /\ ConnectServices(data, file)[k] = data[k]
           \/ \E i \in DOMAIN file :
                 /\ file[i].id = k
                 /\ ConnectServices(data, file)[k] = file[i]
                 /\ \A j \in DOMAIN file : file[j].id = k => j <= i
<1> DEFINE is == {i \in DOMAIN file : file[i].id = k}
<1>1. ConnectServices(data, file)[k] =
          IF is = {} THEN data[k] ELSE file[CHOOSE i \in is : \A j \in is : j <= i]
    BY DEF ConnectServices, PutAll, ServiceMaps
<1>2. CASE is = {}
    BY <1>1, <1>2
<1>3. CASE is # {}
    <2>1. Len(file) \in Nat /\ is \subseteq 1..Len(file)
        BY LenProperties
    <2>2. \E m \in is : \A j \in is : j <= m
        BY <1>3, <2>1, LastIndexExists
    <2>3. QED
        BY <1>1, <1>3, <2>2
<1>4. QED
    BY <1>2, <1>3

(* The load puts each record of a file without repeated ids under its id. *)
LEMMA LoadServicesDistinct ==
    ASSUME NEW data \in ServiceMaps, NEW file \in Seq(ServiceRecs),
           ServiceIdsDistinct(file), NEW i \in DOMAIN file
    PROVE  ConnectServices(data, file)[file[i].id] = file[i]
<1> DEFINE k == file[i].id
<1>1. file[i] \in ServiceRecs
    BY ElementOfSeq
<1>2. k \in Services
    BY <1>1 DEF ServiceRecs
<1>3. \/ /\ \A i2 \in DOMAIN file : file[i2].id # k
         /\ ConnectServices(data, file)[k] = data[k]
      \/ \E j \in DOMAIN file :
            /\ file[j].id = k
            /\ ConnectServices(data, file)[k] = file[j]
            /\ \A j2 \in DOMAIN file : file[j2].id = k => j2 <= j
    BY <1>2, LoadServices
<1>4. PICK j \in DOMAIN file :
          /\ file[j].id = k
          /\ ConnectServices(data, file)[k] = file[j]
    BY <1>3 DEF k
<1>5. j = i
    BY <1>4 DEF ServiceIdsDistinct, k
<1>6. QED
    BY <1>4, <1>5

(* get: the record under an id is the table's record with that id.       *)
LEMMA ServiceLookup ==
    ASSUME NEW m \in ServiceMaps, ServiceKeysMatch(m), NEW k \in Services
    PROVE  {x \in ServiceTableOf(m) : x.id = k} = Opt(m[k])
BY DEF ServiceTableOf, ServiceKeysMatch, Opt, ServiceMaps

(* put: the record replaces the one with its id.                           *)
LEMMA ServiceTableInsert ==
    ASSUME NEW m \in ServiceMaps, ServiceKeysMatch(m), NEW r \in ServiceRecs
    PROVE  /\ ServiceInsert(m, r) \in ServiceMaps
           /\ ServiceKeysMatch(ServiceInsert(m, r))
           /\ ServiceTableOf(ServiceInsert(m, r))
                 = {x \in ServiceTableOf(m) : x.id # r.id} \cup {r}
<1>1. r.id \in Services /\ r # None
    BY ReposAssumption DEF ServiceRecs
<1>2. QED
    BY <1>1 DEF ServiceInsert, ServiceTableOf, ServiceKeysMatch, ServiceMaps

(* delete: the record with the id leaves the table.                       *)
LEMMA ServiceTableDelete ==
    ASSUME NEW m \in ServiceMaps, ServiceKeysMatch(m), NEW k \in Services
    PROVE  /\ ServiceRemove(m, k) \in ServiceMaps
           /\ ServiceKeysMatch(ServiceRemove(m, k))
           /\ ServiceTableOf(ServiceRemove(m, k)) = {x \in ServiceTableOf(m) : x.id # k}
BY DEF ServiceRemove, ServiceTableOf, ServiceKeysMatch, ServiceMaps

(* connect_to_datasource on the new repository: well typed, every record  *)
(* under its own id, and, when the file repeats no id, exactly the file's *)
(* records (P5).                                                           *)
LEMMA ServiceTableLoad ==
    ASSUME NEW file \in Seq(ServiceRecs)
    PROVE  /\ ConnectServices(EmptyServices, file) \in ServiceMaps
           /\ ServiceKeysMatch(ConnectServices(EmptyServices, file))
           /\ ServiceIdsDistinct(file) =>
                 ServiceTableOf(ConnectServices(EmptyServices, file)) = {file[i] : i \in DOMAIN file}
<1> DEFINE m == ConnectServices(EmptyServices, file)
<1>0. EmptyServices \in ServiceMaps
    BY DEF EmptyServices, ServiceMaps
<1>1. DOMAIN m = Services
    BY DEF ConnectServices, PutAll, EmptyServices
<1>2. ASSUME NEW k \in Services
      PROVE  /\ m[k] \in ServiceRecs \cup {None}
             /\ m[k] # None => m[k].id = k
             /\ m[k] # None => \E i \in DOMAIN file : m[k] = file[i]
    <2>1. \/ /\ \A i \in DOMAIN file : file[i].id # k
             /\ m[k] = EmptyServices[k]
          \/ \E i \in DOMAIN file :
                /\ file[i].id = k
                /\ m[k] = file[i]
                /\ \A j \in DOMAIN file : file[j].id = k => j <= i
        BY <1>0, LoadServices
    <2>2. \A i \in DOMAIN file : file[i] \in ServiceRecs
        BY ElementOfSeq
    <2>3. QED
        BY <2>1, <2>2 DEF EmptyServices
<1>3. m \in ServiceMaps
    <2>1. m = [k \in Services |-> m[k]]
        BY <1>1 DEF ConnectServices, PutAll
    <2>2. QED
        BY <1>2, <2>1 DEF ServiceMaps
<1>4. ASSUME ServiceIdsDistinct(file)
      PROVE  ServiceTableOf(m) = {file[i] : i \in DOMAIN file}
    <2>1. ServiceTableOf(m) \subseteq {file[i] : i \in DOMAIN file}
        BY <1>1, <1>2 DEF ServiceTableOf
    <2>2. ASSUME NEW i \in DOMAIN file PROVE file[i] \in ServiceTableOf(m)
        <3>1. file[i] \in ServiceRecs /\ file[i] # None
            BY ElementOfSeq, ReposAssumption
        <3>2. file[i].id \in Services
            BY <3>1 DEF ServiceRecs
        <3>3. m[file[i].id] = file[i]
            BY <1>0, <1>4, LoadServicesDistinct
        <3>4. QED
            BY <1>1, <3>1, <3>2, <3>3 DEF ServiceTableOf
    <2>3. QED
        BY <2>1, <2>2
<1>5. QED
    BY <1>1, <1>2, <1>3, <1>4 DEF ServiceKeysMatch

-----------------------------------------------------------------------------
(* The inductive invariant                                                 *)

LEMMA InitIInv == Init => IInv
BY DEF Init, IInv, TypeOK, EmptyAccess, EmptyServices,
       AccessKeysMatch, ServiceKeysMatch, EmptyUntilLoaded

(* The ALPN list is always made of protocol ids of services.              *)
LEMMA AlpnType ==
    ASSUME NEW m \in ServiceMaps
    PROVE  AlpnProtocols(m) \subseteq {ControlPlane} \cup {ServiceProtocol(id) : id \in Services}
BY DEF AlpnProtocols

LEMMA NextIInv == IInv /\ [Next]_vars => IInv'
<1> SUFFICES ASSUME IInv, [Next]_vars PROVE IInv'
    OBVIOUS
<1>0. access \in AccessMaps /\ AccessKeysMatch(access)
      /\ services \in ServiceMaps /\ ServiceKeysMatch(services)
    BY DEF IInv, TypeOK, AccessMaps, ServiceMaps
<1>1. CASE AppConfigNew
    <2>1. PICK af \in AccessFiles, sf \in ServiceFiles :
              /\ access' = ConnectAccess(EmptyAccess, af)
              /\ services' = ConnectServices(EmptyServices, sf)
              /\ alpn' = AlpnProtocols(services')
        BY <1>1 DEF AppConfigNew, CreateDatasourceRepositories
    <2>2. af \in Seq(AccessRecs) /\ sf \in Seq(ServiceRecs)
        BY ReposAssumption
    <2>3. access' \in AccessMaps /\ AccessKeysMatch(access')
        BY <2>1, <2>2, AccessTableLoad
    <2>4. services' \in ServiceMaps /\ ServiceKeysMatch(services')
        BY <2>1, <2>2, ServiceTableLoad
    <2>5. alpn' \subseteq {ControlPlane} \cup {ServiceProtocol(id) : id \in Services}
        BY <2>1, <2>4, AlpnType
    <2>6. QED
        BY <1>1, <2>3, <2>4, <2>5
           DEF AppConfigNew, IInv, TypeOK, EmptyUntilLoaded, AccessMaps, ServiceMaps
<1>2. CASE AppConfigFails
    BY <1>2 DEF AppConfigFails, IInv, TypeOK, EmptyUntilLoaded,
                AccessKeysMatch, ServiceKeysMatch
<1>3. ASSUME NEW r \in AccessRecs, AccessPut(r) PROVE IInv'
    <2>1. access' \in AccessMaps /\ AccessKeysMatch(access')
        BY <1>0, <1>3, AccessTableInsert DEF AccessPut
    <2>2. QED
        BY <1>3, <2>1 DEF AccessPut, IInv, TypeOK, EmptyUntilLoaded,
                          ServiceKeysMatch, AccessMaps
<1>4. ASSUME NEW u \in Users, NEW s \in Services, AccessDelete(u, s) PROVE IInv'
    <2>1. access' \in AccessMaps /\ AccessKeysMatch(access')
        BY <1>0, <1>4, AccessTableDelete DEF AccessDelete
    <2>2. QED
        BY <1>4, <2>1 DEF AccessDelete, IInv, TypeOK, EmptyUntilLoaded,
                          ServiceKeysMatch, AccessMaps
<1>5. ASSUME NEW r \in ServiceRecs, ServicePut(r) PROVE IInv'
    <2>1. services' \in ServiceMaps /\ ServiceKeysMatch(services')
        BY <1>0, <1>5, ServiceTableInsert DEF ServicePut
    <2>2. QED
        BY <1>5, <2>1 DEF ServicePut, IInv, TypeOK, EmptyUntilLoaded,
                          AccessKeysMatch, ServiceMaps
<1>6. ASSUME NEW id \in Services, ServiceDelete(id) PROVE IInv'
    <2>1. services' \in ServiceMaps /\ ServiceKeysMatch(services')
        BY <1>0, <1>6, ServiceTableDelete DEF ServiceDelete
    <2>2. QED
        BY <1>6, <2>1 DEF ServiceDelete, IInv, TypeOK, EmptyUntilLoaded,
                          AccessKeysMatch, ServiceMaps
<1>7. CASE \/ \E u \in Users, s \in Services : AccessGet(u, s)
           \/ \E u \in Users : AccessGetAllForUser(u)
           \/ \E id \in Services : ServiceGet(id)
           \/ ServiceGetAll
           \/ UNCHANGED vars
    BY <1>7 DEF AccessGet, AccessGetAllForUser, ServiceGet, ServiceGetAll, vars,
                IInv, TypeOK, EmptyUntilLoaded, AccessKeysMatch, ServiceKeysMatch
<1>8. QED
    BY <1>1, <1>2, <1>3, <1>4, <1>5, <1>6, <1>7 DEF Next

(* The repositories' maps, the ALPN list and the phase stay well typed in  *)
(* every run of AppConfig::new and the repository calls, for every data   *)
(* file (repeated keys included).                                          *)
THEOREM TypeCorrect == Spec => []TypeOK
<1>1. IInv => TypeOK
    BY DEF IInv
<1>2. QED
    BY InitIInv, NextIInv, <1>1, PTL DEF Spec

-----------------------------------------------------------------------------
(* The access repository implements the contract                           *)

(* Every user and service pair is the key of some record: the keys get    *)
(* and delete take are exactly the map's.                                 *)
LEMMA AccessKeysAll == AccessContract!Keys = Users \X Services
<1>1. AccessContract!Keys \subseteq Users \X Services
    BY DEF AccessContract!Keys, AccessKey, AccessRecs
<1>2. ASSUME NEW u \in Users, NEW s \in Services PROVE <<u, s>> \in AccessContract!Keys
    <2>1. PICK t \in Tags : TRUE
        BY ReposAssumption
    <2>2. [user |-> u, service |-> s, tag |-> t] \in AccessRecs
        BY <2>1 DEF AccessRecs
    <2>3. QED
        BY <2>2 DEF AccessContract!Keys, AccessKey
<1>3. QED
    BY <1>1, <1>2

(* Every step of the gateway is a step of the access contract or leaves   *)
(* its variables alone, when no access file repeats a key.                 *)
LEMMA AccessStep ==
    ASSUME \A f \in AccessFiles : AccessKeysDistinct(f),
           IInv, [Next]_vars
    PROVE  [AccessContract!Next]_<<pc = "running", AccessTable, accessRet>>
<1>0. access \in AccessMaps /\ AccessKeysMatch(access)
      /\ AccessTable = AccessTableOf(access) /\ AccessTable' = AccessTableOf(access')
    BY DEF IInv, TypeOK, AccessMaps, AccessTable, AccessTableOf
<1>1. CASE AppConfigNew
    <2>1. PICK af \in AccessFiles :
              /\ access' = ConnectAccess(EmptyAccess, af)
        BY <1>1 DEF AppConfigNew, CreateDatasourceRepositories
    <2>2. af \in Seq(AccessRecs) /\ AccessKeysDistinct(af)
        BY ReposAssumption
    <2>3. AccessTable' = {af[i] : i \in DOMAIN af}
        BY <1>0, <2>1, <2>2, AccessTableLoad
    <2>4. AccessContract!Load(af)
        BY <1>1, <2>3 DEF AppConfigNew, AccessContract!Load
    <2>5. QED
        BY <2>4 DEF AccessContract!Next
<1>2. CASE AppConfigFails
    BY <1>2, <1>0 DEF AppConfigFails
<1>3. ASSUME NEW r \in AccessRecs, AccessPut(r)
      PROVE  AccessContract!Next
    <2>1. AccessKey(r) \in Users \X Services
        BY DEF AccessKey, AccessRecs
    <2>2. AccessTable' = {x \in AccessTable : AccessKey(x) # AccessKey(r)} \cup {r}
        BY <1>0, <1>3, AccessTableInsert DEF AccessPut
    <2>3. accessRet' = AccessContract!Lookup(AccessKey(r))
        BY <1>0, <1>3, <2>1, AccessLookup DEF AccessPut, AccessContract!Lookup
    <2>4. AccessContract!Put(r)
        BY <2>2, <2>3 DEF AccessContract!Put
    <2>5. QED
        BY <1>3, <2>4 DEF AccessPut, AccessContract!Next, AccessContract!Call
<1>4. ASSUME NEW u \in Users, NEW s \in Services, AccessGet(u, s)
      PROVE  AccessContract!Next
    <2>1. accessRet' = AccessContract!Lookup(<<u, s>>)
        BY <1>0, <1>4, AccessLookup DEF AccessGet, AccessContract!Lookup
    <2>2. AccessContract!Get(<<u, s>>)
        BY <1>4, <2>1 DEF AccessGet, AccessContract!Get, AccessTable
    <2>3. QED
        BY <1>4, <2>2, AccessKeysAll DEF AccessGet, AccessContract!Next, AccessContract!Call
<1>5. ASSUME NEW u \in Users, NEW s \in Services, AccessDelete(u, s)
      PROVE  AccessContract!Next
    <2>1. AccessTable' = {x \in AccessTable : AccessKey(x) # <<u, s>>}
        BY <1>0, <1>5, AccessTableDelete DEF AccessDelete
    <2>2. accessRet' = AccessContract!Lookup(<<u, s>>)
        BY <1>0, <1>5, AccessLookup DEF AccessDelete, AccessContract!Lookup
    <2>3. AccessContract!Delete(<<u, s>>)
        BY <2>1, <2>2 DEF AccessContract!Delete
    <2>4. QED
        BY <1>5, <2>3, AccessKeysAll DEF AccessDelete, AccessContract!Next, AccessContract!Call
<1>6. ASSUME NEW u \in Users, AccessGetAllForUser(u)
      PROVE  AccessContract!Next
    <2>1. accessRet' = {x \in AccessTable : x.user = u}
        BY <1>0, <1>6, AccessTableForUser DEF AccessGetAllForUser
    <2>2. AccessContract!GetAll(u)
        BY <1>6, <2>1 DEF AccessGetAllForUser, AccessContract!GetAll, AccessTable
    <2>3. QED
        BY <1>6, <2>2 DEF AccessGetAllForUser, AccessContract!Next, AccessContract!Call
<1>7. CASE \/ \E r \in ServiceRecs : ServicePut(r)
           \/ \E id \in Services : ServiceGet(id) \/ ServiceDelete(id)
           \/ ServiceGetAll
           \/ UNCHANGED vars
    BY <1>7 DEF ServicePut, ServiceGet, ServiceDelete, ServiceGetAll, vars, AccessTable
<1>8. QED
    BY <1>1, <1>2, <1>3, <1>4, <1>5, <1>6, <1>7 DEF Next

(* Spec 6 and 8 and P5, about InMemAccessRepo and its load by              *)
(* AppConfig::new: when no access file repeats a (user, service) key,      *)
(* every run of the gateway is a run of the repository contract under the  *)
(* mapping AccessTable, for all users, services and files.                 *)
THEOREM AccessRefinement ==
    ASSUME \A f \in AccessFiles : AccessKeysDistinct(f)
    PROVE  Spec => AccessRefines
<1>1. Init => AccessContract!Init
    BY DEF Init, AccessContract!Init, AccessTable, EmptyAccess
<1>2. IInv /\ [Next]_vars => [AccessContract!Next]_<<pc = "running", AccessTable, accessRet>>
    BY AccessStep
<1>3. QED
    BY InitIInv, NextIInv, <1>1, <1>2, PTL DEF Spec, AccessRefines, AccessContract!Spec

-----------------------------------------------------------------------------
(* The service repository implements the contract                          *)

(* Every service id is the id of some record.                              *)
LEMMA ServiceKeysAll == ServiceContract!Keys = Services
<1>1. ServiceContract!Keys \subseteq Services
    BY DEF ServiceContract!Keys, ServiceRecs
<1>2. ASSUME NEW id \in Services PROVE id \in ServiceContract!Keys
    <2>1. PICK t \in Tags : TRUE
        BY ReposAssumption
    <2>2. [id |-> id, tag |-> t] \in ServiceRecs
        BY <2>1 DEF ServiceRecs
    <2>3. QED
        BY <2>2 DEF ServiceContract!Keys
<1>3. QED
    BY <1>1, <1>2

(* Every step of the gateway is a step of the service contract or leaves  *)
(* its variables alone, when no service file repeats an id.               *)
LEMMA ServiceStep ==
    ASSUME \A f \in ServiceFiles : ServiceIdsDistinct(f),
           IInv, [Next]_vars
    PROVE  [ServiceContract!Next]_<<pc = "running", ServiceTable, serviceRet>>
<1>0. services \in ServiceMaps /\ ServiceKeysMatch(services)
      /\ ServiceTable = ServiceTableOf(services) /\ ServiceTable' = ServiceTableOf(services')
    BY DEF IInv, TypeOK, ServiceMaps, ServiceTable, ServiceTableOf
<1>1. CASE AppConfigNew
    <2>1. PICK sf \in ServiceFiles :
              /\ services' = ConnectServices(EmptyServices, sf)
        BY <1>1 DEF AppConfigNew, CreateDatasourceRepositories
    <2>2. sf \in Seq(ServiceRecs) /\ ServiceIdsDistinct(sf)
        BY ReposAssumption
    <2>3. ServiceTable' = {sf[i] : i \in DOMAIN sf}
        BY <1>0, <2>1, <2>2, ServiceTableLoad
    <2>4. ServiceContract!Load(sf)
        BY <1>1, <2>3 DEF AppConfigNew, ServiceContract!Load
    <2>5. QED
        BY <2>4 DEF ServiceContract!Next
<1>2. CASE AppConfigFails
    BY <1>2, <1>0 DEF AppConfigFails
<1>3. ASSUME NEW r \in ServiceRecs, ServicePut(r)
      PROVE  ServiceContract!Next
    <2>1. r.id \in Services
        BY DEF ServiceRecs
    <2>2. ServiceTable' = {x \in ServiceTable : x.id # r.id} \cup {r}
        BY <1>0, <1>3, ServiceTableInsert DEF ServicePut
    <2>3. serviceRet' = ServiceContract!Lookup(r.id)
        BY <1>0, <1>3, <2>1, ServiceLookup DEF ServicePut, ServiceContract!Lookup
    <2>4. ServiceContract!Put(r)
        BY <2>2, <2>3 DEF ServiceContract!Put
    <2>5. QED
        BY <1>3, <2>4 DEF ServicePut, ServiceContract!Next, ServiceContract!Call
<1>4. ASSUME NEW id \in Services, ServiceGet(id)
      PROVE  ServiceContract!Next
    <2>1. serviceRet' = ServiceContract!Lookup(id)
        BY <1>0, <1>4, ServiceLookup DEF ServiceGet, ServiceContract!Lookup
    <2>2. ServiceContract!Get(id)
        BY <1>4, <2>1 DEF ServiceGet, ServiceContract!Get, ServiceTable
    <2>3. QED
        BY <1>4, <2>2, ServiceKeysAll DEF ServiceGet, ServiceContract!Next, ServiceContract!Call
<1>5. ASSUME NEW id \in Services, ServiceDelete(id)
      PROVE  ServiceContract!Next
    <2>1. ServiceTable' = {x \in ServiceTable : x.id # id}
        BY <1>0, <1>5, ServiceTableDelete DEF ServiceDelete
    <2>2. serviceRet' = ServiceContract!Lookup(id)
        BY <1>0, <1>5, ServiceLookup DEF ServiceDelete, ServiceContract!Lookup
    <2>3. ServiceContract!Delete(id)
        BY <2>1, <2>2 DEF ServiceContract!Delete
    <2>4. QED
        BY <1>5, <2>3, ServiceKeysAll DEF ServiceDelete, ServiceContract!Next, ServiceContract!Call
<1>6. CASE ServiceGetAll
    <2>1. ServiceContract!GetAll("all")
        BY <1>6 DEF ServiceGetAll, ServiceContract!GetAll, ServiceTable
    <2>2. QED
        BY <1>6, <2>1 DEF ServiceGetAll, ServiceContract!Next, ServiceContract!Call
<1>7. CASE \/ \E r \in AccessRecs : AccessPut(r)
           \/ \E u \in Users, s \in Services : AccessGet(u, s) \/ AccessDelete(u, s)
           \/ \E u \in Users : AccessGetAllForUser(u)
           \/ UNCHANGED vars
    BY <1>7 DEF AccessPut, AccessGet, AccessDelete, AccessGetAllForUser, vars, ServiceTable
<1>8. QED
    BY <1>1, <1>2, <1>3, <1>4, <1>5, <1>6, <1>7 DEF Next

(* Spec 6 and 8 and P5, about InMemServiceRepo and its load by             *)
(* AppConfig::new: when no service file repeats an id, every run of the    *)
(* gateway is a run of the repository contract under the mapping           *)
(* ServiceTable, for all services and files.                               *)
THEOREM ServiceRefinement ==
    ASSUME \A f \in ServiceFiles : ServiceIdsDistinct(f)
    PROVE  Spec => ServiceRefines
<1>1. Init => ServiceContract!Init
    BY DEF Init, ServiceContract!Init, ServiceTable, EmptyServices
<1>2. IInv /\ [Next]_vars => [ServiceContract!Next]_<<pc = "running", ServiceTable, serviceRet>>
    BY ServiceStep
<1>3. QED
    BY InitIInv, NextIInv, <1>1, <1>2, PTL DEF Spec, ServiceRefines, ServiceContract!Spec

=============================================================================
