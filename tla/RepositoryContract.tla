-------------------------- MODULE RepositoryContract --------------------------
(***************************************************************************)
(* What a gateway repository promises (the ServiceRepository trait of      *)
(* crates/gateway/src/repository/service_repo.rs, its AccessRepository     *)
(* twin, and spec sections 6 and 8): a set of records, at most one per     *)
(* primary key, that put replaces, get and get_all read and delete         *)
(* removes, each returning its result; and, by P5, a load from a data      *)
(* source that holds exactly the records of the file.                      *)
(*                                                                         *)
(* Both in-memory repositories refine an instance of this module.          *)
(***************************************************************************)
EXTENDS FiniteSets

CONSTANTS
    Records,       \* the records the repository can hold
    KeyOf(_),      \* a record's primary key
    Filters,       \* the arguments get_all (or get_all_for_user) takes
    Matches(_, _), \* Matches(r, f): get_all with argument f returns r
    Files          \* the data sources a load can read: sequences of records

VARIABLES
    open,   \* whether the repository has been loaded and serves calls
    table,  \* the records held
    ret     \* what the last operation returned: a set of records, where an
            \* Option is the set of its zero or one records

Keys == {KeyOf(r) : r \in Records}

(* The record held under key k, as an Option.                              *)
Lookup(k) == {r \in table : KeyOf(r) = k}

Init ==
    /\ open = FALSE
    /\ table = {}
    /\ ret = {}

(* connect_to_datasource on a new repository: it holds the file's records *)
(* (P5: as many as the array has, and the same ones).                      *)
Load(file) ==
    /\ ~open
    /\ open' = TRUE
    /\ table' = {file[i] : i \in DOMAIN file}
    /\ UNCHANGED ret

(* put: replaces the record with the same key; returns the previous one.   *)
Put(r) ==
    /\ table' = {x \in table : KeyOf(x) # KeyOf(r)} \cup {r}
    /\ ret' = Lookup(KeyOf(r))

(* get: the record with the key, if any.                                    *)
Get(k) ==
    /\ ret' = Lookup(k)
    /\ UNCHANGED table

(* get_all / get_all_for_user: the records the argument selects, in no     *)
(* particular order.                                                       *)
GetAll(f) ==
    /\ ret' = {r \in table : Matches(r, f)}
    /\ UNCHANGED table

(* delete: removes the record with the key; returns it, if any.           *)
Delete(k) ==
    /\ table' = {x \in table : KeyOf(x) # k}
    /\ ret' = Lookup(k)

(* The calls a loaded repository serves.                                   *)
Call ==
    /\ open
    /\ \/ \E r \in Records : Put(r)
       \/ \E k \in Keys : Get(k) \/ Delete(k)
       \/ \E f \in Filters : GetAll(f)
    /\ UNCHANGED open

Next == (\E file \in Files : Load(file)) \/ Call

Spec == Init /\ [][Next]_<<open, table, ret>>

=============================================================================
