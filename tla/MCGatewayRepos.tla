---------------------------- MODULE MCGatewayRepos ----------------------------
(* Data files for model checking GatewayRepos: two users, two services.    *)
EXTENDS GatewayRepos, SequencesExt

CONSTANTS u1, u2, v1, v2, t1, t2

(* An empty access file, and one granting u1 and u2 service v1.            *)
MCAccessFiles ==
    { <<>>,
      << [user |-> u1, service |-> v1, tag |-> t1],
         [user |-> u2, service |-> v1, tag |-> t2] >> }

(* An access file that lists (u1, v1) twice, with different contents.      *)
MCAccessFilesRepeated ==
    { << [user |-> u1, service |-> v1, tag |-> t1],
         [user |-> u1, service |-> v1, tag |-> t2] >> }

(* Only an empty access file.                                             *)
MCAccessFilesEmpty == { <<>> }

(* An empty service file, and one holding service v1.                      *)
MCServiceFiles == { <<>>, << [id |-> v1, tag |-> t1] >> }

(* connect_to_datasource's for loop: the load in GatewayRepos is the    *)
(* map this fold of the inserts computes, on every file of the model.    *)
ASSUME LoadIsPutLoop ==
    /\ \A f \in AccessFiles :
          ConnectAccess(EmptyAccess, f) = FoldLeft(AccessInsert, EmptyAccess, f)
    /\ \A f \in ServiceFiles :
          ConnectServices(EmptyServices, f) = FoldLeft(ServiceInsert, EmptyServices, f)
=============================================================================
