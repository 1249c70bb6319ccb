------------------------------ MODULE Sessions ------------------------------
(***************************************************************************)
(* Which local server is which session: discovery, reconciliation and the  *)
(* durable identity registry (crates/discovery, core and sessions), as the *)
(* daemon's scan loop drives them across restarts.                         *)
(***************************************************************************)
EXTENDS Integers, Sequences, FiniteSets, SequencesExt

CONSTANTS LocalServers,     \* records [port, root, command, kind] that may listen
          MaxSessionIds, MaxSessionBoots

ASSUME SessionsAssumption == {MaxSessionIds, MaxSessionBoots} \subseteq Nat \ {0}

VARIABLES sesLive,     \* SessionManager: session id -> its record, a partial function
          sesScan,     \* the reconciliation under way
          sesIds,      \* SessionIdentityResolver in memory
          sesDisk,     \* session-identities-v1.json: lineage -> id
          sesWorld     \* listening servers, allocated ids, boots

sesVars == <<sesLive, sesScan, sesIds, sesDisk, sesWorld>>

Away == {"here", "away", "expired"}
NoScan == [phase |-> "idle", batch |-> <<>>, given |-> <<>>]
EmptyRegistry == [records |-> <<>>, healthy |-> TRUE]

SessionsInit ==
  /\ sesLive = <<>> /\ sesScan = NoScan /\ sesIds = EmptyRegistry /\ sesDisk = <<>>
  /\ sesWorld = [up |-> {}, ids |-> 0, boots |-> 1]

\* project_identity: without a working directory every server has one key
\* per command.
project_identity(server) == <<server.root, server.command>>

\* session_lineage: the project's root, or else the endpoint, and the kind.
session_lineage(server) ==
  IF server.root # "none" THEN <<"project", server.root, server.kind>>
  ELSE <<"endpoint", server.port, server.kind>>

----------------------------------------------------------------------------
(* The machine.                                                            *)

server_starts ==
  \E s \in LocalServers :
    /\ \A t \in sesWorld.up : t.port # s.port
    /\ sesWorld' = [sesWorld EXCEPT !.up = @ \cup {s}]
    /\ UNCHANGED <<sesLive, sesScan, sesIds, sesDisk>>

server_stops ==
  \E s \in sesWorld.up :
    /\ sesWorld' = [sesWorld EXCEPT !.up = @ \ {s}]
    /\ UNCHANGED <<sesLive, sesScan, sesIds, sesDisk>>

\* The grace period of the sessions away passes.
grace_passes ==
  /\ \E id \in DOMAIN sesLive : sesLive[id].gone = "away"
  /\ sesLive' = [id \in DOMAIN sesLive |->
                   IF sesLive[id].gone = "away" THEN [sesLive[id] EXCEPT !.gone = "expired"] ELSE sesLive[id]]
  /\ UNCHANGED <<sesScan, sesIds, sesDisk, sesWorld>>

\* DiscoveryEngine::scan: classifications finish in any order, and a server
\* that did not answer in time is not in the batch.
scan ==
  /\ sesScan.phase = "idle"
  /\ \E found \in SUBSET sesWorld.up : \E batch \in SetToSeqs(found) :
       sesScan' = [phase |-> "assign", batch |-> batch, given |-> <<>>]
  /\ UNCHANGED <<sesLive, sesIds, sesDisk, sesWorld>>

----------------------------------------------------------------------------
(* Reconciliation.                                                         *)

Given == ToSet(sesScan.given)
Sharing(lineage, servers) == {i \in DOMAIN servers : session_lineage(servers[i]) = lineage}

\* prepare_discovery_batch and resolve_assignments: a lineage held twice, in
\* the batch or by the sessions, is ambiguous.
ambiguous(server) ==
  LET lineage == session_lineage(server)
  IN \/ Cardinality(Sharing(lineage, sesScan.batch)) > 1
     \/ Cardinality({id \in DOMAIN sesLive : sesLive[id].lineage = lineage}) > 1

find_lineage_match(server) ==
  {id \in DOMAIN sesLive \ Given : sesLive[id].lineage = session_lineage(server)}

find_legacy_project_match(server) ==
  {id \in DOMAIN sesLive \ Given : /\ project_identity(sesLive[id].server) = project_identity(server)
                                   /\ sesLive[id].server.kind = server.kind}

find_exact_endpoint_match(server) ==
  {id \in DOMAIN sesLive \ Given : sesLive[id].server.port = server.port}

\* The existing sessions resolve_assignments may choose for a server.
current_matches(server) ==
  IF ambiguous(server) THEN find_exact_endpoint_match(server)
  ELSE IF find_lineage_match(server) # {} THEN find_lineage_match(server)
  ELSE IF find_legacy_project_match(server) # {} THEN find_legacy_project_match(server)
  ELSE find_exact_endpoint_match(server)

id_available_for_lineage(id, lineage) ==
  id \notin Given /\ (id \in DOMAIN sesLive => sesLive[id].lineage = lineage)

Fresh == sesWorld.ids + 1
Give(id) == sesScan' = [sesScan EXCEPT !.given = Append(@, id)]
Allocate == sesWorld.ids < MaxSessionIds /\ sesWorld' = [sesWorld EXCEPT !.ids = Fresh]

Map(f, k, v) == [x \in DOMAIN f \cup {k} |-> IF x = k THEN v ELSE f[x]]

\* Mutant: the mapping is published before it is on disk.
publish_then_commit(lineage) ==
  /\ Allocate /\ Give(Fresh)
  /\ sesIds' = [sesIds EXCEPT !.records = Map(@, lineage, Fresh)]
  /\ sesDisk' \in {sesDisk, Map(sesDisk, lineage, Fresh)}

\* The tail of resolve_new: a fresh id is written to disk, then published; a
\* failed write degrades the resolver for good.
commit_registry(lineage) ==
  /\ Allocate /\ Give(Fresh)
  /\ \/ /\ sesDisk' = Map(sesDisk, lineage, Fresh)
        /\ sesIds' = [sesIds EXCEPT !.records = Map(@, lineage, Fresh)]
     \/ sesIds' = [sesIds EXCEPT !.healthy = FALSE] /\ UNCHANGED sesDisk

volatile_identity == Allocate /\ Give(Fresh) /\ UNCHANGED <<sesIds, sesDisk>>

\* resolve_new for a server without a session.
resolve_new(server) ==
  LET lineage == session_lineage(server)
      known   == lineage \in DOMAIN sesIds.records
  IN IF ambiguous(server) \/ ~sesIds.healthy THEN volatile_identity
     ELSE IF known /\ id_available_for_lineage(sesIds.records[lineage], lineage)
       THEN Give(sesIds.records[lineage]) /\ UNCHANGED <<sesIds, sesDisk, sesWorld>>
     ELSE IF known THEN volatile_identity
     ELSE commit_registry(lineage)

resolve_assignment ==
  /\ sesScan.phase = "assign" /\ Len(sesScan.given) < Len(sesScan.batch)
  /\ LET server == sesScan.batch[Len(sesScan.given) + 1]
     IN IF current_matches(server) # {}
          THEN (\E id \in current_matches(server) : Give(id)) /\ UNCHANGED <<sesIds, sesDisk, sesWorld>>
          ELSE resolve_new(server)
  /\ UNCHANGED sesLive

\* Mutant: a session that was matched by its endpoint keeps its lineage.
seen_keeping_lineage(id, server) ==
  [server |-> server, gone |-> "here",
   lineage |-> IF id \in DOMAIN sesLive THEN sesLive[id].lineage ELSE session_lineage(server)]

\* A session the batch was assigned to: it takes the server's lineage with it.
seen(id, server) == [server |-> server, lineage |-> session_lineage(server), gone |-> "here"]

\* apply_reconciliation, in one critical section; the daemon then releases
\* what the removed sessions held.
apply_reconciliation ==
  /\ sesScan.phase = "assign" /\ Len(sesScan.given) = Len(sesScan.batch)
  /\ LET missing == DOMAIN sesLive \ Given
         removed == {id \in missing : sesLive[id].gone = "expired"}
     IN sesLive' = [id \in (DOMAIN sesLive \ removed) \cup Given |->
                      IF id \in missing THEN [sesLive[id] EXCEPT !.gone = IF @ = "here" THEN "away" ELSE @]
                      ELSE seen(id, sesScan.batch[CHOOSE i \in DOMAIN sesScan.given : sesScan.given[i] = id])]
  /\ sesScan' = NoScan
  /\ UNCHANGED <<sesIds, sesDisk, sesWorld>>

\* validate_records: one lineage for each id.
validate_records(records) ==
  \A k, l \in DOMAIN records : records[k] = records[l] => k = l

\* load_registry: a registry that cannot be read, or holds no valid records,
\* degrades identity and is left alone.
load_registry(readable) ==
  IF readable /\ validate_records(sesDisk) THEN [records |-> sesDisk, healthy |-> TRUE]
  ELSE [records |-> <<>>, healthy |-> FALSE]

\* The daemon dies and starts again, on what is on disk.
registry_reopened ==
  /\ sesWorld.boots < MaxSessionBoots
  /\ \E readable \in BOOLEAN : sesIds' = load_registry(readable)
  /\ sesLive' = <<>> /\ sesScan' = NoScan
  /\ sesWorld' = [sesWorld EXCEPT !.boots = @ + 1]
  /\ UNCHANGED sesDisk

SessionsNext ==
  \/ server_starts \/ server_stops \/ grace_passes \/ scan
  \/ resolve_assignment \/ apply_reconciliation \/ registry_reopened

SessionsSpec == SessionsInit /\ [][SessionsNext]_sesVars

----------------------------------------------------------------------------
(* What a session id is.                                                   *)

\* Live sessions have allocated ids and a lineage of their own server.
SessionsTypeOK ==
  /\ DOMAIN sesLive \subseteq 1..sesWorld.ids
  /\ \A id \in DOMAIN sesLive : /\ sesLive[id].server \in LocalServers /\ sesLive[id].gone \in Away
                                /\ sesLive[id].lineage = session_lineage(sesLive[id].server)

\* Two servers of one scan never become one session, whatever order their
\* classifications finish in and however the sessions matched before.
ServersAreNotAliased ==
  /\ \A i, j \in DOMAIN sesScan.given : i # j => sesScan.given[i] # sesScan.given[j]
  /\ \A a, b \in DOMAIN sesLive :
       a # b /\ sesLive[a].gone = "here" /\ sesLive[b].gone = "here" => sesLive[a].server.port # sesLive[b].server.port

\* A durable id is one a restart would give again: what the resolver answers
\* is on disk, and no two lineages share it.
DurableIdsAreOnDisk ==
  /\ \A l \in DOMAIN sesIds.records : l \in DOMAIN sesDisk /\ sesDisk[l] = sesIds.records[l]
  /\ \A k, l \in DOMAIN sesDisk : k # l => sesDisk[k] # sesDisk[l]

\* A session id names one server, in this process and in the next.
SessionIdsAreSound == ServersAreNotAliased /\ DurableIdsAreOnDisk

\* IMPLEMENTATION_STATUS.md:50, the registry is a "canonical project/server
\* lineage -> SessionId mapping": a live session under a registered id serves
\* the lineage the id is registered for.
\* The code does not keep this (README.md, Where code and text disagree).
DurableIdKeepsItsServer ==
  \A l \in DOMAIN sesIds.records :
    sesIds.records[l] \in DOMAIN sesLive => sesLive[sesIds.records[l]].lineage = l
=============================================================================
