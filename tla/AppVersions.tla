---------------------------- MODULE AppVersions ----------------------------
(***************************************************************************)
(* Concurrent config changes of one app: handlers.UpdateAppConfig          *)
(* (pkg/handlers/config.go) reads the app with app.GetFromSlug/app.Get,    *)
(* then App.CreateVersion (pkg/app/app.go) writes the new app_version, the *)
(* app's current_sequence and one app_downstream_version per downstream in *)
(* one Postgres transaction, and the handler uploads the version archive   *)
(* after the commit.  Postgres runs at READ COMMITTED: a statement sees    *)
(* what is committed when it starts plus the transaction's own writes; an *)
(* UPDATE locks the row, an INSERT locks the unique key it inserts, and a  *)
(* second writer of a locked row or key waits until the holder ends.       *)
(***************************************************************************)
EXTENDS Integers, FiniteSets

CONSTANTS
    Requests,   \* concurrent UpdateAppConfig requests with createNewVersion
    Clusters,   \* the app's downstreams (app_downstream rows)
    Install,    \* the content of the installed version 0
    NoOne       \* no row / no lock holder

ASSUME AppAssumption ==
    /\ IsFiniteSet(Requests) /\ Requests # {}
    /\ Install \notin Requests /\ NoOne \notin Requests /\ NoOne # Install

(* Sequences a version can get: each request adds at most one.             *)
Seqs == 0..Cardinality(Requests)
Writers == Requests \cup {Install}
Row == [cluster : Clusters, seq : Seqs, parent : Seqs, by : Writers]

VARIABLES
    appSeq,      \* committed app.current_sequence
    versions,    \* committed app_version rows: sequence -> whose content
    downstream,  \* committed app_downstream_version rows
    archives,    \* sequences whose archive is stored
    verLock,     \* holder of the (app_id, sequence) key of app_version
    appLock,     \* holder of the app row lock
    rpc,         \* where each request is
    cur,         \* App.CurrentSequence as each request read it
    dsLeft,      \* downstreams the CreateVersion loop has still to do
    ownDs        \* uncommitted downstream rows of each transaction

vars == <<appSeq, versions, downstream, archives, verLock, appLock,
          rpc, cur, dsLeft, ownDs>>
dbVars == <<appSeq, versions, downstream, archives>>

Pcs == {"start", "prep", "update", "prevarchive", "downstream", "upload",
        "done", "failed"}

TypeOK ==
    /\ appSeq \in Seqs
    /\ versions \in [Seqs -> Writers \cup {NoOne}]
    /\ downstream \subseteq Row
    /\ archives \subseteq Seqs
    /\ verLock \in [Seqs -> Requests \cup {NoOne}]
    /\ appLock \in Requests \cup {NoOne}
    /\ rpc \in [Requests -> Pcs]
    /\ cur \in [Requests -> Seqs]
    /\ dsLeft \in [Requests -> SUBSET Clusters]
    /\ ownDs \in [Requests -> SUBSET Row]

(* The installed app: version 0 with its archive, with or without the     *)
(* first downstream versions.                                              *)
Init ==
    /\ appSeq = 0
    /\ versions = [s \in Seqs |-> IF s = 0 THEN Install ELSE NoOne]
    /\ downstream \in {{}, {[cluster |-> c, seq |-> 0, parent |-> 0, by |-> Install] :
                             c \in Clusters}}
    /\ archives = {0}
    /\ verLock = [s \in Seqs |-> NoOne]
    /\ appLock = NoOne
    /\ rpc = [r \in Requests |-> "start"]
    /\ cur = [r \in Requests |-> 0]
    /\ dsLeft = [r \in Requests |-> {}]
    /\ ownDs = [r \in Requests |-> {}]
-----------------------------------------------------------------------------
(* app.GetFromSlug / app.Get: read current_sequence outside any           *)
(* transaction.                                                            *)
GetApp(r) ==
    /\ rpc[r] = "start"
    /\ cur' = [cur EXCEPT ![r] = appSeq]
    /\ rpc' = [rpc EXCEPT ![r] = "prep"]
    /\ UNCHANGED <<appSeq, versions, downstream, archives, verLock, appLock,
                   dsLeft, ownDs>>

(* The handler fails before CreateVersion opens its transaction (archive   *)
(* download, kots kinds, encryption, writing config.yaml, marshalling), or *)
(* createNewVersion is false and it answers 200 without storing anything.  *)
PrepEnd(r) ==
    /\ rpc[r] = "prep"
    /\ rpc' = [rpc EXCEPT ![r] = "failed"]
    /\ UNCHANGED <<appSeq, versions, downstream, archives, verLock, appLock,
                   cur, dsLeft, ownDs>>

(* db.Begin, then INSERT ... ON CONFLICT (app_id, sequence) DO UPDATE at   *)
(* sequence cur+1: waits while another transaction holds that key, and    *)
(* overwrites a committed row with this request's content.                 *)
UpsertVersion(r) ==
    /\ rpc[r] = "prep"
    /\ verLock[cur[r] + 1] = NoOne
    /\ verLock' = [verLock EXCEPT ![cur[r] + 1] = r]
    /\ rpc' = [rpc EXCEPT ![r] = "update"]
    /\ UNCHANGED <<appSeq, versions, downstream, archives, appLock, cur,
                   dsLeft, ownDs>>

(* Mutant: the app row is not locked before the downstream loop (as if    *)
(* the UPDATE came after it).                                              *)
UpdateAppUnlocked(r) ==
    /\ rpc[r] = "update"
    /\ rpc' = [rpc EXCEPT ![r] = "prevarchive"]
    /\ UNCHANGED <<appSeq, versions, downstream, archives, verLock, appLock,
                   cur, dsLeft, ownDs>>

(* UPDATE app SET current_sequence = cur+1: waits for the app row lock.    *)
UpdateApp(r) ==
    /\ rpc[r] = "update"
    /\ appLock = NoOne
    /\ appLock' = r
    /\ rpc' = [rpc EXCEPT ![r] = "prevarchive"]
    /\ UNCHANGED <<appSeq, versions, downstream, archives, verLock, cur,
                   dsLeft, ownDs>>

(* GetAppVersionArchive(a.ID, a.CurrentSequence) finds the previous        *)
(* archive; the loop over a.Downstreams starts.                            *)
PrevArchive(r) ==
    /\ rpc[r] = "prevarchive"
    /\ cur[r] \in archives
    /\ dsLeft' = [dsLeft EXCEPT ![r] = Clusters]
    /\ rpc' = [rpc EXCEPT ![r] = "downstream"]
    /\ UNCHANGED <<appSeq, versions, downstream, archives, verLock, appLock,
                   cur, ownDs>>

(* The downstream sequences of cluster c that transaction r can see.       *)
VisibleSeqs(r, c) == {w.seq : w \in {w \in downstream \cup ownDs[r] : w.cluster = c}}

(* SELECT max(sequence) ...; scanning NULL fails and leaves -1.           *)
LastDownstreamSeq(r, c) ==
    IF VisibleSeqs(r, c) = {} THEN -1
    ELSE CHOOSE s \in VisibleSeqs(r, c) : \A t \in VisibleSeqs(r, c) : t <= s

(* Mutant: parent_sequence one past the new version.                      *)
AddDownstreamParentOffByOne(r) ==
    /\ rpc[r] = "downstream"
    /\ \E c \in dsLeft[r] :
         /\ ownDs' = [ownDs EXCEPT ![r] = @ \cup
                        {[cluster |-> c, seq |-> LastDownstreamSeq(r, c) + 1,
                          parent |-> cur[r] + 2, by |-> r]}]
         /\ dsLeft' = [dsLeft EXCEPT ![r] = @ \ {c}]
    /\ UNCHANGED <<appSeq, versions, downstream, archives, verLock, appLock,
                   rpc, cur>>

(* INSERT the row at the next sequence, parent_sequence cur+1.             *)
AddDownstream(r) ==
    /\ rpc[r] = "downstream"
    /\ \E c \in dsLeft[r] :
         /\ ownDs' = [ownDs EXCEPT ![r] = @ \cup
                        {[cluster |-> c, seq |-> LastDownstreamSeq(r, c) + 1,
                          parent |-> cur[r] + 1, by |-> r]}]
         /\ dsLeft' = [dsLeft EXCEPT ![r] = @ \ {c}]
    /\ UNCHANGED <<appSeq, versions, downstream, archives, verLock, appLock,
                   rpc, cur>>

(* tx.Commit: the writes become visible together and the locks go.        *)
Commit(r) ==
    /\ rpc[r] = "downstream" /\ dsLeft[r] = {}
    /\ versions' = [versions EXCEPT ![cur[r] + 1] = r]
    /\ appSeq' = cur[r] + 1
    /\ downstream' = downstream \cup ownDs[r]
    /\ verLock' = [verLock EXCEPT ![cur[r] + 1] = NoOne]
    /\ appLock' = NoOne
    /\ ownDs' = [ownDs EXCEPT ![r] = {}]
    /\ rpc' = [rpc EXCEPT ![r] = "upload"]
    /\ UNCHANGED <<archives, cur, dsLeft>>

(* A statement, the previous archive, a diff or the commit fails: the      *)
(* deferred tx.Rollback discards the writes and releases the locks.        *)
Rollback(r) ==
    /\ rpc[r] \in {"update", "prevarchive", "downstream"}
    /\ verLock' = [verLock EXCEPT ![cur[r] + 1] = NoOne]
    /\ appLock' = IF appLock = r THEN NoOne ELSE appLock
    /\ ownDs' = [ownDs EXCEPT ![r] = {}]
    /\ rpc' = [rpc EXCEPT ![r] = "failed"]
    /\ UNCHANGED <<appSeq, versions, downstream, archives, cur, dsLeft>>

(* app.CreateAppVersionArchive after the commit: stored, or a 500.         *)
Upload(r) ==
    /\ rpc[r] = "upload"
    /\ \/ /\ archives' = archives \cup {cur[r] + 1}
          /\ rpc' = [rpc EXCEPT ![r] = "done"]
       \/ /\ rpc' = [rpc EXCEPT ![r] = "failed"]
          /\ UNCHANGED archives
    /\ UNCHANGED <<appSeq, versions, downstream, verLock, appLock, cur,
                   dsLeft, ownDs>>

Next ==
    \E r \in Requests :
        \/ GetApp(r) \/ PrepEnd(r) \/ UpsertVersion(r) \/ UpdateApp(r)
        \/ PrevArchive(r) \/ AddDownstream(r) \/ Commit(r) \/ Rollback(r)
        \/ Upload(r)

Spec == Init /\ [][Next]_vars
-----------------------------------------------------------------------------
(* The committed downstream versions of every cluster are numbered 0, 1,   *)
(* ... without a gap or a duplicate, however the transactions interleave:  *)
(* the max(sequence)+1 read is safe only because the UPDATE of the app row *)
(* before it makes concurrent CreateVersion transactions take turns.       *)
DownstreamSequencing ==
    \A c \in Clusters :
        LET rows == {w \in downstream : w.cluster = c}
        IN  /\ \A x, y \in rows : x.seq = y.seq => x = y
            /\ {w.seq : w \in rows} = 0..(Cardinality(rows) - 1)

(* Comment on App.CreateVersion: it creates a new version.  So the version *)
(* a committed downstream version names as its parent still holds the      *)
(* content of the request that created both.                               *)
ParentHoldsOwnContent == \A w \in downstream : versions[w.parent] = w.by

(* Comment on App.CreateVersion: the caller is responsible for uploading   *)
(* the archive.  So once no config update is in flight, every committed    *)
(* version has its archive, which the next CreateVersion reads as the      *)
(* previous archive.                                                       *)
CommittedVersionsArchived ==
    (\A r \in Requests : rpc[r] \in {"start", "done", "failed"}) =>
        \A s \in 0..appSeq : s \in archives
=============================================================================
