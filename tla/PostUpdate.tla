---------------------------- MODULE PostUpdate ----------------------------
(***************************************************************************)
(* The update worker's Worker.postUpdateActions                            *)
(* (worker/pkg/updateworker/post.go), run for every watch update, several  *)
(* at once.  An update of the upstream (midstream) watch fetches its       *)
(* archive, opens a pull request if its cluster is a gitops one, records   *)
(* its watch version and then creates a watch update for each downstream  *)
(* watch, one after the other.  A downstream update does the same, taking  *)
(* the version label from its parent's version, which must exist.  Any     *)
(* store, S3 or GitHub call may fail; the function then returns the error  *)
(* and nothing retries it here.                                            *)
(***************************************************************************)
EXTENDS Naturals, Sequences

CONSTANTS
    Upstream,        \* the midstream watch
    DownstreamList,  \* its downstream watches, as ListDownstreamWatchIDs returns them
    UpSeqs,          \* sequences of the upstream updates
    Labelled,        \* those whose watch state carries a version label
    ClusterOf(_),    \* "none" (midstream), "ship" or "gitops"
    NoParent         \* parentSequence == nil

Downstreams == {DownstreamList[k] : k \in DOMAIN DownstreamList}

ASSUME PostAssumption ==
    /\ DownstreamList \in Seq(Downstreams) /\ Upstream \notin Downstreams
    /\ UpSeqs \subseteq Nat /\ Labelled \subseteq UpSeqs /\ NoParent \notin Nat
    /\ ClusterOf(Upstream) = "none"
    /\ \A d \in Downstreams : ClusterOf(d) \in {"ship", "gitops"}

(* A watch update: the watch and the upstream sequence it stems from.      *)
Updates == ({Upstream} \cup Downstreams) \X UpSeqs
Parent(u) == IF u[1] = Upstream THEN NoParent ELSE u[2]
DownstreamsOf(w) == IF w = Upstream THEN DownstreamList ELSE <<>>

(* A version label is named by the upstream sequence whose state set it.   *)
Version == [update : Updates, label : UpSeqs, status : {"deployed", "pending"},
            current : BOOLEAN, pr : BOOLEAN]

VARIABLES
    upc,       \* where the call for each update is; "idle" = not created yet
    vstatus,   \* the versionStatus maybeCreatePullRequest returned
    prs,       \* updates a pull request was opened for
    versions,  \* watch versions recorded by CreateWatchVersion
    fan,       \* position of the loop over the downstream watch ids
    collectors \* watches whose troubleshoot collectors were set

vars == <<upc, vstatus, prs, versions, fan, collectors>>

Watches == {Upstream} \cup Downstreams

Pcs == {"idle", "queued", "collect", "integrate", "version", "list", "fanout", "done", "error"}

TypeOK ==
    /\ upc \in [Updates -> Pcs]
    /\ vstatus \in [Updates -> {"none", "deployed", "pending"}]
    /\ prs \subseteq Updates
    /\ versions \subseteq Version
    /\ fan \in [Updates -> 1..(Len(DownstreamList) + 1)]
    /\ collectors \subseteq Watches

Init ==
    /\ upc = [u \in Updates |-> IF u[1] = Upstream THEN "queued" ELSE "idle"]
    /\ vstatus = [u \in Updates |-> "none"]
    /\ prs = {}
    /\ versions = {}
    /\ fan = [u \in Updates |-> 1]
    /\ collectors = {}

HasVersion(u) == \E v \in versions : v.update = u
LabelsOf(U) == {v.label : v \in {v \in versions : v.update \in U}}
UpstreamUpdates == {Upstream} \X UpSeqs

Fail(u) ==
    /\ upc' = [upc EXCEPT ![u] = "error"]
    /\ UNCHANGED <<vstatus, prs, versions, fan, collectors>>
-----------------------------------------------------------------------------
(* GetWatch and fetchArchiveFromS3 (DownloadFromS3, os.Open).             *)
Prepare(u) ==
    /\ upc[u] = "queued"
    /\ \/ /\ upc' = [upc EXCEPT ![u] = "collect"]
          /\ UNCHANGED <<vstatus, prs, versions, fan, collectors>>
       \/ Fail(u)

(* extractCollectorSpec reads the archive's files; a Collector document is *)
(* stored with SetWatchTroubleshootCollectors under updateSession.WatchID, *)
(* a package-level name the function does not set, so any watch may get   *)
(* it.  A read or store error returns, maybe after an earlier store.       *)
ExtractCollectorSpec(u) ==
    /\ upc[u] = "collect"
    /\ \E found \in {{}} \cup {{w} : w \in Watches} :
         /\ collectors' = collectors \cup found
         /\ upc' \in {[upc EXCEPT ![u] = "integrate"], [upc EXCEPT ![u] = "error"]}
    /\ UNCHANGED <<vstatus, prs, versions, fan>>

(* Mutant: an error of maybeCreatePullRequest is ignored and its empty     *)
(* versionStatus is recorded.                                              *)
IntegrateIgnoringError(u) ==
    /\ upc[u] = "integrate"
    /\ vstatus' = [vstatus EXCEPT ![u] = ""]
    /\ upc' = [upc EXCEPT ![u] = "version"]
    /\ UNCHANGED <<prs, versions, fan, collectors>>

(* GetClusterForWatch and maybeCreatePullRequest: no cluster means a       *)
(* midstream, deployed; a ship cluster is pending; a gitops cluster reads  *)
(* its state and most recent version, opens a pull request on GitHub and   *)
(* is pending.  Every call of a gitops cluster may fail.                   *)
Integrate(u) ==
    /\ upc[u] = "integrate"
    /\ \/ /\ vstatus' = [vstatus EXCEPT ![u] =
                          IF ClusterOf(u[1]) = "none" THEN "deployed" ELSE "pending"]
          /\ prs' = IF ClusterOf(u[1]) = "gitops" THEN prs \cup {u} ELSE prs
          /\ upc' = [upc EXCEPT ![u] = "version"]
          /\ UNCHANGED <<versions, fan, collectors>>
       \/ Fail(u)

(* The labels createVersion can find: a downstream takes the label of its  *)
(* parent's version of parentSequence (GetOneWatchVersion), an upstream    *)
(* the one of its state, else ("Hmmm...") the one of its most recent       *)
(* version, which the store chooses.  None found is an error.              *)
VersionLabel(u) ==
    IF Parent(u) # NoParent THEN LabelsOf({<<Upstream, Parent(u)>>})
    ELSE IF u[2] \in Labelled THEN {u[2]} ELSE LabelsOf(UpstreamUpdates)

(* createVersion and its CreateWatchVersion, current when there is no      *)
(* cluster; GetParentWatchID and the reads may fail too.                   *)
CreateVersion(u) ==
    /\ upc[u] = "version"
    /\ \/ /\ \E l \in VersionLabel(u) :
               versions' = versions \cup
                 {[update |-> u, label |-> l, status |-> vstatus[u],
                   current |-> ClusterOf(u[1]) = "none", pr |-> u \in prs]}
          /\ upc' = [upc EXCEPT ![u] = "list"]
          /\ UNCHANGED <<vstatus, prs, fan, collectors>>
       \/ Fail(u)

(* Mutant: triggerIntegrations is not called before the loop.             *)
ListBeforeVersion(u) ==
    /\ upc[u] \in {"list", "integrate"}
    /\ \/ /\ upc' = [upc EXCEPT ![u] = "fanout"]
          /\ UNCHANGED <<vstatus, prs, versions, fan, collectors>>
       \/ Fail(u)

(* ListDownstreamWatchIDs.                                                 *)
ListDownstreams(u) ==
    /\ upc[u] = "list"
    /\ \/ /\ upc' = [upc EXCEPT ![u] = "fanout"]
          /\ UNCHANGED <<vstatus, prs, versions, fan, collectors>>
       \/ Fail(u)

(* CreateWatchUpdate(downstreamWatchID, &sequence): the downstream gets an *)
(* update whose parent sequence is this update's; a failure returns.       *)
Fanout(u) ==
    /\ upc[u] = "fanout" /\ fan[u] <= Len(DownstreamsOf(u[1]))
    /\ LET d == <<DownstreamsOf(u[1])[fan[u]], u[2]>> IN
         \/ /\ upc' = [upc EXCEPT ![d] = IF @ = "idle" THEN "queued" ELSE @]
            /\ fan' = [fan EXCEPT ![u] = @ + 1]
            /\ UNCHANGED <<vstatus, prs, versions, collectors>>
         \/ Fail(u)

(* Mutant: the loop stops one downstream short.                            *)
FanoutEndEarly(u) ==
    /\ upc[u] = "fanout" /\ fan[u] >= Len(DownstreamsOf(u[1]))
    /\ upc' = [upc EXCEPT ![u] = "done"]
    /\ UNCHANGED <<vstatus, prs, versions, fan, collectors>>

(* The loop is over: return nil.                                           *)
FanoutEnd(u) ==
    /\ upc[u] = "fanout" /\ fan[u] > Len(DownstreamsOf(u[1]))
    /\ upc' = [upc EXCEPT ![u] = "done"]
    /\ UNCHANGED <<vstatus, prs, versions, fan, collectors>>

Step(u) ==
    \/ Prepare(u) \/ ExtractCollectorSpec(u) \/ Integrate(u) \/ CreateVersion(u) \/ ListDownstreams(u)
    \/ Fanout(u) \/ FanoutEnd(u)

Next == \E u \in Updates : Step(u)

(* Every created watch update is picked up by a worker and runs on.        *)
Spec == Init /\ [][Next]_vars /\ \A u \in Updates : WF_vars(Step(u))
-----------------------------------------------------------------------------
(* A downstream update only runs once its parent's version is recorded,    *)
(* so createVersion never fails for want of it: the upstream worker        *)
(* records its version before it creates any downstream update, whatever   *)
(* the workers of other updates do meanwhile.                              *)
ParentVersionFirst ==
    \A u \in Updates :
        Parent(u) # NoParent /\ upc[u] # "idle" => HasVersion(<<Upstream, Parent(u)>>)

(* The loop over ListDownstreamWatchIDs creates downstream updates in     *)
(* list order and a failed CreateWatchUpdate returns at once: the          *)
(* downstream watches that have an update of sequence s are exactly those *)
(* the loop of the upstream update of s has passed, so a failure part way *)
(* leaves the later ones without one for good; and an upstream update that *)
(* returned nil has created one for every downstream watch.               *)
DownstreamsCreated ==
    \A s \in UpSeqs :
        LET u == <<Upstream, s>> IN
        /\ {d \in Downstreams : upc[<<d, s>>] # "idle"}
              = {DownstreamList[k] : k \in 1..(fan[u] - 1)}
        /\ upc[u] = "done" => \A d \in Downstreams : upc[<<d, s>>] # "idle"

(* A downstream version carries the label of its parent's version of the  *)
(* same sequence, even while the upstream worker has already recorded     *)
(* later versions.                                                         *)
DownstreamLabelMatchesParent ==
    \A v, p \in versions :
        v.update[1] \in Downstreams /\ p.update = <<Upstream, v.update[2]>>
            => v.label = p.label
=============================================================================
