----------------------------- MODULE Reconciler -----------------------------
(***************************************************************************)
(* The operator's reconciliation loop, Client.Run in                       *)
(* operator/pkg/client/client.go: poll the desired state from the kotsadm  *)
(* server, then for every "present" manifest decode it, strip objects of   *)
(* the internal GVKs, dry-run it with kubectl and apply it, then sleep and *)
(* poll again.  The control plane (which serves the desired state) and     *)
(* other actors deleting cluster objects are modelled as the environment.  *)
(***************************************************************************)
EXTENDS Naturals, Sequences, FiniteSets

CONSTANTS
    Manifests,      \* the encoded manifests the server may list
    Objects,        \* the cluster objects those manifests declare
    Internal,       \* objects of a reserved internal GVK
    Content(_),     \* the objects a decoded manifest declares
    Requires(_),    \* objects that must exist for kubectl to accept a manifest
    BadBase64,      \* manifests base64.StdEncoding cannot decode
    BadYaml,        \* manifests removeInternalGVK cannot parse
    Invalid,        \* manifests the API server always rejects
    Documents,      \* the desired-state documents the server may serve
    MaxEntries,     \* longest "present" list of a document
    MaxUpdates,     \* how often the served document may change
    MaxDrift        \* how many objects other actors may delete

Entries == UNION {[1..n -> Manifests] : n \in 0..MaxEntries}

ASSUME ConstantsAssumption ==
    /\ Internal \subseteq Objects
    /\ \A m \in Manifests : Content(m) \subseteq Objects
                             /\ Requires(m) \subseteq Objects \ Internal
    /\ BadBase64 \subseteq Manifests /\ BadYaml \subseteq Manifests
    /\ Invalid \subseteq Manifests
    /\ MaxEntries \in Nat /\ MaxUpdates \in Nat /\ MaxDrift \in Nat
    /\ Documents \subseteq [present : Entries, missing : Entries]
    /\ Documents # {}

VARIABLES
    doc,        \* the document the server currently serves
    pc,         \* where Run is: "poll" "deploy" "apply" "sleep" "exited" "hung"
    present,    \* desiredState.Present of the current iteration
    i,          \* position of the range loop over present
    cluster,    \* the live objects of the managed cluster
    calls,      \* kubectl calls of the current iteration, in order
    logged,     \* errors printed in the current iteration: <<entry, stage>>
    updates,    \* document changes so far
    drifts      \* out-of-band deletions so far

vars == <<doc, pc, present, i, cluster, calls, logged, updates, drifts>>

Call == [op : {"dryrun", "apply"}, idx : 1..MaxEntries, ok : BOOLEAN]
Stage == {"decode", "gvk", "apply"}

(* The bytes handed to kubectl: the manifest without internal GVK objects. *)
Deployable(m) == Content(m) \ Internal

(* Reaches ensureResourcesPresent: decodes and passes removeInternalGVK.   *)
Decodes(m) == m \notin BadBase64 /\ m \notin BadYaml

TypeOK ==
    /\ doc \in Documents
    /\ pc \in {"poll", "deploy", "apply", "sleep", "exited", "hung"}
    /\ present \in Entries
    /\ i \in 1..(MaxEntries + 1)
    /\ cluster \subseteq Objects
    /\ calls \in Seq(Call)
    /\ logged \subseteq (1..MaxEntries) \X Stage
    /\ updates \in 0..MaxUpdates
    /\ drifts \in 0..MaxDrift

Init ==
    /\ doc \in Documents
    /\ pc = "poll"
    /\ present = <<>>
    /\ i = 1
    /\ cluster \in SUBSET (Objects \ Internal)
    /\ calls = <<>>
    /\ logged = {}
    /\ updates = 0
    /\ drifts = 0
-----------------------------------------------------------------------------
(* Mutant: the loop index is not reset for the next iteration.            *)
PollOKKeepsIndex ==
    /\ pc = "poll"
    /\ present' = doc.present
    /\ calls' = <<>>
    /\ logged' = {}
    /\ pc' = "deploy"
    /\ UNCHANGED <<doc, i, cluster, updates, drifts>>

(* getDesiredStateFromKotsadmServer returns the served document.           *)
PollOK ==
    /\ pc = "poll"
    /\ present' = doc.present
    /\ i' = 1
    /\ calls' = <<>>
    /\ logged' = {}
    /\ pc' = "deploy"
    /\ UNCHANGED <<doc, cluster, updates, drifts>>

(* A transport error, a non-200 status or a bad body: Run returns.         *)
PollFail ==
    /\ pc = "poll"
    /\ pc' = "exited"
    /\ UNCHANGED <<doc, present, i, cluster, calls, logged, updates, drifts>>

(* http.Client{} has no timeout: client.Do may never return.               *)
PollHang ==
    /\ pc = "poll"
    /\ pc' = "hung"
    /\ UNCHANGED <<doc, present, i, cluster, calls, logged, updates, drifts>>

(* Mutant: the error is recorded against the next entry.                  *)
SkipNextIndex(s) ==
    /\ logged' = logged \cup {<<i + 1, s>>}
    /\ i' = i + 1
    /\ UNCHANGED <<doc, pc, present, cluster, updates, drifts>>

(* Skip entry i after printing an error at stage s ("continue").           *)
Skip(s) ==
    /\ logged' = logged \cup {<<i, s>>}
    /\ i' = i + 1
    /\ UNCHANGED <<doc, pc, present, cluster, updates, drifts>>

(* Mutant: a decode error ends the range loop ("break" for "continue").   *)
DecodeErrorBreak ==
    /\ pc = "deploy" /\ i <= Len(present)
    /\ present[i] \in BadBase64
    /\ logged' = logged \cup {<<i, "decode">>}
    /\ pc' = "sleep"
    /\ UNCHANGED <<doc, present, i, cluster, calls, updates, drifts>>

(* base64 decoding of entry i fails.                                       *)
DecodeError ==
    /\ pc = "deploy" /\ i <= Len(present)
    /\ present[i] \in BadBase64
    /\ Skip("decode")
    /\ UNCHANGED calls

(* removeInternalGVK fails on entry i.                                     *)
FilterError ==
    /\ pc = "deploy" /\ i <= Len(present)
    /\ present[i] \notin BadBase64 /\ present[i] \in BadYaml
    /\ Skip("gvk")
    /\ UNCHANGED calls

(* Mutant: the dry-run error is ignored and the real apply runs anyway.    *)
EnsureFailApplies ==
    /\ pc = "deploy" /\ i <= Len(present)
    /\ Decodes(present[i])
    /\ calls' = Append(calls, [op |-> "dryrun", idx |-> i, ok |-> FALSE])
    /\ cluster' = cluster \cup Deployable(present[i])
    /\ logged' = logged \cup {<<i, "apply">>}
    /\ i' = i + 1
    /\ UNCHANGED <<doc, pc, present, updates, drifts>>

(* ensureResourcesPresent returns an error before the real apply: kubectl  *)
(* or the in-cluster config is missing (no call), or the dry run fails.    *)
EnsureFail ==
    /\ pc = "deploy" /\ i <= Len(present)
    /\ Decodes(present[i])
    /\ \/ UNCHANGED calls
       \/ calls' = Append(calls, [op |-> "dryrun", idx |-> i, ok |-> FALSE])
    /\ Skip("apply")

(* The dry run passes: the manifest is valid and its prerequisites exist.  *)
DryRunOK ==
    /\ pc = "deploy" /\ i <= Len(present)
    /\ Decodes(present[i])
    /\ present[i] \notin Invalid
    /\ Requires(present[i]) \subseteq cluster
    /\ calls' = Append(calls, [op |-> "dryrun", idx |-> i, ok |-> TRUE])
    /\ pc' = "apply"
    /\ UNCHANGED <<doc, present, i, cluster, logged, updates, drifts>>

(* The real apply, whose error is discarded; then the next entry.          *)
Apply(applied, ok) ==
    /\ pc = "apply"
    /\ cluster' = cluster \cup applied
    /\ calls' = Append(calls, [op |-> "apply", idx |-> i, ok |-> ok])
    /\ i' = i + 1
    /\ pc' = "deploy"
    /\ UNCHANGED <<doc, present, logged, updates, drifts>>

ApplyOK ==
    /\ pc = "apply"
    /\ Requires(present[i]) \subseteq cluster
    /\ Apply(Deployable(present[i]), TRUE)

(* kubectl applies the documents one by one: a failure leaves any part.    *)
ApplyFail ==
    /\ pc = "apply"
    /\ \E applied \in SUBSET Deployable(present[i]) : Apply(applied, FALSE)

(* The range loop is over: time.Sleep, then the next iteration.            *)
EndRange ==
    /\ pc = "deploy" /\ i > Len(present)
    /\ pc' = "sleep"
    /\ UNCHANGED <<doc, present, i, cluster, calls, logged, updates, drifts>>

Sleep ==
    /\ pc = "sleep"
    /\ pc' = "poll"
    /\ UNCHANGED <<doc, present, i, cluster, calls, logged, updates, drifts>>
-----------------------------------------------------------------------------
(* Environment: the server changes the desired state; someone deletes an  *)
(* object out of band.                                                     *)
ServerUpdate ==
    /\ updates < MaxUpdates
    /\ \E d \in Documents \ {doc} : doc' = d
    /\ updates' = updates + 1
    /\ UNCHANGED <<pc, present, i, cluster, calls, logged, drifts>>

ExternalDelete ==
    /\ drifts < MaxDrift
    /\ \E o \in cluster : cluster' = cluster \ {o}
    /\ drifts' = drifts + 1
    /\ UNCHANGED <<doc, pc, present, i, calls, logged, updates>>

Agent ==
    \/ PollOK \/ PollFail \/ PollHang
    \/ DecodeError \/ FilterError \/ EnsureFail \/ DryRunOK
    \/ ApplyOK \/ ApplyFail \/ EndRange \/ Sleep

Next == Agent \/ ServerUpdate \/ ExternalDelete

(* The loop runs whenever it can; a transient kubectl failure does not    *)
(* recur forever for the same manifest.                                    *)
Fairness ==
    /\ WF_vars(Agent)
    /\ \A m \in {m \in Manifests : Decodes(m) /\ m \notin Invalid} :
         /\ SF_vars(DryRunOK /\ present[i] = m)
         /\ SF_vars(ApplyOK /\ present[i] = m)

Spec == Init /\ [][Next]_vars /\ Fairness
-----------------------------------------------------------------------------
(* Properties.                                                             *)

(* The kubectl calls of one iteration follow the list order of present     *)
(* (and each entry gets at most one dry run and one apply), every apply    *)
(* comes right after a passing dry run of the same entry, and once the     *)
(* range loop is over every decodable entry was attempted: an error on one *)
(* entry never stops its siblings.                                         *)
InListOrder ==
    \A a, b \in 1..Len(calls) :
        a < b => \/ calls[a].idx < calls[b].idx
                 \/ calls[a].idx = calls[b].idx /\ calls[a].op = "dryrun"
                                                /\ calls[b].op = "apply"
ApplyGated ==
    \A b \in 1..Len(calls) :
        calls[b].op = "apply" =>
            /\ b > 1
            /\ calls[b - 1] = [op |-> "dryrun", idx |-> calls[b].idx, ok |-> TRUE]
AllAttempted ==
    pc = "sleep" =>
        \A k \in 1..Len(present) :
            Decodes(present[k]) =>
                \/ <<k, "apply">> \in logged
                \/ \E b \in 1..Len(calls) : calls[b].idx = k
IterationOrder == InListOrder /\ ApplyGated /\ AllAttempted

(* The cluster only gains objects in the real apply of the entry whose dry *)
(* run has just passed, and only objects of that entry's deployable part.  *)
GateRespected ==
    [][cluster' \ cluster # {} =>
          /\ pc = "apply"
          /\ cluster' \ cluster \subseteq Deployable(present[i])]_vars

(* The objects the document asks for and kubectl can create: those of the  *)
(* valid entries whose prerequisites are created by the document itself.   *)
Good(m) == Decodes(m) /\ m \notin Invalid
Provided(d) == UNION {Deployable(d.present[k]) : k \in {k \in DOMAIN d.present : Good(d.present[k])}}
Target(d) ==
    UNION {Deployable(d.present[k]) :
             k \in {k \in DOMAIN d.present : Good(d.present[k])
                                          /\ Requires(d.present[k]) \subseteq Provided(d)}}

Stopped == pc \in {"exited", "hung"}

(* Unless Run has returned or hangs, the cluster eventually holds every    *)
(* object of the last document for good, whatever the list order, failed  *)
(* applies and out-of-band deletions in between.                           *)
ReconcileConverges == <>[](Stopped \/ Target(doc) \subseteq cluster)

(* The loop implements the abstract reconciler: with the polled present   *)
(* list as the snapshot, every step either takes a snapshot, creates       *)
(* objects of an acceptable manifest of it, or leaves the abstract state   *)
(* alone; no dry-run failure, decode error or filter error leads to a      *)
(* change in the cluster.                                                  *)
Abstract == INSTANCE ReconcilerAbstract WITH snapshot <- present
ImplementsAbstract == Abstract!Spec

(* Spec 4.3: a failed real apply is recorded as an ApplyError.             *)
ApplyErrorRecorded ==
    \A b \in 1..Len(calls) :
        calls[b].op = "apply" /\ ~calls[b].ok => <<calls[b].idx, "apply">> \in logged

(* Spec 4.3: objects of "missing" manifests that no present manifest       *)
(* declares are eventually removed from the cluster.                       *)
MissingObjects(d) ==
    UNION {Deployable(d.missing[k]) : k \in DOMAIN d.missing} \
    UNION {Deployable(d.present[k]) : k \in DOMAIN d.present}
MissingRemoved == <>[](Stopped \/ MissingObjects(doc) \cap cluster = {})
=============================================================================
