------------------------- MODULE ReconcilerAbstract -------------------------
(***************************************************************************)
(* What the operator's reconciliation loop promises the cluster, without  *)
(* its loop, its kubectl calls or its error paths: the agent takes a       *)
(* snapshot of the "present" list the server serves, and the cluster only  *)
(* gains objects of a manifest of that snapshot which decodes and which    *)
(* the API server accepts, never an object of an internal GVK (spec 4.2,   *)
(* 4.3).  Other actors may delete objects; the server may change the       *)
(* document at any time.                                                   *)
(***************************************************************************)
EXTENDS Naturals, Sequences

CONSTANTS
    Manifests, Objects, Internal, Content(_),
    BadBase64, BadYaml, Invalid,
    Documents, MaxUpdates, MaxDrift

VARIABLES
    doc,        \* the document the server serves
    snapshot,   \* the present list the agent works from
    cluster,    \* the live objects of the managed cluster
    updates,    \* document changes so far
    drifts      \* out-of-band deletions so far

avars == <<doc, snapshot, cluster, updates, drifts>>

(* A manifest the agent may deploy: it decodes, and kubectl accepts it.    *)
Deployable(m) == Content(m) \ Internal
Acceptable(m) == m \notin BadBase64 /\ m \notin BadYaml /\ m \notin Invalid

Init ==
    /\ doc \in Documents
    /\ snapshot = <<>>
    /\ cluster \in SUBSET (Objects \ Internal)
    /\ updates = 0
    /\ drifts = 0

(* The agent fetches the served document.                                  *)
Fetch ==
    /\ snapshot' = doc.present
    /\ UNCHANGED <<doc, cluster, updates, drifts>>

(* Some of the deployable objects of one acceptable manifest of the        *)
(* snapshot are created.                                                   *)
Deploy ==
    /\ \E k \in DOMAIN snapshot :
         /\ Acceptable(snapshot[k])
         /\ \E new \in SUBSET Deployable(snapshot[k]) : cluster' = cluster \cup new
    /\ UNCHANGED <<doc, snapshot, updates, drifts>>

ServerUpdate ==
    /\ updates < MaxUpdates
    /\ \E d \in Documents \ {doc} : doc' = d
    /\ updates' = updates + 1
    /\ UNCHANGED <<snapshot, cluster, drifts>>

ExternalDelete ==
    /\ drifts < MaxDrift
    /\ \E o \in cluster : cluster' = cluster \ {o}
    /\ drifts' = drifts + 1
    /\ UNCHANGED <<doc, snapshot, updates>>

Next == Fetch \/ Deploy \/ ServerUpdate \/ ExternalDelete

Spec == Init /\ [][Next]_avars
=============================================================================
