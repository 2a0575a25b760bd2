------------------------- MODULE PostUpdateProofs -------------------------
(***************************************************************************)
(* Proofs about PostUpdate for every set of watches, sequences and labels: *)
(* a downstream update never runs before its parent's version exists, a   *)
(* downstream version carries the label of that parent version, and the   *)
(* downstream updates of a sequence follow the upstream loop's position.  *)
(***************************************************************************)
EXTENDS PostUpdate, TLAPS

(* The invariant behind both properties.  A call that has passed           *)
(* createVersion has recorded exactly one version, and no call before it   *)
(* has one; a call at createVersion holds the status maybeCreatePullRequest *)
(* returned.                                                               *)
OneVersion ==
    /\ \A u \in Updates : upc[u] \in {"list", "fanout"} => HasVersion(u)
    /\ \A v \in versions : upc[v.update] \in {"list", "fanout", "done", "error"}
    /\ \A v, w \in versions : v.update = w.update => v = w

IInv ==
    /\ TypeOK
    /\ \A u \in Updates : upc[u] = "version" => vstatus[u] \in {"deployed", "pending"}
    /\ OneVersion
    /\ ParentVersionFirst
    /\ DownstreamLabelMatchesParent
-----------------------------------------------------------------------------
(* An update is a pair of a watch and an upstream sequence; it has a       *)
(* parent sequence exactly when its watch is a downstream one.             *)
LEMMA UpdateParts ==
    ASSUME NEW u \in Updates
    PROVE  /\ u = <<u[1], u[2]>>
           /\ u[1] \in Watches /\ u[2] \in UpSeqs
           /\ (Parent(u) # NoParent) <=> (u[1] \in Downstreams)
           /\ Parent(u) # NoParent => Parent(u) = u[2]
<1>1. PICK w \in Watches, q \in UpSeqs : u = <<w, q>>
  BY DEF Updates, Watches
<1>2. u[1] = w /\ u[2] = q /\ q \in Nat /\ NoParent \notin Nat
  BY <1>1, PostAssumption
<1>3. w \in Downstreams <=> w # Upstream
  BY <1>1, PostAssumption DEF Watches
<1>4. QED
  BY <1>1, <1>2, <1>3 DEF Parent

(* The key a Fanout step hands a downstream update to.                     *)
LEMMA FanoutTarget ==
    ASSUME TypeOK, NEW u \in Updates,
           fan[u] <= Len(DownstreamsOf(u[1]))
    PROVE  /\ u[1] = Upstream
           /\ <<DownstreamsOf(u[1])[fan[u]], u[2]>> \in Updates
           /\ Parent(<<DownstreamsOf(u[1])[fan[u]], u[2]>>) = u[2]
           /\ <<Upstream, u[2]>> = u
           /\ fan[u] + 1 \in 1..(Len(DownstreamList) + 1)
<1>1. fan[u] \in 1..(Len(DownstreamList) + 1)
  BY DEF TypeOK
<1>2. u[1] = Upstream
  BY <1>1 DEF DownstreamsOf
<1>3. DownstreamList[fan[u]] \in Downstreams
  BY <1>1, <1>2 DEF DownstreamsOf, Downstreams
<1>4. QED
  BY <1>1, <1>2, <1>3, UpdateParts, PostAssumption DEF Updates, Parent, DownstreamsOf

LEMMA IInvInit == Init => IInv
<1> SUFFICES ASSUME Init PROVE IInv
  OBVIOUS
<1>1. TypeOK
  <2>1. 1 \in 1..(Len(DownstreamList) + 1)
    BY PostAssumption
  <2>2. QED
    BY <2>1 DEF Init, TypeOK, Pcs
<1>2. ParentVersionFirst
  BY UpdateParts, PostAssumption DEF Init, ParentVersionFirst
<1>3. QED
  BY <1>1, <1>2 DEF Init, IInv, OneVersion, DownstreamLabelMatchesParent

(* A step that moves only the call of u on, records no version and leaves  *)
(* the loop positions alone keeps the invariant, provided it neither       *)
(* leaves the not-yet-created state nor passes createVersion without a     *)
(* version, nor moves a call that has a version back before createVersion. *)
LEMMA LocalStep ==
    ASSUME IInv, NEW u \in Updates, NEW x \in Pcs \ {"idle"},
           upc[u] # "idle",
           upc' = [upc EXCEPT ![u] = x],
           versions' = versions, fan' = fan,
           x \in {"list", "fanout"} => HasVersion(u),
           HasVersion(u) => x \in {"list", "fanout", "done", "error"},
           x = "version" => vstatus'[u] \in {"deployed", "pending"},
           vstatus' \in [Updates -> {"none", "deployed", "pending"}],
           \A w \in Updates \ {u} : vstatus'[w] = vstatus[w],
           prs' \subseteq Updates, collectors' \subseteq Watches
    PROVE  IInv'
<1>1. TypeOK'
  BY DEF IInv, TypeOK
<1>2. \A w \in Updates : upc'[w] = "version" => vstatus'[w] \in {"deployed", "pending"}
  BY DEF IInv, TypeOK
<1>3. \A w : HasVersion(w)' = HasVersion(w)
  BY DEF HasVersion
<1>4. OneVersion'
  <2>1. \A w \in Updates : upc'[w] \in {"list", "fanout"} => HasVersion(w)'
    BY <1>3 DEF IInv, OneVersion
  <2>2. \A v \in versions' : upc'[v.update] \in {"list", "fanout", "done", "error"}
    <3> SUFFICES ASSUME NEW v \in versions
                 PROVE  upc'[v.update] \in {"list", "fanout", "done", "error"}
      OBVIOUS
    <3>1. v.update \in Updates
      BY DEF IInv, TypeOK, Version
    <3>2. CASE v.update = u
      BY <3>1, <3>2 DEF HasVersion, IInv, TypeOK
    <3>3. CASE v.update # u
      BY <3>1, <3>3 DEF IInv, OneVersion
    <3>4. QED
      BY <3>2, <3>3
  <2>3. QED
    BY <2>1, <2>2 DEF IInv, OneVersion
<1>5. ParentVersionFirst'
  BY <1>3 DEF IInv, ParentVersionFirst, TypeOK
<1>6. DownstreamLabelMatchesParent'
  BY DEF IInv, DownstreamLabelMatchesParent
<1>7. QED
  BY <1>1, <1>2, <1>4, <1>5, <1>6 DEF IInv

(* A call that has not passed createVersion has no version.                *)
LEMMA NoVersionYet ==
    ASSUME IInv, NEW u \in Updates,
           upc[u] \in {"idle", "queued", "collect", "integrate", "version"}
    PROVE  ~HasVersion(u)
  BY DEF IInv, OneVersion, HasVersion

(* Fail(u) from any state the call can fail in.                            *)
LEMMA FailStep ==
    ASSUME IInv, NEW u \in Updates, upc[u] # "idle", Fail(u)
    PROVE  IInv'
<1>1. "error" \in Pcs \ {"idle"}
  BY DEF Pcs
<1>2. QED
  BY <1>1, LocalStep DEF Fail, IInv, TypeOK

(* CreateWatchUpdate succeeds: the downstream update becomes queued, and   *)
(* the version of its parent sequence is the one this call recorded.       *)
LEMMA FanoutStep ==
    ASSUME IInv, NEW u \in Updates, upc[u] = "fanout",
           fan[u] <= Len(DownstreamsOf(u[1])),
           upc' = [upc EXCEPT ![<<DownstreamsOf(u[1])[fan[u]], u[2]>>] =
                     IF @ = "idle" THEN "queued" ELSE @],
           fan' = [fan EXCEPT ![u] = @ + 1],
           UNCHANGED <<vstatus, prs, versions, collectors>>
    PROVE  IInv'
<1> DEFINE d == <<DownstreamsOf(u[1])[fan[u]], u[2]>>
<1>1. /\ d \in Updates /\ Parent(d) = u[2] /\ <<Upstream, u[2]>> = u
      /\ fan[u] + 1 \in 1..(Len(DownstreamList) + 1)
  BY FanoutTarget DEF IInv
<1>2. HasVersion(u)
  BY DEF IInv, OneVersion
<1>3. \A w \in Updates :
        upc'[w] = IF w = d /\ upc[d] = "idle" THEN "queued" ELSE upc[w]
  BY <1>1 DEF IInv, TypeOK
<1>4. \A w : HasVersion(w)' = HasVersion(w)
  BY DEF HasVersion
<1>5. TypeOK'
  BY <1>1, <1>3 DEF IInv, TypeOK, Pcs
<1>6. \A w \in Updates : upc'[w] = "version" => vstatus'[w] \in {"deployed", "pending"}
  BY <1>3 DEF IInv
<1>7. OneVersion'
  <2>1. \A w \in Updates : upc'[w] \in {"list", "fanout"} => HasVersion(w)'
    BY <1>3, <1>4 DEF IInv, OneVersion
  <2>2. \A v \in versions' : upc'[v.update] \in {"list", "fanout", "done", "error"}
    BY <1>3 DEF IInv, OneVersion, TypeOK, Version
  <2>3. QED
    BY <2>1, <2>2 DEF IInv, OneVersion
<1>8. ParentVersionFirst'
  <2> SUFFICES ASSUME NEW w \in Updates, Parent(w) # NoParent, upc'[w] # "idle"
               PROVE  HasVersion(<<Upstream, Parent(w)>>)'
    BY DEF ParentVersionFirst
  <2>1. CASE w = d /\ upc[d] = "idle"
    BY <2>1, <1>1, <1>2, <1>4
  <2>2. CASE ~(w = d /\ upc[d] = "idle")
    BY <2>2, <1>3, <1>4 DEF IInv, ParentVersionFirst
  <2>3. QED
    BY <2>1, <2>2
<1>9. DownstreamLabelMatchesParent'
  BY DEF IInv, DownstreamLabelMatchesParent
<1>10. QED
  BY <1>5, <1>6, <1>7, <1>8, <1>9 DEF IInv

(* CreateWatchVersion succeeds.  The new version is the call's only one;   *)
(* a downstream one copies the label of the unique parent version, and an  *)
(* upstream one can have no downstream version yet, since none of its      *)
(* downstream updates was created.                                         *)
LEMMA CreateVersionStep ==
    ASSUME IInv, NEW u \in Updates, upc[u] = "version", NEW l \in VersionLabel(u),
           versions' = versions \cup
             {[update |-> u, label |-> l, status |-> vstatus[u],
               current |-> ClusterOf(u[1]) = "none", pr |-> u \in prs]},
           upc' = [upc EXCEPT ![u] = "list"],
           UNCHANGED <<vstatus, prs, fan, collectors>>
    PROVE  IInv'
<1> DEFINE nv == [update |-> u, label |-> l, status |-> vstatus[u],
                  current |-> ClusterOf(u[1]) = "none", pr |-> u \in prs]
<1>1. ~HasVersion(u)
  BY NoVersionYet
<1>2. l \in UpSeqs
  BY UpdateParts DEF VersionLabel, LabelsOf, IInv, TypeOK, Version
<1>3. nv \in Version
  BY <1>2 DEF IInv, TypeOK, Version
<1>4. \A v \in versions : v.update # u
  BY <1>1 DEF HasVersion
<1>5. \A w : HasVersion(w) => HasVersion(w)'
  BY DEF HasVersion
<1>6. TypeOK'
  BY <1>3 DEF IInv, TypeOK, Pcs
<1>7. \A w \in Updates : upc'[w] = "version" => vstatus'[w] \in {"deployed", "pending"}
  BY DEF IInv, TypeOK
<1>8. OneVersion'
  <2>1. \A w \in Updates : upc'[w] \in {"list", "fanout"} => HasVersion(w)'
    <3>1. HasVersion(u)'
      <4>1. nv \in versions' /\ nv.update = u
        OBVIOUS
      <4>2. QED
        BY <4>1, Zenon DEF HasVersion
    <3>2. QED
      BY <3>1, <1>5 DEF IInv, OneVersion, TypeOK
  <2>2. \A v \in versions' : upc'[v.update] \in {"list", "fanout", "done", "error"}
    BY <1>4 DEF IInv, OneVersion, TypeOK, Version
  <2>3. \A v, w \in versions' : v.update = w.update => v = w
    BY <1>4 DEF IInv, OneVersion
  <2>4. QED
    BY <2>1, <2>2, <2>3 DEF OneVersion
<1>9. ParentVersionFirst'
  BY <1>5 DEF IInv, ParentVersionFirst, TypeOK
<1>10. DownstreamLabelMatchesParent'
  <2> SUFFICES ASSUME NEW v \in versions', NEW p \in versions',
                      v.update[1] \in Downstreams, p.update = <<Upstream, v.update[2]>>
               PROVE  v.label = p.label
    BY DEF DownstreamLabelMatchesParent
  <2>1. CASE v \in versions /\ p \in versions
    BY <2>1 DEF IInv, DownstreamLabelMatchesParent
  <2>2. CASE v = nv /\ p \in versions
    <3>1. u[1] \in Downstreams /\ Parent(u) = u[2]
      BY <2>2, UpdateParts
    <3>2. PICK q \in versions : q.update = <<Upstream, u[2]>> /\ q.label = l
      BY <3>1, UpdateParts DEF VersionLabel, LabelsOf
    <3>3. q = p
      BY <2>2, <3>2 DEF IInv, OneVersion
    <3>4. QED
      BY <2>2, <3>2, <3>3
  <2>3. CASE v \in versions /\ p = nv
    <3>1. v.update \in Updates /\ upc[v.update] # "idle"
      BY <2>3 DEF IInv, OneVersion, TypeOK, Version
    <3>2. Parent(v.update) # NoParent /\ Parent(v.update) = v.update[2]
      BY <3>1, UpdateParts
    <3>3. HasVersion(<<Upstream, v.update[2]>>)
      BY <3>1, <3>2 DEF IInv, ParentVersionFirst
    <3>4. FALSE
      BY <2>3, <3>3, <1>1
    <3>5. QED
      BY <3>4
  <2>4. CASE v = nv /\ p = nv
    <3>1. u[1] \in Downstreams /\ u[1] = Upstream
      BY <2>4
    <3>2. QED
      BY <3>1, PostAssumption
  <2>5. QED
    BY <2>1, <2>2, <2>3, <2>4
<1>11. QED
  BY <1>6, <1>7, <1>8, <1>9, <1>10 DEF IInv

LEMMA IInvStep == IInv /\ [Next]_vars => IInv'
<1> SUFFICES ASSUME IInv, [Next]_vars PROVE IInv'
  OBVIOUS
<1>1. CASE UNCHANGED vars
  <2>1. \A w : HasVersion(w)' = HasVersion(w)
    BY <1>1 DEF vars, HasVersion
  <2>2. QED
    BY <1>1, <2>1 DEF vars, IInv, TypeOK, OneVersion, ParentVersionFirst,
                     DownstreamLabelMatchesParent
<1>2. ASSUME NEW u \in Updates, Prepare(u) PROVE IInv'
  <2>1. ~HasVersion(u)
    BY <1>2, NoVersionYet DEF Prepare
  <2>2. CASE Fail(u)
    BY <1>2, <2>2, FailStep DEF Prepare
  <2>3. CASE ~Fail(u)
    BY <1>2, <2>1, <2>3, LocalStep DEF Prepare, IInv, TypeOK, Pcs
  <2>4. QED
    BY <2>2, <2>3
<1>3. ASSUME NEW u \in Updates, ExtractCollectorSpec(u) PROVE IInv'
  <2>1. ~HasVersion(u)
    BY <1>3, NoVersionYet DEF ExtractCollectorSpec
  <2>2. PICK found \in {{}} \cup {{w} : w \in Watches} :
          /\ collectors' = collectors \cup found
          /\ upc' \in {[upc EXCEPT ![u] = "integrate"], [upc EXCEPT ![u] = "error"]}
    BY <1>3 DEF ExtractCollectorSpec
  <2>3. collectors' \subseteq Watches
    BY <2>2 DEF IInv, TypeOK
  <2>4. PICK x \in {"integrate", "error"} : upc' = [upc EXCEPT ![u] = x]
    BY <2>2
  <2>5. QED
    BY <1>3, <2>1, <2>3, <2>4, LocalStep DEF ExtractCollectorSpec, IInv, TypeOK, Pcs
<1>4. ASSUME NEW u \in Updates, Integrate(u) PROVE IInv'
  <2>1. ~HasVersion(u)
    BY <1>4, NoVersionYet DEF Integrate
  <2>2. CASE Fail(u)
    BY <1>4, <2>2, FailStep DEF Integrate
  <2>3. CASE ~Fail(u)
    <3>1. /\ vstatus' = [vstatus EXCEPT ![u] =
                          IF ClusterOf(u[1]) = "none" THEN "deployed" ELSE "pending"]
          /\ prs' = IF ClusterOf(u[1]) = "gitops" THEN prs \cup {u} ELSE prs
          /\ upc' = [upc EXCEPT ![u] = "version"]
          /\ UNCHANGED <<versions, fan, collectors>>
      BY <1>4, <2>3 DEF Integrate
    <3>2. vstatus' \in [Updates -> {"none", "deployed", "pending"}]
          /\ vstatus'[u] \in {"deployed", "pending"}
          /\ \A w \in Updates \ {u} : vstatus'[w] = vstatus[w]
      BY <3>1 DEF IInv, TypeOK
    <3>3. prs' \subseteq Updates
      BY <3>1 DEF IInv, TypeOK
    <3>4. QED
      BY <1>4, <2>1, <3>1, <3>2, <3>3, LocalStep DEF Integrate, IInv, TypeOK, Pcs
  <2>4. QED
    BY <2>2, <2>3
<1>5. ASSUME NEW u \in Updates, CreateVersion(u) PROVE IInv'
  <2>1. CASE Fail(u)
    BY <1>5, <2>1, FailStep DEF CreateVersion
  <2>2. CASE ~Fail(u)
    <3>1. PICK l \in VersionLabel(u) :
            versions' = versions \cup
              {[update |-> u, label |-> l, status |-> vstatus[u],
                current |-> ClusterOf(u[1]) = "none", pr |-> u \in prs]}
      BY <1>5, <2>2 DEF CreateVersion
    <3>2. QED
      BY <1>5, <2>2, <3>1, CreateVersionStep DEF CreateVersion
  <2>3. QED
    BY <2>1, <2>2
<1>6. ASSUME NEW u \in Updates, ListDownstreams(u) PROVE IInv'
  <2>1. HasVersion(u)
    BY <1>6 DEF ListDownstreams, IInv, OneVersion
  <2>2. CASE Fail(u)
    BY <1>6, <2>2, FailStep DEF ListDownstreams
  <2>3. CASE ~Fail(u)
    BY <1>6, <2>1, <2>3, LocalStep DEF ListDownstreams, IInv, TypeOK, Pcs
  <2>4. QED
    BY <2>2, <2>3
<1>7. ASSUME NEW u \in Updates, Fanout(u) PROVE IInv'
  <2>1. CASE Fail(u)
    BY <1>7, <2>1, FailStep DEF Fanout
  <2>2. CASE ~Fail(u)
    BY <1>7, <2>2, FanoutStep DEF Fanout
  <2>3. QED
    BY <2>1, <2>2
<1>8. ASSUME NEW u \in Updates, FanoutEnd(u) PROVE IInv'
  <2>1. HasVersion(u)
    BY <1>8 DEF FanoutEnd, IInv, OneVersion
  <2>2. QED
    BY <1>8, <2>1, LocalStep DEF FanoutEnd, IInv, TypeOK, Pcs
<1>9. QED
  BY <1>1, <1>2, <1>3, <1>4, <1>5, <1>6, <1>7, <1>8 DEF Next, Step

(* Every reachable state of the concurrent post-update calls is well       *)
(* typed: the downstream loop never indexes past ListDownstreamWatchIDs'   *)
(* result and every recorded version has a label and a status.            *)
THEOREM PostTypeCorrect == Spec => []TypeOK
  BY IInvInit, IInvStep, PTL DEF Spec, IInv

(* Whatever the interleaving of the workers and whichever calls fail, a    *)
(* downstream watch update only exists once the version of its parent     *)
(* sequence is recorded: postUpdateActions fans out only after            *)
(* triggerIntegrations returned.                                           *)
THEOREM ParentVersionAlwaysFirst == Spec => []ParentVersionFirst
  BY IInvInit, IInvStep, PTL DEF Spec, IInv

(* A downstream version's label is the label of its parent's version of    *)
(* the same sequence, for every number of watches, sequences and labels.   *)
THEOREM DownstreamLabelsFollowParent == Spec => []DownstreamLabelMatchesParent
  BY IInvInit, IInvStep, PTL DEF Spec, IInv
-----------------------------------------------------------------------------
(* The downstream loop.  The downstream watches that have an update of     *)
(* sequence s, and those the loop of the upstream update of s has passed;  *)
(* the loop only moves on after a successful CreateWatchUpdate, and a call *)
(* that returned nil left the loop past its end.                           *)
Created(s) == {d \in Downstreams : upc[<<d, s>>] # "idle"}
Passed(s) == {DownstreamList[k] : k \in 1..(fan[<<Upstream, s>>] - 1)}

LoopInv ==
    /\ \A s \in UpSeqs : Created(s) = Passed(s)
    /\ \A s \in UpSeqs : upc[<<Upstream, s>>] = "done"
                            => fan[<<Upstream, s>>] = Len(DownstreamList) + 1

LEMMA LoopInvInit == Init => LoopInv
<1> SUFFICES ASSUME Init PROVE LoopInv
  OBVIOUS
<1>1. ASSUME NEW s \in UpSeqs, NEW d \in Downstreams PROVE upc[<<d, s>>] = "idle"
  BY PostAssumption DEF Init, Updates
<1>2. \A s \in UpSeqs : fan[<<Upstream, s>>] = 1
  BY DEF Init, Updates
<1>3. \A s \in UpSeqs : upc[<<Upstream, s>>] = "queued"
  BY DEF Init, Updates
<1>4. ASSUME NEW s \in UpSeqs PROVE Created(s) = {} /\ Passed(s) = {}
  <2>0. fan[<<Upstream, s>>] = 1
    BY <1>2
  <2>1. fan[<<Upstream, s>>] - 1 = 0
    BY <2>0
  <2>2. 1..(fan[<<Upstream, s>>] - 1) = {}
    BY <2>1
  <2>3. QED
    BY <1>1, <2>2 DEF Created, Passed
<1>5. QED
  BY <1>3, <1>4 DEF LoopInv

(* A step that moves only the call of u on, from a state that is neither   *)
(* "idle" nor "done" to one that is not "idle", and leaves the loop        *)
(* positions alone; it may return nil only past the end of its loop.       *)
LEMMA LoopLocal ==
    ASSUME IInv, LoopInv, NEW u \in Updates, NEW x \in Pcs \ {"idle"},
           upc[u] \notin {"idle", "done"},
           upc' = [upc EXCEPT ![u] = x], fan' = fan,
           x = "done" => fan[u] > Len(DownstreamsOf(u[1]))
    PROVE  LoopInv'
<1>1. ASSUME NEW s \in UpSeqs PROVE Created(s)' = Created(s)
  <2>1. \A d \in Downstreams : <<d, s>> \in Updates
    BY DEF Updates
  <2>2. QED
    BY <2>1 DEF Created, IInv, TypeOK
<1>2. ASSUME NEW s \in UpSeqs PROVE Passed(s)' = Passed(s)
  BY DEF Passed
<1>3. ASSUME NEW s \in UpSeqs, upc'[<<Upstream, s>>] = "done"
      PROVE  fan'[<<Upstream, s>>] = Len(DownstreamList) + 1
  <2>1. <<Upstream, s>> \in Updates
    BY DEF Updates
  <2>2. CASE u = <<Upstream, s>>
    <3>1. x = "done" /\ DownstreamsOf(u[1]) = DownstreamList
      BY <1>3, <2>1, <2>2 DEF IInv, TypeOK, DownstreamsOf
    <3>2. fan[u] \in 1..(Len(DownstreamList) + 1)
      BY DEF IInv, TypeOK
    <3>3. QED
      BY <3>1, <3>2, <2>2
  <2>3. CASE u # <<Upstream, s>>
    BY <1>3, <2>1, <2>3 DEF IInv, TypeOK, LoopInv
  <2>4. QED
    BY <2>2, <2>3
<1>4. QED
  BY <1>1, <1>2, <1>3 DEF LoopInv

(* CreateWatchUpdate succeeds: the downstream watch at the loop position   *)
(* gets an update of this sequence and the loop moves one on.              *)
LEMMA LoopFanout ==
    ASSUME IInv, LoopInv, NEW u \in Updates, upc[u] = "fanout",
           fan[u] <= Len(DownstreamsOf(u[1])),
           upc' = [upc EXCEPT ![<<DownstreamsOf(u[1])[fan[u]], u[2]>>] =
                     IF @ = "idle" THEN "queued" ELSE @],
           fan' = [fan EXCEPT ![u] = @ + 1]
    PROVE  LoopInv'
<1> DEFINE d == DownstreamsOf(u[1])[fan[u]]
           s0 == u[2]
<1>1. /\ u[1] = Upstream /\ <<d, s0>> \in Updates /\ <<Upstream, s0>> = u
      /\ fan[u] + 1 \in 1..(Len(DownstreamList) + 1)
  BY FanoutTarget DEF IInv
<1>2. d = DownstreamList[fan[u]] /\ d \in Downstreams /\ s0 \in UpSeqs
  BY <1>1, UpdateParts DEF DownstreamsOf, Downstreams, IInv, TypeOK
<1>3. \A e \in Downstreams, q \in UpSeqs :
        upc'[<<e, q>>] = IF <<e, q>> = <<d, s0>> /\ upc[<<d, s0>>] = "idle"
                         THEN "queued" ELSE upc[<<e, q>>]
  BY <1>1 DEF IInv, TypeOK, Updates
<1>4. \A q \in UpSeqs : upc'[<<Upstream, q>>] = upc[<<Upstream, q>>]
  BY <1>1, <1>2, PostAssumption DEF IInv, TypeOK, Updates
<1>5. \A q \in UpSeqs : fan'[<<Upstream, q>>] =
                          IF q = s0 THEN fan[u] + 1 ELSE fan[<<Upstream, q>>]
  BY <1>1 DEF IInv, TypeOK, Updates
<1>6. ASSUME NEW q \in UpSeqs PROVE Created(q)' = Passed(q)'
  <2>1. CASE q = s0
    <3>1. Created(q)' = Created(q) \cup {d}
      BY <1>3, <2>1, <1>2 DEF Created
    <3>2. fan[u] \in 1..(Len(DownstreamList) + 1)
      BY DEF IInv, TypeOK
    <3>3. 1..fan[u] = 1..(fan[u] - 1) \cup {fan[u]}
      BY <3>2
    <3>4. fan'[<<Upstream, q>>] - 1 = fan[u] /\ fan[<<Upstream, q>>] = fan[u]
      BY <1>1, <1>5, <2>1, <3>2
    <3>5. Passed(q)' = {DownstreamList[k] : k \in 1..fan[u]}
      BY <3>4 DEF Passed
    <3>6. Passed(q) = {DownstreamList[k] : k \in 1..(fan[u] - 1)}
      BY <3>4 DEF Passed
    <3>7. Passed(q)' = Passed(q) \cup {d}
      BY <3>3, <3>5, <3>6, <1>2
    <3>8. QED
      BY <3>1, <3>7 DEF LoopInv
  <2>2. CASE q # s0
    <3>1. Created(q)' = Created(q)
      BY <1>3, <2>2 DEF Created
    <3>2. Passed(q)' = Passed(q)
      BY <1>5, <2>2 DEF Passed
    <3>3. QED
      BY <3>1, <3>2 DEF LoopInv
  <2>3. QED
    BY <2>1, <2>2
<1>7. ASSUME NEW q \in UpSeqs, upc'[<<Upstream, q>>] = "done"
      PROVE  fan'[<<Upstream, q>>] = Len(DownstreamList) + 1
  <2>1. q # s0
    BY <1>1, <1>4, <1>7
  <2>2. QED
    BY <1>4, <1>5, <1>7, <2>1 DEF LoopInv
<1>8. QED
  BY <1>6, <1>7 DEF LoopInv

LEMMA LoopInvStep == IInv /\ LoopInv /\ [Next]_vars => LoopInv'
<1> SUFFICES ASSUME IInv, LoopInv, [Next]_vars PROVE LoopInv'
  OBVIOUS
<1>1. CASE UNCHANGED vars
  BY <1>1 DEF vars, LoopInv, Created, Passed
<1>2. "error" \in Pcs \ {"idle"} /\ "done" \in Pcs \ {"idle"}
  BY DEF Pcs
<1>3. ASSUME NEW u \in Updates, Fail(u), upc[u] \notin {"idle", "done"}
      PROVE  LoopInv'
  BY <1>2, <1>3, LoopLocal DEF Fail
<1>4. ASSUME NEW u \in Updates, Prepare(u) PROVE LoopInv'
  <2>1. CASE Fail(u)
    BY <1>4, <2>1, <1>3 DEF Prepare
  <2>2. CASE ~Fail(u)
    BY <1>4, <2>2, LoopLocal DEF Prepare, Pcs
  <2>3. QED
    BY <2>1, <2>2
<1>5. ASSUME NEW u \in Updates, ExtractCollectorSpec(u) PROVE LoopInv'
  <2>1. PICK x \in {"integrate", "error"} : upc' = [upc EXCEPT ![u] = x]
    BY <1>5 DEF ExtractCollectorSpec
  <2>2. QED
    BY <1>5, <2>1, LoopLocal DEF ExtractCollectorSpec, Pcs
<1>6. ASSUME NEW u \in Updates, Integrate(u) PROVE LoopInv'
  <2>1. CASE Fail(u)
    BY <1>6, <2>1, <1>3 DEF Integrate
  <2>2. CASE ~Fail(u)
    BY <1>6, <2>2, LoopLocal DEF Integrate, Pcs
  <2>3. QED
    BY <2>1, <2>2
<1>7. ASSUME NEW u \in Updates, CreateVersion(u) PROVE LoopInv'
  <2>1. CASE Fail(u)
    BY <1>7, <2>1, <1>3 DEF CreateVersion
  <2>2. CASE ~Fail(u)
    BY <1>7, <2>2, LoopLocal DEF CreateVersion, Pcs
  <2>3. QED
    BY <2>1, <2>2
<1>8. ASSUME NEW u \in Updates, ListDownstreams(u) PROVE LoopInv'
  <2>1. CASE Fail(u)
    BY <1>8, <2>1, <1>3 DEF ListDownstreams
  <2>2. CASE ~Fail(u)
    BY <1>8, <2>2, LoopLocal DEF ListDownstreams, Pcs
  <2>3. QED
    BY <2>1, <2>2
<1>9. ASSUME NEW u \in Updates, Fanout(u) PROVE LoopInv'
  <2>1. CASE Fail(u)
    BY <1>9, <2>1, <1>3 DEF Fanout
  <2>2. CASE ~Fail(u)
    BY <1>9, <2>2, LoopFanout DEF Fanout
  <2>3. QED
    BY <2>1, <2>2
<1>10. ASSUME NEW u \in Updates, FanoutEnd(u) PROVE LoopInv'
  BY <1>2, <1>10, LoopLocal DEF FanoutEnd
<1>11. QED
  BY <1>1, <1>4, <1>5, <1>6, <1>7, <1>8, <1>9, <1>10 DEF Next, Step

(* The invariant gives the property: the passed prefix of a loop that ran  *)
(* to its end is the whole list, that is every downstream watch.           *)
LEMMA LoopInvCreated == IInv /\ LoopInv => DownstreamsCreated
<1> SUFFICES ASSUME IInv, LoopInv, NEW s \in UpSeqs
             PROVE  LET u == <<Upstream, s>> IN
                    /\ {d \in Downstreams : upc[<<d, s>>] # "idle"}
                         = {DownstreamList[k] : k \in 1..(fan[u] - 1)}
                    /\ upc[u] = "done" => \A d \in Downstreams : upc[<<d, s>>] # "idle"
  BY DEF DownstreamsCreated
<1>1. {d \in Downstreams : upc[<<d, s>>] # "idle"}
        = {DownstreamList[k] : k \in 1..(fan[<<Upstream, s>>] - 1)}
  BY DEF LoopInv, Created, Passed
<1>2. ASSUME upc[<<Upstream, s>>] = "done", NEW d \in Downstreams
      PROVE  upc[<<d, s>>] # "idle"
  <2>0. fan[<<Upstream, s>>] = Len(DownstreamList) + 1
    BY <1>2 DEF LoopInv
  <2>1. fan[<<Upstream, s>>] - 1 = Len(DownstreamList)
    BY <2>0, PostAssumption
  <2>2. PICK k \in DOMAIN DownstreamList : DownstreamList[k] = d
    BY DEF Downstreams
  <2>3. k \in 1..Len(DownstreamList)
    BY <2>2, PostAssumption
  <2>4. QED
    BY <1>1, <2>1, <2>2, <2>3
<1>3. QED
  BY <1>1, <1>2

(* Whatever the interleaving of the workers and wherever CreateWatchUpdate *)
(* fails, the downstream watches that have an update of a sequence are     *)
(* exactly the prefix of ListDownstreamWatchIDs' result that the upstream  *)
(* loop has passed, and all of them once postUpdateActions returned nil.   *)
THEOREM DownstreamsCreatedInOrder == Spec => []DownstreamsCreated
<1>1. Init => IInv /\ LoopInv
  BY IInvInit, LoopInvInit
<1>2. (IInv /\ LoopInv) /\ [Next]_vars => (IInv /\ LoopInv)'
  BY IInvStep, LoopInvStep
<1>3. QED
  BY <1>1, <1>2, LoopInvCreated, PTL DEF Spec
=============================================================================
