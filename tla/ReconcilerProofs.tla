-------------------------- MODULE ReconcilerProofs --------------------------
(***************************************************************************)
(* Proofs about Reconciler for every value of its constants.               *)
(***************************************************************************)
EXTENDS Reconciler, TLAPS

(* A "present" list of the served documents is a sequence of at most       *)
(* MaxEntries manifests.                                                   *)
LEMMA EntriesAreShortSeqs ==
    ASSUME NEW e \in Entries
    PROVE  e \in Seq(Manifests) /\ Len(e) <= MaxEntries
<1>1. PICK n \in 0..MaxEntries : e \in [1..n -> Manifests]
  BY DEF Entries
<1>2. QED
  BY <1>1, ConstantsAssumption

(* TypeOK is not inductive alone: an apply step records entry i, so i      *)
(* must still be a position of present while the apply is pending.         *)
TypeInv ==
    /\ TypeOK
    /\ pc = "apply" => i <= Len(present)

LEMMA TypeInvInit == Init => TypeInv
<1> SUFFICES ASSUME Init PROVE TypeInv
  OBVIOUS
<1>1. present \in Entries
  <2>1. present \in [1..0 -> Manifests]
    BY DEF Init
  <2>2. 0 \in 0..MaxEntries
    BY ConstantsAssumption
  <2>3. QED
    BY <2>1, <2>2 DEF Entries
<1>2. QED
  BY <1>1, ConstantsAssumption DEF Init, TypeInv, TypeOK

LEMMA TypeInvStep == TypeInv /\ [Next]_vars => TypeInv'
<1> SUFFICES ASSUME TypeInv, [Next]_vars PROVE TypeInv'
  OBVIOUS
<1> USE ConstantsAssumption
<1>1. Len(present) <= MaxEntries /\ present \in Seq(Manifests)
  BY EntriesAreShortSeqs DEF TypeInv, TypeOK
<1>2. CASE PollOK
  BY <1>2, EntriesAreShortSeqs DEF PollOK, TypeInv, TypeOK
<1>3. CASE PollFail \/ PollHang \/ EndRange \/ Sleep
  BY <1>3 DEF PollFail, PollHang, EndRange, Sleep, TypeInv, TypeOK
<1>4. CASE DecodeError \/ FilterError
  BY <1>1, <1>4 DEF DecodeError, FilterError, Skip, TypeInv, TypeOK, Stage
<1>5. CASE EnsureFail
  <2>2. logged' \subseteq (1..MaxEntries) \X Stage /\ i' \in 1..(MaxEntries + 1)
    BY <1>1, <1>5 DEF EnsureFail, Skip, TypeInv, TypeOK, Stage
  <2>3. calls' \in Seq(Call)
    <3>1. [op |-> "dryrun", idx |-> i, ok |-> FALSE] \in Call
      BY <1>1, <1>5 DEF EnsureFail, TypeInv, TypeOK, Call
    <3>2. QED
      BY <3>1, <1>5 DEF EnsureFail, TypeInv, TypeOK
  <2>4. QED
    BY <2>2, <2>3, <1>5 DEF EnsureFail, Skip, TypeInv, TypeOK
<1>6. CASE DryRunOK
  BY <1>1, <1>6 DEF DryRunOK, TypeInv, TypeOK, Call
<1>7. CASE ApplyOK \/ ApplyFail
  <2>1. PICK applied \in SUBSET Deployable(present[i]), ok \in BOOLEAN :
             Apply(applied, ok)
    BY <1>7 DEF ApplyOK, ApplyFail
  <2>2. Deployable(present[i]) \subseteq Objects
    BY <1>1, <2>1 DEF Apply, TypeInv, TypeOK, Deployable
  <2>3. QED
    BY <1>1, <2>1, <2>2 DEF Apply, TypeInv, TypeOK, Call
<1>8. CASE ServerUpdate \/ ExternalDelete
  BY <1>8 DEF ServerUpdate, ExternalDelete, TypeInv, TypeOK
<1>9. CASE UNCHANGED vars
  BY <1>9 DEF vars, TypeInv, TypeOK
<1>10. QED
  BY <1>2, <1>3, <1>4, <1>5, <1>6, <1>7, <1>8, <1>9 DEF Next, Agent

(* Every reachable state is well typed.                                    *)
THEOREM TypeCorrect == Spec => []TypeOK
<1>1. Spec => []TypeInv
  BY TypeInvInit, TypeInvStep, PTL DEF Spec
<1>2. QED
  BY <1>1, PTL DEF TypeInv
-----------------------------------------------------------------------------
(* Only the real apply of the entry whose dry run has just passed adds     *)
(* objects to the cluster, and only objects of that entry.                 *)
THEOREM GateAlwaysRespected == Spec => GateRespected
<1> DEFINE Gate == cluster' \ cluster # {} =>
                     /\ pc = "apply"
                     /\ cluster' \ cluster \subseteq Deployable(present[i])
<1>1. [Next]_vars => [Gate]_vars
  <2> SUFFICES ASSUME [Next]_vars PROVE Gate
    BY DEF vars
  <2>1. CASE ApplyOK \/ ApplyFail
    <3>1. PICK applied \in SUBSET Deployable(present[i]), ok \in BOOLEAN :
               Apply(applied, ok)
      BY <2>1 DEF ApplyOK, ApplyFail
    <3>2. QED
      BY <3>1 DEF Apply
  <2>2. CASE ExternalDelete
    BY <2>2 DEF ExternalDelete
  <2>3. CASE ~(ApplyOK \/ ApplyFail \/ ExternalDelete)
    BY <2>3 DEF Next, Agent, vars, PollOK, PollFail, PollHang, DecodeError,
              FilterError, EnsureFail, Skip, DryRunOK, EndRange, Sleep,
              ServerUpdate
  <2>4. QED
    BY <2>1, <2>2, <2>3
<1>2. QED
  BY <1>1, PTL DEF Spec, GateRespected
-----------------------------------------------------------------------------
(* Refinement of ReconcilerAbstract.  While an apply is pending, the entry *)
(* it applies has passed its dry run: it decodes and is not invalid.       *)
ApplyPending == pc = "apply" => Good(present[i])

LEMMA ApplyPendingStep ==
    TypeInv /\ ApplyPending /\ [Next]_vars => ApplyPending'
<1> SUFFICES ASSUME TypeInv, ApplyPending, [Next]_vars PROVE ApplyPending'
  OBVIOUS
<1>1. CASE DryRunOK
  BY <1>1 DEF DryRunOK, ApplyPending, Good
<1>2. CASE ApplyOK \/ ApplyFail
  <2>1. PICK applied \in SUBSET Deployable(present[i]), ok \in BOOLEAN :
             Apply(applied, ok)
    BY <1>2 DEF ApplyOK, ApplyFail
  <2>2. QED
    BY <2>1 DEF Apply, ApplyPending
<1>3. CASE PollOK \/ PollFail \/ PollHang \/ EndRange \/ Sleep
  BY <1>3 DEF PollOK, PollFail, PollHang, EndRange, Sleep, ApplyPending
<1>4. CASE DecodeError \/ FilterError \/ EnsureFail
  BY <1>4 DEF DecodeError, FilterError, EnsureFail, Skip, ApplyPending
<1>5. CASE ServerUpdate \/ ExternalDelete
  BY <1>5 DEF ServerUpdate, ExternalDelete, ApplyPending
<1>6. CASE UNCHANGED vars
  BY <1>6 DEF vars, ApplyPending
<1>7. QED
  BY <1>1, <1>2, <1>3, <1>4, <1>5, <1>6 DEF Next, Agent

(* Every step of the loop is a step of the abstract reconciler or leaves   *)
(* its state alone.                                                        *)
LEMMA RefinementStep ==
    TypeInv /\ ApplyPending /\ [Next]_vars
        => [Abstract!Next]_Abstract!avars
<1> SUFFICES ASSUME TypeInv, ApplyPending, [Next]_vars
             PROVE  [Abstract!Next]_Abstract!avars
  OBVIOUS
<1>1. CASE PollOK
  BY <1>1 DEF PollOK, Abstract!Next, Abstract!Fetch
<1>2. CASE ApplyOK \/ ApplyFail
  <2>1. PICK applied \in SUBSET Deployable(present[i]), ok \in BOOLEAN :
             Apply(applied, ok)
    BY <1>2 DEF ApplyOK, ApplyFail
  <2>2. i \in DOMAIN present /\ Good(present[i])
    BY <2>1 DEF Apply, TypeInv, TypeOK, ApplyPending
  <2>3. Abstract!Deploy
    BY <2>1, <2>2 DEF Apply, Abstract!Deploy, Abstract!Acceptable,
                     Abstract!Deployable, Deployable, Good, Decodes
  <2>4. QED
    BY <2>3 DEF Abstract!Next
<1>3. CASE ServerUpdate
  BY <1>3 DEF ServerUpdate, Abstract!Next, Abstract!ServerUpdate
<1>4. CASE ExternalDelete
  BY <1>4 DEF ExternalDelete, Abstract!Next, Abstract!ExternalDelete
<1>5. CASE PollFail \/ PollHang \/ EndRange \/ Sleep \/ DryRunOK
  BY <1>5 DEF PollFail, PollHang, EndRange, Sleep, DryRunOK, Abstract!avars
<1>6. CASE DecodeError \/ FilterError \/ EnsureFail
  BY <1>6 DEF DecodeError, FilterError, EnsureFail, Skip, Abstract!avars
<1>7. CASE UNCHANGED vars
  BY <1>7 DEF vars, Abstract!avars
<1>8. QED
  BY <1>1, <1>2, <1>3, <1>4, <1>5, <1>6, <1>7 DEF Next, Agent

(* The reconciliation loop implements ReconcilerAbstract: the cluster only *)
(* gains non-internal objects of acceptable manifests of a polled          *)
(* document, for every value of the constants.                             *)
THEOREM Refinement == Spec => ImplementsAbstract
<1>1. Init => Abstract!Init
  BY DEF Init, Abstract!Init
<1>2. Init => ApplyPending
  BY DEF Init, ApplyPending
<1>3. Spec => [](TypeInv /\ ApplyPending)
  BY <1>2, TypeInvInit, TypeInvStep, ApplyPendingStep, PTL DEF Spec
<1>4. QED
  BY <1>1, <1>3, RefinementStep, PTL DEF Spec, ImplementsAbstract, Abstract!Spec
-----------------------------------------------------------------------------
(* The invariant behind IterationOrder.  The range loop ends only with i  *)
(* one past the last entry; while an apply is pending the last call is the *)
(* passing dry run of entry i; every other recorded kubectl call is of an  *)
(* entry before i; and every decodable entry before i was attempted.       *)
LoopBound == i <= Len(present) + 1 /\ (pc = "sleep" => i = Len(present) + 1)
DryRunPending ==
    pc = "apply" => /\ Len(calls) >= 1
                    /\ calls[Len(calls)] = [op |-> "dryrun", idx |-> i, ok |-> TRUE]
CallsBefore == \A b \in 1..Len(calls) : calls[b].idx < i \/ (pc = "apply" /\ b = Len(calls))
Attempted ==
    \A k \in 1..(i - 1) :
        Decodes(present[k]) =>
            \/ <<k, "apply">> \in logged
            \/ \E b \in 1..Len(calls) : calls[b].idx = k
OrderInv ==
    /\ TypeInv /\ LoopBound /\ DryRunPending /\ CallsBefore /\ Attempted
    /\ InListOrder /\ ApplyGated

(* InListOrder and ApplyGated, said of any sequence of kubectl calls.      *)
Ordered(s) ==
    \A a, b \in 1..Len(s) :
        a < b => \/ s[a].idx < s[b].idx
                 \/ s[a].idx = s[b].idx /\ s[a].op = "dryrun" /\ s[b].op = "apply"
Gated(s) ==
    \A b \in 1..Len(s) :
        s[b].op = "apply" =>
            b > 1 /\ s[b - 1] = [op |-> "dryrun", idx |-> s[b].idx, ok |-> TRUE]

(* What Append does to a sequence of calls.                                *)
LEMMA AppendCall ==
    ASSUME NEW s \in Seq(Call), NEW c \in Call
    PROVE  /\ Append(s, c) \in Seq(Call)
           /\ Len(Append(s, c)) = Len(s) + 1
           /\ Append(s, c)[Len(s) + 1] = c
           /\ \A b \in 1..Len(s) : Append(s, c)[b] = s[b]
  OBVIOUS

(* A call appended after calls of earlier entries, or an apply after the   *)
(* dry run of its own entry, keeps the calls in list order.                *)
LEMMA AppendOrdered ==
    ASSUME NEW s \in Seq(Call), NEW c \in Call, Ordered(s),
           \A a \in 1..Len(s) :
               \/ s[a].idx < c.idx
               \/ a = Len(s) /\ s[a].idx = c.idx /\ s[a].op = "dryrun" /\ c.op = "apply"
    PROVE  Ordered(Append(s, c))
<1> SUFFICES ASSUME NEW a \in 1..Len(s) + 1, NEW b \in 1..Len(s) + 1, a < b
             PROVE  LET t == Append(s, c) IN
                      \/ t[a].idx < t[b].idx
                      \/ t[a].idx = t[b].idx /\ t[a].op = "dryrun" /\ t[b].op = "apply"
  BY AppendCall DEF Ordered
<1>1. CASE b <= Len(s)
  BY <1>1, AppendCall DEF Ordered
<1>2. CASE b = Len(s) + 1
  BY <1>2, AppendCall
<1>3. QED
  BY <1>1, <1>2

(* An apply appended right after the passing dry run of its entry keeps    *)
(* every apply gated.                                                      *)
LEMMA AppendGated ==
    ASSUME NEW s \in Seq(Call), NEW c \in Call, Gated(s),
           c.op = "apply" => Len(s) >= 1 /\ s[Len(s)] = [op |-> "dryrun", idx |-> c.idx, ok |-> TRUE]
    PROVE  Gated(Append(s, c))
<1> SUFFICES ASSUME NEW b \in 1..Len(s) + 1, Append(s, c)[b].op = "apply"
             PROVE  b > 1 /\ Append(s, c)[b - 1] = [op |-> "dryrun", idx |-> Append(s, c)[b].idx, ok |-> TRUE]
  BY AppendCall DEF Gated
<1>1. CASE b <= Len(s)
  <2>1. s[b].op = "apply"
    BY <1>1, AppendCall
  <2>2. b > 1 /\ s[b - 1] = [op |-> "dryrun", idx |-> s[b].idx, ok |-> TRUE]
    BY <1>1, <2>1 DEF Gated
  <2>3. Append(s, c)[b] = s[b] /\ Append(s, c)[b - 1] = s[b - 1]
    BY <1>1, <2>2, AppendCall
  <2>4. QED
    BY <2>2, <2>3
<1>2. CASE b = Len(s) + 1
  <2>1. c.op = "apply"
    BY <1>2, AppendCall
  <2>2. Len(s) >= 1 /\ s[Len(s)] = [op |-> "dryrun", idx |-> c.idx, ok |-> TRUE]
    BY <2>1
  <2>3. Append(s, c)[b] = c /\ Append(s, c)[b - 1] = s[Len(s)]
    BY <1>2, <2>2, AppendCall
  <2>4. QED
    BY <1>2, <2>2, <2>3
<1>3. b <= Len(s) \/ b = Len(s) + 1
  OBVIOUS
<1>4. QED
  BY <1>1, <1>2, <1>3

LEMMA OrderInvInit == Init => OrderInv
<1> SUFFICES ASSUME Init PROVE OrderInv
  OBVIOUS
<1>1. TypeInv
  BY TypeInvInit
<1>2. QED
  BY <1>1 DEF Init, OrderInv, LoopBound, DryRunPending, CallsBefore, Attempted,
               InListOrder, ApplyGated

(* An entry attempted before a step is still attempted after it, when the  *)
(* step only appends calls and records errors.                             *)
LEMMA AttemptedKept ==
    ASSUME NEW s \in Seq(Call), NEW t \in Seq(Call), NEW L, NEW M, NEW k,
           L \subseteq M, Len(s) <= Len(t), \A b \in 1..Len(s) : t[b] = s[b],
           <<k, "apply">> \in L \/ \E b \in 1..Len(s) : s[b].idx = k
    PROVE  <<k, "apply">> \in M \/ \E b \in 1..Len(t) : t[b].idx = k
  OBVIOUS

(* A step that leaves the calls, the index, the entries and the errors     *)
(* alone, and does not start an apply, keeps the order facts.              *)
LEMMA FramedStep ==
    ASSUME OrderInv,
           calls' = calls, i' = i, present' = present, logged' = logged,
           pc' = pc \/ (pc # "apply" /\ pc' # "apply")
    PROVE  DryRunPending' /\ CallsBefore' /\ Attempted' /\ InListOrder' /\ ApplyGated'
<1>1. DryRunPending'
  BY DEF OrderInv, DryRunPending
<1>2. CallsBefore'
  BY DEF OrderInv, CallsBefore
<1>3. Attempted'
  BY DEF OrderInv, Attempted
<1>4. InListOrder' /\ ApplyGated'
  BY DEF OrderInv, InListOrder, ApplyGated
<1>5. QED
  BY <1>1, <1>2, <1>3, <1>4

LEMMA OrderInvStep == OrderInv /\ [Next]_vars => OrderInv'
<1> SUFFICES ASSUME OrderInv, [Next]_vars PROVE OrderInv'
  OBVIOUS
<1> USE ConstantsAssumption
<1>1. TypeInv'
  BY TypeInvStep DEF OrderInv
<1>2. /\ calls \in Seq(Call) /\ present \in Seq(Manifests)
      /\ Len(present) <= MaxEntries /\ i \in 1..(MaxEntries + 1)
      /\ \A b \in 1..Len(calls) : calls[b].idx \in 1..MaxEntries
  <2>1. /\ calls \in Seq(Call) /\ present \in Seq(Manifests)
        /\ Len(present) <= MaxEntries /\ i \in 1..(MaxEntries + 1)
    BY EntriesAreShortSeqs DEF OrderInv, TypeInv, TypeOK
  <2>2. \A b \in 1..Len(calls) : calls[b] \in Call
    BY <2>1
  <2>3. QED
    BY <2>1, <2>2 DEF Call
<1>3. /\ InListOrder = Ordered(calls) /\ ApplyGated = Gated(calls)
      /\ InListOrder' = Ordered(calls') /\ ApplyGated' = Gated(calls')
  BY DEF InListOrder, ApplyGated, Ordered, Gated
<1>4. CASE PollOK
  <2>1. present' \in Seq(Manifests) /\ calls' = <<>> /\ i' = 1 /\ pc' = "deploy"
    BY <1>1, <1>4, EntriesAreShortSeqs DEF PollOK, TypeInv, TypeOK
  <2>2. LoopBound' /\ DryRunPending' /\ CallsBefore' /\ Attempted'
    BY <2>1 DEF LoopBound, DryRunPending, CallsBefore, Attempted
  <2>3. InListOrder' /\ ApplyGated'
    BY <2>1 DEF InListOrder, ApplyGated
  <2>4. QED
    BY <1>1, <2>2, <2>3 DEF OrderInv
<1>5. CASE PollFail \/ PollHang \/ Sleep \/ ServerUpdate \/ ExternalDelete \/ UNCHANGED vars
  <2>1. /\ calls' = calls /\ i' = i /\ present' = present /\ logged' = logged
        /\ pc' = pc \/ (pc # "apply" /\ pc' # "apply" /\ pc' # "sleep")
    BY <1>5 DEF PollFail, PollHang, Sleep, ServerUpdate, ExternalDelete, vars
  <2>2. LoopBound'
    BY <2>1 DEF OrderInv, LoopBound
  <2>3. QED
    BY <1>1, <2>1, <2>2, FramedStep DEF OrderInv
<1>6. CASE EndRange
  <2>1. /\ calls' = calls /\ i' = i /\ present' = present /\ logged' = logged
        /\ pc = "deploy" /\ pc' = "sleep" /\ i > Len(present)
    BY <1>6 DEF EndRange
  <2>2. LoopBound'
    BY <1>2, <2>1 DEF OrderInv, LoopBound
  <2>3. QED
    BY <1>1, <2>1, <2>2, FramedStep DEF OrderInv
<1>7. CASE DecodeError \/ FilterError
  <2>1. /\ pc = "deploy" /\ i <= Len(present) /\ ~Decodes(present[i])
        /\ pc' = pc /\ present' = present /\ calls' = calls /\ i' = i + 1
        /\ logged \subseteq logged'
    BY <1>7 DEF DecodeError, FilterError, Skip, Decodes
  <2>2. LoopBound' /\ DryRunPending'
    BY <1>2, <2>1 DEF LoopBound, DryRunPending
  <2>3. CallsBefore'
    <3> SUFFICES ASSUME NEW b \in 1..Len(calls) PROVE calls[b].idx < i + 1
      BY <2>1 DEF CallsBefore
    <3>1. calls[b].idx < i
      BY <2>1 DEF OrderInv, CallsBefore
    <3>2. QED
      BY <1>2, <3>1
  <2>4. Attempted'
    <3> SUFFICES ASSUME NEW k \in 1..(i' - 1), Decodes(present'[k])
                 PROVE  \/ <<k, "apply">> \in logged'
                        \/ \E b \in 1..Len(calls') : calls'[b].idx = k
      BY DEF Attempted
    <3>1. k \in 1..(i - 1)
      BY <1>2, <2>1
    <3>2. QED
      BY <1>2, <2>1, <3>1, AttemptedKept DEF OrderInv, Attempted
  <2>5. InListOrder' /\ ApplyGated'
    BY <2>1 DEF OrderInv, InListOrder, ApplyGated
  <2>6. QED
    BY <1>1, <2>2, <2>3, <2>4, <2>5 DEF OrderInv
<1>8. CASE EnsureFail
  <2> DEFINE c == [op |-> "dryrun", idx |-> i, ok |-> FALSE]
  <2>1. /\ pc = "deploy" /\ i <= Len(present)
        /\ pc' = pc /\ present' = present /\ i' = i + 1
        /\ logged' = logged \cup {<<i, "apply">>}
        /\ calls' \in {calls, Append(calls, c)}
    BY <1>8 DEF EnsureFail, Skip
  <2>2. c \in Call
    BY <1>2, <2>1 DEF Call
  <2>3. \A b \in 1..Len(calls) : calls[b].idx < i
    BY <2>1 DEF OrderInv, CallsBefore
  <2>4. /\ calls' \in Seq(Call) /\ Len(calls) <= Len(calls')
        /\ \A b \in 1..Len(calls) : calls'[b] = calls[b]
        /\ \A b \in 1..Len(calls') : calls'[b].idx < i + 1
    <3>1. CASE calls' = calls
      BY <1>2, <2>3, <3>1
    <3>2. CASE calls' = Append(calls, c)
      <4>1. /\ Len(calls') = Len(calls) + 1 /\ calls'[Len(calls) + 1] = c
            /\ \A b \in 1..Len(calls) : calls'[b] = calls[b]
            /\ calls' \in Seq(Call)
        BY <1>2, <2>2, <3>2, AppendCall
      <4>2. \A b \in 1..Len(calls') : calls'[b].idx < i + 1
        <5> SUFFICES ASSUME NEW b \in 1..Len(calls') PROVE calls'[b].idx < i + 1
          OBVIOUS
        <5>1. CASE b = Len(calls) + 1
          BY <1>2, <4>1, <5>1
        <5>2. CASE b \in 1..Len(calls)
          BY <1>2, <2>3, <4>1, <5>2
        <5>3. QED
          BY <1>2, <4>1, <5>1, <5>2
      <4>3. QED
        BY <1>2, <4>1, <4>2
    <3>3. QED
      BY <2>1, <3>1, <3>2
  <2>5. LoopBound' /\ DryRunPending' /\ CallsBefore'
    BY <1>2, <2>1, <2>4 DEF LoopBound, DryRunPending, CallsBefore
  <2>6. Ordered(calls') /\ Gated(calls')
    <3>1. Ordered(calls) /\ Gated(calls)
      BY <1>3 DEF OrderInv
    <3>2. Ordered(Append(calls, c)) /\ Gated(Append(calls, c))
      BY <1>2, <2>2, <2>3, <3>1, AppendOrdered, AppendGated
    <3>3. QED
      BY <2>1, <3>1, <3>2
  <2>7. Attempted'
    <3> SUFFICES ASSUME NEW k \in 1..(i' - 1), Decodes(present'[k])
                 PROVE  \/ <<k, "apply">> \in logged'
                        \/ \E b \in 1..Len(calls') : calls'[b].idx = k
      BY DEF Attempted
    <3>1. CASE k = i
      BY <2>1, <3>1
    <3>2. CASE k \in 1..(i - 1)
      <4>1. \/ <<k, "apply">> \in logged
            \/ \E b \in 1..Len(calls) : calls[b].idx = k
        BY <2>1, <3>2 DEF OrderInv, Attempted
      <4>2. QED
        BY <1>2, <2>1, <2>4, <4>1, AttemptedKept
    <3>3. k = i \/ k \in 1..(i - 1)
      BY <1>2, <2>1
    <3>4. QED
      BY <3>1, <3>2, <3>3
  <2>8. QED
    BY <1>1, <1>3, <2>5, <2>6, <2>7 DEF OrderInv
<1>9. CASE DryRunOK
  <2> DEFINE c == [op |-> "dryrun", idx |-> i, ok |-> TRUE]
  <2>1. /\ pc = "deploy" /\ i <= Len(present)
        /\ pc' = "apply" /\ present' = present /\ i' = i /\ logged' = logged
        /\ calls' = Append(calls, c)
    BY <1>9 DEF DryRunOK
  <2>2. c \in Call
    BY <1>2, <2>1 DEF Call
  <2>3. \A b \in 1..Len(calls) : calls[b].idx < i
    BY <2>1 DEF OrderInv, CallsBefore
  <2>4. /\ Len(calls') = Len(calls) + 1
        /\ calls'[Len(calls')] = c
        /\ \A b \in 1..Len(calls) : calls'[b] = calls[b]
    BY <1>2, <2>1, <2>2, AppendCall
  <2>5. LoopBound' /\ DryRunPending' /\ CallsBefore'
    BY <1>2, <2>1, <2>3, <2>4 DEF LoopBound, DryRunPending, CallsBefore
  <2>6. Ordered(calls') /\ Gated(calls')
    <3>1. Ordered(calls) /\ Gated(calls)
      BY <1>3 DEF OrderInv
    <3>2. QED
      BY <1>2, <2>1, <2>2, <2>3, <3>1, AppendOrdered, AppendGated
  <2>7. Attempted'
    BY <1>2, <2>1, <2>4, AttemptedKept DEF OrderInv, Attempted
  <2>8. QED
    BY <1>1, <1>3, <2>5, <2>6, <2>7 DEF OrderInv
<1>10. CASE ApplyOK \/ ApplyFail
  <2>1. PICK applied \in SUBSET Deployable(present[i]), ok \in BOOLEAN :
             Apply(applied, ok)
    BY <1>10 DEF ApplyOK, ApplyFail
  <2> DEFINE c == [op |-> "apply", idx |-> i, ok |-> ok]
  <2>2. /\ pc = "apply" /\ i <= Len(present)
        /\ pc' = "deploy" /\ present' = present /\ i' = i + 1 /\ logged' = logged
        /\ calls' = Append(calls, c)
    BY <2>1 DEF Apply, OrderInv, TypeInv
  <2>3. c \in Call
    BY <1>2, <2>2 DEF Call
  <2>4. /\ Len(calls) >= 1
        /\ calls[Len(calls)] = [op |-> "dryrun", idx |-> i, ok |-> TRUE]
        /\ \A b \in 1..Len(calls) : calls[b].idx < i \/ b = Len(calls)
    BY <2>2 DEF OrderInv, DryRunPending, CallsBefore
  <2>5. /\ Len(calls') = Len(calls) + 1
        /\ calls'[Len(calls')] = c
        /\ \A b \in 1..Len(calls) : calls'[b] = calls[b]
    BY <1>2, <2>2, <2>3, AppendCall
  <2>6. \A b \in 1..Len(calls') : calls'[b].idx < i'
    <3> SUFFICES ASSUME NEW b \in 1..Len(calls') PROVE calls'[b].idx < i + 1
      BY <2>2
    <3>1. CASE b = Len(calls')
      BY <1>2, <2>5, <3>1
    <3>2. CASE b \in 1..Len(calls)
      <4>1. calls[b].idx <= i
        BY <1>2, <2>4, <3>2
      <4>2. QED
        BY <1>2, <2>5, <3>2, <4>1
    <3>3. QED
      BY <1>2, <2>5, <3>1, <3>2
  <2>7. LoopBound' /\ DryRunPending' /\ CallsBefore'
    BY <1>2, <2>2, <2>6 DEF LoopBound, DryRunPending, CallsBefore, TypeInv
  <2>8. Ordered(calls') /\ Gated(calls')
    <3>1. Ordered(calls) /\ Gated(calls)
      BY <1>3 DEF OrderInv
    <3>2. \A a \in 1..Len(calls) :
            \/ calls[a].idx < c.idx
            \/ a = Len(calls) /\ calls[a].idx = c.idx /\ calls[a].op = "dryrun" /\ c.op = "apply"
      BY <2>4
    <3>3. QED
      BY <1>2, <2>2, <2>3, <2>4, <3>1, <3>2, AppendOrdered, AppendGated
  <2>9. Attempted'
    <3> SUFFICES ASSUME NEW k \in 1..(i' - 1), Decodes(present'[k])
                 PROVE  \/ <<k, "apply">> \in logged'
                        \/ \E b \in 1..Len(calls') : calls'[b].idx = k
      BY DEF Attempted
    <3>1. CASE k = i
      <4>1. Len(calls') \in 1..Len(calls') /\ calls'[Len(calls')].idx = i
        BY <1>2, <2>5
      <4>2. QED
        BY <3>1, <4>1
    <3>2. CASE k \in 1..(i - 1)
      <4>1. \/ <<k, "apply">> \in logged
            \/ \E b \in 1..Len(calls) : calls[b].idx = k
        BY <2>2, <3>2 DEF OrderInv, Attempted
      <4>2. calls' \in Seq(Call) /\ Len(calls) <= Len(calls')
        BY <1>2, <2>2, <2>3, AppendCall
      <4>3. QED
        BY <1>2, <2>2, <2>5, <4>1, <4>2, AttemptedKept
    <3>3. k = i \/ k \in 1..(i - 1)
      BY <1>2, <2>2
    <3>4. QED
      BY <3>1, <3>2, <3>3
  <2>10. QED
    BY <1>1, <1>3, <2>7, <2>8, <2>9 DEF OrderInv
<1>11. QED
  BY <1>4, <1>5, <1>6, <1>7, <1>8, <1>9, <1>10 DEF Next, Agent

(* Every iteration of Run calls kubectl in the list order of the served    *)
(* manifests, applies an entry only right after its dry run passed, and    *)
(* reaches time.Sleep only after every decodable entry was attempted: an   *)
(* error on one manifest never stops its siblings.  This holds for every   *)
(* document the server may serve and every length of its "present" list.  *)
THEOREM IterationInOrder == Spec => []IterationOrder
<1>1. OrderInv => IterationOrder
  <2> SUFFICES ASSUME OrderInv PROVE AllAttempted
    BY DEF OrderInv, IterationOrder
  <2>1. pc = "sleep" => i - 1 = Len(present)
    BY EntriesAreShortSeqs DEF OrderInv, LoopBound, TypeInv, TypeOK
  <2>2. QED
    BY <2>1 DEF OrderInv, Attempted, AllAttempted
<1>2. QED
  BY <1>1, OrderInvInit, OrderInvStep, PTL DEF Spec
=============================================================================
