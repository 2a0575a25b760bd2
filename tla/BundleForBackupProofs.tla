------------------------ MODULE BundleForBackupProofs ------------------------
(***************************************************************************)
(* Proofs about BundleForBackup: the collectors' progress messages all     *)
(* reach the logging goroutine before the bundle is tarred.                *)
(***************************************************************************)
EXTENDS BundleForBackup, TLAPS

(* The invariant behind EveryCollectorReported.  The collectors before k   *)
(* were announced and received; while collector k runs its name is either *)
(* still offered on the channel or already received, and the loop only    *)
(* leaves through EndCollectors, with k one past the last collector.       *)
IInv ==
    /\ TypeOK
    /\ \A c \in 1..(k - 1) : <<c, "name">> \in logged
    /\ pc = "run" => k \in Collectors /\ (pending = <<k, "name">> \/ <<k, "name">> \in logged)
    /\ pc \in {"tar", "store", "analyze", "done"} => k = NumCollectors + 1

LEMMA IInvInit == Init => IInv
<1> SUFFICES ASSUME Init PROVE IInv
  OBVIOUS
<1>1. pending \in Msg \cup {NoMsg}
  BY DEF Init
<1>2. k \in 1..NumCollectors + 1 /\ 1..(k - 1) = {}
  BY DEF Init, NumCollectors
<1>3. QED
  BY <1>1, <1>2 DEF Init, IInv, TypeOK

LEMMA IInvStep == IInv /\ [Next]_vars => IInv'
<1> SUFFICES ASSUME IInv, [Next]_vars PROVE IInv'
  OBVIOUS
<1>1. CASE Setup
  BY <1>1 DEF Setup, Return, IInv, TypeOK
<1>2. CASE Collect
  BY <1>2 DEF Collect, Ready, IInv, TypeOK, Msg, Collectors
<1>3. CASE Run
  <2>1. <<k, "name">> \in logged /\ k \in Collectors
    BY <1>3 DEF Run, Ready, IInv, NoMsg
  <2>2. \A c \in 1..(k' - 1) : <<c, "name">> \in logged'
    <3> SUFFICES ASSUME NEW c \in 1..(k' - 1) PROVE <<c, "name">> \in logged'
      OBVIOUS
    <3>1. c \in 1..(k - 1) \/ c = k
      BY <1>3, <2>1 DEF Run, Collectors, NumCollectors
    <3>2. logged' = logged
      BY <1>3 DEF Run
    <3>3. QED
      BY <3>1, <3>2, <2>1 DEF IInv
  <2>3. TypeOK'
    <3>1. k' \in 1..NumCollectors + 1
      BY <1>3, <2>1 DEF Run, Collectors, NumCollectors
    <3>2. <<k, "collectfail">> \in Msg /\ <<k, "savefail">> \in Msg
      BY <2>1 DEF Msg
    <3>3. pending' \in Msg \cup {NoMsg}
      BY <1>3, <3>2, Zenon DEF Run, IInv, TypeOK
    <3>4. saved' \subseteq Collectors
      BY <1>3, <2>1, Zenon DEF Run, IInv, TypeOK
    <3>5. QED
      BY <1>3, <3>1, <3>3, <3>4 DEF Run, IInv, TypeOK
  <2>4. QED
    BY <1>3, <2>2, <2>3 DEF Run, IInv
<1>4. CASE EndCollectors
  BY <1>4 DEF EndCollectors, IInv, TypeOK, NumCollectors
<1>5. CASE Tar \/ Store \/ Analyze
  BY <1>5 DEF Tar, Store, Analyze, Return, IInv, TypeOK
<1>6. CASE LogReceive
  BY <1>6 DEF LogReceive, IInv, TypeOK, NoMsg, Msg
<1>7. CASE LogExit
  BY <1>7 DEF LogExit, IInv, TypeOK
<1>8. CASE UNCHANGED vars
  BY <1>8 DEF vars, IInv, TypeOK
<1>9. QED
  BY <1>1, <1>2, <1>3, <1>4, <1>5, <1>6, <1>7, <1>8 DEF Next, Main, Logger

(* CreateBundleForBackup never tars a bundle before every collector's name *)
(* has been received by its logging goroutine, for every interleaving of   *)
(* the two goroutines.                                                     *)
THEOREM CollectorsReported == Spec => []EveryCollectorReported
<1>1. IInv => EveryCollectorReported
  <2> SUFFICES ASSUME IInv, pc \in {"tar", "store", "analyze", "done"},
                      NEW c \in Collectors
               PROVE  <<c, "name">> \in logged
    BY DEF EveryCollectorReported
  <2>1. c \in 1..(k - 1)
    BY DEF IInv, Collectors, NumCollectors
  <2>2. QED
    BY <2>1 DEF IInv
<1>2. QED
  BY IInvInit, IInvStep, <1>1, PTL DEF Spec

(* Every reachable state of the function and its goroutine is well typed:  *)
(* the loop index stays within one past the last collector and only        *)
(* collectors' messages travel on the channel.                             *)
THEOREM BundleTypeCorrect == Spec => []TypeOK
  BY IInvInit, IInvStep, PTL DEF Spec, IInv
=============================================================================
