-------------------------- MODULE BundleForBackup --------------------------
(***************************************************************************)
(* supportbundle.CreateBundleForBackup (pkg/supportbundle/backup.go): runs *)
(* the velero and restic log collectors one after the other, tars the      *)
(* bundle, stores it, analyses it and stores the analysis.  Progress goes  *)
(* over an unbuffered channel to a goroutine that logs it; the channel is  *)
(* closed by a deferred close when the function returns, and the goroutine *)
(* returns when it sees the channel closed.                                *)
(***************************************************************************)
EXTENDS Naturals

(* The collectors the function builds: velero (1) and restic (2).          *)
NumCollectors == 2
Collectors == 1..NumCollectors

NoMsg == <<0, "none">>
Msg == Collectors \X {"name", "collectfail", "savefail"}

VARIABLES
    pc,        \* where CreateBundleForBackup is
    k,         \* the collector the loop is at
    pending,   \* the message a blocked progressChan <- send offers
    chanOpen,  \* progressChan not yet closed
    logger,    \* the logging goroutine: running or returned
    logged,    \* messages the goroutine received
    saved,     \* collectors with output written under bundlePath
    stored,    \* CreateBundle stored the bundle
    analysed   \* SetBundleAnalysis stored its analysis

vars == <<pc, k, pending, chanOpen, logger, logged, saved, stored, analysed>>

TypeOK ==
    /\ pc \in {"start", "collect", "run", "tar", "store", "analyze", "done", "error"}
    /\ k \in 1..NumCollectors + 1
    /\ pending \in Msg \cup {NoMsg}
    /\ chanOpen \in BOOLEAN
    /\ logger \in {"running", "returned"}
    /\ logged \subseteq Msg
    /\ saved \subseteq Collectors
    /\ stored \in BOOLEAN /\ analysed \in BOOLEAN

(* After make(chan interface{}, 0), the deferred close and go func().      *)
Init ==
    /\ pc = "start" /\ k = 1 /\ pending = NoMsg /\ chanOpen = TRUE
    /\ logger = "running" /\ logged = {} /\ saved = {}
    /\ stored = FALSE /\ analysed = FALSE

(* A send blocks the function until the goroutine has received it.         *)
Ready == pending = NoMsg

(* return: the deferred RemoveAlls run and close(progressChan).            *)
Return(result) ==
    /\ pc' = result
    /\ chanOpen' = FALSE
-----------------------------------------------------------------------------
(* InClusterConfig, the collectors, TempDir, writeVersionFile and          *)
(* redact.GetRedact: any of them may fail.                                 *)
Setup ==
    /\ pc = "start"
    /\ \/ pc' = "collect" /\ UNCHANGED chanOpen
       \/ Return("error")
    /\ UNCHANGED <<k, pending, logger, logged, saved, stored, analysed>>

(* Mutant: the loop runs one collector past the end.                      *)
CollectPastEnd ==
    /\ pc = "collect" /\ Ready /\ k <= NumCollectors + 1
    /\ pending' = <<k, "name">>
    /\ pc' = "run"
    /\ UNCHANGED <<k, chanOpen, logger, logged, saved, stored, analysed>>

(* Mutant: the collector's name is not sent before it runs.                *)
CollectUnreported ==
    /\ pc = "collect" /\ Ready /\ k <= NumCollectors
    /\ pc' = "run"
    /\ UNCHANGED <<k, pending, chanOpen, logger, logged, saved, stored, analysed>>

(* progressChan <- collector.GetDisplayName().  No collector has RBAC      *)
(* errors, as none is checked, so the skip branch is never taken.          *)
Collect ==
    /\ pc = "collect" /\ Ready /\ k <= NumCollectors
    /\ pending' = <<k, "name">>
    /\ pc' = "run"
    /\ UNCHANGED <<k, chanOpen, logger, logged, saved, stored, analysed>>

(* RunCollectorSync, then saveCollectorOutput of a non-nil result; a       *)
(* failure is sent and the loop continues.  A save that fails may have     *)
(* written some of the files already.                                      *)
Run ==
    /\ pc = "run" /\ Ready
    /\ \/ pending' = <<k, "collectfail">> /\ UNCHANGED saved
       \/ UNCHANGED <<pending, saved>>
       \/ saved' = saved \cup {k} /\ UNCHANGED pending
       \/ pending' = <<k, "savefail">> /\ saved' \in {saved, saved \cup {k}}
    /\ k' = k + 1
    /\ pc' = "collect"
    /\ UNCHANGED <<chanOpen, logger, logged, stored, analysed>>

EndCollectors ==
    /\ pc = "collect" /\ Ready /\ k > NumCollectors
    /\ pc' = "tar"
    /\ UNCHANGED <<k, pending, chanOpen, logger, logged, saved, stored, analysed>>

(* TempDir for the archive and tarSupportBundleDir.                        *)
Tar ==
    /\ pc = "tar"
    /\ \/ pc' = "store" /\ UNCHANGED chanOpen
       \/ Return("error")
    /\ UNCHANGED <<k, pending, logger, logged, saved, stored, analysed>>

(* CreateBundle stores the bundle as backup-<name>.                        *)
Store ==
    /\ pc = "store"
    /\ \/ stored' = TRUE /\ pc' = "analyze" /\ UNCHANGED chanOpen
       \/ Return("error") /\ UNCHANGED stored
    /\ UNCHANGED <<k, pending, logger, logged, saved, analysed>>

(* DownloadAndAnalyze, the marshalling and SetBundleAnalysis; a failure    *)
(* leaves the stored bundle without an analysis.                           *)
Analyze ==
    /\ pc = "analyze"
    /\ \/ analysed' = TRUE /\ Return("done")
       \/ Return("error") /\ UNCHANGED analysed
    /\ UNCHANGED <<k, pending, logger, logged, saved, stored>>

(* Mutant: the goroutine has no for loop and returns after one message.   *)
LogReceiveOnce ==
    /\ logger = "running" /\ pending # NoMsg
    /\ logged' = logged \cup {pending}
    /\ pending' = NoMsg
    /\ logger' = "returned"
    /\ UNCHANGED <<pc, k, chanOpen, saved, stored, analysed>>

(* The goroutine: msg, ok := <-progressChan; log it, or return once the    *)
(* channel is closed.                                                      *)
LogReceive ==
    /\ logger = "running" /\ pending # NoMsg
    /\ logged' = logged \cup {pending}
    /\ pending' = NoMsg
    /\ UNCHANGED <<pc, k, chanOpen, logger, saved, stored, analysed>>

LogExit ==
    /\ logger = "running" /\ ~chanOpen /\ pending = NoMsg
    /\ logger' = "returned"
    /\ UNCHANGED <<pc, k, pending, chanOpen, logged, saved, stored, analysed>>

Main == Setup \/ Collect \/ Run \/ EndCollectors \/ Tar \/ Store \/ Analyze
Logger == LogReceive \/ LogExit

Next == Main \/ Logger

(* Both goroutines are scheduled while they can run.                       *)
Spec == Init /\ [][Next]_vars /\ WF_vars(Main) /\ WF_vars(Logger)
-----------------------------------------------------------------------------
(* Once the collectors are done, every one of them was announced on the    *)
(* progress channel and the logging goroutine received it: the unbuffered  *)
(* send completes only when the goroutine has taken the message.           *)
EveryCollectorReported ==
    pc \in {"tar", "store", "analyze", "done"} =>
        \A c \in Collectors : <<c, "name">> \in logged

(* The function returns and so does its logging goroutine: no send blocks  *)
(* for ever and the goroutine is not leaked.                               *)
CallAndLoggerEnd == <>[](pc \in {"done", "error"} /\ logger = "returned")
=============================================================================
