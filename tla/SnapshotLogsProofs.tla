------------------------ MODULE SnapshotLogsProofs ------------------------
(***************************************************************************)
(* Proofs about SnapshotLogs for every set of calls, names and backups:    *)
(* a call streams only the logs of the backup it was asked for, although   *)
(* every call's watch reports every DownloadRequest of the namespace.      *)
(***************************************************************************)
EXTENDS SnapshotLogs, TLAPS

(* The backup a DownloadRequest name stands for: the one every call that   *)
(* computes that name asks for.                                            *)
NamesBackup(n, b) == \E h \in Handlers : NameOf(h) = n /\ BackupOf(h) = b

(* Every event queued on a watch carries, if any, a URL for the backup    *)
(* its request's name stands for.                                          *)
ChanOK(c) ==
    \A h \in Handlers : \A i \in DOMAIN c[h] :
        c[h][i].url # NoURL => NamesBackup(c[h][i].name, c[h][i].url)

(* Every signed URL in the namespace, on a watch or in a call, is one for  *)
(* the backup its request's name stands for.                               *)
IInv ==
    /\ TypeOK
    /\ \A n \in Names : drs[n].exists =>
           NamesBackup(n, drs[n].target) /\ drs[n].url \in {NoURL, drs[n].target}
    /\ ChanOK(chan)
    /\ \A h \in Handlers : hpc[h] \in {"delete", "get", "done"} => signed[h] = BackupOf(h)
    /\ ServesOwnBackup
-----------------------------------------------------------------------------
(* Telling the open watches of a change keeps the queues well typed and    *)
(* keeps ChanOK when the event's URL is right for its name.                *)
LEMMA NotifyKeeps ==
    ASSUME NEW type \in {"ADDED", "MODIFIED", "DELETED"}, NEW n \in Names,
           NEW url \in Backups \cup {NoURL},
           chan \in [Handlers -> Seq(Event)], watching \subseteq Handlers,
           ChanOK(chan), url # NoURL => NamesBackup(n, url),
           Notify(type, n, url)
    PROVE  chan' \in [Handlers -> Seq(Event)] /\ ChanOK(chan')
<1> DEFINE e == [type |-> type, name |-> n, url |-> url]
<1>1. e \in Event
  BY DEF Event
<1>2. chan' \in [Handlers -> Seq(Event)]
  BY <1>1 DEF Notify
<1>3. ASSUME NEW h \in Handlers, NEW i \in DOMAIN chan'[h], chan'[h][i].url # NoURL
      PROVE  NamesBackup(chan'[h][i].name, chan'[h][i].url)
  <2>1. CASE h \in watching
    <3>1. chan'[h] = Append(chan[h], e)
      BY <2>1 DEF Notify
    <3>2. CASE i \in DOMAIN chan[h]
      BY <3>1, <3>2, <1>3 DEF ChanOK
    <3>3. CASE i = Len(chan[h]) + 1
      BY <3>1, <3>3, <1>3
    <3>4. QED
      BY <3>1, <3>2, <3>3
  <2>2. CASE h \notin watching
    BY <2>2, <1>3 DEF Notify, ChanOK
  <2>3. QED
    BY <2>1, <2>2
<1>4. QED
  BY <1>2, <1>3 DEF ChanOK

(* Taking the head of a call's queue keeps ChanOK.                         *)
LEMMA TailKeeps ==
    ASSUME chan \in [Handlers -> Seq(Event)], ChanOK(chan),
           NEW g \in Handlers, chan[g] # <<>>,
           chan' = [chan EXCEPT ![g] = Tail(@)]
    PROVE  chan' \in [Handlers -> Seq(Event)] /\ ChanOK(chan')
<1>1. chan' \in [Handlers -> Seq(Event)]
  OBVIOUS
<1>2. ASSUME NEW h \in Handlers, NEW i \in DOMAIN chan'[h], chan'[h][i].url # NoURL
      PROVE  NamesBackup(chan'[h][i].name, chan'[h][i].url)
  <2>1. CASE h = g
    <3>1. i + 1 \in DOMAIN chan[g] /\ chan'[g][i] = chan[g][i + 1]
      BY <2>1
    <3>2. QED
      BY <1>2, <2>1, <3>1 DEF ChanOK
  <2>2. CASE h # g
    BY <1>2, <2>2 DEF ChanOK
  <2>3. QED
    BY <2>1, <2>2
<1>3. QED
  BY <1>1, <1>2 DEF ChanOK

LEMMA IInvInit == Init => IInv
<1> SUFFICES ASSUME Init PROVE IInv
  OBVIOUS
<1>1. Absent \in DR
  BY DEF Absent, DR
<1>2. QED
  BY <1>1 DEF Init, IInv, TypeOK, ChanOK, ServesOwnBackup, Absent

LEMMA IInvStep == IInv /\ [Next]_vars => IInv'
<1> SUFFICES ASSUME IInv, [Next]_vars PROVE IInv'
  OBVIOUS
<1> USE LogsAssumption
<1>1. ASSUME NEW h \in Handlers, StartFail(h) PROVE IInv'
  BY <1>1 DEF StartFail, IInv, TypeOK, ChanOK, ServesOwnBackup
<1>2. ASSUME NEW h \in Handlers, Create(h) PROVE IInv'
  <2> DEFINE n == NameOf(h)
  <2>1. NamesBackup(n, BackupOf(h))
    BY DEF NamesBackup
  <2>2. chan' \in [Handlers -> Seq(Event)] /\ ChanOK(chan')
    BY <1>2, NotifyKeeps DEF Create, IInv, TypeOK
  <2>3. drs' \in [Names -> DR]
    BY <1>2 DEF Create, IInv, TypeOK, DR
  <2>4. \A m \in Names : drs'[m].exists =>
           NamesBackup(m, drs'[m].target) /\ drs'[m].url \in {NoURL, drs'[m].target}
    BY <1>2, <2>1 DEF Create, IInv, TypeOK
  <2>5. QED
    BY <1>2, <2>2, <2>3, <2>4 DEF Create, IInv, TypeOK, ServesOwnBackup
<1>3. ASSUME NEW h \in Handlers, StartWatch(h) PROVE IInv'
  BY <1>3 DEF StartWatch, IInv, TypeOK, ChanOK, ServesOwnBackup
<1>4. ASSUME NEW h \in Handlers, Receive(h) PROVE IInv'
  <2> DEFINE e == Head(chan[h])
  <2>1. chan' \in [Handlers -> Seq(Event)] /\ ChanOK(chan')
    BY <1>4, TailKeeps DEF Receive, IInv, TypeOK
  <2>2. e \in Event /\ (e.url # NoURL => NamesBackup(e.name, e.url))
    <3>1. 1 \in DOMAIN chan[h] /\ e = chan[h][1]
      BY <1>4 DEF Receive, IInv, TypeOK
    <3>2. QED
      BY <3>1 DEF IInv, TypeOK, ChanOK
  <2>3. CASE e.type = "MODIFIED" /\ e.name = NameOf(h) /\ e.url # NoURL
    <3>1. e.url = BackupOf(h)
      BY <2>2, <2>3 DEF NamesBackup
    <3>2. signed' = [signed EXCEPT ![h] = BackupOf(h)]
          /\ hpc' = [hpc EXCEPT ![h] = "delete"]
          /\ watching' = watching \ {h}
          /\ UNCHANGED <<drs, served>>
      BY <1>4, <2>3, <3>1 DEF Receive
    <3>3. TypeOK'
      BY <2>1, <3>2 DEF IInv, TypeOK
    <3>4. \A g \in Handlers : hpc'[g] \in {"delete", "get", "done"} => signed'[g] = BackupOf(g)
      BY <3>2 DEF IInv, TypeOK
    <3>5. ServesOwnBackup'
      BY <3>2 DEF IInv, TypeOK, ServesOwnBackup
    <3>6. QED
      BY <2>1, <3>2, <3>3, <3>4, <3>5 DEF IInv
  <2>4. CASE ~(e.type = "MODIFIED" /\ e.name = NameOf(h) /\ e.url # NoURL)
    BY <1>4, <2>1, <2>4 DEF Receive, IInv, TypeOK, ServesOwnBackup
  <2>5. QED
    BY <2>3, <2>4
<1>5. ASSUME NEW h \in Handlers, Timeout(h) PROVE IInv'
  BY <1>5 DEF Timeout, IInv, TypeOK, ChanOK, ServesOwnBackup
<1>6. ASSUME NEW h \in Handlers, DeleteRequest(h) PROVE IInv'
  <2> DEFINE n == NameOf(h)
  <2>1. CASE drs[n].exists /\ drs' = [drs EXCEPT ![n] = Absent]
                 /\ Notify("DELETED", n, drs[n].url)
    <3>1. drs[n].url \in Backups \cup {NoURL}
          /\ (drs[n].url # NoURL => NamesBackup(n, drs[n].url))
      BY <2>1 DEF IInv, TypeOK, DR
    <3>2. chan' \in [Handlers -> Seq(Event)] /\ ChanOK(chan')
      BY <3>1, <2>1, NotifyKeeps DEF IInv, TypeOK
    <3>3. Absent \in DR
      BY DEF Absent, DR
    <3>4. QED
      BY <1>6, <2>1, <3>2, <3>3 DEF DeleteRequest, IInv, TypeOK, ServesOwnBackup, Absent
  <2>2. CASE UNCHANGED <<drs, chan>>
    BY <1>6, <2>2 DEF DeleteRequest, IInv, TypeOK, ChanOK, ServesOwnBackup
  <2>3. QED
    BY <1>6, <2>1, <2>2 DEF DeleteRequest
<1>7. ASSUME NEW h \in Handlers, Fetch(h) PROVE IInv'
  BY <1>7 DEF Fetch, IInv, TypeOK, ChanOK, ServesOwnBackup
<1>8. ASSUME NEW n \in Names, VeleroProcess(n) PROVE IInv'
  <2>1. drs[n].target \in Backups /\ NamesBackup(n, drs[n].target)
    <3>1. PICK g \in Handlers : NameOf(g) = n /\ BackupOf(g) = drs[n].target
      BY <1>8 DEF VeleroProcess, IInv, NamesBackup
    <3>2. QED
      BY <3>1 DEF NamesBackup
  <2>2. chan' \in [Handlers -> Seq(Event)] /\ ChanOK(chan')
    BY <1>8, <2>1, NotifyKeeps DEF VeleroProcess, IInv, TypeOK
  <2>3. drs' \in [Names -> DR]
    <3>1. drs[n] \in DR
      BY DEF IInv, TypeOK
    <3>2. [drs[n] EXCEPT !.url = drs[n].target] \in DR
      BY <3>1, <2>1 DEF DR
    <3>3. QED
      BY <1>8, <3>2 DEF VeleroProcess, IInv, TypeOK
  <2>4. QED
    BY <1>8, <2>2, <2>3 DEF VeleroProcess, IInv, TypeOK, ServesOwnBackup
<1>9. CASE UNCHANGED vars
  BY <1>9 DEF vars, IInv, TypeOK, ChanOK, ServesOwnBackup
<1>10. QED
  BY <1>1, <1>2, <1>3, <1>4, <1>5, <1>6, <1>7, <1>8, <1>9 DEF Next, Handler

(* Every reachable state of the concurrent calls is well typed.            *)
THEOREM LogsTypeCorrect == Spec => []TypeOK
  BY IInvInit, IInvStep, PTL DEF Spec, IInv

(* For any number of concurrent calls, a call that streams logs streams    *)
(* those of the backup it was asked for, although its watch also reports  *)
(* the requests of the other calls: the loop's name check and the names'   *)
(* uniqueness per backup rule out another call's URL.                      *)
THEOREM OwnBackupServed == Spec => []ServesOwnBackup
  BY IInvInit, IInvStep, PTL DEF Spec, IInv
=============================================================================
