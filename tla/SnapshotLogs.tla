---------------------------- MODULE SnapshotLogs ----------------------------
(***************************************************************************)
(* handlers.DownloadSnapshotLogs (pkg/handlers/snapshot.go): create a      *)
(* velero DownloadRequest named after the backup and the second, watch     *)
(* DownloadRequests until a MODIFIED event of that name carries a signed   *)
(* URL or a one-minute context expires, delete the request, fetch the URL  *)
(* and stream it.  Several handler calls run at once; velero's controller  *)
(* sets the URL of every new request.  A watch opened without a resource   *)
(* version first delivers an ADDED event per existing request, then every  *)
(* later change, in order.                                                 *)
(***************************************************************************)
EXTENDS Naturals, Sequences

CONSTANTS
    Handlers,     \* concurrent DownloadSnapshotLogs calls
    Names,        \* DownloadRequest names: backup-<backup>-<unix second>
    Backups,      \* backups whose logs are asked for
    NameOf(_),    \* the name a call computes
    BackupOf(_)   \* the backup a call asks for (mux.Vars(r)["backup"])

(* The name is fmt.Sprintf("backup-%s-%d", backupName, second) made valid *)
(* by velero's label.GetValidName, which cuts a long name and appends a    *)
(* hash of the whole one: calls that compute the same name ask for the     *)
(* same backup.                                                            *)
ASSUME LogsAssumption ==
    /\ \A h \in Handlers : NameOf(h) \in Names /\ BackupOf(h) \in Backups
    /\ \A h, g \in Handlers : NameOf(h) = NameOf(g) => BackupOf(h) = BackupOf(g)

NoURL == "none"
DR == [exists : BOOLEAN, target : Backups \cup {NoURL}, url : Backups \cup {NoURL}]
Event == [type : {"ADDED", "MODIFIED", "DELETED"}, name : Names,
          url : Backups \cup {NoURL}]

VARIABLES
    drs,       \* DownloadRequests in the velero namespace, by name
    hpc,       \* where each call is
    watching,  \* calls whose watch is open
    chan,      \* events queued on each call's watcher.ResultChan()
    signed,    \* signedURL of each call
    served     \* the logs each call streamed back

vars == <<drs, hpc, watching, chan, signed, served>>

Absent == [exists |-> FALSE, target |-> NoURL, url |-> NoURL]

TypeOK ==
    /\ drs \in [Names -> DR]
    /\ hpc \in [Handlers -> {"start", "watch", "wait", "delete", "get", "done", "error"}]
    /\ watching \subseteq Handlers
    /\ chan \in [Handlers -> Seq(Event)]
    /\ signed \in [Handlers -> Backups \cup {NoURL}]
    /\ served \in [Handlers -> Backups \cup {NoURL}]

Init ==
    /\ drs = [n \in Names |-> Absent]
    /\ hpc = [h \in Handlers |-> "start"]
    /\ watching = {}
    /\ chan = [h \in Handlers |-> <<>>]
    /\ signed = [h \in Handlers |-> NoURL]
    /\ served = [h \in Handlers |-> NoURL]

(* The API server tells every open watch about a change.                   *)
Notify(type, n, url) ==
    chan' = [h \in Handlers |->
               IF h \in watching
               THEN Append(chan[h], [type |-> type, name |-> n, url |-> url])
               ELSE chan[h]]
-----------------------------------------------------------------------------
(* requireValidSession or the velero client fails; or Create fails, always *)
(* when a request of that name exists (a second call in the same second).  *)
StartFail(h) ==
    /\ hpc[h] = "start"
    /\ hpc' = [hpc EXCEPT ![h] = "error"]
    /\ UNCHANGED <<drs, watching, chan, signed, served>>

(* velero.DownloadRequests(namespace).Create(dr).                          *)
Create(h) ==
    /\ hpc[h] = "start"
    /\ ~drs[NameOf(h)].exists
    /\ drs' = [drs EXCEPT ![NameOf(h)] =
                 [exists |-> TRUE, target |-> BackupOf(h), url |-> NoURL]]
    /\ Notify("ADDED", NameOf(h), NoURL)
    /\ hpc' = [hpc EXCEPT ![h] = "watch"]
    /\ UNCHANGED <<watching, signed, served>>

(* Watch(metav1.ListOptions{}) sees the changes made after it opens.  The  *)
(* ADDED event it first sends per existing request is skipped by the loop  *)
(* (e.Type != watch.Modified) and is left out.  A failed Watch returns 500 *)
(* and leaves the request behind.                                          *)
StartWatch(h) ==
    /\ hpc[h] = "watch"
    /\ \/ /\ watching' = watching \cup {h}
          /\ hpc' = [hpc EXCEPT ![h] = "wait"]
       \/ /\ hpc' = [hpc EXCEPT ![h] = "error"]
          /\ UNCHANGED watching
    /\ UNCHANGED <<drs, chan, signed, served>>

(* Mutant: signedURL is taken from the request's name, not its status.    *)
ReceiveNameAsURL(h) ==
    /\ hpc[h] = "wait"
    /\ chan[h] # <<>>
    /\ LET e == Head(chan[h]) IN
         IF e.type = "MODIFIED" /\ e.name = NameOf(h) /\ e.url # NoURL
         THEN /\ signed' = [signed EXCEPT ![h] = e.name]
              /\ hpc' = [hpc EXCEPT ![h] = "delete"]
              /\ watching' = watching \ {h}
         ELSE UNCHANGED <<signed, hpc, watching>>
    /\ chan' = [chan EXCEPT ![h] = Tail(@)]
    /\ UNCHANGED <<drs, served>>

(* Mutant: the dr.Name != drName check is dropped.                         *)
ReceiveAnyName(h) ==
    /\ hpc[h] = "wait"
    /\ chan[h] # <<>>
    /\ LET e == Head(chan[h]) IN
         IF e.type = "MODIFIED" /\ e.url # NoURL
         THEN /\ signed' = [signed EXCEPT ![h] = e.url]
              /\ hpc' = [hpc EXCEPT ![h] = "delete"]
              /\ watching' = watching \ {h}
         ELSE UNCHANGED <<signed, hpc, watching>>
    /\ chan' = [chan EXCEPT ![h] = Tail(@)]
    /\ UNCHANGED <<drs, served>>

(* case e := <-watcher.ResultChan(): only a MODIFIED event of this call's  *)
(* name with a DownloadURL ends the loop.                                  *)
Receive(h) ==
    /\ hpc[h] = "wait"
    /\ chan[h] # <<>>
    /\ LET e == Head(chan[h]) IN
         IF e.type = "MODIFIED" /\ e.name = NameOf(h) /\ e.url # NoURL
         THEN /\ signed' = [signed EXCEPT ![h] = e.url]
              /\ hpc' = [hpc EXCEPT ![h] = "delete"]
              /\ watching' = watching \ {h}
         ELSE UNCHANGED <<signed, hpc, watching>>
    /\ chan' = [chan EXCEPT ![h] = Tail(@)]
    /\ UNCHANGED <<drs, served>>

(* Mutant: the loop selects on context.Background(), which never expires.  *)
TimeoutNever(h) ==
    /\ FALSE
    /\ hpc[h] = "wait"
    /\ hpc' = [hpc EXCEPT ![h] = "error"]
    /\ watching' = watching \ {h}
    /\ UNCHANGED <<drs, chan, signed, served>>

(* case <-ctx.Done(): the minute is over; 500, the request is left behind. *)
Timeout(h) ==
    /\ hpc[h] = "wait"
    /\ hpc' = [hpc EXCEPT ![h] = "error"]
    /\ watching' = watching \ {h}
    /\ UNCHANGED <<drs, chan, signed, served>>

(* Delete the request; an error is only logged.                            *)
DeleteRequest(h) ==
    /\ hpc[h] = "delete"
    /\ \/ /\ drs[NameOf(h)].exists
          /\ drs' = [drs EXCEPT ![NameOf(h)] = Absent]
          /\ Notify("DELETED", NameOf(h), drs[NameOf(h)].url)
       \/ UNCHANGED <<drs, chan>>
    /\ hpc' = [hpc EXCEPT ![h] = "get"]
    /\ UNCHANGED <<watching, signed, served>>

(* http.Get(signedURL) and io.Copy to the response, or a 500.              *)
Fetch(h) ==
    /\ hpc[h] = "get"
    /\ \/ /\ served' = [served EXCEPT ![h] = signed[h]]
          /\ hpc' = [hpc EXCEPT ![h] = "done"]
       \/ /\ hpc' = [hpc EXCEPT ![h] = "error"]
          /\ UNCHANGED served
    /\ UNCHANGED <<drs, watching, chan, signed>>

(* velero's controller signs a URL for the logs of the request's target.   *)
VeleroProcess(n) ==
    /\ drs[n].exists /\ drs[n].url = NoURL
    /\ drs' = [drs EXCEPT ![n].url = drs[n].target]
    /\ Notify("MODIFIED", n, drs[n].target)
    /\ UNCHANGED <<hpc, watching, signed, served>>

Handler(h) ==
    \/ StartFail(h) \/ Create(h) \/ StartWatch(h) \/ Receive(h)
    \/ Timeout(h) \/ DeleteRequest(h) \/ Fetch(h)

Next == (\E h \in Handlers : Handler(h)) \/ (\E n \in Names : VeleroProcess(n))

(* Each call keeps running; velero's controller processes every request.   *)
Spec == Init /\ [][Next]_vars
        /\ \A h \in Handlers : WF_vars(Handler(h))
        /\ \A n \in Names : WF_vars(VeleroProcess(n))
-----------------------------------------------------------------------------
(* A call streams the logs of the backup it was asked for, never those of  *)
(* another call's request that its watch also reports.                     *)
ServesOwnBackup == \A h \in Handlers : hpc[h] = "done" => served[h] = BackupOf(h)

(* Every call returns, even when the MODIFIED event came before its watch  *)
(* opened and only the one-minute context ends the wait.                   *)
EveryCallReturns == \A h \in Handlers : <>(hpc[h] \in {"done", "error"})
=============================================================================
