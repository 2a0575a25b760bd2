------------------------- MODULE AppVersionsProofs -------------------------
(***************************************************************************)
(* Proofs about AppVersions: concurrent CreateVersion transactions number  *)
(* the downstream versions of every cluster without a gap or a duplicate, *)
(* and every sequence they compute stays within Seqs.                      *)
(***************************************************************************)
EXTENDS AppVersions, FiniteSetTheorems, TLAPS

(* The committed and the own downstream rows of cluster c.                 *)
Rows(c) == {w \in downstream : w.cluster = c}
OwnRows(r, c) == {w \in ownDs[r] : w.cluster = c}

(* Requests that have left the transaction: committed, or failed anywhere. *)
Finished == {r \in Requests : rpc[r] \in {"upload", "done", "failed"}}
InFlight == {"prep", "update", "prevarchive", "downstream"}

(* While a request is in its downstream loop it holds the app row lock, so *)
(* no other transaction commits downstream rows; each cluster the loop has *)
(* done has exactly one own row, numbered one past the committed ones.    *)
LockHeld == \A r \in Requests : rpc[r] \in {"prevarchive", "downstream"} => appLock = r
OwnRowsPending ==
    \A r \in Requests :
        /\ rpc[r] # "downstream" => ownDs[r] = {}
        /\ rpc[r] = "downstream" =>
             \A c \in Clusters :
                 /\ c \in dsLeft[r] => OwnRows(r, c) = {}
                 /\ c \notin dsLeft[r] =>
                      \E x \in ownDs[r] :
                          /\ OwnRows(r, c) = {x}
                          /\ x.seq = Cardinality(Rows(c))

(* Each commit adds one row per cluster and moves its request to Finished; *)
(* a sequence read from the app is at most the number of finished          *)
(* requests.  So a request still in flight computes sequences in Seqs.     *)
Counting ==
    /\ \A c \in Clusters : IsFiniteSet(Rows(c)) /\ Cardinality(Rows(c)) <= Cardinality(Finished) + 1
    /\ appSeq <= Cardinality(Finished)
    /\ \A r \in Requests : rpc[r] \in InFlight => cur[r] <= Cardinality(Finished)
    /\ \A r \in Requests : rpc[r] = "upload" => cur[r] + 1 <= Cardinality(Requests)

IInv == TypeOK /\ LockHeld /\ OwnRowsPending /\ Counting /\ DownstreamSequencing
Fin == {"upload", "done", "failed"}

(* Requests is finite, so the set of finished ones is, with a natural      *)
(* cardinality, and one short of all when a request is still out of it.   *)
LEMMA FinishedFinite ==
    /\ Cardinality(Requests) \in Nat
    /\ IsFiniteSet(Finished) /\ Cardinality(Finished) \in Nat
    /\ \A r \in Requests \ Finished : Cardinality(Finished) + 1 <= Cardinality(Requests)
<1> USE AppAssumption
<1>1. Finished \subseteq Requests
  BY DEF Finished
<1>2. IsFiniteSet(Finished) /\ Cardinality(Finished) <= Cardinality(Requests)
  BY <1>1, FS_Subset
<1>3. ASSUME NEW r \in Requests \ Finished
      PROVE  Cardinality(Finished) + 1 <= Cardinality(Requests)
  <2>1. Finished \cup {r} \subseteq Requests /\ r \notin Finished
    BY <1>1
  <2>2. IsFiniteSet(Finished \cup {r}) /\ Cardinality(Finished \cup {r}) = Cardinality(Finished) + 1
    BY <1>2, <2>1, FS_AddElement
  <2>3. Cardinality(Finished \cup {r}) <= Cardinality(Requests)
    BY <2>1, FS_Subset
  <2>4. QED
    BY <2>2, <2>3
<1>4. QED
  BY <1>2, <1>3, FS_CardinalityType

(* One more finished request adds one to their number.                    *)
LEMMA FinishedAdd ==
    ASSUME NEW r, r \notin Finished
    PROVE  Cardinality(Finished \cup {r}) = Cardinality(Finished) + 1
  BY FinishedFinite, FS_AddElement

(* The largest element of 0..(n - 1), as LastDownstreamSeq computes it,    *)
(* is n - 1, and -1 for the empty interval.                                *)
LEMMA MaxOfInterval ==
    ASSUME NEW n \in Nat
    PROVE  (IF 0..(n - 1) = {} THEN -1
            ELSE CHOOSE s \in 0..(n - 1) : \A t \in 0..(n - 1) : t <= s) = n - 1
<1>1. CASE n = 0
  BY <1>1
<1>2. CASE n # 0
  <2>1. \E s \in 0..(n - 1) : \A t \in 0..(n - 1) : t <= s
    BY <1>2
  <2>2. \A s \in 0..(n - 1) : (\A t \in 0..(n - 1) : t <= s) => s = n - 1
    BY <1>2
  <2>3. QED
    BY <1>2, <2>1, <2>2
<1>3. QED
  BY <1>1, <1>2

(* Adding a row numbered one past the rows 0..n-1 of a cluster keeps them  *)
(* numbered without gap or duplicate.                                      *)
LEMMA AddNextRow ==
    ASSUME NEW R, IsFiniteSet(R), NEW x,
           \A y, z \in R : y.seq = z.seq => y = z,
           {w.seq : w \in R} = 0..(Cardinality(R) - 1),
           x.seq = Cardinality(R)
    PROVE  /\ IsFiniteSet(R \cup {x})
           /\ Cardinality(R \cup {x}) = Cardinality(R) + 1
           /\ \A y, z \in R \cup {x} : y.seq = z.seq => y = z
           /\ {w.seq : w \in R \cup {x}} = 0..(Cardinality(R \cup {x}) - 1)
<1>1. Cardinality(R) \in Nat
  BY FS_CardinalityType
<1>2. x \notin R
  <2>1. SUFFICES ASSUME x \in R PROVE FALSE
    OBVIOUS
  <2>2. x.seq \in 0..(Cardinality(R) - 1)
    BY <2>1
  <2>3. QED
    BY <1>1, <2>2
<1>3. IsFiniteSet(R \cup {x}) /\ Cardinality(R \cup {x}) = Cardinality(R) + 1
  BY <1>2, FS_AddElement
<1>4. \A y \in R : y.seq # x.seq
  BY <1>1
<1>5. {w.seq : w \in R \cup {x}} = 0..Cardinality(R)
  BY <1>1
<1>6. \A y, z \in R \cup {x} : y.seq = z.seq => y = z
  BY <1>4
<1>7. {w.seq : w \in R \cup {x}} = 0..(Cardinality(R \cup {x}) - 1)
  BY <1>3, <1>5
<1>8. QED
  BY <1>3, <1>6, <1>7

LEMMA IInvInit == Init => IInv
<1> SUFFICES ASSUME Init PROVE IInv
  OBVIOUS
<1> USE AppAssumption
<1>1. Cardinality(Requests) \in Nat /\ Finished = {}
  BY FS_CardinalityType DEF Init, Finished
<1>2. TypeOK
  <2>1. 0 \in Seqs /\ Install \in Writers
    BY <1>1 DEF Seqs, Writers
  <2>2. downstream \subseteq Row
    BY <2>1 DEF Init, Row
  <2>3. QED
    BY <2>1, <2>2 DEF Init, TypeOK, Seqs, Writers, Pcs
<1>3. ASSUME NEW c \in Clusters
      PROVE  /\ IsFiniteSet(Rows(c)) /\ Cardinality(Rows(c)) <= 1
             /\ \A x, y \in Rows(c) : x.seq = y.seq => x = y
             /\ {w.seq : w \in Rows(c)} = 0..(Cardinality(Rows(c)) - 1)
  <2>1. CASE downstream = {}
    <3>1. Rows(c) = {}
      BY <2>1 DEF Rows
    <3>2. QED
      BY <3>1, FS_EmptySet
  <2>2. CASE downstream # {}
    <3> DEFINE x0 == [cluster |-> c, seq |-> 0, parent |-> 0, by |-> Install]
    <3>1. Rows(c) = {x0}
      BY <2>2 DEF Init, Rows
    <3>2. IsFiniteSet({x0}) /\ Cardinality({x0}) = 1
      BY FS_Singleton
    <3>3. {w.seq : w \in {x0}} = 0..(1 - 1)
      OBVIOUS
    <3>4. \A x, y \in {x0} : x.seq = y.seq => x = y
      OBVIOUS
    <3>5. QED
      BY <3>1, <3>2, <3>3, <3>4
  <2>3. QED
    BY <2>1, <2>2
<1>4. Cardinality(Finished) = 0
  BY <1>1, FS_EmptySet
<1>5. LockHeld /\ OwnRowsPending
  BY DEF Init, LockHeld, OwnRowsPending
<1>6. Counting
  BY <1>3, <1>4 DEF Init, Counting, InFlight
<1>7. DownstreamSequencing
  BY <1>3 DEF DownstreamSequencing, Rows
<1>8. QED
  BY <1>2, <1>5, <1>6, <1>7 DEF IInv
(* The downstream rows, as the properties see them, do not change when     *)
(* neither the committed nor the own rows do.                              *)
LEMMA RowsFrame ==
    ASSUME downstream' = downstream, ownDs' = ownDs
    PROVE  /\ \A c \in Clusters : Rows(c)' = Rows(c)
           /\ \A q \in Requests, c \in Clusters : OwnRows(q, c)' = OwnRows(q, c)
           /\ DownstreamSequencing' = DownstreamSequencing
  BY DEF Rows, OwnRows, DownstreamSequencing

(* The number of rows of each cluster is a natural number.                *)
LEMMA RowsCard ==
    ASSUME IInv PROVE \A c \in Clusters : Cardinality(Rows(c)) \in Nat
  BY FS_CardinalityType DEF IInv, Counting

(* More finished requests and the same rows and reads keep Counting.       *)
LEMMA CountingMono ==
    ASSUME IInv, Cardinality(Finished) <= Cardinality(Finished'),
           downstream' = downstream, appSeq' = appSeq,
           \A q \in Requests :
               rpc'[q] \in InFlight =>
                   \/ cur'[q] = cur[q] /\ rpc[q] \in InFlight
                   \/ cur'[q] <= Cardinality(Finished'),
           \A q \in Requests : rpc'[q] = "upload" => cur'[q] = cur[q] /\ rpc[q] = "upload"
    PROVE  Counting'
<1>1. Cardinality(Finished) \in Nat /\ Cardinality(Finished') \in Nat
  <2>1. Finished' \subseteq Requests
    BY DEF Finished
  <2>2. QED
    BY <2>1, FinishedFinite, FS_Subset, FS_CardinalityType, AppAssumption
<1>2. \A c \in Clusters : IsFiniteSet(Rows(c)') /\ Cardinality(Rows(c)') <= Cardinality(Finished') + 1
  BY <1>1, RowsCard DEF IInv, Counting, Rows
<1>3. appSeq' <= Cardinality(Finished')
  BY <1>1 DEF IInv, Counting, TypeOK, Seqs
<1>4. \A q \in Requests : rpc'[q] \in InFlight => cur'[q] <= Cardinality(Finished')
  BY <1>1 DEF IInv, Counting, TypeOK, Seqs
<1>5. \A q \in Requests : rpc'[q] = "upload" => cur'[q] + 1 <= Cardinality(Requests)
  BY DEF IInv, Counting
<1>6. QED
  BY <1>2, <1>3, <1>4, <1>5 DEF Counting

(* app.GetFromSlug reads current_sequence: at most the finished requests.  *)
LEMMA GetAppStep ==
    ASSUME IInv, NEW r \in Requests, GetApp(r) PROVE IInv'
<1>1. Finished' = Finished
  BY DEF GetApp, IInv, TypeOK, Finished
<1>2. TypeOK'
  BY DEF GetApp, IInv, TypeOK, Pcs
<1>3. LockHeld' /\ OwnRowsPending'
  BY RowsFrame DEF GetApp, IInv, LockHeld, OwnRowsPending
<1>4. Counting'
  <2>1. cur'[r] <= Cardinality(Finished')
    BY <1>1 DEF GetApp, IInv, Counting, TypeOK
  <2>2. Cardinality(Finished) <= Cardinality(Finished')
    BY <1>1, FinishedFinite
  <2>3. QED
    BY <2>1, <2>2, CountingMono DEF GetApp, InFlight
<1>5. QED
  BY <1>2, <1>3, <1>4, RowsFrame DEF GetApp, IInv

(* The handler gives up before its transaction: one more finished request. *)
LEMMA PrepEndStep ==
    ASSUME IInv, NEW r \in Requests, PrepEnd(r) PROVE IInv'
<1>1. Cardinality(Finished) <= Cardinality(Finished') /\ Cardinality(Finished) \in Nat
  <2>1. Finished' = Finished \cup {r} /\ r \notin Finished
    BY DEF PrepEnd, IInv, TypeOK, Finished
  <2>2. QED
    BY <2>1, FinishedAdd, FinishedFinite
<1>2. TypeOK'
  BY DEF PrepEnd, IInv, TypeOK, Pcs
<1>3. LockHeld' /\ OwnRowsPending'
  BY RowsFrame DEF PrepEnd, IInv, LockHeld, OwnRowsPending
<1>4. Counting'
  BY <1>1, CountingMono DEF PrepEnd, InFlight
<1>5. QED
  BY <1>2, <1>3, <1>4, RowsFrame DEF PrepEnd, IInv
(* The INSERT ... ON CONFLICT takes the key of version cur+1.              *)
LEMMA UpsertVersionStep ==
    ASSUME IInv, NEW r \in Requests, UpsertVersion(r) PROVE IInv'
<1>1. Finished' = Finished
  BY DEF UpsertVersion, IInv, TypeOK, Finished
<1>2. TypeOK'
  BY DEF UpsertVersion, IInv, TypeOK, Pcs
<1>3. LockHeld' /\ OwnRowsPending'
  BY RowsFrame DEF UpsertVersion, IInv, LockHeld, OwnRowsPending
<1>4. Counting'
  BY <1>1, FinishedFinite, CountingMono DEF UpsertVersion, InFlight
<1>5. QED
  BY <1>2, <1>3, <1>4, RowsFrame DEF UpsertVersion, IInv

(* UPDATE app takes the app row lock, which nobody else in the downstream  *)
(* loop can hold: a holder would be the lock's owner.                      *)
LEMMA UpdateAppStep ==
    ASSUME IInv, NEW r \in Requests, UpdateApp(r) PROVE IInv'
<1>1. Finished' = Finished
  BY DEF UpdateApp, IInv, TypeOK, Finished
<1>2. TypeOK'
  BY DEF UpdateApp, IInv, TypeOK, Pcs
<1>3. LockHeld'
  <2>1. \A q \in Requests : rpc[q] \notin {"prevarchive", "downstream"}
    BY AppAssumption DEF UpdateApp, IInv, LockHeld
  <2>2. QED
    BY <2>1 DEF UpdateApp, IInv, TypeOK, LockHeld
<1>4. OwnRowsPending'
  BY RowsFrame DEF UpdateApp, IInv, OwnRowsPending
<1>5. Counting'
  BY <1>1, FinishedFinite, CountingMono DEF UpdateApp, InFlight
<1>6. QED
  BY <1>2, <1>3, <1>4, <1>5, RowsFrame DEF UpdateApp, IInv

(* The previous archive is there: the loop over the downstreams starts     *)
(* with no own rows.                                                       *)
LEMMA PrevArchiveStep ==
    ASSUME IInv, NEW r \in Requests, PrevArchive(r) PROVE IInv'
<1>1. Finished' = Finished
  BY DEF PrevArchive, IInv, TypeOK, Finished
<1>2. TypeOK'
  BY DEF PrevArchive, IInv, TypeOK, Pcs
<1>3. LockHeld'
  BY DEF PrevArchive, IInv, TypeOK, LockHeld
<1>4. OwnRowsPending'
  <2>1. ownDs[r] = {}
    BY DEF PrevArchive, IInv, OwnRowsPending
  <2>2. QED
    BY <2>1, RowsFrame DEF PrevArchive, IInv, TypeOK, OwnRowsPending, OwnRows
<1>5. Counting'
  BY <1>1, FinishedFinite, CountingMono DEF PrevArchive, InFlight
<1>6. QED
  BY <1>2, <1>3, <1>4, <1>5, RowsFrame DEF PrevArchive, IInv

(* CreateAppVersionArchive stores the archive of version cur+1, or fails.  *)
LEMMA UploadStep ==
    ASSUME IInv, NEW r \in Requests, Upload(r) PROVE IInv'
<1>1. Finished' = Finished
  BY DEF Upload, IInv, TypeOK, Finished
<1>2. TypeOK'
  <2>1. cur[r] + 1 \in Seqs
    BY FinishedFinite DEF Upload, IInv, TypeOK, Counting, Seqs
  <2>2. QED
    BY <2>1 DEF Upload, IInv, TypeOK, Pcs
<1>3. /\ rpc[r] = "upload"
      /\ \E p \in {"done", "failed"} : rpc' = [rpc EXCEPT ![r] = p]
      /\ UNCHANGED <<appSeq, versions, downstream, verLock, appLock, cur, dsLeft, ownDs>>
  BY DEF Upload
<1>4. LockHeld' /\ OwnRowsPending'
  BY <1>3, RowsFrame DEF IInv, TypeOK, LockHeld, OwnRowsPending
<1>5. Counting'
  <2>1. \A q \in Requests : rpc'[q] \in InFlight => rpc[q] \in InFlight
    BY <1>3 DEF IInv, TypeOK, InFlight
  <2>2. \A q \in Requests : rpc'[q] = "upload" => rpc[q] = "upload"
    BY <1>3 DEF IInv, TypeOK
  <2>3. QED
    BY <1>1, <1>3, <2>1, <2>2, FinishedFinite, CountingMono
<1>6. QED
  BY <1>2, <1>4, <1>5, RowsFrame DEF Upload, IInv
(* The downstream loop inserts the row of cluster c: no own row of c yet,  *)
(* so max(sequence) sees the committed rows 0..n-1 and the row gets n,    *)
(* which the pending commit will make the next one of the cluster.        *)
LEMMA AddDownstreamStep ==
    ASSUME IInv, NEW r \in Requests, AddDownstream(r) PROVE IInv'
<1>1. PICK c \in dsLeft[r] :
         /\ ownDs' = [ownDs EXCEPT ![r] = @ \cup
                        {[cluster |-> c, seq |-> LastDownstreamSeq(r, c) + 1,
                          parent |-> cur[r] + 1, by |-> r]}]
         /\ dsLeft' = [dsLeft EXCEPT ![r] = @ \ {c}]
  BY DEF AddDownstream
<1> DEFINE n == Cardinality(Rows(c))
           x == [cluster |-> c, seq |-> LastDownstreamSeq(r, c) + 1,
                 parent |-> cur[r] + 1, by |-> r]
<1>2. /\ rpc[r] = "downstream" /\ c \in Clusters /\ OwnRows(r, c) = {}
      /\ UNCHANGED <<appSeq, versions, downstream, archives, verLock, appLock, rpc, cur>>
  BY DEF AddDownstream, IInv, TypeOK, OwnRowsPending
<1>3. /\ n \in Nat /\ Cardinality(Finished) \in Nat /\ Cardinality(Requests) \in Nat
      /\ n <= Cardinality(Finished) + 1
      /\ cur[r] <= Cardinality(Finished)
      /\ Cardinality(Finished) + 1 <= Cardinality(Requests)
  <2>1. r \in Requests \ Finished
    BY <1>2 DEF Finished
  <2>2. QED
    BY <1>2, <2>1, RowsCard, FinishedFinite DEF IInv, Counting, InFlight
<1>4. LastDownstreamSeq(r, c) = n - 1
  <2>1. VisibleSeqs(r, c) = {w.seq : w \in Rows(c)}
    BY <1>2 DEF VisibleSeqs, Rows, OwnRows
  <2>2. {w.seq : w \in Rows(c)} = 0..(n - 1)
    BY <1>2 DEF IInv, DownstreamSequencing, Rows
  <2>3. QED
    BY <1>3, <2>1, <2>2, MaxOfInterval DEF LastDownstreamSeq
<1>5. x.seq = n /\ x \in Row
  <2>1. x.seq = n /\ x.seq \in Seqs
    BY <1>3, <1>4 DEF Seqs
  <2>2. cur[r] + 1 \in Seqs
    BY <1>3 DEF IInv, TypeOK, Seqs
  <2>3. QED
    BY <1>2, <2>1, <2>2 DEF Row, Writers
<1>6. TypeOK'
  BY <1>1, <1>2, <1>5 DEF IInv, TypeOK
<1>7. LockHeld'
  BY <1>2 DEF IInv, LockHeld
<1>8. OwnRowsPending'
  <2> SUFFICES ASSUME NEW q \in Requests
               PROVE  /\ rpc'[q] # "downstream" => ownDs'[q] = {}
                      /\ rpc'[q] = "downstream" =>
                           \A d \in Clusters :
                               /\ d \in dsLeft'[q] => OwnRows(q, d)' = {}
                               /\ d \notin dsLeft'[q] =>
                                    \E y \in ownDs'[q] :
                                        /\ OwnRows(q, d)' = {y}
                                        /\ y.seq = Cardinality(Rows(d)')
    BY DEF OwnRowsPending
  <2>1. CASE q # r
    BY <1>1, <1>2, <2>1 DEF IInv, TypeOK, OwnRowsPending, OwnRows, Rows
  <2>2. CASE q = r
    <3> SUFFICES ASSUME NEW d \in Clusters
                 PROVE  /\ d \in dsLeft'[r] => OwnRows(r, d)' = {}
                        /\ d \notin dsLeft'[r] =>
                             \E y \in ownDs'[r] :
                                 /\ OwnRows(r, d)' = {y}
                                 /\ y.seq = Cardinality(Rows(d)')
      BY <1>2, <2>2
    <3>1. OwnRows(r, d)' = OwnRows(r, d) \cup (IF d = c THEN {x} ELSE {})
      BY <1>1 DEF IInv, TypeOK, OwnRows
    <3>2. Rows(d)' = Rows(d)
      BY <1>2 DEF Rows
    <3>3. CASE d = c
      <4>1. OwnRows(r, d)' = {x} /\ x \in ownDs'[r] /\ d \notin dsLeft'[r]
        BY <1>1, <1>2, <3>1, <3>3 DEF IInv, TypeOK
      <4>2. QED
        BY <1>5, <3>2, <3>3, <4>1
    <3>4. CASE d # c
      <4>1. OwnRows(r, d)' = OwnRows(r, d) /\ (d \in dsLeft'[r] <=> d \in dsLeft[r])
        BY <1>1, <3>1, <3>4 DEF IInv, TypeOK
      <4>2. ownDs[r] \subseteq ownDs'[r]
        BY <1>1 DEF IInv, TypeOK
      <4>3. QED
        BY <1>2, <3>2, <4>1, <4>2 DEF IInv, OwnRowsPending
    <3>5. QED
      BY <3>3, <3>4
  <2>3. QED
    BY <2>1, <2>2
<1>9. Counting'
  BY <1>2, FinishedFinite, CountingMono DEF Finished, InFlight
<1>10. DownstreamSequencing'
  BY <1>2 DEF IInv, DownstreamSequencing
<1>11. QED
  BY <1>6, <1>7, <1>8, <1>9, <1>10 DEF IInv
(* tx.Commit: the committer holds the app row lock, so it is the only      *)
(* transaction with own rows, and each of them is the next row of its     *)
(* cluster.                                                                *)
LEMMA CommitStep ==
    ASSUME IInv, NEW r \in Requests, Commit(r) PROVE IInv'
<1>1. /\ rpc[r] = "downstream" /\ dsLeft[r] = {} /\ appLock = r
      /\ r \notin Finished /\ Finished' = Finished \cup {r}
  BY DEF Commit, IInv, TypeOK, LockHeld, Finished
<1>2. /\ Cardinality(Finished') = Cardinality(Finished) + 1
      /\ Cardinality(Finished) \in Nat /\ Cardinality(Requests) \in Nat
      /\ Cardinality(Finished) + 1 <= Cardinality(Requests)
      /\ cur[r] <= Cardinality(Finished)
  BY <1>1, FinishedAdd, FinishedFinite DEF IInv, Counting, InFlight
<1>3. \A q \in Requests \ {r} : rpc[q] \notin {"prevarchive", "downstream"} /\ ownDs[q] = {}
  BY <1>1, AppAssumption DEF IInv, LockHeld, OwnRowsPending
<1>4. ASSUME NEW c \in Clusters
      PROVE  \E x \in ownDs[r] : OwnRows(r, c) = {x} /\ x.seq = Cardinality(Rows(c))
  BY <1>1 DEF IInv, OwnRowsPending
<1>5. ASSUME NEW c \in Clusters
      PROVE  /\ IsFiniteSet(Rows(c)')
             /\ Cardinality(Rows(c)') = Cardinality(Rows(c)) + 1
             /\ \A y, z \in Rows(c)' : y.seq = z.seq => y = z
             /\ {w.seq : w \in Rows(c)'} = 0..(Cardinality(Rows(c)') - 1)
  <2>1. PICK x \in ownDs[r] : OwnRows(r, c) = {x} /\ x.seq = Cardinality(Rows(c))
    BY <1>4
  <2>2. Rows(c)' = Rows(c) \cup {x}
    BY <2>1 DEF Commit, Rows, OwnRows
  <2>3. /\ IsFiniteSet(Rows(c))
        /\ \A y, z \in Rows(c) : y.seq = z.seq => y = z
        /\ {w.seq : w \in Rows(c)} = 0..(Cardinality(Rows(c)) - 1)
    BY DEF IInv, Counting, DownstreamSequencing, Rows
  <2>4. /\ IsFiniteSet(Rows(c) \cup {x})
        /\ Cardinality(Rows(c) \cup {x}) = Cardinality(Rows(c)) + 1
        /\ \A y, z \in Rows(c) \cup {x} : y.seq = z.seq => y = z
        /\ {w.seq : w \in Rows(c) \cup {x}} = 0..(Cardinality(Rows(c) \cup {x}) - 1)
    BY <2>1, <2>3, AddNextRow
  <2>5. QED
    BY <2>2, <2>4
<1>6. TypeOK'
  <2>1. cur[r] + 1 \in Seqs
    BY <1>2 DEF IInv, TypeOK, Seqs
  <2>2. QED
    BY <2>1 DEF Commit, IInv, TypeOK, Writers, Pcs
<1>7. LockHeld' /\ OwnRowsPending'
  BY <1>3 DEF Commit, IInv, TypeOK, LockHeld, OwnRowsPending
<1>8. Counting'
  <2>1. \A c \in Clusters : IsFiniteSet(Rows(c)') /\ Cardinality(Rows(c)') <= Cardinality(Finished') + 1
    BY <1>2, <1>5, RowsCard DEF IInv, Counting
  <2>2. appSeq' <= Cardinality(Finished')
    BY <1>2 DEF Commit, IInv, TypeOK, Seqs
  <2>3. \A q \in Requests : rpc'[q] \in InFlight => cur'[q] <= Cardinality(Finished')
    BY <1>2 DEF Commit, IInv, TypeOK, Counting, InFlight, Seqs
  <2>4. \A q \in Requests : rpc'[q] = "upload" => cur'[q] + 1 <= Cardinality(Requests)
    BY <1>2 DEF Commit, IInv, TypeOK, Counting, Seqs
  <2>5. QED
    BY <2>1, <2>2, <2>3, <2>4 DEF Counting
<1>9. DownstreamSequencing'
  BY <1>5 DEF DownstreamSequencing, Rows
<1>10. QED
  BY <1>6, <1>7, <1>8, <1>9 DEF IInv

(* tx.Rollback discards the own rows and releases the locks.               *)
LEMMA RollbackStep ==
    ASSUME IInv, NEW r \in Requests, Rollback(r) PROVE IInv'
<1>1. /\ rpc[r] \in {"update", "prevarchive", "downstream"}
      /\ r \notin Finished /\ Finished' = Finished \cup {r}
  BY DEF Rollback, IInv, TypeOK, Finished
<1>2. Cardinality(Finished) <= Cardinality(Finished')
  BY <1>1, FinishedAdd, FinishedFinite
<1>3. TypeOK'
  BY DEF Rollback, IInv, TypeOK, Pcs
<1>4. LockHeld'
  BY DEF Rollback, IInv, TypeOK, LockHeld
<1>5. OwnRowsPending'
  BY RowsFrame DEF Rollback, IInv, TypeOK, OwnRowsPending, OwnRows, Rows
<1>6. Counting'
  <2>1. \A q \in Requests : rpc'[q] \in InFlight => cur'[q] = cur[q] /\ rpc[q] \in InFlight
    BY DEF Rollback, IInv, TypeOK, InFlight
  <2>2. \A q \in Requests : rpc'[q] = "upload" => cur'[q] = cur[q] /\ rpc[q] = "upload"
    BY DEF Rollback, IInv, TypeOK
  <2>3. downstream' = downstream /\ appSeq' = appSeq
    BY DEF Rollback
  <2>4. QED
    BY <1>2, <2>1, <2>2, <2>3, CountingMono
<1>7. DownstreamSequencing'
  BY DEF Rollback, IInv, DownstreamSequencing
<1>8. QED
  BY <1>3, <1>4, <1>5, <1>6, <1>7 DEF IInv
LEMMA IInvStep == IInv /\ [Next]_vars => IInv'
<1> SUFFICES ASSUME IInv, [Next]_vars PROVE IInv'
  OBVIOUS
<1>1. ASSUME NEW r \in Requests,
             \/ GetApp(r) \/ PrepEnd(r) \/ UpsertVersion(r) \/ UpdateApp(r)
             \/ PrevArchive(r) \/ AddDownstream(r) \/ Commit(r) \/ Rollback(r)
             \/ Upload(r)
      PROVE  IInv'
  BY <1>1, GetAppStep, PrepEndStep, UpsertVersionStep, UpdateAppStep,
     PrevArchiveStep, AddDownstreamStep, CommitStep, RollbackStep, UploadStep
<1>2. CASE UNCHANGED vars
  BY <1>2, RowsFrame DEF vars, IInv, TypeOK, LockHeld, OwnRowsPending, Counting,
                         Finished, InFlight
<1>3. QED
  BY <1>1, <1>2 DEF Next

(* However the concurrent UpdateAppConfig requests interleave, fail or     *)
(* roll back, the committed downstream versions of every cluster are       *)
(* numbered 0, 1, ... without a gap or a duplicate: CreateVersion's        *)
(* max(sequence)+1 is safe because the app row lock, taken before the      *)
(* downstream loop, lets only one transaction at a time hold uncommitted   *)
(* downstream rows.  For any finite number of requests and any clusters.  *)
THEOREM DownstreamVersionsSequenced == Spec => []DownstreamSequencing
  BY IInvInit, IInvStep, PTL DEF Spec, IInv

(* Every sequence CreateVersion computes (version, parent and downstream   *)
(* sequence) stays within 0..Cardinality(Requests): each request adds at   *)
(* most one version, and the state is well typed.                          *)
THEOREM AppTypeCorrect == Spec => []TypeOK
  BY IInvInit, IInvStep, PTL DEF Spec, IInv
=============================================================================
