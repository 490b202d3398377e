-------------------------- MODULE BatchEngineProofs --------------------------
(***************************************************************************)
(* Proofs about BatchEngine for any number of engines, items, workers,     *)
(* attempts, cancels and crashes, when no run of the job is begun while    *)
(* another one goes on.  OneRun says just that; HandsInv is what a worker  *)
(* may rely on of the item it holds; SavingInv that a run which takes up   *)
(* the records of an earlier one has not forgotten a completed item, and   *)
(* FileInv that a job without a status file has no record either.          *)
(* DoneInv, proved on top of them, is why a final status can be trusted,   *)
(* and CoverInv, where nothing crashes, why a completed job is whole.      *)
(***************************************************************************)
EXTENDS BatchEngine, TLAPS

OneRun == \A e, f \in Engines : run[e].at # "none" /\ run[f].at # "none" => e = f

\* The worker has saved its item, so the record is as the worker left it.
HasSaved(k) == k.at \in {"attempting", "syncing", "read", "failing"}

HandsInv ==
    \A e \in Engines, w \in Workers :
        LET k == worker[e][w]
        IN  k.at # "idle" =>
              /\ run[e].at = "working"
              /\ k.item \in Items /\ k.item \notin run[e].todo
              /\ k.at = "found" => item[k.item] = "pending"
              /\ HasSaved(k) => item[k.item] = k.saved
              /\ k.at = "read" => k.seen.state # "none"
              /\ \A v \in Workers :
                    worker[e][v].at # "idle" /\ worker[e][v].item = k.item => v = w

SavingInv ==
    \A e \in Engines : run[e].at = "saving" =>
        \A i \in run[e].unsaved : item[i] = "completed" => run[e].listed[i] = "completed"

FileInv ==
    /\ file.state = "none" => item = Nothing /\ \A e \in Engines : run[e].at = "none"
    /\ \A e \in Engines : run[e].at = "finishing" => run[e].state # "none"

Inv ==
    /\ TypeOK
    /\ OneRun
    /\ HandsInv
    /\ SavingInv
    /\ FileInv

\* What a step does to completed items.
Stays == \A i \in Items : item[i] = "completed" => item'[i] = "completed" \/ Unsynced(i)

-----------------------------------------------------------------------------
(* The type invariant *)

\* The values everything starts from are of their types.
LEMMA StartTypes ==
    /\ Nothing \in Listing /\ AllPending \in Listing
    /\ NoFile \in StatusFile /\ NoFile.state = "none"
    /\ NoRun \in Run /\ NoRun.at = "none" /\ NoRun.todo = {} /\ NoRun.unsaved = {}
    /\ Idle \in Worker /\ Idle.at = "idle" /\ Idle.seen = NoFile
<1>1. Nothing \in Listing
  BY DEF Nothing, Listing, ItemStatus
<1>2. AllPending \in Listing
  BY DEF AllPending, Listing, ItemStatus
<1>3. NoFile \in StatusFile /\ NoFile.state = "none"
  BY <1>1 DEF NoFile, StatusFile, JobStatus
<1>4. NoRun \in Run /\ NoRun.at = "none" /\ NoRun.todo = {} /\ NoRun.unsaved = {}
  BY <1>1 DEF NoRun, Run, JobStatus
<1>5. Idle \in Worker /\ Idle.at = "idle" /\ Idle.seen = NoFile
  <2>1. 0 \in 0..NumItems /\ 1 \in 1..MaxAttempts
    BY SpecAssumption
  <2> QED
    BY <1>3, <2>1 DEF Idle, Worker
<1> QED
  BY <1>1, <1>2, <1>3, <1>4, <1>5

\* One worker changes.
LEMMA OneWorker ==
    ASSUME TypeOK, NEW e \in Engines, NEW w \in Workers, NEW k \in Worker,
           worker' = [worker EXCEPT ![e][w] = k]
    PROVE  /\ worker' \in [Engines -> [Workers -> Worker]]
           /\ \A f \in Engines, v \in Workers :
                 worker'[f][v] = IF f = e /\ v = w THEN k ELSE worker[f][v]
BY DEF TypeOK

\* One run changes.
LEMMA OneRunChanges ==
    ASSUME TypeOK, NEW e \in Engines, NEW r \in Run, run' = [run EXCEPT ![e] = r]
    PROVE  /\ run' \in [Engines -> Run]
           /\ \A f \in Engines : run'[f] = IF f = e THEN r ELSE run[f]
BY DEF TypeOK

\* A run begins.
LEMMA BeginsFacts ==
    ASSUME TypeOK, NEW e \in Engines, NEW at \in {"loading", "saving"},
           NEW listed \in Listing, NEW retryFailed \in BOOLEAN,
           Begins(e, at, listed, retryFailed)
    PROVE  \E r \in Run :
              /\ run' = [run EXCEPT ![e] = r]
              /\ r.at = at /\ r.listed = listed /\ r.todo = {}
              /\ at = "saving" => r.unsaved = Items
              /\ file' \in StatusFile /\ file'.state = "running"
              /\ used' \in Used
              /\ UNCHANGED <<item, worker, cancel>>
<1> DEFINE unsaved == IF at = "saving" THEN Items ELSE {}
           r == [NoRun EXCEPT !.at = at, !.retryFailed = retryFailed,
                              !.listed = listed, !.unsaved = unsaved]
<1>1. unsaved \in SUBSET Items
  OBVIOUS
<1>2. run' = [run EXCEPT ![e] = r]
  BY DEF Begins
<1>u. at = "saving" => unsaved = Items
  OBVIOUS
<1> HIDE DEF unsaved
<1>3. /\ r \in Run /\ r.at = at /\ r.listed = listed /\ r.todo = {}
      /\ r.unsaved = unsaved
  BY <1>1, StartTypes DEF Run
<1>4. file' \in StatusFile /\ file'.state = "running"
  BY StartTypes DEF Begins, StatusFile, JobStatus
<1>5. used' \in Used
  BY BoundAssumption DEF Begins, TypeOK, Used
<1> HIDE DEF r
<1> QED
  BY <1>2, <1>3, <1>u, <1>4, <1>5 DEF Begins

\* What a run takes up and ends with.
LEMMA TakenUpType ==
    ASSUME NEW status \in ItemStatus, NEW retryFailed
    PROVE  /\ TakenUp(status, retryFailed) \in ItemStatus
           /\ status = "completed" => TakenUp(status, retryFailed) = "completed"
           /\ TakenUp(status, retryFailed) # "running"
           /\ status = "none" <=> TakenUp(status, retryFailed) = "none"
BY DEF TakenUp, ItemStatus

\* The final status is a status.
LEMMA FinalType ==
    ASSUME NEW isCancelled \in BOOLEAN, NEW listing
    PROVE  FinalStatus(isCancelled, listing) \in JobStatus \ {"none"}
<1>1. CASE isCancelled
  BY <1>1 DEF FinalStatus, JobStatus
<1>2. CASE ~isCancelled /\ Has(listing, "failed")
  BY <1>2 DEF FinalStatus, JobStatus
<1>3. CASE ~isCancelled /\ ~Has(listing, "failed")
  BY <1>3 DEF FinalStatus, JobStatus
<1> QED
  BY <1>1, <1>2, <1>3

\* A run loads the records: what it lists and has to save.
LEMMA LoadFacts ==
    ASSUME TypeOK, NEW e \in Engines, LoadExisting(e)
    PROVE  \E r \in Run :
              /\ run' = [run EXCEPT ![e] = r]
              /\ r.at = "saving" /\ r.todo = run[e].todo
              /\ \A i \in Items : item[i] = "completed" => r.listed[i] = "completed"
              /\ \A i \in Items : r.listed[i] # "running"
              /\ \A i \in Items : item[i] # "none" => r.listed[i] # "none"
              /\ \A i \in Items : i \notin r.unsaved => item[i] = r.listed[i]
<1> DEFINE found == {i \in Items : item[i] # "none"}
           listed == IF found = {} THEN AllPending
                     ELSE [i \in Items |-> TakenUp(item[i], run[e].retryFailed)]
           unsaved == IF found = {} THEN Items ELSE found
           r == [run[e] EXCEPT !.at = "saving", !.listed = listed, !.unsaved = unsaved]
<1>0. \A i \in Items : item[i] \in ItemStatus
  BY DEF TypeOK, Listing
<1>1. listed \in Listing
  BY <1>0, StartTypes, TakenUpType DEF Listing
<1>2. unsaved \in SUBSET Items
  OBVIOUS
<1>3. \A i \in Items : item[i] = "completed" => listed[i] = "completed"
  BY <1>0, TakenUpType
<1>r. \A i \in Items : listed[i] # "running"
  BY <1>0, TakenUpType DEF AllPending
<1>n. \A i \in Items : item[i] # "none" => listed[i] # "none"
  BY <1>0, TakenUpType DEF AllPending
<1>s. \A i \in Items : i \notin unsaved => item[i] = listed[i]
  BY <1>0, TakenUpType
<1>4. run' = [run EXCEPT ![e] = r]
  BY DEF LoadExisting
<1> HIDE DEF listed, unsaved
<1>5. /\ r \in Run /\ r.at = "saving" /\ r.todo = run[e].todo
      /\ r.listed = listed /\ r.unsaved = unsaved
  BY <1>1, <1>2 DEF TypeOK, Run
<1> HIDE DEF r
<1> QED
  BY <1>3, <1>r, <1>n, <1>s, <1>4, <1>5

\* A worker takes the next work item of its run.
LEMMA TakeFacts ==
    ASSUME TypeOK, NEW e \in Engines, NEW w \in Workers, Take(e, w)
    PROVE  \E i \in run[e].todo, r \in Run, k \in Worker :
              /\ run' = [run EXCEPT ![e] = r]
              /\ r.at = "working" /\ r.todo = run[e].todo \ {i}
              /\ worker' = [worker EXCEPT ![e][w] = k]
              /\ k.at = "taken" /\ k.item = i
<1>1. PICK i \in run[e].todo :
         /\ run' = [run EXCEPT ![e].todo = Rest(@, i)]
         /\ worker' = [worker EXCEPT ![e][w] =
                         [Idle EXCEPT !.at = "taken", !.item = i]]
  BY DEF Take
<1> DEFINE r == [run[e] EXCEPT !.todo = run[e].todo \ {i}]
           k == [Idle EXCEPT !.at = "taken", !.item = i]
<1>2. run' = [run EXCEPT ![e] = r]
  BY <1>1 DEF TypeOK, Rest
<1>3. r \in Run /\ r.at = "working" /\ r.todo = run[e].todo \ {i}
  BY ZenonT(60) DEF TypeOK, Run, Take
<1>4. i \in 0..NumItems
  BY SpecAssumption DEF TypeOK, Run, Items
<1>5. k \in Worker /\ k.at = "taken" /\ k.item = i
  BY <1>4, StartTypes DEF Worker
<1> HIDE DEF r, k
<1> QED
  BY <1>1, <1>2, <1>3, <1>5 DEF k

\* A worker saves its record.
LEMMA SavesFacts ==
    ASSUME TypeOK, NEW e \in Engines, NEW w \in Workers,
           NEW status \in {"running", "completed", "failed"}, Saves(e, w, status)
    PROVE  \E k \in Worker :
              /\ worker' = [worker EXCEPT ![e][w] = k]
              /\ k.at = "syncing" /\ k.item = worker[e][w].item /\ k.saved = status
              /\ item' = [item EXCEPT ![k.item] = status]
              /\ item' \in Listing
<1> DEFINE k == [worker[e][w] EXCEPT !.at = "syncing", !.saved = status]
<1>0. worker[e][w] \in Worker
  BY DEF TypeOK
<1>1. k \in Worker /\ k.at = "syncing" /\ k.item = worker[e][w].item /\ k.saved = status
  BY <1>0 DEF Worker, Settled
<1>2. worker' = [worker EXCEPT ![e][w] = k]
  BY DEF Saves
<1>3. item' = [item EXCEPT ![worker[e][w].item] = status]
  BY DEF Saves
<1>4. item' \in Listing
  BY <1>3 DEF TypeOK, Listing, ItemStatus, Settled
<1> HIDE DEF k
<1> QED
  BY <1>1, <1>2, <1>3, <1>4

\* The steps of a worker that leave its record alone.
Unsaving(e, w) ==
    \/ GetItem(e, w)
    \/ SyncRead(e, w)
    \/ SyncWrite(e, w)
    \/ SyncFails(e, w)
    \/ /\ worker[e][w].at = "attempting"
       /\ MayRetry(worker[e][w].attempt)
       /\ worker' = [worker EXCEPT ![e][w].attempt = @ + 1]
       /\ UNCHANGED <<item, file, cancelled, run, cancel, used>>

\* What they do to the worker and to the status file.
LEMMA UnsavingFacts ==
    ASSUME TypeOK, NEW e \in Engines, NEW w \in Workers, Unsaving(e, w)
    PROVE  \E k \in Worker :
              /\ worker' = [worker EXCEPT ![e][w] = k]
              /\ worker[e][w].at # "idle" /\ k.at # "taken"
              /\ k.at # "idle" => k.item = worker[e][w].item
              /\ k.at = "found" => item[k.item] = "pending"
              /\ HasSaved(k) => HasSaved(worker[e][w]) /\ k.saved = worker[e][w].saved
              /\ k.at = "read" => k.seen.state = file.state
              /\ k.at = "idle" =>
                    \/ worker[e][w].at = "taken" /\ item[worker[e][w].item] # "pending"
                    \/ worker[e][w].at = "read" /\ worker[e][w].saved \in Settled
              /\ \/ UNCHANGED file
                 \/ worker[e][w].at = "read" /\ file' = worker[e][w].seen
              /\ UNCHANGED <<item, cancelled, run, cancel>> /\ used' \in Used
<1> DEFINE old == worker[e][w]
<1>0. old \in Worker /\ file \in StatusFile /\ item \in Listing /\ used \in Used
  BY DEF TypeOK
<1>1. CASE SyncRead(e, w)
  <2> DEFINE seen == [state |-> file.state, stats |-> item]
             k == [old EXCEPT !.at = "read", !.seen = seen]
  <2>1. seen \in StatusFile /\ seen.state = file.state
    BY <1>0 DEF StatusFile
  <2>2. /\ worker' = [worker EXCEPT ![e][w] = k] /\ old.at = "syncing"
        /\ UNCHANGED <<item, file, cancelled, run, cancel, used>>
    BY <1>1 DEF SyncRead
  <2> HIDE DEF seen
  <2>3. /\ k \in Worker /\ k.at = "read" /\ k.item = old.item
        /\ k.saved = old.saved /\ k.seen = seen
    BY <1>0, <2>1 DEF Worker
  <2> HIDE DEF k
  <2> QED
    BY <1>0, <2>1, <2>2, <2>3 DEF HasSaved
<1>2. CASE SyncWrite(e, w)
  <2>0. /\ old.at = "read" /\ file' = old.seen
        /\ UNCHANGED <<item, cancelled, run, cancel, used>>
    BY <1>2 DEF SyncWrite
  <2>1. CASE old.saved # "running"
    <3>1. worker' = [worker EXCEPT ![e][w] = Idle]
      BY <1>2, <2>1 DEF SyncWrite, TypeOK
    <3>2. old.saved \in Settled
      BY <1>0, <2>1 DEF Worker
    <3> QED
      BY <1>0, <2>0, <3>1, <3>2, StartTypes DEF HasSaved
  <2>2. CASE old.saved = "running"
    <3> DEFINE k == [old EXCEPT !.at = "attempting", !.seen = NoFile]
    <3>1. worker' = [worker EXCEPT ![e][w] = k]
      BY <1>2, <2>2 DEF SyncWrite, TypeOK
    <3>2. k \in Worker /\ k.at = "attempting" /\ k.item = old.item /\ k.saved = old.saved
      BY <1>0, StartTypes DEF Worker
    <3> HIDE DEF k
    <3> QED
      BY <1>0, <2>0, <3>1, <3>2 DEF HasSaved
  <2> QED
    BY <2>1, <2>2
<1>3. CASE /\ old.at = "attempting"
           /\ MayRetry(old.attempt)
           /\ worker' = [worker EXCEPT ![e][w].attempt = @ + 1]
           /\ UNCHANGED <<item, file, cancelled, run, cancel, used>>
  <2> DEFINE n == old.attempt + 1
             k == [old EXCEPT !.attempt = n]
  <2>1. n \in 1..MaxAttempts
    BY <1>0, <1>3, SpecAssumption DEF MayRetry, Worker
  <2>2. worker' = [worker EXCEPT ![e][w] = k]
    BY <1>3 DEF TypeOK
  <2> HIDE DEF n
  <2>3. k \in Worker /\ k.at = "attempting" /\ k.item = old.item /\ k.saved = old.saved
    BY <1>0, <1>3, <2>1 DEF Worker
  <2> HIDE DEF k
  <2> QED
    BY <1>0, <1>3, <2>2, <2>3 DEF HasSaved
<1>4. CASE GetItem(e, w)
  <2>0. old.at = "taken" /\ UNCHANGED <<item, file, cancelled, run, cancel, used>>
    BY <1>4 DEF GetItem
  <2>1. CASE item[old.item] # "pending"
    <3>1. worker' = [worker EXCEPT ![e][w] = Idle]
      BY <1>4, <2>1 DEF GetItem, TypeOK
    <3> QED
      BY <1>0, <2>0, <2>1, <3>1, StartTypes DEF HasSaved
  <2>2. CASE item[old.item] = "pending"
    <3> DEFINE k == [old EXCEPT !.at = "found"]
    <3>1. worker' = [worker EXCEPT ![e][w] = k]
      BY <1>4, <2>2 DEF GetItem, TypeOK
    <3>2. k \in Worker /\ k.at = "found" /\ k.item = old.item
      BY <1>0 DEF Worker
    <3> HIDE DEF k
    <3> QED
      BY <1>0, <2>0, <2>2, <3>1, <3>2 DEF HasSaved
  <2> QED
    BY <2>1, <2>2
<1>5. CASE SyncFails(e, w)
  <2>0. /\ old.at \in {"syncing", "read"}
        /\ UNCHANGED file \/ (old.at = "read" /\ file' = old.seen)
        /\ UNCHANGED <<item, cancelled, run, cancel>>
    BY <1>5 DEF SyncFails
  <2>u. used' \in Used
    BY <1>0, <1>5, BoundAssumption DEF SyncFails, Used
  <2>1. ASSUME NEW at \in {"attempting", "failing"}, NEW n \in 1..MaxAttempts,
               worker' = [worker EXCEPT ![e][w] =
                            [old EXCEPT !.at = at, !.attempt = n, !.seen = NoFile]]
        PROVE  \E k \in Worker :
                  /\ worker' = [worker EXCEPT ![e][w] = k]
                  /\ k.at \in {"attempting", "failing"}
                  /\ k.item = old.item /\ k.saved = old.saved
    <3> DEFINE k == [old EXCEPT !.at = at, !.attempt = n, !.seen = NoFile]
    <3>1. /\ k \in Worker /\ k.at = at /\ k.item = old.item /\ k.saved = old.saved
          /\ worker' = [worker EXCEPT ![e][w] = k]
      BY <1>0, <2>1, StartTypes DEF Worker
    <3> HIDE DEF k
    <3> QED
      BY <3>1
  <2>2. CASE /\ MayRetry(old.attempt)
             /\ worker' = [worker EXCEPT ![e][w] =
                             [@ EXCEPT !.at = "attempting", !.seen = NoFile,
                                       !.attempt = old.attempt + 1]]
    <3>1. old.attempt + 1 \in 1..MaxAttempts
      BY <1>0, <2>2, SpecAssumption DEF MayRetry, Worker
    <3>2. worker' = [worker EXCEPT ![e][w] =
                       [old EXCEPT !.at = "attempting", !.attempt = old.attempt + 1,
                                   !.seen = NoFile]]
      BY <1>0, <2>2 DEF TypeOK, Worker
    <3> QED
      BY <1>0, <2>0, <2>u, <2>1, <3>1, <3>2 DEF HasSaved
  <2>3. CASE worker' = [worker EXCEPT ![e][w] =
                          [@ EXCEPT !.at = "failing", !.seen = NoFile]]
    <3>1. old.attempt \in 1..MaxAttempts
      BY <1>0 DEF Worker
    <3>2. worker' = [worker EXCEPT ![e][w] =
                       [old EXCEPT !.at = "failing", !.attempt = old.attempt,
                                   !.seen = NoFile]]
      BY <1>0, <2>3 DEF TypeOK, Worker
    <3> QED
      BY <1>0, <2>0, <2>u, <2>1, <3>1, <3>2 DEF HasSaved
  <2> QED
    BY <1>5, <2>2, <2>3 DEF SyncFails
<1> QED
  BY <1>1, <1>2, <1>3, <1>4, <1>5 DEF Unsaving

\* Every step keeps the type invariant.
LEMMA TypeNext == TypeOK /\ [Next]_vars => TypeOK'
<1> SUFFICES ASSUME TypeOK, [Next]_vars PROVE TypeOK'
  OBVIOUS
<1>0. /\ item \in Listing /\ file \in StatusFile /\ run \in [Engines -> Run]
      /\ worker \in [Engines -> [Workers -> Worker]] /\ cancel \in [Engines -> StatusFile]
      /\ cancelled \in [Engines -> BOOLEAN]
  BY DEF TypeOK
<1>b. ASSUME NEW e \in Engines, NEW at \in {"loading", "saving"}, NEW listed \in Listing,
             NEW retryFailed \in BOOLEAN, Begins(e, at, listed, retryFailed),
             cancelled' \in [Engines -> BOOLEAN]
      PROVE  TypeOK'
  <2>1. PICK r \in Run :
           /\ run' = [run EXCEPT ![e] = r] /\ file' \in StatusFile /\ used' \in Used
           /\ UNCHANGED <<item, worker, cancel>>
    BY <1>b, BeginsFacts
  <2> QED
    BY <1>b, <2>1, OneRunChanges DEF TypeOK
<1>1. CASE Submit
  BY <1>0, <1>1, <1>b, StartTypes, EnginesAssumption DEF Submit
<1>2. ASSUME NEW e \in Engines, Resume(e) PROVE TypeOK'
  BY <1>0, <1>2, <1>b, StartTypes DEF Resume
<1>3. ASSUME NEW e \in Engines, LoadExisting(e) PROVE TypeOK'
  <2>1. PICK r \in Run : run' = [run EXCEPT ![e] = r]
    BY <1>3, LoadFacts
  <2>2. UNCHANGED <<item, file, cancelled, worker, cancel, used>>
    BY <1>3 DEF LoadExisting
  <2> QED
    BY <2>1, <2>2, OneRunChanges DEF TypeOK
<1>4. ASSUME NEW e \in Engines, SaveRecord(e) PROVE TypeOK'
  <2>1. PICK i \in run[e].unsaved :
           /\ item' = [item EXCEPT ![i] = run[e].listed[i]]
           /\ run' = [run EXCEPT ![e].unsaved = @ \ {i}]
    BY <1>4 DEF SaveRecord
  <2>2. i \in Items /\ run[e].listed[i] \in ItemStatus
    BY <1>0 DEF Run, Listing
  <2>3. item' \in Listing
    BY <1>0, <2>1, <2>2 DEF Listing
  <2>4. run' \in [Engines -> Run]
    <3> DEFINE r == [run[e] EXCEPT !.unsaved = run[e].unsaved \ {i}]
    <3>1. run' = [run EXCEPT ![e] = r]
      BY <1>0, <2>1
    <3>2. r \in Run
      BY <1>0 DEF Run
    <3> QED
      BY <3>1, <3>2, OneRunChanges
  <2>5. UNCHANGED <<file, cancelled, worker, cancel, used>>
    BY <1>4 DEF SaveRecord
  <2> QED
    BY <2>3, <2>4, <2>5 DEF TypeOK
<1>5. ASSUME NEW e \in Engines, StartWorkers(e) PROVE TypeOK'
  <2> DEFINE todo == {i \in Items : run[e].listed[i] = "pending"}
             r == [run[e] EXCEPT !.at = "working", !.todo = todo]
  <2>1. run' = [run EXCEPT ![e] = r]
    BY <1>5 DEF StartWorkers
  <2>2. todo \in SUBSET Items
    OBVIOUS
  <2> HIDE DEF todo
  <2>3. r \in Run
    BY <1>0, <2>2 DEF Run
  <2>4. file' \in StatusFile
    BY <1>0, <1>5 DEF StartWorkers, StatusFile, Run, JobStatus
  <2>5. UNCHANGED <<item, cancelled, worker, cancel, used>>
    BY <1>5 DEF StartWorkers
  <2> QED
    BY <2>1, <2>3, <2>4, <2>5, OneRunChanges DEF TypeOK
<1>6. ASSUME NEW e \in Engines, NEW w \in Workers, Take(e, w) PROVE TypeOK'
  <2>1. PICK r \in Run, k \in Worker : /\ run' = [run EXCEPT ![e] = r]
                                       /\ worker' = [worker EXCEPT ![e][w] = k]
    BY <1>6, TakeFacts
  <2>2. worker' \in [Engines -> [Workers -> Worker]]
    BY <1>0, <2>1, OneWorker
  <2>3. UNCHANGED <<item, file, cancelled, cancel, used>>
    BY <1>6 DEF Take
  <2> QED
    BY <2>1, <2>2, <2>3, OneRunChanges DEF TypeOK
<1>7. ASSUME NEW e \in Engines, NEW w \in Workers,
             NEW status \in {"running", "completed", "failed"},
             Saves(e, w, status)
      PROVE  TypeOK'
  <2>1. PICK k \in Worker :
           worker' = [worker EXCEPT ![e][w] = k] /\ item' \in Listing
    BY <1>7, SavesFacts
  <2>2. UNCHANGED <<file, cancelled, run, cancel, used>>
    BY <1>7 DEF Saves
  <2> QED
    BY <2>1, <2>2, OneWorker DEF TypeOK
<1>8. ASSUME NEW e \in Engines, NEW w \in Workers,
             Unsaving(e, w)
      PROVE  TypeOK'
  <2>1. PICK k \in Worker :
           /\ worker' = [worker EXCEPT ![e][w] = k]
           /\ UNCHANGED file \/ file' = worker[e][w].seen
           /\ UNCHANGED <<item, cancelled, run, cancel>> /\ used' \in Used
    BY <1>8, UnsavingFacts
  <2>2. file' \in StatusFile
    BY <1>0, <2>1 DEF Worker
  <2> QED
    BY <2>1, <2>2, OneWorker DEF TypeOK
<1>9. ASSUME NEW e \in Engines, Conclude(e) PROVE TypeOK'
  <2> DEFINE state == FinalStatus(cancelled[e], item)
             r == [run[e] EXCEPT !.at = "finishing", !.listed = item, !.state = state]
  <2>1. run' = [run EXCEPT ![e] = r]
    BY <1>9 DEF Conclude
  <2>2. state \in JobStatus
    BY <1>0, FinalType
  <2> HIDE DEF state
  <2>3. r \in Run
    BY <1>0, <2>2 DEF Run
  <2>4. UNCHANGED <<item, file, cancelled, worker, cancel, used>>
    BY <1>9 DEF Conclude
  <2> QED
    BY <2>1, <2>3, <2>4, OneRunChanges DEF TypeOK
<1>10. ASSUME NEW e \in Engines, Finish(e) PROVE TypeOK'
  <2>1. run' = [run EXCEPT ![e] = NoRun] /\ UNCHANGED <<item, cancelled, worker, cancel, used>>
    BY <1>10 DEF Finish
  <2>2. file' \in StatusFile
    BY <1>0, <1>10 DEF Finish, StatusFile, Run
  <2> QED
    BY <2>1, <2>2, StartTypes, OneRunChanges DEF TypeOK
<1>11. ASSUME NEW e \in Engines, Cancel(e) PROVE TypeOK'
  BY <1>0, <1>11, BoundAssumption DEF Cancel, TypeOK, Used
<1>12. ASSUME NEW e \in Engines, CancelWrites(e) PROVE TypeOK'
  <2>1. file' \in StatusFile
    BY <1>0, <1>12 DEF CancelWrites, StatusFile, JobStatus
  <2>2. cancel' \in [Engines -> StatusFile]
    BY <1>0, <1>12, StartTypes DEF CancelWrites
  <2> QED
    BY <1>12, <2>1, <2>2 DEF CancelWrites, TypeOK
<1>13. ASSUME NEW e \in Engines, Crash(e) PROVE TypeOK'
  <2>1. run' \in [Engines -> Run] /\ cancel' \in [Engines -> StatusFile]
        /\ cancelled' \in [Engines -> BOOLEAN]
    BY <1>0, <1>13, StartTypes DEF Crash
  <2>2. worker' \in [Engines -> [Workers -> Worker]]
    BY <1>0, <1>13, StartTypes DEF Crash
  <2>3. used' \in Used
    BY <1>13, BoundAssumption DEF Crash, TypeOK, Used
  <2> QED
    BY <1>13, <2>1, <2>2, <2>3 DEF Crash, TypeOK
<1>14. CASE UNCHANGED vars
  BY <1>14 DEF vars, TypeOK
<1> QED
  BY <1>1, <1>2, <1>3, <1>4, <1>5, <1>6, <1>7, <1>8, <1>9, <1>10, <1>11, <1>12, <1>13,
     <1>14 DEF Next, Progress, WorkerStep, MarkRunning, Attempt, MarkFailed, Unsaving

-----------------------------------------------------------------------------
(* One run at a time *)

\* While no run is at work, no worker holds an item.
LEMMA NoHands ==
    ASSUME Inv, NEW e \in Engines,
           run[e].at \notin {"none", "working"}
    PROVE  /\ \A f \in Engines, w \in Workers : worker[f][w].at = "idle"
           /\ \A f \in Engines : f # e => run[f].at = "none"
BY DEF Inv, OneRun, HandsInv

\* The run moves on, and no worker holds an item afterwards.
LEMMA RunMoves ==
    ASSUME Inv, TypeOK', NEW e \in Engines, NEW r \in Run,
           run' = [run EXCEPT ![e] = r],
           \A f \in Engines : f # e => run[f].at = "none",
           \A f \in Engines, w \in Workers : worker'[f][w].at = "idle",
           r.at = "saving" =>
              \A i \in r.unsaved : item'[i] = "completed" => r.listed[i] = "completed",
           r.at = "finishing" => r.state # "none",
           file'.state # "none"
    PROVE  Inv'
<1>1. \A f \in Engines : run'[f] = IF f = e THEN r ELSE run[f]
  BY DEF Inv, TypeOK
<1>2. OneRun'
  BY <1>1 DEF OneRun
<1>3. HandsInv'
  BY DEF HandsInv
<1>4. SavingInv'
  BY <1>1 DEF SavingInv
<1>5. FileInv'
  BY <1>1 DEF FileInv
<1> QED
  BY <1>2, <1>3, <1>4, <1>5 DEF Inv

\* A worker of the run that is at work moves on with the item it holds, or lets
\* go of it.
LEMMA WorkerMoves ==
    ASSUME Inv, TypeOK', NEW e \in Engines, NEW w \in Workers, NEW k \in Worker,
           worker[e][w].at # "idle",
           worker' = [worker EXCEPT ![e][w] = k], run' = run,
           k.at # "idle" => k.item = worker[e][w].item,
           k.at = "found" => item'[k.item] = "pending",
           HasSaved(k) => item'[k.item] = k.saved,
           k.at = "read" => k.seen.state # "none",
           \A i \in Items : i # worker[e][w].item => item'[i] = item[i],
           file'.state # "none"
    PROVE  Inv'
<1> USE DEF Inv
<1>1. \A f \in Engines, v \in Workers :
         worker'[f][v] = IF f = e /\ v = w THEN k ELSE worker[f][v]
  BY OneWorker
<1>2. /\ run[e].at = "working" /\ \A f \in Engines : f # e => run[f].at = "none"
      /\ worker[e][w].item \in Items /\ worker[e][w].item \notin run[e].todo
  BY DEF HandsInv, OneRun
<1>3. OneRun'
  BY DEF OneRun
<1>4. HandsInv'
  <2> SUFFICES ASSUME NEW f \in Engines, NEW v \in Workers, worker'[f][v].at # "idle"
               PROVE  /\ run'[f].at = "working"
                      /\ worker'[f][v].item \in Items
                      /\ worker'[f][v].item \notin run'[f].todo
                      /\ worker'[f][v].at = "found" => item'[worker'[f][v].item] = "pending"
                      /\ HasSaved(worker'[f][v]) =>
                            item'[worker'[f][v].item] = worker'[f][v].saved
                      /\ worker'[f][v].at = "read" => worker'[f][v].seen.state # "none"
                      /\ \A u \in Workers :
                            worker'[f][u].at # "idle"
                            /\ worker'[f][u].item = worker'[f][v].item => u = v
    BY DEF HandsInv, HasSaved
  <2>1. CASE f = e /\ v = w
    <3>1. worker'[f][v] = k /\ k.item = worker[e][w].item
      BY <1>1, <2>1
    <3>2. \A u \in Workers : u # w /\ worker'[e][u].at # "idle" =>
             worker'[e][u].item # worker[e][w].item
      BY <1>1 DEF HandsInv
    <3> QED
      BY <1>2, <2>1, <3>1, <3>2
  <2>2. CASE ~(f = e /\ v = w)
    <3>1. worker'[f][v] = worker[f][v]
      BY <1>1, <2>2
    <3>2. /\ run[f].at = "working" /\ f = e /\ v # w
          /\ worker[f][v].item \in Items /\ worker[f][v].item \notin run[f].todo
          /\ worker[f][v].at = "found" => item[worker[f][v].item] = "pending"
          /\ HasSaved(worker[f][v]) => item[worker[f][v].item] = worker[f][v].saved
          /\ worker[f][v].at = "read" => worker[f][v].seen.state # "none"
          /\ worker[f][v].item # worker[e][w].item
          /\ \A u \in Workers : worker[f][u].at # "idle"
                                /\ worker[f][u].item = worker[f][v].item => u = v
      BY <1>2, <2>2, <3>1 DEF HandsInv
    <3>3. \A u \in Workers : worker'[f][u].at # "idle"
                             /\ worker'[f][u].item = worker'[f][v].item => u = v
      BY <1>1, <3>1, <3>2
    <3>4. item'[worker[f][v].item] = item[worker[f][v].item]
      BY <3>2
    <3> QED
      BY <3>1, <3>2, <3>3, <3>4
  <2> QED
    BY <2>1, <2>2
<1>5. SavingInv'
  BY <1>2 DEF SavingInv
<1>6. FileInv'
  BY DEF FileInv
<1> QED
  BY <1>3, <1>4, <1>5, <1>6

\* Every step keeps the invariant and the completed items.
LEMMA NextInv == ~Overlap /\ Inv /\ [Next]_vars => Inv' /\ Stays
<1> SUFFICES ASSUME ~Overlap, Inv, [Next]_vars PROVE Inv' /\ Stays
  OBVIOUS
<1> USE DEF Inv
<1>0. TypeOK'
  BY TypeNext
<1>t. /\ item \in Listing /\ file \in StatusFile /\ run \in [Engines -> Run]
      /\ worker \in [Engines -> [Workers -> Worker]]
  BY DEF TypeOK
<1>same. UNCHANGED item => Stays
  BY DEF Stays
<1>1. ASSUME NEW e \in Engines, NEW at \in {"loading", "saving"}, NEW listed \in Listing,
             NEW retryFailed \in BOOLEAN, Begins(e, at, listed, retryFailed),
             at = "saving" => item = Nothing
      PROVE  Inv' /\ Stays
  <2>1. \A f \in Engines : run[f].at = "none"
    BY <1>1 DEF Begins
  <2>2. \A f \in Engines, w \in Workers : worker[f][w].at = "idle"
    BY <2>1 DEF HandsInv
  <2>3. PICK r \in Run :
           /\ run' = [run EXCEPT ![e] = r] /\ r.at = at
           /\ file'.state = "running" /\ UNCHANGED <<item, worker>>
    BY <1>1, BeginsFacts
  <2>4. at = "saving" => \A i \in Items : item'[i] # "completed"
    BY <1>1, <2>3 DEF Nothing
  <2>5. r.unsaved \subseteq Items
    BY DEF Run
  <2> QED
    BY <1>0, <1>same, <2>1, <2>2, <2>3, <2>4, <2>5, RunMoves
<1>2. CASE Submit
  BY <1>1, <1>2, StartTypes, EnginesAssumption DEF Submit, FileInv
<1>3. ASSUME NEW e \in Engines, Resume(e) PROVE Inv' /\ Stays
  BY <1>1, <1>3, StartTypes DEF Resume
<1>4. ASSUME NEW e \in Engines, LoadExisting(e) PROVE Inv' /\ Stays
  <2>1. PICK r \in Run :
           /\ run' = [run EXCEPT ![e] = r] /\ r.at = "saving"
           /\ \A i \in Items : item[i] = "completed" => r.listed[i] = "completed"
    BY <1>4, LoadFacts
  <2>2. run[e].at = "loading" /\ UNCHANGED <<item, file, worker>>
    BY <1>4 DEF LoadExisting
  <2>3. file.state # "none"
    BY <2>2 DEF FileInv
  <2>4. r.unsaved \subseteq Items
    BY DEF Run
  <2> QED
    BY <1>0, <1>same, <2>1, <2>2, <2>3, <2>4, NoHands, RunMoves
<1>5. ASSUME NEW e \in Engines, SaveRecord(e) PROVE Inv' /\ Stays
  <2>1. PICK i \in run[e].unsaved :
           /\ item' = [item EXCEPT ![i] = run[e].listed[i]]
           /\ run' = [run EXCEPT ![e].unsaved = @ \ {i}]
    BY <1>5 DEF SaveRecord
  <2> DEFINE r == [run[e] EXCEPT !.unsaved = run[e].unsaved \ {i}]
  <2>2. run' = [run EXCEPT ![e] = r]
    BY <1>t, <2>1
  <2>3. /\ r \in Run /\ r.at = "saving" /\ r.listed = run[e].listed
        /\ r.unsaved = run[e].unsaved \ {i} /\ run[e].unsaved \subseteq Items
    BY ZenonT(60), <1>t, <1>5 DEF Run, SaveRecord
  <2>4. run[e].at = "saving" /\ UNCHANGED <<file, worker>>
    BY <1>5 DEF SaveRecord
  <2>5. \A j \in Items : item'[j] = IF j = i THEN run[e].listed[j] ELSE item[j]
    BY <1>t, <2>1 DEF Listing
  <2>6. \A j \in run[e].unsaved : item[j] = "completed" => run[e].listed[j] = "completed"
    BY <2>4 DEF SavingInv
  <2>7. Stays
    BY <2>1, <2>5, <2>6 DEF Stays
  <2>8. file.state # "none"
    BY <2>4 DEF FileInv
  <2> HIDE DEF r
  <2>9. \A j \in r.unsaved : item'[j] = "completed" => r.listed[j] = "completed"
    BY <2>3, <2>5, <2>6
  <2>10. /\ \A f \in Engines, w \in Workers : worker'[f][w].at = "idle"
         /\ \A f \in Engines : f # e => run[f].at = "none"
    BY <2>4, NoHands
  <2> QED
    BY <1>0, <2>2, <2>3, <2>4, <2>7, <2>8, <2>9, <2>10, RunMoves
<1>6. ASSUME NEW e \in Engines, StartWorkers(e) PROVE Inv' /\ Stays
  <2> DEFINE todo == {i \in Items : run[e].listed[i] = "pending"}
             r == [run[e] EXCEPT !.at = "working", !.todo = todo]
  <2>1. run' = [run EXCEPT ![e] = r]
    BY <1>6 DEF StartWorkers
  <2>2. todo \in SUBSET Items
    OBVIOUS
  <2> HIDE DEF todo
  <2>3. r \in Run /\ r.at = "working"
    BY <1>t, <2>2 DEF Run
  <2>4. run[e].at = "saving" /\ UNCHANGED <<item, worker>> /\ file'.state = "running"
    BY <1>6 DEF StartWorkers
  <2> HIDE DEF r
  <2> QED
    BY <1>0, <1>same, <2>1, <2>3, <2>4, NoHands, RunMoves
<1>7. ASSUME NEW e \in Engines, NEW w \in Workers, Take(e, w) PROVE Inv' /\ Stays
  <2>1. PICK i \in run[e].todo, r \in Run, k \in Worker :
           /\ run' = [run EXCEPT ![e] = r]
           /\ r.at = "working" /\ r.todo = run[e].todo \ {i}
           /\ worker' = [worker EXCEPT ![e][w] = k]
           /\ k.at = "taken" /\ k.item = i
    BY <1>7, TakeFacts
  <2>2. run[e].at = "working" /\ worker[e][w].at = "idle" /\ UNCHANGED <<item, file>>
    BY <1>7 DEF Take
  <2>3. \A f \in Engines : run'[f] = IF f = e THEN r ELSE run[f]
    BY <2>1, OneRunChanges
  <2>4. OneRun' /\ SavingInv' /\ FileInv'
    BY <2>1, <2>2, <2>3 DEF OneRun, SavingInv, FileInv
  <2>5. i \in Items
    BY <1>t DEF Run
  <2>6. HandsInv'
    <3>1. \A f \in Engines, v \in Workers :
             worker'[f][v] = IF f = e /\ v = w THEN k ELSE worker[f][v]
      BY <2>1, OneWorker
    <3>2. ~HasSaved(k)
      BY <2>1 DEF HasSaved
    <3>3. \A v \in Workers : worker[e][v].at # "idle" =>
             worker[e][v].item # i
      BY <2>1 DEF HandsInv
    <3> SUFFICES ASSUME NEW f \in Engines, NEW v \in Workers, worker'[f][v].at # "idle"
                 PROVE  /\ run'[f].at = "working"
                        /\ worker'[f][v].item \in Items
                        /\ worker'[f][v].item \notin run'[f].todo
                        /\ worker'[f][v].at = "found" =>
                              item'[worker'[f][v].item] = "pending"
                        /\ HasSaved(worker'[f][v]) =>
                              item'[worker'[f][v].item] = worker'[f][v].saved
                        /\ worker'[f][v].at = "read" => worker'[f][v].seen.state # "none"
                        /\ \A u \in Workers :
                              worker'[f][u].at # "idle"
                              /\ worker'[f][u].item = worker'[f][v].item => u = v
      BY DEF HandsInv, HasSaved
    <3>4. CASE f = e /\ v = w
      BY <2>1, <2>2, <2>3, <2>5, <3>1, <3>2, <3>3, <3>4
    <3>5. CASE ~(f = e /\ v = w)
      <4>1. worker'[f][v] = worker[f][v]
        BY <3>1, <3>5
      <4>2. /\ run[f].at = "working" /\ f = e
            /\ worker[f][v].item \in Items /\ worker[f][v].item \notin run[f].todo
            /\ worker[f][v].at = "found" => item[worker[f][v].item] = "pending"
            /\ HasSaved(worker[f][v]) => item[worker[f][v].item] = worker[f][v].saved
            /\ worker[f][v].at = "read" => worker[f][v].seen.state # "none"
            /\ \A u \in Workers : worker[f][u].at # "idle"
                                  /\ worker[f][u].item = worker[f][v].item => u = v
        BY <2>2, <4>1 DEF HandsInv, OneRun
      <4>3. \A u \in Workers : worker'[f][u].at # "idle"
                               /\ worker'[f][u].item = worker'[f][v].item => u = v
        BY <2>1, <3>1, <3>3, <4>1, <4>2
      <4> QED
        BY <2>1, <2>2, <2>3, <4>1, <4>2, <4>3
    <3> QED
      BY <3>4, <3>5
  <2> QED
    BY <1>0, <1>same, <2>1, <2>2, <2>4, <2>6
<1>8. ASSUME NEW e \in Engines, NEW w \in Workers,
             NEW status \in {"running", "completed", "failed"},
             Saves(e, w, status), worker[e][w].at \in {"found", "attempting", "failing"}
      PROVE  Inv' /\ Stays
  <2>1. PICK k \in Worker :
           /\ worker' = [worker EXCEPT ![e][w] = k]
           /\ k.at = "syncing" /\ k.item = worker[e][w].item /\ k.saved = status
           /\ item' = [item EXCEPT ![k.item] = status]
    BY <1>8, SavesFacts
  <2>2. UNCHANGED <<file, run>>
    BY <1>8 DEF Saves
  <2>3. /\ run[e].at = "working" /\ k.item \in Items
        /\ worker[e][w].at = "found" => item[k.item] = "pending"
        /\ worker[e][w].at # "found" => item[k.item] = worker[e][w].saved
    BY <1>8, <2>1 DEF HandsInv, HasSaved
  <2>4. \A i \in Items : item'[i] = IF i = k.item THEN status ELSE item[i]
    BY <1>t, <2>1 DEF Listing
  <2>5. Stays
    <3> SUFFICES ASSUME NEW i \in Items, item[i] = "completed", item'[i] # "completed"
                 PROVE  Unsynced(i)
      BY DEF Stays
    <3>1. i = k.item
      BY <2>4
    <3> QED
      BY <1>8, <2>1, <2>3, <3>1 DEF Unsynced
  <2>6. file'.state # "none"
    BY <2>2, <2>3 DEF FileInv
  <2>7. HasSaved(k) => item'[k.item] = k.saved
    BY <2>1, <2>3, <2>4
  <2>8. /\ worker[e][w].at # "idle" /\ k.at # "found" /\ k.at # "read"
        /\ run' = run /\ \A i \in Items : i # worker[e][w].item => item'[i] = item[i]
    BY <1>8, <2>1, <2>2, <2>4
  <2> HIDE DEF Inv
  <2> QED
    BY <1>0, <2>1, <2>5, <2>6, <2>7, <2>8, WorkerMoves
<1>9. ASSUME NEW e \in Engines, NEW w \in Workers, Unsaving(e, w)
      PROVE  Inv' /\ Stays
  <2>1. PICK k \in Worker :
           /\ worker' = [worker EXCEPT ![e][w] = k]
           /\ worker[e][w].at # "idle"
           /\ k.at # "idle" => k.item = worker[e][w].item
           /\ k.at = "found" => item[k.item] = "pending"
           /\ HasSaved(k) => HasSaved(worker[e][w]) /\ k.saved = worker[e][w].saved
           /\ k.at = "read" => k.seen.state = file.state
           /\ \/ UNCHANGED file
              \/ worker[e][w].at = "read" /\ file' = worker[e][w].seen
           /\ UNCHANGED <<item, run>>
    BY <1>9, UnsavingFacts
  <2>3. /\ run[e].at = "working"
        /\ HasSaved(worker[e][w]) => item[worker[e][w].item] = worker[e][w].saved
        /\ worker[e][w].at = "read" => worker[e][w].seen.state # "none"
    BY <2>1 DEF HandsInv
  <2>4. file.state # "none" /\ file'.state # "none"
    BY <2>1, <2>3 DEF FileInv
  <2>5. /\ HasSaved(k) => item'[k.item] = k.saved
        /\ k.at = "found" => item'[k.item] = "pending"
    BY <2>1, <2>3 DEF HasSaved
  <2> QED
    BY <1>0, <1>same, <2>1, <2>4, <2>5, WorkerMoves
<1>10. ASSUME NEW e \in Engines, Conclude(e) PROVE Inv' /\ Stays
  <2> DEFINE state == FinalStatus(cancelled[e], item)
             r == [run[e] EXCEPT !.at = "finishing", !.listed = item, !.state = state]
  <2>1. run' = [run EXCEPT ![e] = r] /\ run[e].at = "working" /\ UNCHANGED <<item, file, worker>>
        /\ \A w \in Workers : worker[e][w].at = "idle"
    BY <1>10 DEF Conclude
  <2>2. state \in JobStatus \ {"none"}
    BY FinalType DEF TypeOK
  <2> HIDE DEF state
  <2>3. r \in Run /\ r.at = "finishing" /\ r.state # "none"
    BY <1>t, <2>2 DEF Run
  <2>4. /\ \A f \in Engines : f # e => run[f].at = "none"
        /\ \A f \in Engines, w \in Workers : worker'[f][w].at = "idle"
    BY <2>1 DEF OneRun, HandsInv
  <2>5. file.state # "none"
    BY <2>1 DEF FileInv
  <2> HIDE DEF r
  <2> QED
    BY <1>0, <1>same, <2>1, <2>3, <2>4, <2>5, RunMoves
<1>11. ASSUME NEW e \in Engines, Finish(e) PROVE Inv' /\ Stays
  <2>1. run' = [run EXCEPT ![e] = NoRun] /\ UNCHANGED <<item, worker>>
        /\ run[e].at = "finishing" /\ file'.state = run[e].state
    BY <1>11 DEF Finish
  <2>2. file'.state # "none"
    BY <2>1 DEF FileInv
  <2> QED
    BY <1>0, <1>same, <2>1, <2>2, StartTypes, NoHands, RunMoves
<1>12. ASSUME NEW e \in Engines, Cancel(e) \/ CancelWrites(e) PROVE Inv' /\ Stays
  <2>1. UNCHANGED <<item, run, worker>> /\ (file' = file \/ file'.state # "none")
    <3>1. CASE Cancel(e)
      BY <3>1 DEF Cancel
    <3>2. CASE CancelWrites(e)
      <4>1. cancel[e] \in StatusFile /\ file' = [cancel[e] EXCEPT !.state = "cancelled"]
        BY <3>2 DEF CancelWrites, TypeOK
      <4> QED
        BY <3>2, <4>1 DEF CancelWrites, StatusFile
    <3> QED
      BY <1>12, <3>1, <3>2
  <2> QED
    BY <1>0, <1>same, <2>1 DEF OneRun, HandsInv, SavingInv, FileInv, HasSaved
<1>13. ASSUME NEW e \in Engines, Crash(e) PROVE Inv' /\ Stays
  <2>1. /\ run' = [run EXCEPT ![e] = NoRun] /\ UNCHANGED <<item, file>> /\ run[e].at # "none"
        /\ worker' = [worker EXCEPT ![e] = [w \in Workers |-> Idle]]
    BY <1>13 DEF Crash
  <2>2. \A f \in Engines : f # e => run[f].at = "none"
    BY <2>1 DEF OneRun
  <2>3. \A f \in Engines, w \in Workers : worker'[f][w].at = "idle"
    BY <1>t, <2>1, <2>2, StartTypes DEF HandsInv
  <2>4. file.state # "none"
    BY <2>1 DEF FileInv
  <2> QED
    BY <1>0, <1>same, <2>1, <2>2, <2>3, <2>4, StartTypes, RunMoves
<1>14. CASE UNCHANGED vars
  BY <1>0, <1>same, <1>14 DEF vars, OneRun, HandsInv, SavingInv, FileInv, HasSaved
<1> QED
  BY <1>2, <1>3, <1>4, <1>5, <1>6, <1>7, <1>8, <1>9, <1>10, <1>11, <1>12, <1>13, <1>14
     DEF Next, Progress, WorkerStep, MarkRunning, Attempt, MarkFailed, Unsaving

\* The initial states satisfy the invariant.
LEMMA InitInv == Init => Inv
<1> SUFFICES ASSUME Init PROVE Inv
  OBVIOUS
<1>1. TypeOK
  BY StartTypes, BoundAssumption DEF Init, TypeOK, Used
<1>2. /\ \A e \in Engines : run[e].at = "none"
      /\ \A e \in Engines, w \in Workers : worker[e][w].at = "idle"
      /\ item = Nothing
  BY StartTypes DEF Init
<1> QED
  BY <1>1, <1>2 DEF Inv, OneRun, HandsInv, SavingInv, FileInv

-----------------------------------------------------------------------------
(* What the end of a job says of its items                                 *)

\* No work is lost: an item that is not settled is still to be handed out, or a
\* worker holds it until it is.
WorkInv ==
    \A e \in Engines : run[e].at = "working" =>
        /\ \A i \in run[e].todo : item[i] = "pending"
        /\ \A w \in Workers :
              worker[e][w].at = "taken" => item[worker[e][w].item] = "pending"
        /\ \A i \in Items : item[i] \in {"pending", "running"} =>
              \/ i \in run[e].todo
              \/ \E w \in Workers : worker[e][w].at # "idle" /\ worker[e][w].item = i

\* What a run has saved is what it lists, and it lists nothing as running.
SavedInv ==
    \A e \in Engines : run[e].at = "saving" =>
        \A i \in Items :
            /\ run[e].listed[i] # "running"
            /\ i \notin run[e].unsaved => item[i] = run[e].listed[i]

Final == {"completed", "partial", "failed"}

\* What a status that says the job ended says of the items.
Tells(items, state, stats) ==
    state \in Final =>
        /\ \A i \in Items : items[i] \in Settled \cup {"none"}
        /\ state = FinalStatus(FALSE, items)
        /\ stats = items

\* A final status is written once, by the run that came to it: until then
\* nobody who writes back a status he read can have read one.
EndInv ==
    /\ \A e \in Engines :
         /\ run[e].at # "none" => file.state \notin Final
         /\ run[e].at = "finishing" => Tells(item, run[e].state, run[e].listed)
         /\ \A w \in Workers :
              worker[e][w].at = "read" => worker[e][w].seen.state \notin Final
    /\ Tells(item, file.state, file.stats)

DoneInv == WorkInv /\ SavedInv /\ EndInv

\* A run moves on while no worker holds an item.
LEMMA DoneMoves ==
    ASSUME Inv, NEW e \in Engines, NEW r \in Run,
           run' = [run EXCEPT ![e] = r],
           \A f \in Engines : f # e => run[f].at = "none",
           \A f \in Engines, w \in Workers : worker'[f][w].at = "idle",
           r.at = "working" =>
              \A i \in Items : i \in r.todo <=> item'[i] \in {"pending", "running"},
           r.at = "working" => \A i \in r.todo : i \in Items /\ item'[i] = "pending",
           r.at = "saving" =>
              \A i \in Items : /\ r.listed[i] # "running"
                               /\ i \notin r.unsaved => item'[i] = r.listed[i],
           r.at # "none" => file'.state \notin Final,
           r.at = "finishing" => Tells(item', r.state, r.listed),
           Tells(item', file'.state, file'.stats)
    PROVE  DoneInv'
<1>1. \A f \in Engines : run'[f] = IF f = e THEN r ELSE run[f]
  BY DEF Inv, TypeOK
<1>2. WorkInv'
  BY <1>1 DEF WorkInv
<1>3. SavedInv'
  <2> SUFFICES ASSUME NEW f \in Engines, run'[f].at = "saving", NEW i \in Items
               PROVE  /\ run'[f].listed[i] # "running"
                      /\ i \notin run'[f].unsaved => item'[i] = run'[f].listed[i]
    BY DEF SavedInv
  <2>1. run'[f] = r
    BY <1>1
  <2> QED
    BY <2>1
<1>4. EndInv'
  BY <1>1 DEF EndInv
<1> QED
  BY <1>2, <1>3, <1>4 DEF DoneInv

\* A worker moves on with the item it holds, or lets go of one it has settled.
LEMMA DoneWorks ==
    ASSUME Inv, DoneInv, NEW e \in Engines, NEW w \in Workers, NEW k \in Worker,
           worker[e][w].at # "idle", run[e].at = "working",
           worker' = [worker EXCEPT ![e][w] = k], run' = run,
           k.at # "idle" => k.item = worker[e][w].item,
           k.at # "taken",
           k.at = "idle" => item'[worker[e][w].item] \in Settled,
           k.at = "read" => k.seen.state \notin Final,
           \A i \in Items : i # worker[e][w].item => item'[i] = item[i],
           file'.state \notin Final
    PROVE  DoneInv'
<1>1. \A f \in Engines, v \in Workers :
         worker'[f][v] = IF f = e /\ v = w THEN k ELSE worker[f][v]
  BY OneWorker DEF Inv
<1>2. \A f \in Engines : f # e => run[f].at = "none"
  BY DEF Inv, OneRun
<1> DEFINE mine == worker[e][w].item
<1>3. /\ mine \in Items /\ mine \notin run[e].todo
      /\ \A v \in Workers : v # w /\ worker[e][v].at # "idle" =>
            worker[e][v].item \in Items /\ worker[e][v].item # mine
  BY DEF Inv, HandsInv
<1>4. WorkInv'
  <2>1. \A i \in run[e].todo : i \in Items /\ item'[i] = "pending"
    BY <1>3 DEF Inv, TypeOK, Run, DoneInv, WorkInv
  <2>2. ASSUME NEW v \in Workers, worker'[e][v].at = "taken"
        PROVE  item'[worker'[e][v].item] = "pending"
    BY <1>1, <1>3, <2>2 DEF DoneInv, WorkInv
  <2>3. ASSUME NEW i \in Items, item'[i] \in {"pending", "running"}, i \notin run[e].todo
        PROVE  \E v \in Workers : worker'[e][v].at # "idle" /\ worker'[e][v].item = i
    <3>1. CASE i = mine
      <4>1. k.at # "idle"
        BY <2>3, <3>1 DEF Settled
      <4> QED
        BY <1>1, <3>1, <4>1
    <3>2. CASE i # mine
      <4>1. item[i] \in {"pending", "running"}
        BY <2>3, <3>2
      <4>2. PICK v \in Workers : worker[e][v].at # "idle" /\ worker[e][v].item = i
        BY <2>3, <4>1 DEF DoneInv, WorkInv
      <4> QED
        BY <1>1, <3>2, <4>2
    <3> QED
      BY <3>1, <3>2
  <2> QED
    BY <1>2, <2>1, <2>2, <2>3 DEF WorkInv
<1>5. SavedInv'
  BY <1>2 DEF SavedInv
<1>6. EndInv'
  <2>1. \A f \in Engines, v \in Workers :
           worker'[f][v].at = "read" => worker'[f][v].seen.state \notin Final
    BY <1>1 DEF DoneInv, EndInv
  <2> QED
    BY <1>2, <2>1 DEF EndInv, Tells
<1> QED
  BY <1>4, <1>5, <1>6 DEF DoneInv

\* Every step keeps it, while runs of the job do not overlap.
LEMMA NextDone == ~Overlap /\ Inv /\ DoneInv /\ [Next]_vars => DoneInv'
<1> SUFFICES ASSUME ~Overlap, Inv, DoneInv, [Next]_vars PROVE DoneInv'
  OBVIOUS
<1>t. /\ item \in Listing /\ file \in StatusFile /\ run \in [Engines -> Run]
      /\ worker \in [Engines -> [Workers -> Worker]] 
  BY DEF Inv, TypeOK
<1>type. TypeOK
  BY DEF Inv
<1>quiet. \A state, stats : state \notin Final => Tells(item', state, stats)
  BY DEF Tells
<1>live. \A e \in Engines : run[e].at # "none" => file.state \notin Final
  BY DEF DoneInv, EndInv
<1>1. ASSUME NEW e \in Engines, NEW at \in {"loading", "saving"}, NEW listed \in Listing,
             NEW retryFailed \in BOOLEAN, Begins(e, at, listed, retryFailed),
             at = "saving" => listed = AllPending
      PROVE  DoneInv'
  <2>1. PICK r \in Run :
           /\ run' = [run EXCEPT ![e] = r] /\ r.at = at /\ r.listed = listed
           /\ at = "saving" => r.unsaved = Items
           /\ file'.state = "running" /\ UNCHANGED <<item, worker>>
    BY <1>type, <1>1, BeginsFacts
  <2>2. /\ \A f \in Engines : run[f].at = "none"
        /\ \A f \in Engines, w \in Workers : worker'[f][w].at = "idle"
    BY <1>1, <2>1 DEF Begins, Inv, HandsInv
  <2>3. at = "saving" => \A i \in Items : r.listed[i] # "running" /\ i \in r.unsaved
    BY <1>1, <2>1 DEF AllPending
  <2>4. file'.state \notin Final /\ r.at \notin {"working", "finishing"}
    BY <2>1 DEF Final
  <2> QED
    BY <1>quiet, <2>1, <2>2, <2>3, <2>4, DoneMoves
<1>2. CASE Submit
  BY <1>1, <1>2, StartTypes, EnginesAssumption DEF Submit
<1>3. ASSUME NEW e \in Engines, Resume(e) PROVE DoneInv'
  BY <1>1, <1>3, StartTypes DEF Resume
<1>4. ASSUME NEW e \in Engines, LoadExisting(e) PROVE DoneInv'
  <2>1. PICK r \in Run :
           /\ run' = [run EXCEPT ![e] = r] /\ r.at = "saving"
           /\ \A i \in Items : r.listed[i] # "running"
           /\ \A i \in Items : i \notin r.unsaved => item[i] = r.listed[i]
    BY <1>type, <1>4, LoadFacts
  <2>2. run[e].at = "loading" /\ UNCHANGED <<item, file, worker>>
    BY <1>4 DEF LoadExisting
  <2>3. /\ \A f \in Engines, w \in Workers : worker'[f][w].at = "idle"
        /\ \A f \in Engines : f # e => run[f].at = "none"
    BY <2>2, NoHands
  <2>4. file'.state \notin Final /\ Tells(item', file'.state, file'.stats)
    BY <1>quiet, <1>live, <2>2
  <2>5. \A i \in Items : /\ r.listed[i] # "running"
                         /\ i \notin r.unsaved => item'[i] = r.listed[i]
    BY <2>1, <2>2
  <2> QED
    BY <2>1, <2>3, <2>4, <2>5, DoneMoves
<1>5. ASSUME NEW e \in Engines, SaveRecord(e) PROVE DoneInv'
  <2>1. PICK i \in run[e].unsaved :
           /\ item' = [item EXCEPT ![i] = run[e].listed[i]]
           /\ run' = [run EXCEPT ![e].unsaved = @ \ {i}]
    BY <1>5 DEF SaveRecord
  <2> DEFINE r == [run[e] EXCEPT !.unsaved = run[e].unsaved \ {i}]
  <2>2. run' = [run EXCEPT ![e] = r]
    BY <1>t, <2>1
  <2>3. /\ r \in Run /\ r.at = "saving" /\ r.listed = run[e].listed
        /\ r.unsaved = run[e].unsaved \ {i} /\ run[e].unsaved \subseteq Items
    BY ZenonT(60), <1>t, <1>5 DEF Run, SaveRecord
  <2>4. run[e].at = "saving" /\ UNCHANGED <<file, worker>>
    BY <1>5 DEF SaveRecord
  <2>5. \A j \in Items : item'[j] = IF j = i THEN run[e].listed[j] ELSE item[j]
    BY <1>t, <2>1 DEF Listing
  <2> HIDE DEF r
  <2>6. \A j \in Items : /\ r.listed[j] # "running"
                         /\ j \notin r.unsaved => item'[j] = r.listed[j]
    BY <2>3, <2>4, <2>5 DEF DoneInv, SavedInv
  <2>7. /\ \A f \in Engines, w \in Workers : worker'[f][w].at = "idle"
        /\ \A f \in Engines : f # e => run[f].at = "none"
    BY <2>4, NoHands
  <2>8. file'.state \notin Final /\ Tells(item', file'.state, file'.stats)
    BY <1>quiet, <1>live, <2>4
  <2> QED
    BY <2>2, <2>3, <2>6, <2>7, <2>8, DoneMoves
<1>6. ASSUME NEW e \in Engines, StartWorkers(e) PROVE DoneInv'
  <2> DEFINE todo == {i \in Items : run[e].listed[i] = "pending"}
             r == [run[e] EXCEPT !.at = "working", !.todo = todo]
  <2>1. /\ run' = [run EXCEPT ![e] = r] /\ UNCHANGED <<item, worker>>
        /\ run[e].at = "saving" /\ run[e].unsaved = {} /\ file'.state = "running"
    BY <1>6 DEF StartWorkers
  <2>2. \A i \in Items : item[i] # "running" /\ item[i] = run[e].listed[i]
    BY <2>1 DEF DoneInv, SavedInv
  <2>3. todo \in SUBSET Items /\ \A i \in Items : i \in todo <=> item[i] = "pending"
    BY <2>2
  <2> HIDE DEF todo
  <2>4. r \in Run /\ r.at = "working" /\ r.todo = todo
    BY <1>t, <2>3 DEF Run
  <2>5. file'.state \notin Final
    BY <2>1 DEF Final
  <2> HIDE DEF r
  <2>6. /\ \A i \in Items : i \in r.todo <=> item'[i] \in {"pending", "running"}
        /\ \A i \in r.todo : i \in Items /\ item'[i] = "pending"
    BY <2>1, <2>2, <2>3, <2>4
  <2> QED
    BY <1>quiet, <2>1, <2>4, <2>5, <2>6, NoHands, DoneMoves
<1>7. ASSUME NEW e \in Engines, NEW w \in Workers, Take(e, w) PROVE DoneInv'
  <2>1. PICK i \in run[e].todo, r \in Run, k \in Worker :
           /\ run' = [run EXCEPT ![e] = r]
           /\ r.at = "working" /\ r.todo = run[e].todo \ {i}
           /\ worker' = [worker EXCEPT ![e][w] = k]
           /\ k.at = "taken" /\ k.item = i
    BY <1>type, <1>7, TakeFacts
  <2>2. /\ run[e].at = "working" /\ worker[e][w].at = "idle" /\ UNCHANGED <<item, file>>
        /\ \A f \in Engines : f # e => run[f].at = "none"
    BY <1>7 DEF Take, Inv, OneRun
  <2>3. item[i] = "pending"
    BY <2>2 DEF DoneInv, WorkInv
  <2>4. \A f \in Engines : run'[f] = IF f = e THEN r ELSE run[f]
    BY <1>t, <2>1, <1>type, OneRunChanges
  <2>5. \A f \in Engines, v \in Workers :
           worker'[f][v] = IF f = e /\ v = w THEN k ELSE worker[f][v]
    BY <1>type, <2>1, OneWorker
  <2>6. WorkInv'
    <3>1. \A j \in run'[e].todo : item'[j] = "pending"
      BY <2>1, <2>2, <2>4 DEF DoneInv, WorkInv
    <3>2. ASSUME NEW v \in Workers, worker'[e][v].at = "taken"
          PROVE  item'[worker'[e][v].item] = "pending"
      BY <2>1, <2>2, <2>3, <2>5, <3>2 DEF DoneInv, WorkInv
    <3>3. ASSUME NEW j \in Items, item'[j] \in {"pending", "running"}, j \notin run'[e].todo
          PROVE  \E v \in Workers : worker'[e][v].at # "idle" /\ worker'[e][v].item = j
      <4>1. CASE j = i
        BY <2>1, <2>5, <4>1
      <4>2. CASE j # i
        <5>1. j \notin run[e].todo /\ item[j] \in {"pending", "running"}
          BY <2>1, <2>2, <2>4, <3>3, <4>2
        <5>2. PICK v \in Workers : worker[e][v].at # "idle" /\ worker[e][v].item = j
          BY <2>2, <5>1 DEF DoneInv, WorkInv
        <5> QED
          BY <2>2, <2>5, <5>2
      <4> QED
        BY <4>1, <4>2
    <3> QED
      BY <2>2, <2>4, <3>1, <3>2, <3>3 DEF WorkInv
  <2>7. SavedInv'
    BY <2>1, <2>2, <2>4 DEF SavedInv
  <2>8. EndInv'
    BY <2>1, <2>2, <2>4, <2>5 DEF EndInv, DoneInv
  <2> QED
    BY <2>6, <2>7, <2>8 DEF DoneInv
<1>8. ASSUME NEW e \in Engines, NEW w \in Workers,
             NEW status \in {"running", "completed", "failed"},
             Saves(e, w, status), worker[e][w].at \in {"found", "attempting", "failing"}
      PROVE  DoneInv'
  <2>1. PICK k \in Worker :
           /\ worker' = [worker EXCEPT ![e][w] = k]
           /\ k.at = "syncing" /\ k.item = worker[e][w].item /\ k.saved = status
           /\ item' = [item EXCEPT ![k.item] = status]
    BY <1>type, <1>8, SavesFacts
  <2>2. run' = run /\ file' = file /\ worker[e][w].at # "idle"
    BY <1>8 DEF Saves
  <2>3. run[e].at = "working" /\ k.item \in Items
    BY <2>1, <2>2 DEF Inv, HandsInv
  <2>4. \A i \in Items : item'[i] = IF i = k.item THEN status ELSE item[i]
    BY <1>t, <2>1 DEF Listing
  <2>6. file'.state \notin Final
    BY <1>live, <2>2, <2>3
  <2>7. k.at # "idle" /\ k.at # "read"
        /\ \A i \in Items : i # worker[e][w].item => item'[i] = item[i]
    BY <2>1, <2>4
  <2> QED
    BY <2>1, <2>2, <2>3, <2>6, <2>7, DoneWorks
<1>9. ASSUME NEW e \in Engines, NEW w \in Workers,
             Unsaving(e, w)
      PROVE  DoneInv'
  <2>1. PICK k \in Worker :
           /\ worker' = [worker EXCEPT ![e][w] = k]
           /\ worker[e][w].at # "idle" /\ k.at # "taken"
           /\ k.at # "idle" => k.item = worker[e][w].item
           /\ k.at = "read" => k.seen.state = file.state
           /\ k.at = "idle" =>
                 \/ worker[e][w].at = "taken" /\ item[worker[e][w].item] # "pending"
                 \/ worker[e][w].at = "read" /\ worker[e][w].saved \in Settled
           /\ \/ UNCHANGED file
              \/ worker[e][w].at = "read" /\ file' = worker[e][w].seen
           /\ UNCHANGED <<item, run>>
    BY <1>type, <1>9, UnsavingFacts
  <2>3. run[e].at = "working"
    BY <2>1 DEF Inv, HandsInv
  <2>4. file.state \notin Final /\ file'.state \notin Final
    BY <1>live, <2>1, <2>3 DEF DoneInv, EndInv
  <2>5. k.at = "idle" => item'[worker[e][w].item] \in Settled
    BY <2>1, <2>3 DEF DoneInv, WorkInv, Inv, HandsInv, HasSaved
  <2> QED
    BY <2>1, <2>3, <2>4, <2>5, DoneWorks
<1>10. ASSUME NEW e \in Engines, Conclude(e) PROVE DoneInv'
  <2> DEFINE state == FinalStatus(cancelled[e], item)
             r == [run[e] EXCEPT !.at = "finishing", !.listed = item, !.state = state]
  <2>1. /\ run' = [run EXCEPT ![e] = r] /\ run[e].at = "working"
        /\ UNCHANGED <<item, file, worker>>
        /\ run[e].todo = {} \/ cancelled[e]
        /\ \A w \in Workers : worker[e][w].at = "idle"
    BY <1>10 DEF Conclude, WorkersReturn
  <2>2. cancelled[e] \in BOOLEAN
    BY <1>type DEF TypeOK
  <2>3. Tells(item', state, item)
    <3>1. CASE cancelled[e]
      BY <1>quiet, <3>1 DEF FinalStatus, Final
    <3>2. CASE ~cancelled[e]
      <4>1. \A i \in Items : item[i] \notin {"pending", "running"}
        BY <2>1, <3>2 DEF DoneInv, WorkInv
      <4>2. \A i \in Items : item[i] \in Settled \cup {"none"}
        BY <1>t, <4>1 DEF Listing, ItemStatus
      <4>3. state = FinalStatus(FALSE, item)
        BY <2>2, <3>2
      <4> QED
        BY <2>1, <4>2, <4>3 DEF Tells
    <3> QED
      BY <3>1, <3>2
  <2>4. state \in JobStatus
    BY <2>2, FinalType
  <2> HIDE DEF state
  <2>5. r \in Run /\ r.at = "finishing" /\ r.state = state /\ r.listed = item
    BY <1>t, <2>4 DEF Run
  <2>6. /\ \A f \in Engines : f # e => run[f].at = "none"
        /\ \A f \in Engines, w \in Workers : worker'[f][w].at = "idle"
    BY <2>1 DEF Inv, OneRun, HandsInv
  <2>7. file'.state \notin Final
    BY <1>live, <2>1
  <2> HIDE DEF r
  <2> QED
    BY <1>quiet, <2>1, <2>3, <2>5, <2>6, <2>7, DoneMoves
<1>11. ASSUME NEW e \in Engines, Finish(e) PROVE DoneInv'
  <2>1. /\ run' = [run EXCEPT ![e] = NoRun] /\ UNCHANGED <<item, worker>>
        /\ run[e].at = "finishing"
        /\ file'.state = run[e].state /\ file'.stats = run[e].listed
    BY <1>11 DEF Finish
  <2>2. Tells(item', file'.state, file'.stats)
    BY <2>1 DEF DoneInv, EndInv
  <2> QED
    BY <2>1, <2>2, StartTypes, NoHands, DoneMoves
<1>12. ASSUME NEW e \in Engines, Cancel(e) \/ CancelWrites(e) PROVE DoneInv'
  <2>1. UNCHANGED <<item, run, worker>> /\ (file' = file \/ file'.state = "cancelled")
    <3>1. CASE Cancel(e)
      BY <3>1 DEF Cancel
    <3>2. CASE CancelWrites(e)
      <4>1. cancel[e] \in StatusFile /\ file' = [cancel[e] EXCEPT !.state = "cancelled"]
        BY <1>type, <3>2 DEF CancelWrites, TypeOK
      <4> QED
        BY <3>2, <4>1 DEF CancelWrites, StatusFile
    <3> QED
      BY <1>12, <3>1, <3>2
  <2>2. file' = file \/ file'.state \notin Final
    BY <2>1 DEF Final
  <2>3. Tells(item', file'.state, file'.stats)
    BY <1>quiet, <2>1, <2>2 DEF DoneInv, EndInv
  <2> QED
    BY <2>1, <2>2, <2>3 DEF DoneInv, WorkInv, SavedInv, EndInv
<1>13. ASSUME NEW e \in Engines, Crash(e) PROVE DoneInv'
  <2>1. /\ run' = [run EXCEPT ![e] = NoRun] /\ UNCHANGED <<item, file>> /\ run[e].at # "none"
        /\ worker' = [worker EXCEPT ![e] = [w \in Workers |-> Idle]]
    BY <1>13 DEF Crash
  <2>2. \A f \in Engines : f # e => run[f].at = "none"
    BY <2>1 DEF Inv, OneRun
  <2>3. \A f \in Engines, w \in Workers : worker'[f][w].at = "idle"
    BY <1>t, <2>1, <2>2, StartTypes DEF Inv, HandsInv
  <2>4. Tells(item', file'.state, file'.stats)
    BY <1>quiet, <1>live, <2>1
  <2> QED
    BY <2>1, <2>2, <2>3, <2>4, StartTypes, DoneMoves
<1>14. CASE UNCHANGED vars
  BY <1>14 DEF vars, DoneInv, WorkInv, SavedInv, EndInv
<1> QED
  BY <1>2, <1>3, <1>4, <1>5, <1>6, <1>7, <1>8, <1>9, <1>10, <1>11, <1>12, <1>13, <1>14
     DEF Next, Progress, WorkerStep, MarkRunning, Attempt, MarkFailed, Unsaving

\* Before a job is submitted no status is final.
LEMMA InitDone == Init => DoneInv
<1> SUFFICES ASSUME Init PROVE DoneInv
  OBVIOUS
<1>1. /\ \A e \in Engines : run[e].at = "none"
      /\ \A e \in Engines, w \in Workers : worker[e][w].at = "idle"
      /\ file.state = "none"
  BY StartTypes DEF Init
<1> QED
  BY <1>1 DEF DoneInv, WorkInv, SavedInv, EndInv, Tells, Final

-----------------------------------------------------------------------------
(* A job whose process does not die has a record of every item             *)

\* Every item has its record, but for a job nobody has submitted and for the
\* records the run has still to save; those it saves are not empty.
CoverInv ==
    /\ \/ /\ file.state = "none"
          /\ \A e \in Engines : run[e].at = "none" /\ cancel[e] = NoFile
       \/ \E e \in Engines :
             /\ run[e].at = "saving"
             /\ \A i \in Items : item[i] = "none" => i \in run[e].unsaved
       \/ \A i \in Items : item[i] # "none"
    /\ \A e \in Engines, i \in Items : run[e].at = "saving" => run[e].listed[i] # "none"

\* Every step keeps the records complete, when no process dies.
LEMMA NextCover ==
    MaxCrashes = 0 /\ ~Overlap /\ Inv /\ CoverInv /\ [Next]_vars => CoverInv'
<1> SUFFICES ASSUME MaxCrashes = 0, ~Overlap, Inv, CoverInv, [Next]_vars
             PROVE  CoverInv'
  OBVIOUS
<1> USE DEF CoverInv
<1>t. /\ TypeOK /\ item \in Listing /\ file \in StatusFile /\ run \in [Engines -> Run]
  BY DEF Inv, TypeOK
<1>all. ASSUME NEW e \in Engines, run[e].at \notin {"none", "saving"}
        PROVE  \A i \in Items : item[i] # "none"
  BY <1>all DEF Inv, OneRun
<1>1. ASSUME NEW e \in Engines, NEW at \in {"loading", "saving"}, NEW listed \in Listing,
             NEW retryFailed \in BOOLEAN, Begins(e, at, listed, retryFailed),
             \/ at = "saving" /\ listed = AllPending
             \/ at = "loading" /\ file.state # "none"
      PROVE  CoverInv'
  <2>1. PICK r \in Run :
           /\ run' = [run EXCEPT ![e] = r] /\ r.at = at /\ r.listed = listed
           /\ at = "saving" => r.unsaved = Items
           /\ UNCHANGED item
    BY <1>t, <1>1, BeginsFacts
  <2>2. \A f \in Engines : /\ run[f].at = "none"
                           /\ run'[f] = IF f = e THEN r ELSE run[f]
    BY <1>t, <1>1, <2>1, OneRunChanges DEF Begins
  <2> QED
    BY <1>1, <2>1, <2>2 DEF AllPending
<1>2. CASE Submit
  BY <1>1, <1>2, StartTypes, EnginesAssumption DEF Submit
<1>3. ASSUME NEW e \in Engines, Resume(e) PROVE CoverInv'
  BY <1>1, <1>3, StartTypes DEF Resume
<1>4. ASSUME NEW e \in Engines, LoadExisting(e) PROVE CoverInv'
  <2>1. PICK r \in Run :
           /\ run' = [run EXCEPT ![e] = r]
           /\ \A i \in Items : item[i] # "none" => r.listed[i] # "none"
    BY <1>t, <1>4, LoadFacts
  <2>2. run[e].at = "loading" /\ UNCHANGED item
    BY <1>4 DEF LoadExisting
  <2>3. \A f \in Engines : f # e => run[f].at = "none"
    BY <2>2 DEF Inv, OneRun
  <2>4. \A f \in Engines : run'[f] = IF f = e THEN r ELSE run[f]
    BY <1>t, <2>1, OneRunChanges
  <2> QED
    BY <1>all, <2>1, <2>2, <2>3, <2>4
<1>5. ASSUME NEW e \in Engines, SaveRecord(e) PROVE CoverInv'
  <2>1. PICK i \in run[e].unsaved :
           /\ item' = [item EXCEPT ![i] = run[e].listed[i]]
           /\ run' = [run EXCEPT ![e].unsaved = @ \ {i}]
    BY <1>5 DEF SaveRecord
  <2> DEFINE r == [run[e] EXCEPT !.unsaved = run[e].unsaved \ {i}]
  <2>2. run' = [run EXCEPT ![e] = r]
    BY <1>t, <2>1
  <2>3. /\ r \in Run /\ r.at = "saving" /\ r.listed = run[e].listed
        /\ r.unsaved = run[e].unsaved \ {i} /\ run[e].unsaved \subseteq Items
    BY ZenonT(60), <1>t, <1>5 DEF Run, SaveRecord
  <2>4. run[e].at = "saving"
    BY <1>5 DEF SaveRecord
  <2>5. \A j \in Items : item'[j] = IF j = i THEN run[e].listed[j] ELSE item[j]
    BY <1>t, <2>1 DEF Listing
  <2> HIDE DEF r
  <2>6. \A f \in Engines : /\ f # e => run[f].at = "none"
                           /\ run'[f] = IF f = e THEN r ELSE run[f]
    BY <1>t, <2>2, <2>3, <2>4, OneRunChanges DEF Inv, OneRun
  <2>7. \A j \in Items : item'[j] = "none" => item[j] = "none" /\ j # i
    BY <2>4, <2>5
  <2> QED
    BY <2>3, <2>4, <2>6, <2>7
<1>6. ASSUME NEW e \in Engines, NEW r \in Run, run' = [run EXCEPT ![e] = r],
             r.at # "saving", UNCHANGED item,
             run[e].at # "none", run[e].at = "saving" => run[e].unsaved = {}
      PROVE  CoverInv'
  <2>1. \A f \in Engines : /\ f # e => run[f].at = "none"
                           /\ run'[f] = IF f = e THEN r ELSE run[f]
    BY <1>t, <1>6, OneRunChanges DEF Inv, OneRun
  <2> QED
    BY <1>6, <1>all, <2>1
<1>7. ASSUME NEW e \in Engines, StartWorkers(e) PROVE CoverInv'
  <2> DEFINE todo == {i \in Items : run[e].listed[i] = "pending"}
             r == [run[e] EXCEPT !.at = "working", !.todo = todo]
  <2>1. /\ run' = [run EXCEPT ![e] = r] /\ UNCHANGED item
        /\ run[e].at = "saving" /\ run[e].unsaved = {}
    BY <1>7 DEF StartWorkers
  <2>2. todo \in SUBSET Items
    OBVIOUS
  <2> HIDE DEF todo
  <2>3. r \in Run /\ r.at = "working"
    BY <1>t, <2>2 DEF Run
  <2> HIDE DEF r
  <2> QED
    BY <1>6, <2>1, <2>3
<1>8. ASSUME NEW e \in Engines, NEW w \in Workers, Take(e, w) PROVE CoverInv'
  <2>1. PICK r \in Run : run' = [run EXCEPT ![e] = r] /\ r.at = "working"
    BY <1>t, <1>8, TakeFacts
  <2> QED
    BY <1>6, <1>8, <2>1 DEF Take
<1>9. ASSUME NEW e \in Engines, NEW w \in Workers,
             NEW status \in {"running", "completed", "failed"},
             Saves(e, w, status), worker[e][w].at \in {"found", "attempting", "failing"}
      PROVE  CoverInv'
  <2>1. run' = run /\ \A i \in Items : item'[i] \in {item[i], status}
    BY <1>t, <1>9 DEF Saves, Listing
  <2>2. run[e].at = "working"
    BY <1>9 DEF Inv, HandsInv
  <2> QED
    BY <1>all, <2>1, <2>2
<1>10. ASSUME NEW e \in Engines, NEW w \in Workers, Unsaving(e, w) PROVE CoverInv'
  <2>1. UNCHANGED <<item, run, cancel>> /\ worker[e][w].at # "idle"
        /\ (file' = file \/ worker[e][w].at = "read")
    BY <1>t, <1>10, UnsavingFacts
  <2>2. run[e].at = "working"
    BY <2>1 DEF Inv, HandsInv
  <2> QED
    BY <1>all, <2>1, <2>2
<1>11. ASSUME NEW e \in Engines, Conclude(e) PROVE CoverInv'
  <2> DEFINE state == FinalStatus(cancelled[e], item)
             r == [run[e] EXCEPT !.at = "finishing", !.listed = item, !.state = state]
  <2>1. /\ run' = [run EXCEPT ![e] = r] /\ run[e].at = "working" /\ UNCHANGED item
    BY <1>11 DEF Conclude
  <2>2. state \in JobStatus
    BY <1>t, FinalType DEF TypeOK
  <2> HIDE DEF state
  <2>3. r \in Run /\ r.at = "finishing"
    BY <1>t, <2>2 DEF Run
  <2> HIDE DEF r
  <2> QED
    BY <1>6, <2>1, <2>3
<1>12. ASSUME NEW e \in Engines, Finish(e) PROVE CoverInv'
  BY <1>6, <1>12, StartTypes DEF Finish
<1>13. ASSUME NEW e \in Engines, Cancel(e) \/ CancelWrites(e) PROVE CoverInv'
  <2>1. UNCHANGED <<item, run>>
    BY <1>13 DEF Cancel, CancelWrites
  <2>2. ~(file.state = "none" /\ \A f \in Engines : run[f].at = "none" /\ cancel[f] = NoFile)
    BY <1>13 DEF Cancel, CancelWrites
  <2> QED
    BY <2>1, <2>2
<1>14. ASSUME NEW e \in Engines, Crash(e) PROVE CoverInv'
  BY <1>14, <1>t DEF Crash, TypeOK, Used
<1>15. CASE UNCHANGED vars
  BY <1>15 DEF vars
<1> QED
  BY <1>2, <1>3, <1>4, <1>5, <1>7, <1>8, <1>9, <1>10, <1>11, <1>12, <1>13, <1>14, <1>15
     DEF Next, Progress, WorkerStep, MarkRunning, Attempt, MarkFailed, Unsaving

-----------------------------------------------------------------------------
(* Theorems *)

\* Records, status file, runs and workers keep their types, also when runs of
\* the job overlap.
THEOREM TypeCorrect == Spec => []TypeOK
<1>1. Init => TypeOK
  BY InitInv DEF Inv
<1> QED
  BY <1>1, TypeNext, PTL DEF Spec

\* Two workers never hold one item, nor a worker one that is still to be handed
\* out (runWithConcurrency), when no two runs of the job overlap.
THEOREM ItemsAreNotShared == ~Overlap => (Spec => []NoItemInTwoHands)
<1> SUFFICES ASSUME ~Overlap PROVE Spec => []NoItemInTwoHands
  OBVIOUS
<1>1. Inv /\ [Next]_vars => Inv'
  BY NextInv
<1>2. Inv => NoItemInTwoHands
  BY DEF Inv, OneRun, HandsInv, NoItemInTwoHands, Holds
<1> QED
  BY <1>1, <1>2, InitInv, PTL DEF Spec

\* A completed item is never begun again, whatever is cancelled, dies, is
\* resumed or is retried, when no two runs of the job overlap
\* (run and resume, batch-engine.ts).
THEOREM CompletedItemsStay == ~Overlap => (Spec => CompletedStays)
<1> SUFFICES ASSUME ~Overlap PROVE Spec => CompletedStays
  OBVIOUS
<1>1. Inv /\ [Next]_vars => Inv'
  BY NextInv
<1>2. Inv /\ [Next]_vars => [Stays]_vars
  BY NextInv
<1>3. Spec => [][Stays]_vars
  BY <1>1, <1>2, InitInv, PTL DEF Spec
<1> QED
  BY <1>3 DEF CompletedStays, Stays

\* A final status tells the truth: nothing of the job is left to do, and the
\* status and the stats are those of its items.  A worker or a cancel that
\* writes back a status it read earlier does not undo that (syncProgress,
\* cancel), when no two runs of the job overlap.
THEOREM FinalStatusIsTrue == ~Overlap => (Spec => []FinishedMeansSettled)
<1> SUFFICES ASSUME ~Overlap PROVE Spec => []FinishedMeansSettled
  OBVIOUS
<1>1. Inv /\ [Next]_vars => Inv'
  BY NextInv
<1>2. Inv /\ DoneInv /\ [Next]_vars => DoneInv'
  BY NextDone
<1>3. DoneInv => FinishedMeansSettled
  BY DEF DoneInv, EndInv, Tells, Final, FinishedMeansSettled
<1> QED
  BY <1>1, <1>2, <1>3, InitInv, InitDone, PTL DEF Spec

\* A completed job has done the whole of its input, when no two runs of it
\* overlap and no process dies: only a crash among the records of a new job,
\* of which resume() then finds some, can leave items out
\* (ResumeForgetsItems.cfg).
THEOREM CompletedJobIsWhole ==
    MaxCrashes = 0 /\ ~Overlap => (Spec => []CompletedCoversInput)
<1> SUFFICES ASSUME MaxCrashes = 0, ~Overlap PROVE Spec => []CompletedCoversInput
  OBVIOUS
<1>1. Inv /\ [Next]_vars => Inv'
  BY NextInv
<1>2. Inv /\ DoneInv /\ [Next]_vars => DoneInv'
  BY NextDone
<1>3. Inv /\ CoverInv /\ [Next]_vars => CoverInv'
  BY NextCover
<1>4. Init => CoverInv
  BY StartTypes DEF Init, CoverInv
<1>5. Inv /\ DoneInv /\ CoverInv => CompletedCoversInput
  <2> SUFFICES ASSUME Inv, DoneInv, CoverInv, file.state = "completed", NEW i \in Items
               PROVE  item[i] = "completed"
    BY DEF CompletedCoversInput
  <2>1. \A j \in Items : item[j] # "none"
    BY DEF CoverInv, DoneInv, EndInv, Final
  <2>2. ~Has(item, "failed")
    BY DEF DoneInv, EndInv, Tells, Final, FinalStatus
  <2>3. item[i] \in Settled \cup {"none"}
    BY DEF DoneInv, EndInv, Tells, Final
  <2> QED
    BY <2>1, <2>2, <2>3 DEF Has, Settled
<1> QED
  BY <1>1, <1>2, <1>3, <1>4, <1>5, InitInv, InitDone, PTL DEF Spec

=============================================================================
