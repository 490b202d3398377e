---------------------------- MODULE BatchEngine ----------------------------
(***************************************************************************)
(* One batch job (packages/batch/src/batch-engine.ts, work-scheduler.ts,   *)
(* filesystem-progress-store.ts).  An engine is a process with a           *)
(* BatchEngineImpl: every `anvio batch` command is one, and so is the      *)
(* gateway with its /batch.  Engines share the job's files and nothing     *)
(* else: the set of cancelled jobs is a field of each engine.  A step is   *)
(* what happens between two awaits; listing the items is one step, and     *)
(* progress.json, which repeats the stats and is read by nobody, is left   *)
(* out.  A file that cannot be read or written is modelled where the code  *)
(* catches the error (SyncFails); elsewhere it rejects run(), which is     *)
(* left out.                                                               *)
(***************************************************************************)
EXTENDS Integers, FiniteSets

CONSTANTS
    Engines,     \* processes with an engine
    NumItems,    \* work items of the job's input
    Concurrency, \* spec.concurrency
    MaxAttempts, \* spec.retry.maxAttempts
    Overlap,     \* may a job be resumed while a run of it goes on?
    Home,        \* the engine the job is submitted to
    MaxRuns,     \* bound: calls of run and resume
    MaxCancels,  \* bound: calls of cancel
    MaxCrashes,  \* bound: crashes
    MaxFaults    \* bound: calls of syncProgress that throw

ASSUME EnginesAssumption == Home \in Engines
ASSUME SpecAssumption ==
    /\ NumItems \in Nat
    /\ Concurrency \in Nat \ {0}
    /\ MaxAttempts \in Nat \ {0}
ASSUME SwitchAssumption == Overlap \in BOOLEAN
ASSUME BoundAssumption ==
    /\ MaxRuns \in Nat /\ MaxCancels \in Nat
    /\ MaxCrashes \in Nat /\ MaxFaults \in Nat

VARIABLES
    item,      \* items/<id>.yaml: the status of each record
    file,      \* status.yaml
    cancelled, \* BatchEngineImpl.cancelled has the job
    run,       \* the run() each engine is in
    worker,    \* the workers of runWithConcurrency
    cancel,    \* the status each engine's cancel() has read
    used       \* how much of the bounds is used up

vars == <<item, file, cancelled, run, worker, cancel, used>>

Items == 1..NumItems
Workers == 1..Concurrency
Settled == {"completed", "failed"}
ItemStatus == {"none", "pending", "running"} \cup Settled
JobStatus == {"none", "running", "completed", "partial", "failed", "cancelled"}
Listing == [Items -> ItemStatus]

\* computeProgress is a function of the listing, so the listing stands for the
\* stats made from it.
StatusFile == [state : JobStatus, stats : Listing]

\* listed: the items as run() holds them; unsaved: those it has still to save;
\* todo: the work items no worker has taken; state: the final status.
Run == [at : {"none", "loading", "saving", "working", "finishing"},
        retryFailed : BOOLEAN, listed : Listing, unsaved : SUBSET Items,
        todo : SUBSET Items, state : JobStatus]

\* A worker holds an item from taking it to the last syncProgress; saved: the
\* status with which it saved the record last.
Worker == [at : {"idle", "taken", "found", "attempting", "syncing", "read",
                 "failing"},
           item : 0..NumItems, attempt : 1..MaxAttempts,
           saved : {"running"} \cup Settled, seen : StatusFile]

Used == [runs : 0..MaxRuns, cancels : 0..MaxCancels, crashes : 0..MaxCrashes,
         faults : 0..MaxFaults]

Nothing == [i \in Items |-> "none"]
NoFile == [state |-> "none", stats |-> Nothing]
NoRun == [at |-> "none", retryFailed |-> FALSE, listed |-> Nothing,
          unsaved |-> {}, todo |-> {}, state |-> "none"]
Idle == [at |-> "idle", item |-> 0, attempt |-> 1, saved |-> "running",
         seen |-> NoFile]

TypeOK ==
    /\ item \in Listing
    /\ file \in StatusFile
    /\ cancelled \in [Engines -> BOOLEAN]
    /\ run \in [Engines -> Run]
    /\ worker \in [Engines -> [Workers -> Worker]]
    /\ cancel \in [Engines -> StatusFile]
    /\ used \in Used

-----------------------------------------------------------------------------
(* run() and resume() *)

\* Where a run's own listing of the items and its workers stand at the start.
Begins(e, at, listed, retryFailed) ==
    /\ used.runs < MaxRuns
    /\ run[e].at = "none"
    /\ Overlap \/ \A f \in Engines : run[f].at = "none"
    /\ file' = [state |-> "running", stats |-> Nothing]
    /\ run' = [run EXCEPT ![e] =
                 [NoRun EXCEPT !.at = at, !.retryFailed = retryFailed,
                               !.listed = listed,
                               !.unsaved = IF at = "saving" THEN Items ELSE {}]]
    /\ used' = [used EXCEPT !.runs = @ + 1]
    /\ UNCHANGED <<item, worker, cancel>>

AllPending == [i \in Items |-> "pending"]

\* run() of a new job.
Submit ==
    /\ file.state = "none"
    /\ Begins(Home, "saving", AllPending, FALSE)
    /\ UNCHANGED cancelled

\* resume(): the job leaves this engine's cancelled set, and run() starts over.
Resume(e) ==
    /\ file.state # "none"
    /\ \E retryFailed \in BOOLEAN : Begins(e, "loading", Nothing, retryFailed)
    /\ cancelled' = [cancelled EXCEPT ![e] = FALSE]

\* Mutant: retryFailed starts every item again that has an end.
EverythingAgain(status, retryFailed) ==
    IF status = "none" \/ (status \in Settled /\ ~retryFailed)
    THEN status ELSE "pending"

\* The status with which a resumed run takes up an item it found.
TakenUp(status, retryFailed) ==
    IF \/ status \in {"pending", "running"}
       \/ status = "failed" /\ retryFailed
    THEN "pending" ELSE status

\* The records found replace the items of the input; only when there are none
\* does the run start from the input.
LoadExisting(e) ==
    /\ run[e].at = "loading"
    /\ LET found == {i \in Items : item[i] # "none"}
       IN  run' = [run EXCEPT ![e] =
             [@ EXCEPT !.at = "saving",
                !.listed = IF found = {} THEN AllPending
                           ELSE [i \in Items |-> TakenUp(item[i], run[e].retryFailed)],
                !.unsaved = IF found = {} THEN Items ELSE found]]
    /\ UNCHANGED <<item, file, cancelled, worker, cancel, used>>

\* saveItem of the next record.
SaveRecord(e) ==
    /\ run[e].at = "saving"
    /\ \E i \in run[e].unsaved :
         /\ \A j \in run[e].unsaved : i <= j
         /\ item' = [item EXCEPT ![i] = run[e].listed[i]]
         /\ run' = [run EXCEPT ![e].unsaved = @ \ {i}]
    /\ UNCHANGED <<file, cancelled, worker, cancel, used>>

\* executeItems: the items pending in the run's own listing become the work.
StartWorkers(e) ==
    /\ run[e].at = "saving"
    /\ run[e].unsaved = {}
    /\ file' = [state |-> "running", stats |-> run[e].listed]
    /\ run' = [run EXCEPT ![e] =
         [@ EXCEPT !.at = "working",
                   !.todo = {i \in Items : run[e].listed[i] = "pending"}]]
    /\ UNCHANGED <<item, cancelled, worker, cancel, used>>

-----------------------------------------------------------------------------
(* The workers *)

\* Mutant: the shared index is advanced only after the item was processed.
TakenLater(todo, i) == todo

Rest(todo, i) == todo \ {i}

\* shouldCancel and the shared index.  The workers are alike, so it is the first
\* idle one that takes the next item.
Take(e, w) ==
    /\ run[e].at = "working"
    /\ worker[e][w].at = "idle"
    /\ \A v \in Workers : v < w => worker[e][v].at # "idle"
    /\ ~cancelled[e]
    /\ \E i \in run[e].todo :
         /\ \A j \in run[e].todo : i <= j
         /\ run' = [run EXCEPT ![e].todo = Rest(@, i)]
         /\ worker' = [worker EXCEPT ![e][w] =
                         [Idle EXCEPT !.at = "taken", !.item = i]]
    /\ UNCHANGED <<item, file, cancelled, cancel, used>>

\* getItem: a record that is not pending is passed over.
GetItem(e, w) ==
    /\ worker[e][w].at = "taken"
    /\ worker' = [worker EXCEPT ![e][w] =
                    IF item[worker[e][w].item] = "pending"
                    THEN [@ EXCEPT !.at = "found"] ELSE Idle]
    /\ UNCHANGED <<item, file, cancelled, run, cancel, used>>

\* The worker saves its record and goes into syncProgress.
Saves(e, w, status) ==
    /\ item' = [item EXCEPT ![worker[e][w].item] = status]
    /\ worker' = [worker EXCEPT ![e][w] =
                    [@ EXCEPT !.at = "syncing", !.saved = status]]
    /\ UNCHANGED <<file, cancelled, run, cancel, used>>

MarkRunning(e, w) ==
    /\ worker[e][w].at = "found"
    /\ Saves(e, w, "running")

MayRetry(n) == n < MaxAttempts

\* The blueprint runner succeeds or fails for good, which is saved, or fails in
\* a way that is worth another attempt after a pause.  A record that cannot be
\* saved as completed is one of the failures.
Attempt(e, w) ==
    /\ worker[e][w].at = "attempting"
    /\ \/ Saves(e, w, "completed")
       \/ Saves(e, w, "failed")
       \/ /\ MayRetry(worker[e][w].attempt)
          /\ worker' = [worker EXCEPT ![e][w].attempt = @ + 1]
          /\ UNCHANGED <<item, file, cancelled, run, cancel, used>>

\* syncProgress: listItems and getStatus, one step here, then saveStatus.
SyncRead(e, w) ==
    /\ worker[e][w].at = "syncing"
    /\ worker' = [worker EXCEPT ![e][w] =
                    [@ EXCEPT !.at = "read",
                              !.seen = [state |-> file.state, stats |-> item]]]
    /\ UNCHANGED <<item, file, cancelled, run, cancel, used>>

SyncWrite(e, w) ==
    /\ worker[e][w].at = "read"
    /\ file' = worker[e][w].seen
    /\ worker' = [worker EXCEPT ![e][w] =
                    IF @.saved = "running"
                    THEN [@ EXCEPT !.at = "attempting", !.seen = NoFile]
                    ELSE Idle]
    /\ UNCHANGED <<item, cancelled, run, cancel, used>>

\* syncProgress throws after the item was saved as completed, before or after
\* it has written the status: the catch of the attempt takes that for a failure
\* of the item.
SyncFails(e, w) ==
    /\ used.faults < MaxFaults
    /\ worker[e][w].at \in {"syncing", "read"}
    /\ worker[e][w].saved = "completed"
    /\ \/ UNCHANGED file
       \/ worker[e][w].at = "read" /\ file' = worker[e][w].seen
    /\ \/ /\ MayRetry(worker[e][w].attempt)
          /\ worker' = [worker EXCEPT ![e][w] =
                          [@ EXCEPT !.at = "attempting", !.seen = NoFile,
                                    !.attempt = worker[e][w].attempt + 1]]
       \/ worker' = [worker EXCEPT ![e][w] =
                       [@ EXCEPT !.at = "failing", !.seen = NoFile]]
    /\ used' = [used EXCEPT !.faults = @ + 1]
    /\ UNCHANGED <<item, cancelled, run, cancel>>

\* The item that was completed is marked as failed.
MarkFailed(e, w) ==
    /\ worker[e][w].at = "failing"
    /\ Saves(e, w, "failed")

-----------------------------------------------------------------------------
(* The end of a run, cancel() and crashes *)

Has(listing, status) == \E i \in Items : listing[i] = status

\* Mutant: the final status forgets that the job was cancelled.
CountsAlone(isCancelled, listing) ==
    CASE Has(listing, "failed") /\ Has(listing, "completed") -> "partial"
      [] Has(listing, "failed") /\ ~Has(listing, "completed") -> "failed"
      [] OTHER -> "completed"

FinalStatus(isCancelled, listing) ==
    CASE isCancelled -> "cancelled"
      [] ~isCancelled /\ Has(listing, "failed") ->
           IF Has(listing, "completed") THEN "partial" ELSE "failed"
      [] OTHER -> "completed"

\* Mutant: a run waits until there is no work left, also when cancelled.
WorkIsDone(e) == run[e].todo = {}

WorkersReturn(e) == run[e].todo = {} \/ cancelled[e]

\* All workers have returned: the items are listed once more.
Conclude(e) ==
    /\ run[e].at = "working"
    /\ WorkersReturn(e)
    /\ \A w \in Workers : worker[e][w].at = "idle"
    /\ run' = [run EXCEPT ![e] =
         [@ EXCEPT !.at = "finishing", !.listed = item,
                   !.state = FinalStatus(cancelled[e], item)]]
    /\ UNCHANGED <<item, file, cancelled, worker, cancel, used>>

Finish(e) ==
    /\ run[e].at = "finishing"
    /\ file' = [state |-> run[e].state, stats |-> run[e].listed]
    /\ run' = [run EXCEPT ![e] = NoRun]
    /\ UNCHANGED <<item, cancelled, worker, cancel, used>>

\* cancel(): remembered in this engine; then the status is read and written.
Cancel(e) ==
    /\ used.cancels < MaxCancels
    /\ cancel[e] = NoFile
    /\ file.state # "none"
    /\ cancelled' = [cancelled EXCEPT ![e] = TRUE]
    /\ cancel' = [cancel EXCEPT ![e] = file]
    /\ used' = [used EXCEPT !.cancels = @ + 1]
    /\ UNCHANGED <<item, file, run, worker>>

CancelWrites(e) ==
    /\ cancel[e] # NoFile
    /\ file' = [cancel[e] EXCEPT !.state = "cancelled"]
    /\ cancel' = [cancel EXCEPT ![e] = NoFile]
    /\ UNCHANGED <<item, cancelled, run, worker, used>>

\* The process dies; its successor knows the files only.
Crash(e) ==
    /\ used.crashes < MaxCrashes
    /\ run[e].at # "none"
    /\ cancelled' = [cancelled EXCEPT ![e] = FALSE]
    /\ run' = [run EXCEPT ![e] = NoRun]
    /\ worker' = [worker EXCEPT ![e] = [w \in Workers |-> Idle]]
    /\ cancel' = [cancel EXCEPT ![e] = NoFile]
    /\ used' = [used EXCEPT !.crashes = @ + 1]
    /\ UNCHANGED <<item, file>>

-----------------------------------------------------------------------------
Init ==
    /\ item = Nothing
    /\ file = NoFile
    /\ cancelled = [e \in Engines |-> FALSE]
    /\ run = [e \in Engines |-> NoRun]
    /\ worker = [e \in Engines |-> [w \in Workers |-> Idle]]
    /\ cancel = [e \in Engines |-> NoFile]
    /\ used = [runs |-> 0, cancels |-> 0, crashes |-> 0, faults |-> 0]

WorkerStep(e, w) ==
    \/ Take(e, w)
    \/ GetItem(e, w)
    \/ MarkRunning(e, w)
    \/ Attempt(e, w)
    \/ SyncRead(e, w)
    \/ SyncWrite(e, w)
    \/ SyncFails(e, w)
    \/ MarkFailed(e, w)

\* What a run does once it was called.
Progress(e) ==
    \/ LoadExisting(e)
    \/ SaveRecord(e)
    \/ StartWorkers(e)
    \/ \E w \in Workers : WorkerStep(e, w)
    \/ Conclude(e)
    \/ Finish(e)

Next ==
    \/ Submit
    \/ \E e \in Engines :
          \/ Resume(e)
          \/ Progress(e)
          \/ Cancel(e) \/ CancelWrites(e)
          \/ Crash(e)

Spec == Init /\ [][Next]_vars

\* Promises are settled: files get written, a blueprint returns or throws.
FairSpec == Spec /\ \A e \in Engines : WF_vars(Progress(e))

-----------------------------------------------------------------------------
(* Properties *)

\* A job whose status says it came to its end has no item that is still to be
\* done, the status is the one its items call for, and the stats beside it
\* are those of its items, whatever was cancelled, resumed or died before.
FinishedMeansSettled ==
    file.state \in {"completed", "partial", "failed"} =>
        /\ \A i \in Items : item[i] \in Settled \cup {"none"}
        /\ file.state = FinalStatus(FALSE, item)
        /\ file.stats = item

\* The worker of item i completed it and could not say so in the status file.
Unsynced(i) ==
    \E e \in Engines, w \in Workers :
        /\ worker[e][w].item = i
        /\ worker[e][w].at \in {"attempting", "failing"}
        /\ worker[e][w].saved = "completed"

\* What was done stays done: across cancels, crashes, resumes and retries of
\* the failed items, a completed item is never begun again.  Only the worker
\* that completed it may do so, in the attempt at whose end the status file
\* could not be brought up to date.
CompletedStays ==
    [][\A i \in Items : item[i] = "completed" =>
           item'[i] = "completed" \/ Unsynced(i)]_vars

Holds(e, w) == worker[e][w].at # "idle"

\* No item is in two hands: not of two workers, and not of a worker and the
\* list that is still to be distributed.
NoItemInTwoHands ==
    \A e \in Engines, w \in Workers :
        Holds(e, w) =>
            /\ worker[e][w].item \notin run[e].todo
            /\ \A f \in Engines, v \in Workers :
                 Holds(f, v) /\ worker[f][v].item = worker[e][w].item
                    => f = e /\ v = w

\* Again and again no run of the job is under way: every one comes to its end,
\* cancelled or not, unless its process dies.
EveryRunEnds == []<>(\A e \in Engines : run[e].at = "none")

Cancelled(e) == cancelled[e] /\ cancel[e] = NoFile

\* docs/32-batch-processing.md:154, "Cancel running batch": once a cancel of a
\* job has returned and nobody resumes it, no more of its items are taken.
CancelStopsTheJob ==
    [][used.runs = 1 /\ (\E e \in Engines : Cancelled(e)) =>
           \A e \in Engines : run[e].at = "working" =>
                                 run'[e].todo \in {run[e].todo, {}}]_vars

\* A completed job has done the whole of its input.
CompletedCoversInput ==
    file.state = "completed" => \A i \in Items : item[i] = "completed"

=============================================================================
