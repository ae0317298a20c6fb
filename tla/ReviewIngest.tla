---------------------------- MODULE ReviewIngest ----------------------------
(***************************************************************************)
(* The asynchronous review of one report: POST /api/reviews stores a       *)
(* placeholder and publishes review.requested; ReviewWorkerSubscriber runs *)
(* ReviewIngestService.processReview, whose batches are reviewed           *)
(* concurrently by batchReview and stored as they come; a failed report    *)
(* may be reset and published again by POST /api/reviews/:id/retry.  The   *)
(* status is written unguarded at each stage.                              *)
(***************************************************************************)
EXTENDS Naturals, FiniteSets

CONSTANTS
  Reviews,      \* bound on the reviews of the report: calls of processReview
  BatchCount,   \* how many batches the pull request's files make
  Concurrency,  \* REVIEW_MAX_CONCURRENCY
  Retriers,     \* clients of the retry route, one request at a time each
  MaxFaults,    \* bound on failures to store a batch
  ErrorLost,    \* whether the database may refuse a report's error status
  MaxCrashes    \* bound on the ends of the API process

ASSUME IngestBounds ==
  /\ Reviews \in Nat \ {0} /\ BatchCount \in Nat \ {0} /\ Concurrency \in Nat \ {0}
  /\ MaxFaults \in Nat /\ MaxCrashes \in Nat
  /\ ErrorLost \in BOOLEAN

VARIABLES
  status,    \* review_reports.review_status
  findings,  \* the rows of the report, as <<run, batch>>
  run,       \* progress of each processReview
  batch,     \* run -> batch -> where it is
  retrier,   \* progress of each retry request
  announced, \* runs that published review.report_created
  raced,     \* how many retries reset the report when it had left error again
  faults, crashes

vars == <<status, findings, run, batch, retrier, announced, raced, faults, crashes>>

Runs == 1..Reviews         \* in the order of their requests
Batches == 1..BatchCount   \* in submission order

ReportStatuses == {"pending", "fetching", "recalling", "reviewing", "storing", "complete", "error"}
RunSteps == {"unused", "requested", "fetching", "recalling", "reviewing", "storing", "complete",
             "failing", "over"}
BatchSteps == {"todo", "asking", "reviewed", "inserted", "stored", "skipped", "broken"}

\* The placeholder is stored; the first run is requested by its POST.
Init ==
  /\ status = "pending"
  /\ findings = {}
  /\ run = [w \in Runs |-> IF w = 1 THEN "requested" ELSE "unused"]
  /\ batch = [w \in Runs |-> [b \in Batches |-> "todo"]]
  /\ retrier = [q \in Retriers |-> "idle"]
  /\ announced = {}
  /\ raced = 0
  /\ faults = 0
  /\ crashes = 0
----------------------------------------------------------------------------
At(w, step) == run[w] = step

Goto(w, step) == run' = [run EXCEPT ![w] = step]

\* The stages before the batches, each beginning with its status.
NextStage == [requested |-> "fetching", fetching |-> "recalling", recalling |-> "reviewing"]

Advance(w) ==
  /\ run[w] \in DOMAIN NextStage
  /\ status' = NextStage[run[w]]
  /\ Goto(w, NextStage[run[w]])
  /\ UNCHANGED <<findings, batch, retrier, announced, raced, faults, crashes>>

BatchesStarted(w) == \E b \in Batches : batch[w][b] # "todo"

Working(w) == run[w] \in {"requested", "fetching", "recalling", "reviewing", "storing"}

\* The error that a stage throws to the catch block of processReview.
Throw(w) == Goto(w, "failing")

\* The Git host, the ticket system, memory or the database fails between two
\* stages.  (Nothing that follows markReportComplete throws.)
Fail(w) ==
  /\ Working(w) /\ ~ (At(w, "reviewing") /\ BatchesStarted(w))
  /\ Throw(w)
  /\ UNCHANGED <<status, findings, batch, retrier, announced, raced, faults, crashes>>

\* Mutant: the failure is logged only.
FailedStatusKept == status

\* What the report of a failed review says.
FailedStatus == "error"

\* handleReviewProcessingFailure: the report becomes an error, unless that write
\* fails and is swallowed, and processReview returns: the worker sees a success.
HandleFailure(w) ==
  /\ At(w, "failing")
  /\ status' = FailedStatus \/ (ErrorLost /\ UNCHANGED status)
  /\ Goto(w, "over")
  /\ UNCHANGED <<findings, batch, retrier, announced, raced, faults, crashes>>
----------------------------------------------------------------------------
BatchTo(w, b, step) == batch' = [batch EXCEPT ![w][b] = step]

\* A worker of mapConcurrent is taken until its batch is done; one whose batch
\* broke is gone for good.
Busy(w) == {b \in Batches : batch[w][b] \in {"asking", "reviewed", "inserted", "broken"}}

\* The next batch, in order, goes to a free worker; the workers do not stop
\* when the run has failed.
StartBatch(w, b) ==
  /\ At(w, "reviewing") \/ BatchesStarted(w)
  /\ batch[w][b] = "todo" /\ \A a \in 1..(b - 1) : batch[w][a] # "todo"
  /\ Cardinality(Busy(w)) < Concurrency
  /\ BatchTo(w, b, "asking")
  /\ UNCHANGED <<status, findings, run, retrier, announced, raced, faults, crashes>>

\* A run whose mapConcurrent rejects throws, the first time.
BatchThrows(w) == IF At(w, "reviewing") THEN Throw(w) ELSE UNCHANGED run

\* The model answers, after the batch's own retries or never: the only batch
\* then fails the review, one of several is skipped.
AskModel(w, b) ==
  /\ batch[w][b] = "asking"
  /\ \/ BatchTo(w, b, "reviewed") /\ UNCHANGED run
     \/ Batches # {1} /\ BatchTo(w, b, "skipped") /\ UNCHANGED run
     \/ Batches = {1} /\ BatchTo(w, b, "broken") /\ BatchThrows(w)
  /\ UNCHANGED <<status, findings, retrier, announced, raced, faults, crashes>>

\* onBatch: the findings are inserted, whatever the report's status is by now.
InsertBatch(w, b) ==
  /\ batch[w][b] = "reviewed"
  /\ findings' = findings \cup {<<w, b>>}
  /\ BatchTo(w, b, "inserted")
  /\ UNCHANGED <<status, run, retrier, announced, raced, faults, crashes>>

\* ... and the progress is updated.
StoreBatch(w, b) ==
  /\ batch[w][b] = "inserted"
  /\ BatchTo(w, b, "stored")
  /\ UNCHANGED <<status, findings, run, retrier, announced, raced, faults, crashes>>

\* The database refuses the findings, or the suggestions or progress after them.
BatchFault(w, b) ==
  /\ batch[w][b] \in {"reviewed", "inserted"} /\ faults < MaxFaults
  /\ faults' = faults + 1
  /\ BatchTo(w, b, "broken")
  /\ BatchThrows(w)
  /\ UNCHANGED <<status, findings, retrier, announced, raced, crashes>>

\* Mutant: a review goes on once every batch has an answer.
BatchesAnswered(w) ==
  \A b \in Batches : batch[w][b] \in {"reviewed", "inserted", "stored", "skipped"}

\* mapConcurrent resolves when every batch has been stored or skipped.
BatchesDone(w) == \A b \in Batches : batch[w][b] \in {"stored", "skipped"}

\* A review of which nothing is left fails, any other is stored ...
FinishBatches(w) ==
  /\ At(w, "reviewing") /\ BatchesDone(w)
  /\ \/ /\ \E b \in Batches : batch[w][b] # "skipped"
        /\ status' = "storing"
        /\ Goto(w, "storing")
     \/ /\ \A b \in Batches : batch[w][b] = "skipped"
        /\ Throw(w)
        /\ UNCHANGED status
  /\ UNCHANGED <<findings, batch, retrier, announced, raced, faults, crashes>>

\* ... completed ...
MarkComplete(w) ==
  /\ At(w, "storing")
  /\ status' = "complete"
  /\ Goto(w, "complete")
  /\ UNCHANGED <<findings, batch, retrier, announced, raced, faults, crashes>>

\* ... and announced to verification and judge.
Publish(w) ==
  /\ At(w, "complete")
  /\ announced' = announced \cup {w}
  /\ Goto(w, "over")
  /\ UNCHANGED <<status, findings, batch, retrier, raced, faults, crashes>>
----------------------------------------------------------------------------
Unused == {w \in Runs : At(w, "unused")}

\* The worker starts one processReview for each review.requested.  Its retry loop
\* never runs a second time, since processReview returns even when it fails.
Request == \E w \in Unused : (\A u \in Unused : w <= u) /\ Goto(w, "requested")

\* Mutant: a complete report may be reviewed again.
RetryableOnceDone == {"error", "complete"}

\* "only failed reports can be retried"
Retryable == {"error"}

\* The retry route reads the report; a request for another status is refused.
\* (The model accepts no more requests than it has runs for.)
RetryRead(q) ==
  /\ retrier[q] = "idle" /\ status \in Retryable
  /\ Cardinality({p \in Retriers : retrier[p] # "idle"}) < Cardinality(Unused)
  /\ retrier' = [retrier EXCEPT ![q] = "read"]
  /\ UNCHANGED <<status, findings, run, batch, announced, raced, faults, crashes>>

\* One transaction clears the report's rows and resets its status; it does not
\* look at the status again.
RetryReset(q) ==
  /\ retrier[q] = "read"
  /\ findings' = {}
  /\ status' = "pending"
  /\ retrier' = [retrier EXCEPT ![q] = "reset"]
  /\ raced' = IF status \in Retryable THEN raced ELSE raced + 1
  /\ UNCHANGED <<run, batch, announced, faults, crashes>>

\* review.requested is published again.
RetryPublish(q) ==
  /\ retrier[q] = "reset"
  /\ Request
  /\ retrier' = [retrier EXCEPT ![q] = "idle"]
  /\ UNCHANGED <<status, findings, batch, announced, raced, faults, crashes>>

\* The API process ends, and with it the bus, the runs and the requests; no
\* startup code takes a report up again.
Crash ==
  /\ crashes < MaxCrashes
  /\ crashes' = crashes + 1
  /\ run' = [w \in Runs |-> IF At(w, "unused") THEN run[w] ELSE "over"]
  /\ batch' = [w \in Runs |-> [b \in Batches |->
       IF batch[w][b] \in {"stored", "skipped"} \/ At(w, "unused") THEN batch[w][b] ELSE "broken"]]
  /\ retrier' = [q \in Retriers |-> "idle"]
  /\ UNCHANGED <<status, findings, announced, raced, faults>>

Stage(w) ==
  \/ Advance(w) \/ Fail(w) \/ HandleFailure(w)
  \/ FinishBatches(w) \/ MarkComplete(w) \/ Publish(w)

Batch(w, b) ==
  \/ StartBatch(w, b) \/ AskModel(w, b)
  \/ InsertBatch(w, b) \/ StoreBatch(w, b) \/ BatchFault(w, b)

Next ==
  \/ \E w \in Runs : Stage(w) \/ \E b \in Batches : Batch(w, b)
  \/ \E q \in Retriers : RetryRead(q) \/ RetryReset(q) \/ RetryPublish(q)
  \/ Crash

Spec == Init /\ [][Next]_vars
----------------------------------------------------------------------------
TypeOK ==
  /\ status \in ReportStatuses
  /\ findings \subseteq Runs \X Batches
  /\ run \in [Runs -> RunSteps]
  /\ batch \in [Runs -> [Batches -> BatchSteps]]
  /\ retrier \in [Retriers -> {"idle", "read", "reset"}]
  /\ announced \subseteq {w \in Runs : At(w, "over")} /\ raced \in Nat
  /\ faults \in 0..MaxFaults /\ crashes \in 0..MaxCrashes

\* A complete report holds the findings of one review, the whole of it, and
\* nothing of the reviews that failed before it, in whatever order batches end.
\* (A batch that could not be stored leaves its run's other batches going on, and
\* a retry that raced another leaves two reviews writing the one report.)
CompleteIsWhole ==
  status = "complete" /\ faults = 0 /\ raced = 0 =>
    \E w \in Runs :
      findings = {<<w, b>> : b \in {c \in Batches : batch[w][c] # "skipped"}}

\* Verification and the judge are started once for the report, however often it
\* is retried, and once more at most for each retry that raced another.
AnnouncedOnce == Cardinality(announced) <= 1 + raced

\* A polling client sees the stages of one review at a time, until two retries
\* race (see ReportProgress).
Progress == INSTANCE ReportProgress WITH contested <- raced > 0

StagesInOrder == Progress!Spec

\* A requested review ends, complete or in error, while the process lives.
ReportSettles == (status # "error") ~> (status \in {"complete", "error"})
=============================================================================
