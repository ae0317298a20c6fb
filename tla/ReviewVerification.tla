-------------------------- MODULE ReviewVerification --------------------------
(***************************************************************************)
(* What follows a completed review: review.report_created starts           *)
(* ReviewVerificationService.verify, which claims the report's one row of  *)
(* review_verifications, clones the pull request into a directory named    *)
(* after the report, builds and tests it, writes the verdict to the row    *)
(* and removes the directory; and the report page polls until both are     *)
(* over.  Composed with ReviewIngest, whose retry route deletes the row.   *)
(***************************************************************************)
EXTENDS ReviewIngest, Sequences

CONSTANT Viewer   \* the retry client that has the report page open
ASSUME ViewerRetries == Viewer \in Retriers

VARIABLES
  row,       \* the report's row of review_verifications
  verifier,  \* run -> progress of the verify() that its announcement started
  rowOf,     \* run -> the row its verify() writes, by id
  results,   \* run -> the results of its compile check and test check so far
  checkout,  \* whose clone is in the report's directory; 0: none
  enabled,   \* VERIFY_REVIEW_ENABLED, and a Git provider is configured
  page       \* the report page of Viewer

outer == <<row, verifier, rowOf, results, checkout, enabled, page>>
all == <<vars, outer>>

NoRow == [id |-> 0, status |-> "NONE", stale |-> FALSE, earned |-> FALSE,
          left |-> FALSE]

RowStatuses == {"NONE", "RUNNING", "PASSED", "FAILED", "SKIPPED", "ERROR"}
VerifierSteps == {"idle", "called", "insert", "update", "running", "cloned", "built",
                  "checked", "cleanup", "over"}

VerificationInit ==
  /\ Init
  /\ row = NoRow
  /\ verifier = [w \in Runs |-> "idle"]
  /\ rowOf = [w \in Runs |-> w]
  /\ results = [w \in Runs |-> <<>>]
  /\ checkout = 0
  /\ enabled \in BOOLEAN
  /\ page = "polling"
----------------------------------------------------------------------------
VerifierTo(w, step) == verifier' = [verifier EXCEPT ![w] = step]

\* A step of the review; the announcement calls verify().
ReviewStage(w) ==
  /\ Stage(w)
  /\ IF announced' = announced THEN UNCHANGED verifier ELSE VerifierTo(w, "called")
  /\ UNCHANGED <<row, rowOf, checkout, results, enabled, page>>

\* The transaction of the retry route deletes the report's verification.
ResetReport(q) ==
  /\ RetryReset(q)
  /\ row' = NoRow
  /\ UNCHANGED <<verifier, rowOf, checkout, results, enabled, page>>

\* The page of the client whose retry is answered asks again.
AnswerRetry(q) ==
  /\ RetryPublish(q)
  /\ page' = IF q = Viewer THEN "polling" ELSE page
  /\ UNCHANGED <<row, verifier, rowOf, checkout, results, enabled>>

\* The process ends; the row and the directory stay as they are.
EndProcess ==
  /\ Crash
  /\ verifier' = [w \in Runs |-> IF verifier[w] = "idle" THEN "idle" ELSE "over"]
  /\ results' = [w \in Runs |-> <<>>]
  /\ UNCHANGED <<row, rowOf, checkout, enabled, page>>
----------------------------------------------------------------------------
\* A RUNNING row gets older than two builds, an install and five minutes; with
\* its clone, which is not in that sum, even a live verification may.
Age ==
  /\ row.status = "RUNNING" /\ ~ row.stale
  /\ row' = [row EXCEPT !.stale = TRUE]
  /\ UNCHANGED <<vars, verifier, rowOf, checkout, results, enabled, page>>

\* The rows that end a verify() that finds them: the report has its verdict, or
\* a run is in flight.
IsClaimed(r) == r.status \in {"PASSED", "FAILED"} \/ (r.status = "RUNNING" /\ ~ r.stale)

\* The first read.  When verification is off every row is marked SKIPPED.
Look(w) ==
  /\ verifier[w] = "called"
  /\ IF enabled /\ IsClaimed(row) THEN VerifierTo(w, "over") /\ UNCHANGED rowOf
     ELSE IF row = NoRow THEN VerifierTo(w, "insert") /\ UNCHANGED rowOf
     ELSE VerifierTo(w, "update") /\ rowOf' = [rowOf EXCEPT ![w] = row.id]
  /\ UNCHANGED <<vars, row, checkout, results, enabled, page>>

FirstStatus == IF enabled THEN "RUNNING" ELSE "SKIPPED"
AfterFirst == IF enabled THEN "running" ELSE "over"

NewRow(w) == [NoRow EXCEPT !.id = w, !.status = FirstStatus]

\* The insert: the unique report_id lets one of two callers through.
InsertRow(w) ==
  /\ verifier[w] = "insert"
  /\ IF row = NoRow THEN row' = NewRow(w) /\ VerifierTo(w, AfterFirst)
     ELSE UNCHANGED row /\ VerifierTo(w, "over")
  /\ UNCHANGED <<vars, rowOf, checkout, results, enabled, page>>

\* Mutant: the row is written whether it is still there or not.
WritesAnyway(w) == TRUE

\* Updates are WHERE id = rowId and look at nothing else.
Writes(w) == row.id = rowOf[w]

Mark(w, s, earned) ==
  row' = IF Writes(w) THEN [row EXCEPT !.status = s, !.stale = FALSE, !.earned = earned,
                                  !.left = FALSE] ELSE row

\* A verify() that found an ERROR, SKIPPED or stale row takes it over.
TakeRow(w) ==
  /\ verifier[w] = "update"
  /\ Mark(w, FirstStatus, FALSE)
  /\ VerifierTo(w, AfterFirst)
  /\ UNCHANGED <<vars, rowOf, checkout, results, enabled, page>>

\* The report has no usable pull request or head SHA.
Unusable(w) ==
  /\ verifier[w] = "running"
  /\ Mark(w, "ERROR", FALSE) \/ Mark(w, "SKIPPED", FALSE)
  /\ VerifierTo(w, "over")
  /\ UNCHANGED <<vars, rowOf, checkout, results, enabled, page>>

\* git clones into a directory that is not there ...
Clone(w) ==
  /\ verifier[w] = "running" /\ checkout = 0
  /\ checkout' = w
  /\ VerifierTo(w, "cloned")
  /\ UNCHANGED <<vars, row, rowOf, results, enabled, page>>

\* ... and fails otherwise, as when the host refuses.
CloneFails(w) ==
  /\ verifier[w] = "running"
  /\ Mark(w, "ERROR", FALSE)
  /\ VerifierTo(w, "cleanup")
  /\ UNCHANGED <<vars, rowOf, checkout, results, enabled, page>>
----------------------------------------------------------------------------
CheckStatuses == {"PASSED", "FAILED", "TIMED_OUT", "SKIPPED"}

\* CloneVerifier.verify: the tests of a clone that does not build are not run.
ChecksOf(compile, test) == <<compile, IF compile = "PASSED" THEN test ELSE "SKIPPED">>

\* Mutant: nothing failed, so it passed.
NothingFailed(checks) ==
  IF \E i \in DOMAIN checks : checks[i] \in {"FAILED", "TIMED_OUT"} THEN "FAILED" ELSE "PASSED"

\* flagReport, and the distinction it does not make: nothing was run.
ReportStatus(checks) ==
  IF \E i \in DOMAIN checks : checks[i] \in {"FAILED", "TIMED_OUT"} THEN "FAILED"
  ELSE IF \A i \in DOMAIN checks : checks[i] = "SKIPPED" THEN "SKIPPED"
  ELSE "PASSED"

\* What a check can come to in a directory that lost its package.json.
Possible == IF checkout = 0 THEN CheckStatuses \ {"PASSED"} ELSE CheckStatuses

\* CloneVerifier.verify awaits the compile check ...
Compile(w) ==
  /\ verifier[w] = "cloned"
  /\ \E compile \in Possible : results' = [results EXCEPT ![w] = <<compile>>]
  /\ VerifierTo(w, "built")
  /\ UNCHANGED <<vars, row, rowOf, checkout, enabled, page>>

\* ... then the tests; both end within the whole budget ...
Test(w) ==
  /\ verifier[w] = "built"
  /\ \E test \in Possible :
       results' = [results EXCEPT ![w] = ChecksOf(results[w][1], test)]
  /\ VerifierTo(w, "checked")
  /\ UNCHANGED <<vars, row, rowOf, checkout, enabled, page>>

\* ... and the row gets their verdict.
Conclude(w) ==
  /\ verifier[w] = "checked"
  /\ Mark(w, ReportStatus(results[w]), results[w][1] = "PASSED")
  /\ results' = [results EXCEPT ![w] = <<>>]
  /\ VerifierTo(w, "cleanup")
  /\ UNCHANGED <<vars, rowOf, checkout, enabled, page>>

\* Mutant: a timeout leaves the row to the checks, which nobody waits for.
TimeoutKept(w) == UNCHANGED row

\* What is written when verify() gives up on the checks.
GivesUp(w) == Mark(w, "ERROR", FALSE)

\* The checks do not end in time (nobody waits for those that go on), or throw, or
\* their verdict cannot be written.
VerifyFails(w) ==
  /\ verifier[w] \in {"cloned", "built", "checked"}
  /\ GivesUp(w)
  /\ results' = [results EXCEPT ![w] = <<>>]
  /\ VerifierTo(w, "cleanup")
  /\ UNCHANGED <<vars, rowOf, checkout, enabled, page>>

\* The row w writes, if it is there, is left as it is.
LeaveRow(w) == row' = IF Writes(w) THEN [row EXCEPT !.left = TRUE] ELSE row

\* A read or a write of verify() that nothing catches fails: it rejects, and only
\* what follows the clone is cleaned up.  The row stays as it is, RUNNING perhaps.
StatementFails(w) ==
  /\ ErrorLost
  /\ \/ /\ verifier[w] \in {"called", "insert", "update"}
        /\ VerifierTo(w, "over") /\ UNCHANGED row
     \/ /\ verifier[w] = "running" /\ VerifierTo(w, "over") /\ LeaveRow(w)
     \/ /\ verifier[w] \in {"cloned", "built", "checked"}
        /\ VerifierTo(w, "cleanup") /\ LeaveRow(w)
  /\ results' = [results EXCEPT ![w] = <<>>]
  /\ UNCHANGED <<vars, rowOf, checkout, enabled, page>>

\* The directory is removed, whoever's clone it holds by now.
Cleanup(w) ==
  /\ verifier[w] = "cleanup"
  /\ checkout' = 0
  /\ VerifierTo(w, "over")
  /\ UNCHANGED <<vars, row, rowOf, results, enabled, page>>

Verification(w) ==
  \/ Look(w) \/ InsertRow(w) \/ TakeRow(w) \/ Unusable(w) \/ Clone(w) \/ CloneFails(w)
  \/ Compile(w) \/ Test(w) \/ Conclude(w) \/ VerifyFails(w) \/ StatementFails(w)
  \/ Cleanup(w)
----------------------------------------------------------------------------
\* GET /api/reviews/:id reads the report; a page polls on while its review is not
\* over, and stops at an error.
ReadReport ==
  /\ page = "polling"
  /\ \/ status = "complete" /\ page' = "complete"
     \/ status = "error" /\ page' = "failed"
  /\ UNCHANGED <<vars, row, verifier, rowOf, checkout, results, enabled>>

\* Mutant: a complete report is polled until it has a verdict.
PollsForVerdict == row.status \notin {"PASSED", "FAILED"}

\* useReviewReport's refetchInterval for a complete report.
PollsAgain == row.status = "RUNNING"

\* ... then the verification of a complete report; the page asks again, or never
\* more.
ReadVerification ==
  /\ page = "complete"
  /\ page' = IF PollsAgain THEN "polling" ELSE "done"
  /\ UNCHANGED <<vars, row, verifier, rowOf, checkout, results, enabled>>

\* Review and verification of one run; none of it can be repeated.
Work(w) ==
  \/ ReviewStage(w) \/ Verification(w)
  \/ \E b \in Batches : Batch(w, b) /\ UNCHANGED outer

VerificationNext ==
  \/ \E w \in Runs : Work(w)
  \/ \E q \in Retriers : (RetryRead(q) /\ UNCHANGED outer) \/ ResetReport(q) \/ AnswerRetry(q)
  \/ EndProcess \/ Age \/ ReadReport \/ ReadVerification

VerificationSpec == VerificationInit /\ [][VerificationNext]_all

\* As in ReviewIngest; git and the sandboxes end by their timeouts, and an open
\* page polls.
VerificationFairSpec ==
  /\ VerificationSpec
  /\ \A w \in Runs : WF_all(Work(w))
  /\ \A q \in Retriers : WF_all(ResetReport(q) \/ AnswerRetry(q))
  /\ WF_all(ReadReport \/ ReadVerification)
----------------------------------------------------------------------------
VerificationTypeOK ==
  /\ TypeOK
  /\ row \in [id : Runs \cup {0}, status : RowStatuses, stale : BOOLEAN, earned : BOOLEAN,
             left : BOOLEAN]
  /\ row.status = "NONE" \/ row.id = 0 => row = NoRow
  /\ verifier \in [Runs -> VerifierSteps] /\ rowOf \in [Runs -> Runs]
  /\ results \in [Runs -> Seq(CheckStatuses)]
  /\ checkout \in Runs \cup {0} /\ enabled \in BOOLEAN
  /\ page \in {"polling", "complete", "done", "failed"}

\* PASSED is said only of a pull request that was built, in a directory that had
\* its files, by the verification that says it.  (The clone may be another's, when
\* a second verification cleans up and a third clones before the build.)
PassIsEarned == row.status = "PASSED" => row.earned

\* A RUNNING row is worked on by somebody, however verifications, retries and
\* takeovers interleave, unless the process or the database failed its writer.
RunningIsWorkedOn ==
  row.status = "RUNNING" /\ ~ row.left /\ crashes = 0 =>
    \E w \in Runs : Writes(w) /\ verifier[w] \in {"running", "cloned", "built", "checked"}

\* A report page stops polling, while the process lives.
PageSettles == (page = "polling") ~> (page \in {"done", "failed"})
=============================================================================
