----------------------- MODULE ReviewVerificationProofs -----------------------
(***************************************************************************)
(* What TLAPS proves of ReviewVerification and of ReviewIngest below it,   *)
(* for any number of reviews, batches, workers, retry clients, faults and  *)
(* crashes: a RUNNING row has a verification that still works on it,       *)
(* PASSED was earned by a build, every state is well typed, verification   *)
(* changes nothing of the review, the stages of a report come in order, it *)
(* is announced once, and a complete one is one whole review; where two    *)
(* retries race, the last three say what is left of them.                  *)
(***************************************************************************)
EXTENDS ReviewVerification, FiniteSetTheorems, TLAPS

\* A run is verified only once it is over, and until its verify() has looked for
\* the row, the row it will write is its own.
StartsAfterReview ==
  \A w \in Runs :
    /\ verifier[w] # "idle" => run[w] = "over"
    /\ verifier[w] \in {"idle", "called", "insert"} => rowOf[w] = w

\* What a verification has found so far fits how far it is: tests follow only a
\* build that passed.
ChecksFit(w) ==
  /\ verifier[w] = "built" => \E compile \in CheckStatuses : results[w] = <<compile>>
  /\ verifier[w] = "checked" =>
       \E compile, test \in CheckStatuses : results[w] = ChecksOf(compile, test)

\* The inductive invariant.
WorkInv ==
  /\ VerificationTypeOK /\ StartsAfterReview /\ RunningIsWorkedOn /\ PassIsEarned
  /\ \A w \in Runs : ChecksFit(w)

AtWork == {"running", "cloned", "built", "checked"}

Rows == [id : Runs \cup {0}, status : RowStatuses, stale : BOOLEAN, earned : BOOLEAN,
         left : BOOLEAN]
----------------------------------------------------------------------------
LEMMA IngestTypeInit == Init => TypeOK
BY IngestBounds DEF Init, TypeOK, Runs, Batches, ReportStatuses, RunSteps, BatchSteps

\* A step of the review and of its retries keeps TypeOK and never resumes a run
\* that is over.
LEMMA IngestStage ==
  ASSUME TypeOK, NEW w \in Runs, Stage(w)
  PROVE  /\ TypeOK'
         /\ \A u \in Runs : run[u] = "over" => run'[u] = "over"
         /\ announced' # announced => run[w] # "over" /\ run'[w] = "over"
<1>1. CASE Advance(w)
  <2>1. /\ run[w] \in {"requested", "fetching", "recalling"}
        /\ NextStage[run[w]] \in {"fetching", "recalling", "reviewing"}
    BY <1>1 DEF Advance, NextStage
  <2>2. QED
    BY <1>1, <2>1 DEF Advance, TypeOK, Goto, At, ReportStatuses, RunSteps
<1>2. CASE Fail(w)
  BY <1>2 DEF Fail, Throw, Working, TypeOK, Goto, At, RunSteps
<1>3. CASE HandleFailure(w)
  BY <1>3 DEF HandleFailure, FailedStatus, TypeOK, Goto, At, RunSteps, ReportStatuses
<1>4. CASE FinishBatches(w)
  BY <1>4 DEF FinishBatches, Throw, TypeOK, Goto, At, RunSteps, ReportStatuses
<1>5. CASE MarkComplete(w)
  BY <1>5 DEF MarkComplete, TypeOK, Goto, At, RunSteps, ReportStatuses
<1>6. CASE Publish(w)
  BY <1>6 DEF Publish, TypeOK, Goto, At, RunSteps
<1>7. QED
  BY <1>1, <1>2, <1>3, <1>4, <1>5, <1>6 DEF Stage

LEMMA IngestBatch ==
  ASSUME TypeOK, NEW w \in Runs, NEW b \in Batches, Batch(w, b)
  PROVE  TypeOK' /\ \A u \in Runs : run[u] = "over" => run'[u] = "over"
<1>1. ASSUME NEW step \in BatchSteps, BatchTo(w, b, step)
      PROVE  batch' \in [Runs -> [Batches -> BatchSteps]]
  BY <1>1 DEF BatchTo, TypeOK
<1>2. /\ BatchThrows(w) => run' \in [Runs -> RunSteps]
      /\ BatchThrows(w) => \A u \in Runs : run[u] = "over" <=> run'[u] = "over"
  BY DEF BatchThrows, Throw, Goto, At, TypeOK, RunSteps
<1>3. CASE StartBatch(w, b)
  BY <1>1, <1>3 DEF StartBatch, TypeOK, BatchSteps, At
<1>4. CASE AskModel(w, b)
  BY <1>1, <1>2, <1>4 DEF AskModel, TypeOK, BatchSteps, At
<1>5. CASE InsertBatch(w, b)
  BY <1>1, <1>5 DEF InsertBatch, TypeOK, BatchSteps, At
<1>6. CASE StoreBatch(w, b)
  BY <1>1, <1>6 DEF StoreBatch, TypeOK, BatchSteps, At
<1>7. CASE BatchFault(w, b)
  BY <1>1, <1>2, <1>7, IngestBounds DEF BatchFault, TypeOK, BatchSteps, At
<1>8. QED
  BY <1>3, <1>4, <1>5, <1>6, <1>7 DEF Batch

LEMMA IngestRetry ==
  ASSUME TypeOK, NEW q \in Retriers, RetryRead(q) \/ RetryReset(q) \/ RetryPublish(q)
  PROVE  TypeOK' /\ \A u \in Runs : run[u] = "over" => run'[u] = "over"
<1>1. CASE RetryRead(q)
  BY <1>1 DEF RetryRead, TypeOK, At
<1>2. CASE RetryReset(q)
  BY <1>2 DEF RetryReset, TypeOK, At, ReportStatuses
<1>3. CASE RetryPublish(q)
  BY <1>3 DEF RetryPublish, Request, Unused, TypeOK, At, Goto, RunSteps
<1>4. QED
  BY <1>1, <1>2, <1>3

LEMMA IngestCrash ==
  ASSUME TypeOK, Crash
  PROVE  TypeOK' /\ crashes' # 0 /\ \A u \in Runs : run[u] = "over" => run'[u] = "over"
BY IngestBounds DEF Crash, TypeOK, At, RunSteps, BatchSteps
----------------------------------------------------------------------------
LEMMA WorkInit == VerificationInit => WorkInv
<1>1. <<>> \in Seq(CheckStatuses)
  OBVIOUS
<1>2. QED
  BY <1>1, IngestTypeInit DEF VerificationInit, WorkInv, VerificationTypeOK, StartsAfterReview,
     RunningIsWorkedOn, PassIsEarned, ChecksFit, NoRow, RowStatuses, VerifierSteps, Runs

\* What an update by id does: it leaves no RUNNING row that nobody works on,
\* when the writer stays at work or writes a final status.
LEMMA MarkShape ==
  ASSUME VerificationTypeOK, NEW w \in Runs, NEW s \in RowStatuses \ {"NONE"},
         NEW e \in BOOLEAN, Mark(w, s, e)
  PROVE  /\ row' \in Rows
         /\ row'.id = row.id
         /\ row'.status = "NONE" \/ row'.id = 0 => row' = NoRow
         /\ Writes(w) => row'.status = s /\ row'.earned = e
         /\ ~ Writes(w) => row' = row
<1>1. CASE Writes(w)
  <2>1. row' = [row EXCEPT !.status = s, !.stale = FALSE, !.earned = e, !.left = FALSE]
    BY <1>1 DEF Mark
  <2>2. row \in Rows /\ row.id # 0
    BY <1>1 DEF VerificationTypeOK, Writes, Runs, Rows
  <2>3. row' \in Rows /\ row'.id = row.id /\ row'.status = s /\ row'.earned = e
    BY <2>1, <2>2 DEF Rows
  <2>4. QED
    BY <1>1, <2>2, <2>3
<1>2. CASE ~ Writes(w)
  BY <1>2 DEF Mark, VerificationTypeOK, Rows
<1>3. QED
  BY <1>1, <1>2

\* A writer that fails leaves the row to the next one, its status as it is.
LEMMA LeaveShape ==
  ASSUME VerificationTypeOK, NEW w \in Runs, LeaveRow(w)
  PROVE  /\ row' \in Rows /\ row'.status = row.status /\ row'.earned = row.earned
         /\ row'.status = "NONE" \/ row'.id = 0 => row' = NoRow
         /\ Writes(w) => row'.left
         /\ ~ Writes(w) => row' = row
<1>1. CASE Writes(w)
  <2>1. row' = [row EXCEPT !.left = TRUE]
    BY <1>1 DEF LeaveRow
  <2>2. row \in Rows /\ row.id # 0 /\ row.status # "NONE"
    BY <1>1 DEF VerificationTypeOK, Writes, Runs, Rows, NoRow
  <2>3. /\ row' \in Rows /\ row'.id = row.id /\ row'.status = row.status
        /\ row'.earned = row.earned /\ row'.left
    BY <2>1, <2>2 DEF Rows
  <2>4. QED
    BY <1>1, <2>2, <2>3
<1>2. CASE ~ Writes(w)
  BY <1>2 DEF LeaveRow, VerificationTypeOK, Rows
<1>3. QED
  BY <1>1, <1>2

\* A verdict PASSED needs a build that passed.
LEMMA PassedWasBuilt ==
  ASSUME NEW compile \in CheckStatuses, NEW test \in CheckStatuses
  PROVE  /\ ReportStatus(ChecksOf(compile, test)) \in {"PASSED", "FAILED", "SKIPPED"}
         /\ ReportStatus(ChecksOf(compile, test)) = "PASSED" => compile = "PASSED"
<1> DEFINE checks == ChecksOf(compile, test)
<1>1. /\ DOMAIN checks = {1, 2} /\ checks[1] = compile
      /\ compile # "PASSED" => checks[2] = "SKIPPED"
  BY DEF ChecksOf
<1>2. ReportStatus(checks) \in {"PASSED", "FAILED", "SKIPPED"}
  BY DEF ReportStatus
<1> HIDE DEF checks
<1>3. ReportStatus(checks) = "PASSED" => compile = "PASSED"
  BY <1>1 DEF ReportStatus, CheckStatuses
<1>4. QED
  BY <1>2, <1>3 DEF checks

\* A step of one verify(): it ends with the row written or not, its writer at
\* another step, and everything else as it was.
LEMMA VerifierStep ==
  ASSUME WorkInv, NEW w \in Runs, NEW step \in VerifierSteps \ {"idle", "called"},
         VerifierTo(w, step), verifier[w] # "idle",
         UNCHANGED <<vars, enabled, page>>, checkout' \in Runs \cup {0},
         rowOf' \in [Runs -> Runs], \A u \in Runs \ {w} : rowOf'[u] = rowOf[u],
         step = "insert" => rowOf'[w] = w,
         results' \in [Runs -> Seq(CheckStatuses)],
         \A u \in Runs \ {w} : results'[u] = results[u],
         step \notin {"built", "checked"} \/ ChecksFit(w)',
         row' \in Rows, row'.status = "NONE" \/ row'.id = 0 => row' = NoRow,
         PassIsEarned',
         \/ row' = row /\ (Writes(w) => verifier[w] \notin AtWork)
         \/ row'.status # "RUNNING" \/ row'.left
         \/ row'.id = rowOf'[w] /\ step \in AtWork
  PROVE  WorkInv'
<1>1. verifier' \in [Runs -> VerifierSteps] /\ verifier'[w] = step
      /\ \A u \in Runs \ {w} : verifier'[u] = verifier[u]
  BY DEF VerifierTo, WorkInv, VerificationTypeOK
<1>2. VerificationTypeOK'
  BY <1>1 DEF WorkInv, VerificationTypeOK, TypeOK, vars, At, Rows
<1>3. StartsAfterReview'
  BY <1>1 DEF WorkInv, StartsAfterReview, vars
<1>4. RunningIsWorkedOn'
  <2>1. CASE row' = row /\ (Writes(w) => verifier[w] \notin AtWork)
    <3> SUFFICES ASSUME row.status = "RUNNING", ~ row.left, crashes = 0
                 PROVE  \E u \in Runs : Writes(u)' /\ verifier'[u] \in AtWork
      BY <2>1 DEF RunningIsWorkedOn, vars, AtWork
    <3>1. PICK u \in Runs : Writes(u) /\ verifier[u] \in AtWork
      BY DEF WorkInv, RunningIsWorkedOn, AtWork
    <3>2. u # w
      BY <2>1, <3>1
    <3>3. QED
      BY <1>1, <2>1, <3>1, <3>2 DEF Writes
  <2>2. CASE row'.status # "RUNNING" \/ row'.left
    BY <2>2 DEF RunningIsWorkedOn
  <2>3. CASE row'.id = rowOf'[w] /\ step \in AtWork
    BY <1>1, <2>3 DEF RunningIsWorkedOn, Writes, AtWork
  <2>4. QED
    BY <2>1, <2>2, <2>3
<1>5. ASSUME NEW u \in Runs PROVE ChecksFit(u)'
  <2>1. CASE u = w
    BY <1>1, <2>1 DEF ChecksFit
  <2>2. CASE u # w
    BY <1>1, <2>2 DEF ChecksFit, WorkInv
  <2>3. QED
    BY <2>1, <2>2
<1>6. QED
  BY <1>2, <1>3, <1>4, <1>5 DEF WorkInv
----------------------------------------------------------------------------
\* What a status does to the witness and to the verdict when it is written.
LEMMA MarkKeepsPass ==
  ASSUME WorkInv, NEW w \in Runs, NEW s \in RowStatuses \ {"NONE"}, NEW e \in BOOLEAN,
         Mark(w, s, e), s = "PASSED" => e
  PROVE  /\ PassIsEarned'
         /\ s # "RUNNING" =>
              row'.status # "RUNNING" \/ (row' = row /\ ~ Writes(w))
BY MarkShape DEF WorkInv, PassIsEarned

LEMMA VerificationKeeps ==
  ASSUME WorkInv, NEW w \in Runs, Verification(w)
  PROVE  WorkInv'
<1> USE DEF VerifierSteps
<1>0. /\ VerificationTypeOK /\ PassIsEarned /\ results \in [Runs -> Seq(CheckStatuses)]
      /\ row \in Rows
  BY DEF WorkInv, VerificationTypeOK, Rows
<1>1. ASSUME results' = [results EXCEPT ![w] = <<>>]
       PROVE  /\ results' \in [Runs -> Seq(CheckStatuses)]
              /\ \A u \in Runs \ {w} : results'[u] = results[u]
  <2>1. <<>> \in Seq(CheckStatuses)
    OBVIOUS
  <2>2. QED
    BY <1>0, <1>1, <2>1
<1>2. CASE Look(w)
  <2>1. row' = row /\ PassIsEarned'
    BY <1>0, <1>2 DEF Look, PassIsEarned
  <2>2. row # NoRow => row.id \in Runs
    BY <1>0 DEF VerificationTypeOK
  <2>3. rowOf[w] = w
    BY <1>2 DEF Look, WorkInv, StartsAfterReview
  <2>4. CASE VerifierTo(w, "update") /\ rowOf' = [rowOf EXCEPT ![w] = row.id] /\ row # NoRow
    BY <1>0, <1>2, <2>1, <2>2, <2>4, VerifierStep DEF Look, VerificationTypeOK, AtWork
  <2>5. CASE VerifierTo(w, "over") /\ rowOf' = rowOf
    BY <1>0, <1>2, <2>1, <2>5, VerifierStep DEF Look, VerificationTypeOK, AtWork
  <2>6. CASE VerifierTo(w, "insert") /\ rowOf' = rowOf
    BY <1>0, <1>2, <2>1, <2>3, <2>6, VerifierStep DEF Look, VerificationTypeOK, AtWork
  <2>7. QED
    BY <1>2, <2>4, <2>5, <2>6 DEF Look
<1>3. CASE InsertRow(w)
  <2>1. rowOf[w] = w /\ w # 0
    BY <1>3 DEF InsertRow, WorkInv, StartsAfterReview, Runs
  <2>2. CASE row = NoRow
    <3>1. row' = [NoRow EXCEPT !.id = w, !.status = FirstStatus] /\ VerifierTo(w, AfterFirst)
      BY <1>3, <2>2 DEF InsertRow, NewRow
    <3>2. /\ row' \in Rows
          /\ row'.id = w /\ row'.status = FirstStatus
      BY <3>1 DEF NoRow, FirstStatus, RowStatuses, Rows
    <3>3. QED
      BY <1>0, <1>3, <2>1, <3>1, <3>2, VerifierStep
         DEF InsertRow, FirstStatus, AfterFirst, VerificationTypeOK, PassIsEarned, AtWork
  <2>3. CASE row # NoRow
    BY <1>0, <1>3, <2>1, <2>3, VerifierStep
       DEF InsertRow, VerificationTypeOK, PassIsEarned, AtWork
  <2>4. QED
    BY <2>2, <2>3
<1>4. CASE TakeRow(w)
  <2>1. PICK s \in {"RUNNING", "SKIPPED"}, step \in {"running", "over"} :
          /\ Mark(w, s, FALSE) /\ VerifierTo(w, step)
          /\ s = "RUNNING" => step = "running"
    BY <1>4 DEF TakeRow, FirstStatus, AfterFirst
  <2>2. s \in RowStatuses \ {"NONE"}
    BY DEF RowStatuses
  <2>3. row'.status # "RUNNING" \/ (row' = row /\ ~ Writes(w)) \/ (row'.id = rowOf[w] /\ step = "running")
    BY <1>0, <2>1, <2>2, MarkShape DEF Writes
  <2>4. QED
    BY <1>0, <1>4, <2>1, <2>2, <2>3, MarkShape, MarkKeepsPass, VerifierStep
       DEF TakeRow, VerificationTypeOK, AtWork
<1>5. CASE Unusable(w)
  <2>1. PICK s \in {"ERROR", "SKIPPED"} : Mark(w, s, FALSE)
    BY <1>5 DEF Unusable
  <2>2. s \in RowStatuses \ {"NONE"}
    BY DEF RowStatuses
  <2>3. QED
    BY <1>0, <1>5, <2>1, <2>2, MarkShape, MarkKeepsPass, VerifierStep
       DEF Unusable, VerificationTypeOK
<1>6. CASE Clone(w)
  <2>1. row' = row /\ PassIsEarned'
    BY <1>0, <1>6 DEF Clone, PassIsEarned
  <2>2. CASE Writes(w)
    BY <1>0, <1>6, <2>1, <2>2, VerifierStep DEF Clone, VerificationTypeOK, Writes, AtWork
  <2>3. CASE ~ Writes(w)
    BY <1>0, <1>6, <2>1, <2>3, VerifierStep DEF Clone, VerificationTypeOK, AtWork
  <2>4. QED
    BY <2>2, <2>3
<1>7. CASE CloneFails(w)
  <2>1. Mark(w, "ERROR", FALSE) /\ "ERROR" \in RowStatuses \ {"NONE"}
    BY <1>7 DEF CloneFails, RowStatuses
  <2>2. QED
    BY <1>0, <1>7, <2>1, MarkShape, MarkKeepsPass, VerifierStep DEF CloneFails, VerificationTypeOK
<1>8. CASE Compile(w)
  <2>1. PICK compile \in CheckStatuses : results' = [results EXCEPT ![w] = <<compile>>]
    BY <1>8 DEF Compile, Possible
  <2>2. <<compile>> \in Seq(CheckStatuses)
    OBVIOUS
  <2>3. /\ results' \in [Runs -> Seq(CheckStatuses)] /\ results'[w] = <<compile>>
        /\ \A u \in Runs \ {w} : results'[u] = results[u]
    BY <1>0, <2>1, <2>2
  <2>4. verifier'[w] = "built"
    BY <1>0, <1>8 DEF Compile, VerifierTo, VerificationTypeOK
  <2>5. ChecksFit(w)'
    BY <2>3, <2>4 DEF ChecksFit
  <2>6. row' = row /\ PassIsEarned'
    BY <1>0, <1>8 DEF Compile, PassIsEarned
  <2>7. row'.id = rowOf'[w] \/ ~ Writes(w)
    BY <1>8 DEF Compile, Writes
  <2>8. QED
    BY <1>0, <1>8, <2>3, <2>5, <2>6, <2>7, VerifierStep DEF Compile, VerificationTypeOK, AtWork
<1>9. CASE Test(w)
  <2>1. PICK compile \in CheckStatuses : results[w] = <<compile>>
    BY <1>9 DEF Test, WorkInv, ChecksFit
  <2>2. PICK test \in CheckStatuses :
          results' = [results EXCEPT ![w] = ChecksOf(compile, test)]
    <3>1. results[w][1] = compile
      BY <2>1
    <3>2. QED
      BY <1>9, <3>1 DEF Test, Possible
  <2>3. ChecksOf(compile, test) \in Seq(CheckStatuses)
    BY DEF ChecksOf, CheckStatuses
  <2>4. /\ results' \in [Runs -> Seq(CheckStatuses)] /\ results'[w] = ChecksOf(compile, test)
        /\ \A u \in Runs \ {w} : results'[u] = results[u]
    BY <1>0, <2>2, <2>3
  <2>5. verifier'[w] = "checked"
    BY <1>0, <1>9 DEF Test, VerifierTo, VerificationTypeOK
  <2>6. ChecksFit(w)'
    BY <2>4, <2>5 DEF ChecksFit
  <2>7. row' = row /\ PassIsEarned'
    BY <1>0, <1>9 DEF Test, PassIsEarned
  <2>8. row'.id = rowOf'[w] \/ ~ Writes(w)
    BY <1>9 DEF Test, Writes
  <2>9. QED
    BY <1>0, <1>9, <2>4, <2>6, <2>7, <2>8, VerifierStep DEF Test, VerificationTypeOK, AtWork
<1>10. CASE Conclude(w)
  <2>1. PICK compile \in CheckStatuses, test \in CheckStatuses :
          results[w] = ChecksOf(compile, test)
    BY <1>10 DEF Conclude, WorkInv, ChecksFit
  <2>2. PICK s \in {"PASSED", "FAILED", "SKIPPED"} : s = ReportStatus(results[w])
    BY <2>1, PassedWasBuilt
  <2>3. PICK e \in BOOLEAN : e = (results[w][1] = "PASSED")
    OBVIOUS
  <2>4. results[w][1] = compile
    BY <2>1 DEF ChecksOf
  <2>5. Mark(w, s, e) /\ s \in RowStatuses \ {"NONE"} /\ (s = "PASSED" => e)
    BY <1>10, <2>1, <2>2, <2>3, <2>4, PassedWasBuilt DEF Conclude, RowStatuses
  <2>6. QED
    BY <1>0, <1>10, <1>1, <2>2, <2>5, MarkShape, MarkKeepsPass, VerifierStep
       DEF Conclude, VerificationTypeOK
<1>11. CASE VerifyFails(w)
  <2>1. Mark(w, "ERROR", FALSE) /\ "ERROR" \in RowStatuses \ {"NONE"}
    BY <1>11 DEF VerifyFails, GivesUp, RowStatuses
  <2>2. /\ PassIsEarned' /\ (row'.status # "RUNNING" \/ (row' = row /\ ~ Writes(w)))
        /\ row' \in Rows /\ (row'.status = "NONE" \/ row'.id = 0 => row' = NoRow)
    BY <1>0, <2>1, MarkShape, MarkKeepsPass
  <2>3. /\ results' = [results EXCEPT ![w] = <<>>] /\ VerifierTo(w, "cleanup")
        /\ verifier[w] # "idle" /\ UNCHANGED <<vars, rowOf, checkout, enabled, page>>
    BY <1>11 DEF VerifyFails
  <2>4. QED
    BY <1>0, <1>1, <2>2, <2>3, VerifierStep DEF VerificationTypeOK
<1>12. CASE Cleanup(w)
  <2>1. row' = row /\ PassIsEarned'
    BY <1>0, <1>12 DEF Cleanup, PassIsEarned
  <2>2. QED
    BY <1>0, <1>12, <2>1, VerifierStep DEF Cleanup, VerificationTypeOK, AtWork
<1>13. CASE StatementFails(w)
  <2>1. PICK step \in {"over", "cleanup"} : VerifierTo(w, step)
    BY <1>13 DEF StatementFails
  <2>2. /\ verifier[w] # "idle" /\ UNCHANGED <<vars, rowOf, checkout, enabled, page>>
        /\ results' = [results EXCEPT ![w] = <<>>]
    BY <1>13 DEF StatementFails
  <2>3. CASE row' = row /\ verifier[w] \notin AtWork
    <3>1. PassIsEarned'
      BY <1>0, <2>3 DEF PassIsEarned
    <3>2. QED
      BY <1>0, <1>1, <2>1, <2>2, <2>3, <3>1, VerifierStep DEF VerificationTypeOK
  <2>4. CASE LeaveRow(w)
    <3>1. PassIsEarned'
      BY <1>0, <2>4, LeaveShape DEF PassIsEarned
    <3>2. QED
      BY <1>0, <1>1, <2>1, <2>2, <2>4, <3>1, LeaveShape, VerifierStep DEF VerificationTypeOK
  <2>5. QED
    BY <1>13, <2>3, <2>4 DEF StatementFails, AtWork
<1>14. QED
  BY <1>2, <1>3, <1>4, <1>5, <1>6, <1>7, <1>8, <1>11, <1>12, <1>13, <1>9, <1>10 DEF Verification
----------------------------------------------------------------------------
\* Every step keeps the invariant.
LEMMA WorkNext == WorkInv /\ [VerificationNext]_all => WorkInv'
<1> SUFFICES ASSUME WorkInv, [VerificationNext]_all PROVE WorkInv'
  OBVIOUS
<1> USE DEF VerifierSteps
<1>0. /\ VerificationTypeOK /\ TypeOK /\ StartsAfterReview /\ RunningIsWorkedOn /\ PassIsEarned
      /\ \A w \in Runs : ChecksFit(w)
  BY DEF WorkInv, VerificationTypeOK
<1>1. ASSUME NEW w \in Runs, ReviewStage(w) PROVE WorkInv'
  <2>1. /\ TypeOK' /\ \A u \in Runs : run[u] = "over" => run'[u] = "over"
        /\ announced' # announced => run[w] # "over" /\ run'[w] = "over"
    BY <1>0, <1>1, IngestStage DEF ReviewStage
  <2>2. crashes' = crashes
    BY <1>1 DEF ReviewStage, Stage, Advance, Fail, HandleFailure, FinishBatches, MarkComplete,
                Publish
  <2>3. CASE announced' = announced
    BY <1>0, <1>1, <2>1, <2>2, <2>3
       DEF ReviewStage, WorkInv, VerificationTypeOK, StartsAfterReview, RunningIsWorkedOn,
           PassIsEarned, ChecksFit, Writes
  <2>4. CASE announced' # announced
    <3>1. /\ verifier[w] = "idle" /\ verifier' = [verifier EXCEPT ![w] = "called"]
          /\ UNCHANGED <<row, rowOf, checkout, results, enabled, page>>
      BY <1>0, <1>1, <2>1, <2>4 DEF ReviewStage, VerifierTo, StartsAfterReview
    <3>2. VerificationTypeOK' /\ PassIsEarned' /\ StartsAfterReview'
      BY <1>0, <2>1, <2>4, <3>1 DEF VerificationTypeOK, PassIsEarned, StartsAfterReview
    <3>3. RunningIsWorkedOn'
      BY <1>0, <2>2, <3>1 DEF RunningIsWorkedOn, Writes, VerificationTypeOK
    <3>4. \A u \in Runs : ChecksFit(u)'
      <4>1. /\ verifier'[w] = "called" /\ results' = results
            /\ \A u \in Runs : u # w => verifier'[u] = verifier[u]
        BY <1>0, <3>1 DEF VerificationTypeOK
      <4>2. ASSUME NEW u \in Runs PROVE ChecksFit(u)'
        <5>1. ChecksFit(u)
          BY <1>0
        <5>2. CASE u = w
          BY <4>1, <5>2 DEF ChecksFit
        <5>3. CASE u # w
          BY <4>1, <5>1, <5>3 DEF ChecksFit
        <5>4. QED
          BY <5>2, <5>3
      <4>3. QED
        BY <4>2
    <3>5. QED
      BY <3>2, <3>3, <3>4 DEF WorkInv
  <2>5. QED
    BY <2>3, <2>4
<1>2. ASSUME NEW w \in Runs, Verification(w) PROVE WorkInv'
  BY <1>2, VerificationKeeps
<1>3. ASSUME NEW w \in Runs, NEW b \in Batches, Batch(w, b), UNCHANGED outer PROVE WorkInv'
  <2>1. TypeOK' /\ \A u \in Runs : run[u] = "over" => run'[u] = "over"
    BY <1>0, <1>3, IngestBatch
  <2>2. crashes' = crashes
    BY <1>3 DEF Batch, StartBatch, AskModel, InsertBatch, StoreBatch, BatchFault
  <2>3. QED
    BY <1>0, <1>3, <2>1, <2>2
       DEF outer, WorkInv, VerificationTypeOK, StartsAfterReview, RunningIsWorkedOn, PassIsEarned, ChecksFit,
           Writes
<1>4. ASSUME NEW q \in Retriers,
             (RetryRead(q) /\ UNCHANGED outer) \/ ResetReport(q) \/ AnswerRetry(q)
      PROVE  WorkInv'
  <2>1. TypeOK' /\ \A u \in Runs : run[u] = "over" => run'[u] = "over"
    BY <1>0, <1>4, IngestRetry DEF ResetReport, AnswerRetry
  <2>2. crashes' = crashes
    BY <1>4 DEF ResetReport, AnswerRetry, RetryRead, RetryReset, RetryPublish
  <2>3. row' \in {row, NoRow} /\ UNCHANGED <<verifier, rowOf, checkout, results, enabled>>
    BY <1>4 DEF ResetReport, AnswerRetry, outer
  <2>4. page' \in {page, "polling"}
    BY <1>4 DEF ResetReport, AnswerRetry, outer
  <2>5. CASE row' = row
    BY <1>0, <2>1, <2>2, <2>3, <2>4, <2>5
       DEF WorkInv, VerificationTypeOK, StartsAfterReview, RunningIsWorkedOn, PassIsEarned, ChecksFit, Writes
  <2>6. CASE row' = NoRow
    BY <1>0, <2>1, <2>2, <2>3, <2>4, <2>6
       DEF WorkInv, VerificationTypeOK, StartsAfterReview, RunningIsWorkedOn, PassIsEarned, ChecksFit, NoRow,
           RowStatuses
  <2>7. QED
    BY <2>3, <2>5, <2>6
<1>5. CASE EndProcess
  <2>1. TypeOK' /\ crashes' # 0 /\ \A u \in Runs : run[u] = "over" => run'[u] = "over"
    BY <1>0, <1>5, IngestCrash DEF EndProcess
  <2>2. verifier' = [w \in Runs |-> IF verifier[w] = "idle" THEN "idle" ELSE "over"]
        /\ results' = [w \in Runs |-> <<>>] /\ <<>> \in Seq(CheckStatuses)
        /\ UNCHANGED <<row, rowOf, checkout, enabled, page>>
    BY <1>5 DEF EndProcess
  <2>3. QED
    BY <1>0, <2>1, <2>2
       DEF WorkInv, VerificationTypeOK, StartsAfterReview, RunningIsWorkedOn, PassIsEarned, ChecksFit
<1>6. CASE Age
  <2>1. row' = [row EXCEPT !.stale = TRUE] /\ row.status = "RUNNING" /\ row.id # 0
    BY <1>0, <1>6 DEF Age, VerificationTypeOK, NoRow
  <2>2. /\ row' \in Rows
        /\ row'.id = row.id /\ row'.status = row.status /\ row'.left = row.left
        /\ row'.earned = row.earned
    BY <1>0, <2>1 DEF VerificationTypeOK, Rows
  <2>3. UNCHANGED <<vars, verifier, rowOf, checkout, results, enabled, page>>
    BY <1>6 DEF Age
  <2>4. QED
    BY <1>0, <2>1, <2>2, <2>3
       DEF WorkInv, VerificationTypeOK, TypeOK, At, vars, StartsAfterReview, RunningIsWorkedOn,
           PassIsEarned, ChecksFit, Writes, Rows
<1>7. CASE ReadReport \/ ReadVerification \/ UNCHANGED all
  <2>1. UNCHANGED <<vars, row, verifier, rowOf, checkout, results, enabled>>
        /\ page' \in {"polling", "complete", "done", "failed"}
    BY <1>0, <1>7 DEF ReadReport, ReadVerification, all, outer, VerificationTypeOK
  <2>2. QED
    BY <1>0, <2>1
       DEF WorkInv, VerificationTypeOK, TypeOK, At, vars, StartsAfterReview, RunningIsWorkedOn,
           PassIsEarned, ChecksFit, Writes
<1>8. QED
  BY <1>1, <1>2, <1>3, <1>4, <1>5, <1>6, <1>7 DEF VerificationNext, Work
----------------------------------------------------------------------------
LEMMA WorkAlways == VerificationSpec => []WorkInv
BY WorkInit, WorkNext, PTL DEF VerificationSpec

\* Reports, batches, retries, the row, its verifications and the page are well
\* typed; above all, no update by id brings a deleted row back.
THEOREM VerificationTyped == VerificationSpec => []VerificationTypeOK
<1>1. WorkInv => VerificationTypeOK
  BY DEF WorkInv
<1>2. QED
  BY <1>1, WorkAlways, PTL

\* While the process lives, a RUNNING row has a verification at work that will
\* write it: takeovers, time-outs and retries leave none behind.
THEOREM RunningHasWorker == VerificationSpec => []RunningIsWorkedOn
<1>1. WorkInv => RunningIsWorkedOn
  BY DEF WorkInv
<1>2. QED
  BY <1>1, WorkAlways, PTL

\* PASSED is written only by a verification whose build passed in a clone.
THEOREM PassWasEarned == VerificationSpec => []PassIsEarned
<1>1. WorkInv => PassIsEarned
  BY DEF WorkInv
<1>2. QED
  BY <1>1, WorkAlways, PTL
----------------------------------------------------------------------------
Live(w) == run[w] \notin {"unused", "over"}
NobodyLive == \A w \in Runs : ~ Live(w)

\* The status is the stage of the live review; one that fails has not said so.
StatusFits ==
  \A w \in Runs :
    /\ run[w] = "requested" => status = "pending"
    /\ run[w] \in {"fetching", "recalling", "reviewing", "storing", "complete"} => status = run[w]
    /\ run[w] = "failing" => status \notin {"complete", "error"}

\* Two reviews are never live together, nor one with a retry that has reset the
\* report, nor two of those.
OneAtATime ==
  /\ \A u, w \in Runs : Live(u) /\ Live(w) => u = w
  /\ \A q \in Retriers : retrier[q] = "reset" =>
       /\ NobodyLive /\ status = "pending"
       /\ \A p \in Retriers : retrier[p] = "reset" => p = q

\* The announcement is the report's last event.
AnnouncedLast ==
  \/ announced = {}
  \/ (\E w \in Runs : announced = {w}) /\ status = "complete" /\ NobodyLive

\* One review at a time writes the report ...
OneReview == TypeOK /\ StatusFits /\ OneAtATime /\ AnnouncedLast

\* ... until a retry resets a report that another has already reset.
StagesInv == TypeOK /\ (raced = 0 => OneReview)
----------------------------------------------------------------------------
LEMMA StagesInvInit == Init => OneReview /\ StagesInv
BY IngestTypeInit DEF Init, StagesInv, OneReview, StatusFits, OneAtATime, AnnouncedLast, Live

\* A step of the live review to another stage, whose status is written with it,
\* or to its end.
LEMMA LiveStep ==
  ASSUME OneReview, NEW w \in Runs, Live(w), NEW s \in RunSteps \ {"unused", "requested"},
         run' = [run EXCEPT ![w] = s], UNCHANGED <<retrier, announced>>, TypeOK',
         s \in {"fetching", "recalling", "reviewing", "storing", "complete"} => status' = s,
         s = "failing" => status' \notin {"complete", "error"}
  PROVE  OneReview'
<1>1. run \in [Runs -> RunSteps]
  BY DEF OneReview, TypeOK
<1>2. run'[w] = s /\ \A u \in Runs : u # w => run'[u] = run[u] /\ ~ Live(u)
  BY <1>1 DEF OneReview, OneAtATime
<1>3. announced = {} /\ \A q \in Retriers : retrier[q] # "reset"
  BY DEF OneReview, OneAtATime, AnnouncedLast, NobodyLive
<1>4. StatusFits'
  BY <1>2 DEF StatusFits, Live
<1>5. OneAtATime' /\ AnnouncedLast'
  BY <1>2, <1>3 DEF OneAtATime, AnnouncedLast, Live
<1>6. QED
  BY <1>4, <1>5 DEF OneReview

LEMMA StageKeeps ==
  ASSUME OneReview, NEW w \in Runs, Stage(w)
  PROVE  OneReview'
<1>1. TypeOK' /\ TypeOK /\ StatusFits /\ OneAtATime
  BY IngestStage DEF OneReview
<1>2. CASE Advance(w)
  <2>1. /\ run[w] \in {"requested", "fetching", "recalling"}
        /\ NextStage[run[w]] \in {"fetching", "recalling", "reviewing"}
    BY <1>2 DEF Advance, NextStage
  <2>2. PICK s \in {"fetching", "recalling", "reviewing"} :
          run' = [run EXCEPT ![w] = s] /\ status' = s
    BY <1>2, <2>1 DEF Advance, Goto
  <2>3. Live(w) /\ s \in RunSteps \ {"unused", "requested"} /\ UNCHANGED <<retrier, announced>>
    BY <1>2, <2>1 DEF Live, RunSteps, Advance
  <2>4. QED
    BY <1>1, <2>2, <2>3, LiveStep
<1>3. CASE Fail(w)
  <2>1. /\ run' = [run EXCEPT ![w] = "failing"] /\ status' = status
        /\ UNCHANGED <<retrier, announced>> /\ Live(w) /\ Working(w)
    BY <1>3 DEF Fail, Throw, Goto, Working, Live
  <2>2. status \notin {"complete", "error"}
    BY <1>1, <2>1 DEF StatusFits, Working
  <2>3. "failing" \in RunSteps \ {"unused", "requested"}
    BY DEF RunSteps
  <2>4. QED
    BY <1>1, <2>1, <2>2, <2>3, LiveStep
<1>4. CASE HandleFailure(w)
  <2>1. /\ run' = [run EXCEPT ![w] = "over"] /\ UNCHANGED <<retrier, announced>> /\ Live(w)
        /\ "over" \in RunSteps \ {"unused", "requested"}
    BY <1>4 DEF HandleFailure, Goto, At, Live, RunSteps
  <2>2. QED
    BY <1>1, <2>1, LiveStep
<1>5. CASE FinishBatches(w)
  <2>1. PICK s \in {"storing", "failing"} :
          /\ run' = [run EXCEPT ![w] = s] /\ UNCHANGED <<retrier, announced>>
          /\ s = "storing" => status' = "storing"
          /\ s = "failing" => status' = status
    BY <1>5 DEF FinishBatches, Throw, Goto
  <2>2. Live(w) /\ status = "reviewing" /\ s \in RunSteps \ {"unused", "requested"}
    BY <1>1, <1>5 DEF FinishBatches, At, Live, StatusFits, RunSteps
  <2>3. QED
    BY <1>1, <2>1, <2>2, LiveStep
<1>6. CASE MarkComplete(w)
  <2>1. /\ run' = [run EXCEPT ![w] = "complete"] /\ status' = "complete" /\ Live(w)
        /\ UNCHANGED <<retrier, announced>>
        /\ "complete" \in RunSteps \ {"unused", "requested"}
    BY <1>6 DEF MarkComplete, Goto, At, Live, RunSteps
  <2>2. QED
    BY <1>1, <2>1, LiveStep
<1>7. CASE Publish(w)
  <2>1. /\ run[w] = "complete" /\ run' = [run EXCEPT ![w] = "over"]
        /\ announced' = announced \cup {w} /\ UNCHANGED <<status, retrier>>
    BY <1>7 DEF Publish, Goto, At
  <2>2. Live(w) /\ status = "complete"
    BY <1>1, <2>1 DEF Live, StatusFits
  <2>3. /\ announced = {} /\ (\A q \in Retriers : retrier[q] # "reset")
        /\ \A u \in Runs : u # w => ~ Live(u)
    BY <2>2 DEF OneReview, OneAtATime, AnnouncedLast, NobodyLive
  <2>4. NobodyLive' /\ announced' = {w}
    BY <1>1, <2>1, <2>3 DEF NobodyLive, Live, TypeOK
  <2>5. StatusFits' /\ OneAtATime' /\ AnnouncedLast'
    BY <2>1, <2>2, <2>3, <2>4 DEF StatusFits, OneAtATime, AnnouncedLast, NobodyLive, Live
  <2>6. QED
    BY <1>1, <2>5 DEF OneReview
<1>8. QED
  BY <1>2, <1>3, <1>4, <1>5, <1>6, <1>7 DEF Stage

\* A batch leaves the report's stage alone, or ends its review.
LEMMA BatchKeeps ==
  ASSUME OneReview, NEW w \in Runs, NEW b \in Batches, Batch(w, b)
  PROVE  OneReview' /\ status' = status
<1>1. TypeOK /\ TypeOK' /\ StatusFits
  BY IngestBatch DEF OneReview
<1>2. UNCHANGED <<status, retrier, announced>>
  BY DEF Batch, StartBatch, AskModel, InsertBatch, StoreBatch, BatchFault
<1>3. UNCHANGED run \/ (run[w] = "reviewing" /\ run' = [run EXCEPT ![w] = "failing"])
  BY DEF Batch, StartBatch, AskModel, InsertBatch, StoreBatch, BatchFault, BatchThrows, Throw,
     Goto, At
<1>4. CASE UNCHANGED run
  BY <1>1, <1>2, <1>4 DEF OneReview, StatusFits, OneAtATime, AnnouncedLast, NobodyLive, Live
<1>5. CASE run[w] = "reviewing" /\ run' = [run EXCEPT ![w] = "failing"]
  <2>1. Live(w) /\ status \notin {"complete", "error"} /\ "failing" \in RunSteps \ {"unused", "requested"}
    BY <1>1, <1>5 DEF Live, StatusFits, RunSteps
  <2>2. QED
    BY <1>1, <1>2, <1>5, <2>1, LiveStep
<1>6. QED
  BY <1>2, <1>3, <1>4, <1>5

\* A retry that finds the report in error has it for itself.
LEMMA RetryKeeps ==
  ASSUME OneReview, NEW q \in Retriers, raced = 0, raced' = 0,
         RetryRead(q) \/ RetryReset(q) \/ RetryPublish(q)
  PROVE  OneReview'
<1>1. /\ TypeOK /\ TypeOK' /\ retrier \in [Retriers -> {"idle", "read", "reset"}]
      /\ run \in [Runs -> RunSteps] /\ StatusFits /\ OneAtATime /\ AnnouncedLast
  BY IngestRetry DEF OneReview, TypeOK
<1>2. CASE RetryRead(q)
  <2>1. /\ retrier' = [retrier EXCEPT ![q] = "read"] /\ UNCHANGED <<status, run, announced>>
    BY <1>2 DEF RetryRead
  <2>2. \A p \in Retriers : retrier'[p] = "reset" => retrier[p] = "reset"
    BY <1>1, <2>1
  <2>3. StatusFits' /\ OneAtATime' /\ AnnouncedLast'
    BY <1>1, <2>1, <2>2 DEF StatusFits, OneAtATime, AnnouncedLast, NobodyLive, Live
  <2>4. QED
    BY <1>1, <2>3 DEF OneReview
<1>3. CASE RetryReset(q)
  <2>1. /\ retrier' = [retrier EXCEPT ![q] = "reset"] /\ status = "error"
        /\ status' = "pending" /\ UNCHANGED <<run, announced>>
    BY <1>3 DEF RetryReset, Retryable
  <2>2. NobodyLive
    BY <1>1, <2>1 DEF NobodyLive, Live, StatusFits, RunSteps
  <2>3. announced = {} /\ \A p \in Retriers : retrier'[p] = "reset" => p = q
    BY <1>1, <2>1 DEF OneAtATime, AnnouncedLast
  <2>4. StatusFits' /\ OneAtATime' /\ AnnouncedLast'
    BY <1>1, <2>1, <2>2, <2>3 DEF StatusFits, OneAtATime, AnnouncedLast, NobodyLive, Live
  <2>5. QED
    BY <1>1, <2>4 DEF OneReview
<1>4. CASE RetryPublish(q)
  <2>1. PICK w \in Runs : run' = [run EXCEPT ![w] = "requested"]
    BY <1>4 DEF RetryPublish, Request, Goto, Unused
  <2>2. /\ retrier[q] = "reset" /\ retrier' = [retrier EXCEPT ![q] = "idle"]
        /\ UNCHANGED <<status, announced>>
    BY <1>4 DEF RetryPublish
  <2>3. NobodyLive /\ status = "pending" /\ announced = {}
        /\ \A p \in Retriers : retrier'[p] # "reset"
    BY <1>1, <2>2 DEF OneAtATime, AnnouncedLast
  <2>4. run'[w] = "requested" /\ \A u \in Runs : u # w => run'[u] = run[u]
    BY <1>1, <2>1
  <2>5. StatusFits' /\ OneAtATime' /\ AnnouncedLast'
    BY <1>1, <2>2, <2>3, <2>4 DEF StatusFits, OneAtATime, AnnouncedLast, NobodyLive, Live
  <2>6. QED
    BY <1>1, <2>5 DEF OneReview
<1>5. QED
  BY <1>2, <1>3, <1>4

LEMMA CrashEnds ==
  ASSUME OneReview, Crash
  PROVE  OneReview'
<1>1. TypeOK' /\ TypeOK
  BY IngestCrash DEF OneReview
<1>2. /\ run' = [w \in Runs |-> IF At(w, "unused") THEN run[w] ELSE "over"]
      /\ retrier' = [q \in Retriers |-> "idle"] /\ UNCHANGED <<status, announced>>
  BY DEF Crash
<1>3. NobodyLive'
  BY <1>2 DEF NobodyLive, Live, At
<1>4. StatusFits' /\ OneAtATime' /\ AnnouncedLast'
  BY <1>2, <1>3 DEF OneReview, StatusFits, OneAtATime, AnnouncedLast, NobodyLive, Live
<1>5. QED
  BY <1>1, <1>4 DEF OneReview

\* Races are counted, never forgotten.
LEMMA RacesRemain ==
  ASSUME TypeOK, [Next]_vars
  PROVE  /\ TypeOK' /\ raced \in Nat /\ raced' \in Nat
         /\ \/ raced' = raced
            \/ raced' = raced + 1 /\ status # "error" /\ status' = "pending"
<1>1. TypeOK'
  <2>1. CASE UNCHANGED vars
    BY <2>1 DEF vars, TypeOK, At
  <2>2. CASE Next
    BY <2>2, IngestStage, IngestBatch, IngestRetry, IngestCrash DEF Next
  <2>3. QED
    BY <2>1, <2>2
<1>2. ASSUME NEW q \in Retriers, RetryReset(q)
      PROVE  raced' = raced \/ (raced' = raced + 1 /\ status # "error" /\ status' = "pending")
  BY <1>2 DEF RetryReset, Retryable
<1>3. ASSUME NEW w \in Runs, Stage(w) PROVE raced' = raced
  BY <1>3 DEF Stage, Advance, Fail, HandleFailure, FinishBatches, MarkComplete, Publish
<1>4. ASSUME NEW w \in Runs, NEW b \in Batches, Batch(w, b) PROVE raced' = raced
  BY <1>4 DEF Batch, StartBatch, AskModel, InsertBatch, StoreBatch, BatchFault
<1>5. ASSUME NEW q \in Retriers, RetryRead(q) \/ RetryPublish(q) PROVE raced' = raced
  BY <1>5 DEF RetryRead, RetryPublish
<1>6. Crash \/ UNCHANGED vars => raced' = raced
  BY DEF Crash, vars
<1>7. QED
  BY <1>1, <1>2, <1>3, <1>4, <1>5, <1>6 DEF TypeOK, Next

LEMMA StagesInvStep == StagesInv /\ [Next]_vars => StagesInv'
<1> SUFFICES ASSUME StagesInv, [Next]_vars PROVE StagesInv'
  OBVIOUS
<1>1. TypeOK' /\ (raced' = 0 => raced = 0)
  BY RacesRemain DEF StagesInv
<1>2. CASE raced' # 0
  BY <1>1, <1>2 DEF StagesInv
<1>3. CASE raced' = 0
  <2>1. OneReview
    BY <1>1, <1>3 DEF StagesInv
  <2>2. CASE UNCHANGED vars
    BY <1>1, <2>1, <2>2
       DEF vars, StagesInv, OneReview, StatusFits, OneAtATime, AnnouncedLast, NobodyLive, Live
  <2>3. CASE Next
    BY <1>1, <1>3, <2>1, <2>3, StageKeeps, BatchKeeps, RetryKeeps, CrashEnds DEF Next, StagesInv
  <2>4. QED
    BY <2>2, <2>3
<1>4. QED
  BY <1>2, <1>3

\* Where the status may go, step by step.
LEMMA StatusFollows ==
  ASSUME OneReview, raced' = 0, raced = 0, Next
  PROVE  status' = status \/ (<<status, status'>> \in Progress!Follows /\ status' \in ReportStatuses)
<1>1. ASSUME NEW w \in Runs, Stage(w)
      PROVE  status' = status \/ (<<status, status'>> \in Progress!Follows
                                  /\ status' \in ReportStatuses)
  <2>1. /\ run[w] = "requested" => status = "pending"
        /\ run[w] \in {"fetching", "recalling", "reviewing", "storing", "complete"} =>
             status = run[w]
        /\ run[w] = "failing" => status \notin {"complete", "error"}
        /\ status \in ReportStatuses
    BY DEF OneReview, StatusFits, TypeOK
  <2>2. CASE Advance(w)
    <3>1. run[w] \in {"requested", "fetching", "recalling"} /\ status' = NextStage[run[w]]
      BY <2>2 DEF Advance, NextStage
    <3>2. <<status, status'>> \in {<<"pending", "fetching">>, <<"fetching", "recalling">>,
                                   <<"recalling", "reviewing">>}
      BY <2>1, <3>1 DEF NextStage
    <3>3. QED
      BY <3>2 DEF Progress!Follows, ReportStatuses
  <2>3. CASE HandleFailure(w)
    BY <2>1, <2>3 DEF HandleFailure, FailedStatus, At, Progress!Follows, Progress!Stages,
       ReportStatuses
  <2>4. CASE FinishBatches(w) \/ MarkComplete(w)
    BY <2>1, <2>4 DEF FinishBatches, MarkComplete, At, Progress!Follows, ReportStatuses
  <2>5. CASE Fail(w) \/ Publish(w)
    BY <2>5 DEF Fail, Publish
  <2>6. QED
    BY <1>1, <2>2, <2>3, <2>4, <2>5 DEF Stage
<1>2. ASSUME NEW w \in Runs, NEW b \in Batches, Batch(w, b) PROVE status' = status
  BY <1>2, BatchKeeps
<1>3. ASSUME NEW q \in Retriers, RetryRead(q) \/ RetryReset(q) \/ RetryPublish(q)
      PROVE  status' = status \/ (status = "error" /\ status' = "pending")
  BY <1>3 DEF RetryRead, RetryReset, RetryPublish, Retryable
<1>4. CASE Crash
  BY <1>4 DEF Crash
<1>5. QED
  BY <1>1, <1>2, <1>3, <1>4 DEF Next, Progress!Follows, ReportStatuses

LEMMA StagesAlways == Spec => []StagesInv
BY StagesInvInit, StagesInvStep, PTL DEF Spec

\* A client that polls the report sees one review after the other, each stage
\* in its order, and a new review only after an error, until two retries race:
\* the concurrent batches, failures, retries and crashes of ReviewIngest
\* implement ReportProgress.
THEOREM StagesFollow == Spec => StagesInOrder
<1>1. Init => Progress!Init
  BY DEF Init, Progress!Init
<1>2. StagesInv /\ [Next]_vars => [Progress!Next]_<<status, raced > 0>>
  <2> SUFFICES ASSUME StagesInv, Next, raced' = 0 \/ raced > 0 \/ raced' = raced + 1
               PROVE  Progress!Next \/ UNCHANGED <<status, raced > 0>>
    <3>1. CASE UNCHANGED vars
      BY <3>1 DEF vars
    <3>2. CASE Next
      BY <3>2, RacesRemain DEF StagesInv
    <3>3. QED
      BY <3>1, <3>2
  <2>1. /\ raced \in Nat /\ raced' \in Nat
        /\ raced' = raced \/ (raced' = raced + 1 /\ status # "error" /\ status' = "pending")
    BY RacesRemain DEF StagesInv
  <2>2. CASE raced' = 0
    <3>1. Progress!Stages \cup {"complete", "error"} = ReportStatuses
      BY DEF Progress!Stages, ReportStatuses
    <3>2. OneReview /\ raced = 0
      BY <2>1, <2>2 DEF StagesInv
    <3>3. (raced > 0)' = (raced > 0)
      BY <2>2, <3>2
    <3>4. QED
      BY <2>2, <3>1, <3>2, <3>3, StatusFollows DEF Progress!Next, Progress!Move
  <2>3. CASE raced > 0
    <3>1. (raced > 0)' = TRUE
      BY <2>1, <2>3
    <3>2. QED
      BY <2>3, <3>1 DEF Progress!Next
  <2>4. CASE raced' = raced + 1 /\ ~ (raced > 0)
    <3>1. (raced > 0)' = TRUE /\ status # "error" /\ status' = "pending"
      BY <2>1, <2>4
    <3>2. QED
      BY <3>1 DEF Progress!Next, Progress!Contest
  <2>5. QED
    BY <2>1, <2>2, <2>3, <2>4
<1>3. QED
  BY <1>1, <1>2, StagesAlways, PTL DEF Spec, StagesInOrder, Progress!Spec
----------------------------------------------------------------------------
Resetting == {q \in Retriers : retrier[q] = "reset"}
Started == {w \in Runs : Live(w)} \cup announced
MayRestart == IF status = "error" THEN 1 ELSE 0

\* The inductive invariant of AnnouncedOnce, with any number of retries at once:
\* the reviews that may yet be announced, or have been, and those that a retry
\* has made room for, are one, and one more for each retry that raced another.
CountInv ==
  /\ TypeOK /\ IsFiniteSet(Resetting)
  /\ Cardinality(Started) + Cardinality(Resetting) + MayRestart <= 1 + raced

LEMMA RunsFinite == IsFiniteSet(Runs) /\ \A S \in SUBSET Runs : IsFiniteSet(S)
<1>1. 1 \in Int /\ Reviews \in Int
  BY IngestBounds
<1>2. IsFiniteSet(Runs)
  BY <1>1, FS_Interval DEF Runs
<1>3. QED
  BY <1>2, FS_Subset

LEMMA CountInit == Init => CountInv
<1> SUFFICES ASSUME Init PROVE CountInv
  OBVIOUS
<1>1. TypeOK /\ raced = 0 /\ MayRestart = 0
  BY IngestTypeInit DEF Init, MayRestart
<1>2. Resetting = {} /\ Started = {1}
  BY IngestBounds DEF Init, Resetting, Started, Live, Runs
<1>3. Cardinality(Resetting) = 0 /\ Cardinality(Started) = 1 /\ IsFiniteSet(Resetting)
  BY <1>2, FS_EmptySet, FS_Singleton
<1>4. QED
  BY <1>1, <1>3 DEF CountInv

\* A step that starts no review and makes room for none.
LEMMA CountShrinks ==
  ASSUME CountInv, TypeOK', raced' = raced, Started' \subseteq Started,
         Resetting' \subseteq Resetting, MayRestart' <= MayRestart
  PROVE  CountInv'
<1>1. /\ Started \subseteq Runs /\ raced \in Nat
      /\ MayRestart \in {0, 1} /\ MayRestart' \in {0, 1}
  BY DEF CountInv, TypeOK, Started, MayRestart
<1>2. IsFiniteSet(Started) /\ IsFiniteSet(Resetting)
  BY <1>1, RunsFinite DEF CountInv
<1>3. /\ Cardinality(Started') <= Cardinality(Started)
      /\ Cardinality(Resetting') <= Cardinality(Resetting)
      /\ IsFiniteSet(Started') /\ IsFiniteSet(Resetting')
  BY <1>2, FS_Subset
<1>4. /\ Cardinality(Started) \in Nat /\ Cardinality(Started') \in Nat
      /\ Cardinality(Resetting) \in Nat /\ Cardinality(Resetting') \in Nat
  BY <1>2, <1>3, FS_CardinalityType
<1>5. Cardinality(Started') + Cardinality(Resetting') + MayRestart' <= 1 + raced'
  BY <1>1, <1>3, <1>4 DEF CountInv
<1>6. QED
  BY <1>3, <1>5 DEF CountInv

\* A review that ends in error makes room for the next one.
LEMMA CountFails ==
  ASSUME CountInv, NEW w \in Runs, HandleFailure(w)
  PROVE  CountInv'
<1>1. /\ run[w] = "failing" /\ run' = [run EXCEPT ![w] = "over"] /\ Stage(w)
      /\ UNCHANGED <<retrier, announced, raced>>
  BY DEF HandleFailure, At, Goto, Stage
<1>2. TypeOK /\ TypeOK' /\ run \in [Runs -> RunSteps] /\ w \notin announced
  BY <1>1, IngestStage DEF CountInv, TypeOK, At
<1>3. Started' = Started \ {w} /\ w \in Started /\ Resetting' = Resetting
  BY <1>1, <1>2 DEF Started, Live, Resetting
<1>4. Started \subseteq Runs /\ IsFiniteSet(Started) /\ IsFiniteSet(Resetting)
  BY <1>2, RunsFinite DEF CountInv, Started, TypeOK
<1>5. /\ Cardinality(Started') = Cardinality(Started) - 1
      /\ Cardinality(Started) \in Nat /\ Cardinality(Resetting) \in Nat
  BY <1>3, <1>4, FS_RemoveElement, FS_CardinalityType
<1>6. MayRestart \in {0, 1} /\ MayRestart' \in {0, 1} /\ raced \in Nat
  BY <1>2 DEF MayRestart, TypeOK
<1>7. QED
  BY <1>1, <1>2, <1>3, <1>5, <1>6 DEF CountInv

\* A reset uses the room that an error made, or is counted as a race.
LEMMA CountResets ==
  ASSUME CountInv, NEW q \in Retriers, RetryReset(q)
  PROVE  CountInv'
<1>1. /\ retrier[q] = "read" /\ retrier' = [retrier EXCEPT ![q] = "reset"]
      /\ UNCHANGED <<run, announced>> /\ status' = "pending"
      /\ raced' = IF status = "error" THEN raced ELSE raced + 1
  BY DEF RetryReset, Retryable
<1>2. /\ TypeOK /\ TypeOK' /\ retrier \in [Retriers -> {"idle", "read", "reset"}]
      /\ raced \in Nat
  BY IngestRetry DEF CountInv, TypeOK
<1>3. Started' = Started /\ Resetting' = Resetting \cup {q} /\ q \notin Resetting
  BY <1>1, <1>2 DEF Started, Live, Resetting
<1>4. Started \subseteq Runs /\ IsFiniteSet(Started) /\ IsFiniteSet(Resetting)
  BY <1>2, RunsFinite DEF CountInv, Started, TypeOK
<1>5. /\ Cardinality(Resetting') = Cardinality(Resetting) + 1 /\ IsFiniteSet(Resetting')
      /\ Cardinality(Started) \in Nat /\ Cardinality(Resetting) \in Nat
  BY <1>3, <1>4, FS_AddElement, FS_CardinalityType
<1>6. MayRestart' = 0 /\ MayRestart + raced' = 1 + raced
  BY <1>1, <1>2 DEF MayRestart
<1>7. MayRestart \in {0, 1} /\ raced' \in Nat
  BY <1>1, <1>2 DEF MayRestart
<1>8. Cardinality(Started) + Cardinality(Resetting) + MayRestart <= 1 + raced
  BY DEF CountInv
<1>9. Cardinality(Started') + Cardinality(Resetting') + MayRestart' <= 1 + raced'
  <2>1. Cardinality(Started') = Cardinality(Started)
    BY <1>3
  <2>2. PICK n \in Nat, m \in Nat : n = Cardinality(Started) /\ m = Cardinality(Resetting)
    BY <1>5
  <2>3. /\ Cardinality(Started') = n /\ Cardinality(Resetting') = m + 1
        /\ n + m + MayRestart <= 1 + raced
    BY <1>5, <1>8, <2>1, <2>2
  <2>4. CASE MayRestart = 0 /\ raced' = raced + 1
    BY <1>2, <1>6, <2>3, <2>4
  <2>5. CASE MayRestart = 1 /\ raced' = raced
    BY <1>2, <1>6, <2>3, <2>5
  <2>6. QED
    BY <1>1, <2>4, <2>5 DEF MayRestart
<1>10. QED
  BY <1>2, <1>5, <1>9 DEF CountInv

\* What a retry has made room for is the review it requests.
LEMMA CountRequests ==
  ASSUME CountInv, NEW q \in Retriers, RetryPublish(q)
  PROVE  CountInv'
<1>1. /\ retrier[q] = "reset" /\ retrier' = [retrier EXCEPT ![q] = "idle"]
      /\ UNCHANGED <<status, announced, raced>>
  BY DEF RetryPublish
<1>2. PICK w \in Runs : run[w] = "unused" /\ run' = [run EXCEPT ![w] = "requested"]
  BY DEF RetryPublish, Request, Goto, Unused, At
<1>3. /\ TypeOK /\ TypeOK' /\ retrier \in [Retriers -> {"idle", "read", "reset"}]
      /\ run \in [Runs -> RunSteps] /\ w \notin announced /\ raced \in Nat
  BY <1>2, IngestRetry DEF CountInv, TypeOK, At
<1>4. /\ Started' = Started \cup {w} /\ w \notin Started
      /\ Resetting' = Resetting \ {q} /\ q \in Resetting
  BY <1>1, <1>2, <1>3 DEF Started, Live, Resetting
<1>5. Started \subseteq Runs /\ IsFiniteSet(Started) /\ IsFiniteSet(Resetting)
  BY <1>3, RunsFinite DEF CountInv, Started, TypeOK
<1>6. /\ Cardinality(Started') = Cardinality(Started) + 1
      /\ Cardinality(Resetting') = Cardinality(Resetting) - 1 /\ IsFiniteSet(Resetting')
      /\ Cardinality(Started) \in Nat /\ Cardinality(Resetting) \in Nat
  BY <1>4, <1>5, FS_AddElement, FS_RemoveElement, FS_CardinalityType
<1>7. MayRestart \in {0, 1} /\ MayRestart' = MayRestart
  BY <1>1 DEF MayRestart
<1>8. QED
  BY <1>1, <1>3, <1>6, <1>7 DEF CountInv

LEMMA CountNext == CountInv /\ [Next]_vars => CountInv'
<1> SUFFICES ASSUME CountInv, [Next]_vars PROVE CountInv'
  OBVIOUS
<1>1. TypeOK /\ TypeOK' /\ run \in [Runs -> RunSteps] /\ announced \subseteq Runs
  BY RacesRemain DEF CountInv, TypeOK
<1>2. ASSUME NEW w \in Runs, Stage(w), ~ HandleFailure(w) PROVE CountInv'
  <2>1. UNCHANGED <<retrier, raced>> /\ (status' = status \/ status' # "error")
    BY <1>2 DEF Stage, Advance, NextStage, Fail, FinishBatches, MarkComplete, Publish
  <2>2. MayRestart' <= MayRestart /\ Resetting' = Resetting
    BY <2>1 DEF MayRestart, Resetting
  <2>3. /\ run[w] \notin {"unused", "over"} /\ \A u \in Runs : u # w => run'[u] = run[u]
        /\ announced' \subseteq announced \cup {w}
    BY <1>1, <1>2
       DEF Stage, Advance, NextStage, Fail, Working, FinishBatches, MarkComplete, Publish, Goto,
           Throw, At
  <2>4. Started' \subseteq Started
    BY <2>3 DEF Started, Live
  <2>5. QED
    BY <1>1, <2>1, <2>2, <2>4, CountShrinks
<1>3. ASSUME NEW w \in Runs, NEW b \in Batches, Batch(w, b) PROVE CountInv'
  <2>1. UNCHANGED <<status, retrier, announced, raced>>
    BY <1>3 DEF Batch, StartBatch, AskModel, InsertBatch, StoreBatch, BatchFault
  <2>2. \A u \in Runs : run'[u] = run[u] \/ (run[u] = "reviewing" /\ run'[u] = "failing")
    BY <1>1, <1>3 DEF Batch, StartBatch, AskModel, InsertBatch, StoreBatch, BatchFault,
       BatchThrows, Throw, Goto, At
  <2>3. Started' \subseteq Started /\ Resetting' = Resetting /\ MayRestart' = MayRestart
    BY <2>1, <2>2 DEF Started, Live, Resetting, MayRestart
  <2>4. QED
    BY <1>1, <2>1, <2>3, CountShrinks DEF MayRestart
<1>4. ASSUME NEW q \in Retriers, RetryRead(q) PROVE CountInv'
  <2>1. /\ UNCHANGED <<status, run, announced, raced>>
        /\ \A p \in Retriers : retrier'[p] = "reset" => retrier[p] = "reset"
    BY <1>1, <1>4 DEF RetryRead, TypeOK
  <2>2. Started' = Started /\ Resetting' \subseteq Resetting /\ MayRestart' = MayRestart
    BY <2>1 DEF Started, Live, Resetting, MayRestart
  <2>3. QED
    BY <1>1, <2>1, <2>2, CountShrinks DEF MayRestart
<1>5. CASE Crash
  <2>1. /\ UNCHANGED <<status, announced, raced>> /\ \A p \in Retriers : retrier'[p] = "idle"
        /\ \A w \in Runs : run'[w] \in {"unused", "over"}
    BY <1>1, <1>5 DEF Crash, At
  <2>2. Started' \subseteq Started /\ Resetting' \subseteq Resetting /\ MayRestart' = MayRestart
    BY <2>1 DEF Started, Live, Resetting, MayRestart
  <2>3. QED
    BY <1>1, <2>1, <2>2, CountShrinks DEF MayRestart
<1>6. CASE UNCHANGED vars
  BY <1>1, <1>6 DEF vars, CountInv, Started, Live, Resetting, MayRestart
<1>7. QED
  BY <1>2, <1>3, <1>4, <1>5, <1>6, CountFails, CountResets, CountRequests DEF Next

\* Verification and the judge are started once for a report, however often it is
\* retried and by however many clients, and at most once more for each retry
\* that raced another.
THEOREM AnnouncedAtMostOnce == Spec => []AnnouncedOnce
<1>1. ASSUME CountInv PROVE AnnouncedOnce
  <2>1. Started \subseteq Runs /\ announced \subseteq Started /\ raced \in Nat
    BY <1>1 DEF CountInv, TypeOK, Started
  <2>2. IsFiniteSet(Started) /\ IsFiniteSet(announced) /\ IsFiniteSet(Resetting)
    BY <1>1, <2>1, RunsFinite, FS_Subset DEF CountInv
  <2>3. /\ Cardinality(announced) <= Cardinality(Started) /\ Cardinality(announced) \in Nat
        /\ Cardinality(Started) \in Nat /\ Cardinality(Resetting) \in Nat
    BY <2>1, <2>2, FS_Subset, FS_CardinalityType
  <2>4. MayRestart \in {0, 1}
    BY DEF MayRestart
  <2>5. QED
    BY <1>1, <2>1, <2>3, <2>4 DEF CountInv, AnnouncedOnce
<1>2. QED
  BY <1>1, CountInit, CountNext, PTL DEF Spec
----------------------------------------------------------------------------
AllTodo(w) == \A b \in Batches : batch[w][b] = "todo"

\* Nothing of a run will insert a finding any more, or ever has begun to.
Quiet(w) == AllTodo(w) \/ \A b \in Batches : batch[w][b] \in {"stored", "skipped", "broken"}

\* The report holds what the run's batches found, and nothing else.
Holds(w, steps) == findings = {<<w, b>> : b \in {c \in Batches : batch[w][c] \in steps}}

\* What the rows of the report are at each stage of a review.
RunFits(w) ==
  /\ run[w] \in {"failing", "over"} => Quiet(w)
  /\ run[w] \in {"unused", "requested", "fetching", "recalling"} => AllTodo(w)
  /\ run[w] \in {"requested", "fetching", "recalling"} => findings = {}
  /\ run[w] = "reviewing" =>
       Holds(w, {"inserted", "stored"}) /\ \A b \in Batches : batch[w][b] # "broken"
  /\ run[w] \in {"storing", "complete"} =>
       Holds(w, {"stored"}) /\ \A b \in Batches : batch[w][b] \in {"stored", "skipped"}

\* The inductive invariant of CompleteIsWhole: no batch of an ended review is
\* still at work, so a reset report stays empty until the next one's batches.
BatchesFit ==
  faults = 0 =>
    /\ \A w \in Runs : RunFits(w)
    /\ \A q \in Retriers : retrier[q] = "reset" => findings = {}

WholeReview == raced = 0 /\ OneReview /\ BatchesFit /\ CompleteIsWhole

WholeInv == StagesInv /\ (raced = 0 => WholeReview)
----------------------------------------------------------------------------
LEMMA WholeInvInit == Init => WholeInv
<1> SUFFICES ASSUME Init PROVE WholeInv
  OBVIOUS
<1>1. \A w \in Runs : RunFits(w)
  BY DEF Init, RunFits, AllTodo
<1>2. BatchesFit /\ CompleteIsWhole
  BY <1>1 DEF Init, BatchesFit, CompleteIsWhole
<1>3. QED
  BY <1>2, StagesInvInit DEF WholeInv, WholeReview

\* A run that the step leaves alone, with its batches, and that is not live,
\* still fits.
LEMMA OthersFit ==
  ASSUME NEW u \in Runs, ~ Live(u), RunFits(u), run'[u] = run[u], batch'[u] = batch[u]
  PROVE  RunFits(u)'
BY DEF RunFits, Live, Quiet, AllTodo

\* A step of the live run that leaves no fault keeps BatchesFit if it still fits.
LEMMA LiveFits ==
  ASSUME OneReview, BatchesFit, NEW w \in Runs, Live(w), faults' = faults,
         \A u \in Runs : u # w => run'[u] = run[u] /\ batch'[u] = batch[u],
         UNCHANGED retrier, faults = 0 => RunFits(w)'
  PROVE  BatchesFit'
<1> SUFFICES ASSUME faults = 0 PROVE BatchesFit'
  BY DEF BatchesFit
<1>1. \A q \in Retriers : retrier[q] # "reset"
  BY DEF OneReview, OneAtATime, NobodyLive, TypeOK
<1>2. ASSUME NEW u \in Runs PROVE RunFits(u)'
  <2>1. CASE u = w
    BY <2>1
  <2>2. CASE u # w
    <3>1. ~ Live(u)
      BY <2>2 DEF OneReview, OneAtATime
    <3>2. RunFits(u)
      BY DEF BatchesFit
    <3>3. QED
      BY <2>2, <3>1, <3>2, OthersFit
  <2>3. QED
    BY <2>1, <2>2
<1>3. QED
  BY <1>1, <1>2 DEF BatchesFit

\* A report that is complete stays whole while its rows and batches do.
LEMMA StaysWhole ==
  ASSUME CompleteIsWhole, raced = 0, status' = status, findings' = findings, faults' = faults,
         \A w \in Runs, b \in Batches : batch'[w][b] = "skipped" <=> batch[w][b] = "skipped"
  PROVE  CompleteIsWhole'
<1> SUFFICES ASSUME status = "complete", faults = 0
             PROVE  \E w \in Runs :
                      findings = {<<w, b>> : b \in {c \in Batches : batch'[w][c] # "skipped"}}
  BY DEF CompleteIsWhole
<1>1. PICK w \in Runs :
        findings = {<<w, b>> : b \in {c \in Batches : batch[w][c] # "skipped"}}
  BY DEF CompleteIsWhole
<1>2. {c \in Batches : batch'[w][c] # "skipped"} = {c \in Batches : batch[w][c] # "skipped"}
  OBVIOUS
<1>3. QED
  BY <1>1, <1>2

\* While no fault has happened, the batches at work are those of the run that is
\* reviewing.
LEMMA WorkIsReviewing ==
  ASSUME OneReview, BatchesFit, faults = 0, NEW w \in Runs, NEW b \in Batches, Batch(w, b)
  PROVE  run[w] = "reviewing" /\ status = "reviewing"
<1>1. RunFits(w) /\ run[w] \in RunSteps
  BY DEF BatchesFit, OneReview, TypeOK
<1>2. At(w, "reviewing") \/ ~ Quiet(w)
  <2>1. CASE StartBatch(w, b)
    BY <2>1 DEF StartBatch, BatchesStarted, Quiet, AllTodo
  <2>2. CASE AskModel(w, b) \/ InsertBatch(w, b) \/ StoreBatch(w, b) \/ BatchFault(w, b)
    BY <2>2 DEF AskModel, InsertBatch, StoreBatch, BatchFault, Quiet, AllTodo
  <2>3. QED
    BY <2>1, <2>2 DEF Batch
<1>3. run[w] = "reviewing"
  BY <1>1, <1>2 DEF RunFits, Quiet, At, RunSteps
<1>4. QED
  BY <1>3 DEF OneReview, StatusFits

LEMMA StageKeepsWhole ==
  ASSUME WholeReview, NEW w \in Runs, Stage(w)
  PROVE  BatchesFit' /\ CompleteIsWhole'
<1>1. /\ OneReview /\ BatchesFit /\ CompleteIsWhole /\ StatusFits /\ raced = 0
      /\ run \in [Runs -> RunSteps]
  BY DEF WholeReview, OneReview, TypeOK
<1>2. /\ UNCHANGED <<findings, batch, retrier, faults>>
      /\ \A u \in Runs : u # w => run'[u] = run[u]
  BY <1>1 DEF Stage, Advance, Fail, HandleFailure, FinishBatches, MarkComplete, Publish, Goto,
              Throw
<1>3. Live(w)
  BY DEF Stage, Advance, Fail, HandleFailure, FinishBatches, MarkComplete, Publish, At, NextStage,
         Working, Live
<1>4. faults = 0 => RunFits(w)
  BY <1>1 DEF BatchesFit
<1>5. ASSUME faults = 0 => RunFits(w)' PROVE BatchesFit'
  BY <1>1, <1>2, <1>3, <1>5, LiveFits
<1>6. ASSUME status' = status \/ status' # "complete" PROVE CompleteIsWhole'
  <2>1. CASE status' = status
    BY <1>1, <1>2, <2>1, StaysWhole
  <2>2. CASE status' # "complete"
    BY <2>2 DEF CompleteIsWhole
  <2>3. QED
    BY <1>6, <2>1, <2>2
<1>7. CASE Advance(w)
  <2>1. /\ run[w] \in {"requested", "fetching", "recalling"}
        /\ run'[w] = NextStage[run[w]] /\ status' = NextStage[run[w]]
    BY <1>1, <1>7 DEF Advance, Goto, NextStage
  <2>2. run'[w] \in {"fetching", "recalling", "reviewing"} /\ status' # "complete"
    BY <2>1 DEF NextStage
  <2>3. ASSUME faults = 0 PROVE RunFits(w)'
    <3>1. AllTodo(w) /\ findings = {}
      BY <1>4, <2>1, <2>3 DEF RunFits
    <3>2. Holds(w, {"inserted", "stored"})
      BY <3>1 DEF Holds, AllTodo
    <3>3. QED
      BY <1>2, <2>2, <3>1, <3>2 DEF RunFits, AllTodo, Holds
  <2>4. QED
    BY <1>5, <1>6, <2>2, <2>3
<1>8. CASE Fail(w)
  <2>1. /\ run'[w] = "failing" /\ status' = status
        /\ Working(w) /\ ~ (At(w, "reviewing") /\ BatchesStarted(w))
    BY <1>1, <1>8 DEF Fail, Throw, Goto
  <2>2. faults = 0 => Quiet(w)
    BY <1>4, <2>1 DEF RunFits, Quiet, AllTodo, BatchesStarted, Working, At
  <2>3. faults = 0 => RunFits(w)'
    BY <1>2, <2>1, <2>2 DEF RunFits, Quiet, AllTodo
  <2>4. QED
    BY <1>5, <1>6, <2>1, <2>3
<1>9. CASE HandleFailure(w)
  <2>1. run[w] = "failing" /\ run'[w] = "over" /\ status' \in {status, "error"}
    BY <1>1, <1>9 DEF HandleFailure, FailedStatus, At, Goto
  <2>2. faults = 0 => RunFits(w)'
    BY <1>2, <1>4, <2>1 DEF RunFits, Quiet, AllTodo
  <2>3. QED
    BY <1>5, <1>6, <2>1, <2>2
<1>10. CASE FinishBatches(w)
  <2>1. /\ run[w] = "reviewing" /\ BatchesDone(w)
        /\ run'[w] \in {"storing", "failing"} /\ status' \in {status, "storing"}
    BY <1>1, <1>10 DEF FinishBatches, At, Goto, Throw
  <2>2. ASSUME faults = 0 PROVE RunFits(w)'
    <3>1. Holds(w, {"inserted", "stored"})
      BY <1>4, <2>1, <2>2 DEF RunFits
    <3>2. {c \in Batches : batch[w][c] \in {"inserted", "stored"}}
          = {c \in Batches : batch[w][c] \in {"stored"}}
      BY <2>1 DEF BatchesDone
    <3>3. Holds(w, {"stored"})
      BY <3>1, <3>2 DEF Holds
    <3>4. QED
      BY <1>2, <2>1, <3>3 DEF RunFits, Holds, Quiet, BatchesDone
  <2>3. QED
    BY <1>5, <1>6, <2>1, <2>2
<1>11. CASE MarkComplete(w)
  <2>1. run[w] = "storing" /\ run'[w] = "complete"
    BY <1>1, <1>11 DEF MarkComplete, At, Goto
  <2>2. faults = 0 => RunFits(w)'
    BY <1>2, <1>4, <2>1 DEF RunFits, Holds
  <2>3. CompleteIsWhole'
    <3> SUFFICES ASSUME faults = 0
                 PROVE  findings = {<<w, b>> : b \in {c \in Batches : batch[w][c] # "skipped"}}
      BY <1>2 DEF CompleteIsWhole
    <3>1. Holds(w, {"stored"}) /\ \A b \in Batches : batch[w][b] \in {"stored", "skipped"}
      BY <1>4, <2>1 DEF RunFits
    <3>2. {c \in Batches : batch[w][c] \in {"stored"}} = {c \in Batches : batch[w][c] # "skipped"}
      BY <3>1
    <3>3. QED
      BY <3>1, <3>2 DEF Holds
  <2>4. QED
    BY <1>5, <2>2, <2>3
<1>12. CASE Publish(w)
  <2>1. run[w] = "complete" /\ run'[w] = "over" /\ status' = status
    BY <1>1, <1>12 DEF Publish, At, Goto
  <2>2. faults = 0 => RunFits(w)'
    BY <1>2, <1>4, <2>1 DEF RunFits, Quiet
  <2>3. QED
    BY <1>5, <1>6, <2>1, <2>2
<1>13. QED
  BY <1>7, <1>8, <1>9, <1>10, <1>11, <1>12 DEF Stage

LEMMA BatchKeepsWhole ==
  ASSUME WholeReview, NEW w \in Runs, NEW b \in Batches, Batch(w, b)
  PROVE  BatchesFit' /\ CompleteIsWhole'
<1>1. /\ OneReview /\ BatchesFit /\ status' = status /\ UNCHANGED retrier
      /\ batch \in [Runs -> [Batches -> BatchSteps]] /\ run \in [Runs -> RunSteps]
      /\ faults \in Nat
  BY BatchKeeps, IngestBounds DEF WholeReview, OneReview, TypeOK, Batch, StartBatch, AskModel, InsertBatch, StoreBatch,
         BatchFault
<1>2. CASE faults' # 0
  BY <1>2 DEF BatchesFit, CompleteIsWhole
<1>3. CASE faults' = 0
  <2>1. faults = 0 /\ ~ BatchFault(w, b) /\ faults' = faults
    BY <1>1, <1>3 DEF Batch, StartBatch, AskModel, InsertBatch, StoreBatch, BatchFault
  <2>2. run[w] = "reviewing" /\ status = "reviewing"
    BY <1>1, <2>1, WorkIsReviewing
  <2>3. CompleteIsWhole'
    BY <1>1, <2>2 DEF CompleteIsWhole
  <2>4. RunFits(w) /\ Live(w)
    BY <1>1, <2>1, <2>2 DEF BatchesFit, Live
  <2>5. /\ findings = {<<w, c>> : c \in {d \in Batches : batch[w][d] \in {"inserted", "stored"}}}
        /\ \A c \in Batches : batch[w][c] # "broken"
    BY <2>2, <2>4 DEF RunFits, Holds
  <2>6. PICK step \in BatchSteps :
          /\ batch' = [batch EXCEPT ![w][b] = step]
          /\ \/ /\ batch[w][b] \in {"todo", "asking"} /\ step \in {"asking", "reviewed", "skipped"}
                /\ UNCHANGED <<findings, run>>
             \/ /\ batch[w][b] = "reviewed" /\ step = "inserted"
                /\ findings' = findings \cup {<<w, b>>} /\ UNCHANGED run
             \/ /\ batch[w][b] = "inserted" /\ step = "stored" /\ UNCHANGED <<findings, run>>
             \/ /\ Batches = {1} /\ step = "broken"
                /\ run' = [run EXCEPT ![w] = "failing"]
    BY <2>1, <2>2 DEF Batch, StartBatch, AskModel, InsertBatch, StoreBatch, BatchTo, BatchThrows,
       Throw, Goto, At, BatchSteps
  <2>7. /\ batch'[w][b] = step /\ \A c \in Batches : c # b => batch'[w][c] = batch[w][c]
        /\ \A u \in Runs : u # w => batch'[u] = batch[u]
        /\ \A u \in Runs : u # w => run'[u] = run[u]
    BY <1>1, <2>6
  <2>8. CASE run' = run
    <3>1. step # "broken"
      BY <1>1, <2>2, <2>6, <2>8
    <3>2. findings' = {<<w, c>> : c \in {d \in Batches : batch'[w][d] \in {"inserted", "stored"}}}
      <4>1. CASE batch[w][b] = "reviewed" /\ step = "inserted" /\ findings' = findings \cup {<<w, b>>}
        <5>1. {d \in Batches : batch'[w][d] \in {"inserted", "stored"}}
              = {d \in Batches : batch[w][d] \in {"inserted", "stored"}} \cup {b}
          BY <2>7, <4>1
        <5>2. QED
          BY <2>5, <4>1, <5>1
      <4>2. CASE /\ batch[w][b] \in {"inserted", "stored"} <=> step \in {"inserted", "stored"}
                 /\ UNCHANGED findings
        <5>1. {d \in Batches : batch'[w][d] \in {"inserted", "stored"}}
              = {d \in Batches : batch[w][d] \in {"inserted", "stored"}}
          BY <2>7, <4>2
        <5>2. QED
          BY <2>5, <4>2, <5>1
      <4>3. QED
        BY <2>6, <3>1, <4>1, <4>2
    <3>3. RunFits(w)'
      BY <2>2, <2>5, <2>7, <2>8, <3>1, <3>2 DEF RunFits, Holds
    <3>4. QED
      BY <1>1, <2>1, <2>3, <2>4, <2>7, <3>3, LiveFits
  <2>9. CASE Batches = {1} /\ step = "broken" /\ run' = [run EXCEPT ![w] = "failing"]
    <3>1. run'[w] = "failing" /\ \A c \in Batches : batch'[w][c] = "broken"
      BY <1>1, <2>7, <2>9
    <3>2. RunFits(w)'
      BY <3>1 DEF RunFits, Quiet
    <3>3. QED
      BY <1>1, <2>1, <2>3, <2>4, <2>7, <3>2, LiveFits
  <2>10. QED
    BY <2>6, <2>8, <2>9
<1>4. QED
  BY <1>2, <1>3

LEMMA RetryKeepsWhole ==
  ASSUME WholeReview, raced' = 0, NEW q \in Retriers,
         RetryRead(q) \/ RetryReset(q) \/ RetryPublish(q)
  PROVE  BatchesFit' /\ CompleteIsWhole'
<1>1. /\ OneReview /\ BatchesFit /\ CompleteIsWhole /\ StatusFits /\ OneAtATime /\ raced = 0
      /\ retrier \in [Retriers -> {"idle", "read", "reset"}] /\ run \in [Runs -> RunSteps]
  BY DEF WholeReview, OneReview, TypeOK
<1>2. CASE RetryRead(q)
  <2>1. /\ \A p \in Retriers : retrier'[p] = "reset" => retrier[p] = "reset"
        /\ UNCHANGED <<status, findings, run, batch, faults>>
    BY <1>1, <1>2 DEF RetryRead
  <2>2. BatchesFit'
    BY <1>1, <2>1 DEF BatchesFit, RunFits, Quiet, AllTodo, Holds
  <2>3. QED
    BY <1>1, <2>1, <2>2, StaysWhole
<1>3. CASE RetryReset(q)
  <2>1. /\ status = "error" /\ findings' = {} /\ status' = "pending"
        /\ UNCHANGED <<run, batch, faults>>
    BY <1>1, <1>3 DEF RetryReset, Retryable
  <2>2. NobodyLive
    BY <1>1, <2>1 DEF StatusFits, NobodyLive, Live, RunSteps
  <2>3. BatchesFit'
    BY <1>1, <2>1, <2>2, OthersFit DEF BatchesFit, NobodyLive
  <2>4. QED
    BY <2>1, <2>3 DEF CompleteIsWhole
<1>4. CASE RetryPublish(q)
  <2>1. PICK w \in Runs : run[w] = "unused" /\ run' = [run EXCEPT ![w] = "requested"]
    BY <1>4 DEF RetryPublish, Request, Goto, Unused, At
  <2>2. /\ retrier[q] = "reset" /\ UNCHANGED <<status, findings, batch, faults>>
    BY <1>1, <1>4 DEF RetryPublish
  <2>3. NobodyLive
    BY <1>1, <2>2 DEF OneAtATime
  <2>4. ASSUME faults = 0, NEW u \in Runs PROVE RunFits(u)'
    <3>1. CASE u = w
      <4>1. AllTodo(w) /\ findings = {}
        BY <1>1, <2>1, <2>2, <2>4 DEF BatchesFit, RunFits
      <4>2. run'[w] = "requested"
        BY <1>1, <2>1
      <4>3. QED
        BY <2>2, <3>1, <4>1, <4>2 DEF RunFits, AllTodo
    <3>2. CASE u # w
      BY <1>1, <2>1, <2>2, <2>3, <2>4, <3>2, OthersFit DEF BatchesFit, NobodyLive
    <3>3. QED
      BY <3>1, <3>2
  <2>5. BatchesFit'
    BY <1>1, <2>2, <2>4 DEF BatchesFit, OneAtATime
  <2>6. QED
    BY <1>1, <2>2, <2>5, StaysWhole
<1>5. QED
  BY <1>2, <1>3, <1>4

LEMMA CrashKeepsWhole ==
  ASSUME WholeReview, Crash
  PROVE  BatchesFit' /\ CompleteIsWhole'
<1>1. /\ BatchesFit /\ CompleteIsWhole /\ run \in [Runs -> RunSteps] /\ raced = 0
  BY DEF WholeReview, OneReview, TypeOK
<1>2. /\ UNCHANGED <<status, findings, faults>>
      /\ \A q \in Retriers : retrier'[q] = "idle"
      /\ \A w \in Runs : run'[w] = IF run[w] = "unused" THEN run[w] ELSE "over"
      /\ \A w \in Runs, b \in Batches :
           batch'[w][b] = IF batch[w][b] \in {"stored", "skipped"} \/ run[w] = "unused"
                          THEN batch[w][b] ELSE "broken"
  BY DEF Crash, At
<1>3. ASSUME faults = 0, NEW w \in Runs PROVE RunFits(w)'
  <2>1. CASE run[w] = "unused"
    <3>1. AllTodo(w)
      BY <1>1, <1>3, <2>1 DEF BatchesFit, RunFits
    <3>2. QED
      BY <1>2, <2>1, <3>1 DEF RunFits, AllTodo
  <2>2. CASE run[w] # "unused"
    BY <1>2, <2>2 DEF RunFits, Quiet
  <2>3. QED
    BY <2>1, <2>2
<1>4. BatchesFit'
  BY <1>2, <1>3 DEF BatchesFit
<1>5. \A w \in Runs, b \in Batches : batch'[w][b] = "skipped" <=> batch[w][b] = "skipped"
  BY <1>2
<1>6. QED
  BY <1>1, <1>2, <1>4, <1>5, StaysWhole

\* A complete report holds the findings of one review, the whole of it and
\* nothing of those that failed before it, in whatever order concurrent batches
\* end and whatever is retried, unless a batch could not be stored or two
\* retries raced.
THEOREM CompleteReportsAreWhole == Spec => []CompleteIsWhole
<1>1. WholeInv /\ [Next]_vars => WholeInv'
  <2> SUFFICES ASSUME WholeInv, [Next]_vars PROVE WholeInv'
    OBVIOUS
  <2>1. StagesInv' /\ (raced' = 0 => raced = 0)
    BY StagesInvStep, RacesRemain DEF WholeInv, StagesInv
  <2>2. CASE raced' # 0
    BY <2>1, <2>2 DEF WholeInv
  <2>3. CASE raced' = 0
    <3>1. WholeReview /\ OneReview'
      BY <2>1, <2>3 DEF WholeInv, StagesInv
    <3>2. CASE UNCHANGED vars
      BY <2>1, <2>3, <3>1, <3>2
         DEF vars, WholeInv, WholeReview, BatchesFit, CompleteIsWhole, RunFits, Quiet, AllTodo,
             Holds
    <3>3. (BatchesFit' /\ CompleteIsWhole') \/ UNCHANGED vars
      BY <2>3, <3>1, StageKeepsWhole, BatchKeepsWhole, RetryKeepsWhole, CrashKeepsWhole DEF Next
    <3>4. QED
      BY <2>1, <2>3, <3>1, <3>2, <3>3 DEF WholeInv, WholeReview
  <2>4. QED
    BY <2>2, <2>3
<1>2. WholeInv => CompleteIsWhole
  BY DEF WholeInv, WholeReview, CompleteIsWhole
<1>3. QED
  BY <1>1, <1>2, WholeInvInit, PTL DEF Spec
----------------------------------------------------------------------------
\* Verification and the report page do nothing to the reviews they follow: every
\* behaviour of the composition is one of ReviewIngest, so what is proved of a
\* review holds of one that is verified.
THEOREM VerificationExtendsReview == VerificationSpec => Spec
<1>1. VerificationInit => Init
  BY DEF VerificationInit
<1>2. [VerificationNext]_all => [Next]_vars
  <2> SUFFICES ASSUME [VerificationNext]_all PROVE Next \/ UNCHANGED vars
    OBVIOUS
  <2>1. CASE UNCHANGED all
    BY <2>1 DEF all
  <2>2. ASSUME NEW w \in Runs, Work(w) PROVE Next \/ UNCHANGED vars
    <3>1. CASE ReviewStage(w) \/ \E b \in Batches : Batch(w, b)
      BY <3>1 DEF ReviewStage, Next
    <3>2. CASE Verification(w)
      BY <3>2 DEF Verification, Look, InsertRow, TakeRow, Unusable, Clone, CloneFails, Compile,
                  Test, Conclude, VerifyFails, StatementFails, Cleanup
    <3>3. QED
      BY <2>2, <3>1, <3>2 DEF Work
  <2>3. ASSUME NEW q \in Retriers, RetryRead(q) \/ ResetReport(q) \/ AnswerRetry(q) PROVE Next
    BY <2>3 DEF ResetReport, AnswerRetry, Next
  <2>4. CASE EndProcess
    BY <2>4 DEF EndProcess, Next
  <2>5. CASE Age \/ ReadReport \/ ReadVerification
    BY <2>5 DEF Age, ReadReport, ReadVerification
  <2>6. QED
    BY <2>1, <2>2, <2>3, <2>4, <2>5 DEF VerificationNext
<1>3. QED
  BY <1>1, <1>2, PTL DEF VerificationSpec, Spec

\* So a report starts one verification of a completed review, and one more at
\* most for each retry that raced another.
COROLLARY VerifiedAtMostOnce == VerificationSpec => [](AnnouncedOnce /\ CompleteIsWhole)
BY VerificationExtendsReview, AnnouncedAtMostOnce, CompleteReportsAreWhole, PTL
=============================================================================
