# A verification project for the Human Attention Infrastructure

The repository is a service that reviews pull requests and decides where human
attention goes: tasks move through an audited state machine, changes are scored
and wait in a review queue that humans and an auto-approve executor empty,
decisions are written back to the Git host, pull requests are reviewed in
batches by a language model and then built and tested.  It is TypeScript on one
event loop: nothing runs in parallel, but **every `await` is a point where
another request, an event handler or the end of the process may come between two
statements**, and almost every guard of the code is a `WHERE` clause written for
that.  The modules here model those statements one by one and ask what survives
the interleavings.

The modules are translated from `src/`; `PROJECT.json` maps each definition to
its lines.  Paths below are relative to `src/`.

- [1. Inventory](#1-inventory) – the system and what is hard about it
- [2. Modules](#2-modules) – what models what, and how state and actions correspond
- [3. Runs](#3-runs) – what is checked, on which instances, and why they are enough
- [4. Fairness](#4-fairness)
- [5. Proofs](#5-proofs)
- [6. Disagreements between code and documentation](#6-disagreements-between-code-and-documentation)
- [7. What is not modelled, and why](#7-what-is-not-modelled-and-why)
- [8. Where it could go on](#8-where-it-could-go-on)

## 1. Inventory

### How the parts interact

```
 POST /api/reviews ──review.requested──► ReviewWorkerSubscriber ─► ReviewIngestService
        ▲ retry route (deletes the verification)                    │ batches, findings, status
        │                                                            ▼
   report page polls review_status ◄──────────────── review.report_created ─► judge
        │          and the verification                              ▼
        └────────────── review_verifications row ◄── ReviewVerificationService.verify
                                                        (clone, build, test, clean up)

 TaskService.transitionTask ──task.state_changed──► AttentionSubscriber.assess
        ▲            ▲                                        │ evidence, five factors, label
        │            │                                        ▼
        │            │                               AttentionRouter.route: rule, budget, position
        │            │                                        │ review_queue row
        │            │                                attention.item_routed
        │            └──────────────── AutoApproveExecutor ◄──┤
        │                                 │ kill switch, sampler
   ReviewService.decide ◄── reviewers ────┼───────────────────┘
        │ review.decision_submitted       ▼ sampled control row
        ├─► ChangeStatusSubscriber    AutoApproveSampler (leak check)
        └─► MemoryIngestor ─► versions of ideas ◄── MemoryLifecycle.tick

 POST /api/reviews/:id/decision ─► review_decisions ─► MCPWriteBack ─► MCP client ─► Git host
                                                          │ claim / finalize
                                                          ▼ writeback_log

 every request ─► registerAuthHook ─► sessions, users      (OIDC login, callback)
```

The in-process event bus (`packages/event-bus/src/in-process-event-bus.ts`)
calls handlers in subscription order and does not wait for them: a handler runs
up to its first `await` inside `publish`, the rest later.  The stream bus
(`redis-events-bus.ts`) delivers from a durable stream and acknowledges.

### Components

| component | state | operations | hard behaviour | correct when | module |
|---|---|---|---|---|---|
| **orchestrator** `packages/orchestrator` | `tasks`, `task_state_history` | `createTask`, `transitionTask` | the move is checked on a row read *before* the transaction; the event is published *after* it | the history replays the state, each row is a legal move, each move is announced once or its process died | `TaskLifecycle` |
| **review queue** `packages/review` | `review_queue`, `decisions` | `claim`, `decide`, `drop`, `release`, `escalate` | `decide` is three steps in two transactions; the claim is not compared with the reviewer; a task comes back for another round | one closing decision per row, it fits the row's status and the change its task is reviewed for | `ReviewQueue` |
| **change status** `packages/artifact-tracker` | `changes.status` | three guarded writes, one per event | events arrive in any order | a verdict reaches a verified change | `ReviewQueue` |
| **auto-approve** `packages/attention-engine/src/auto-approve` | the switch, in-flight executions | `execute`, `kill`, flag, sampling, leak check | several awaits between the checks and the effect | an execution that begins after a kill approves nothing | `AttentionPipeline` |
| **attention routing** (subscriber, router, policy, `daily-budget`) | assessments, positions, today's decisions | `assess`, `route` | evidence, count and position are read in one statement and used in a later one | bad news reaches a human, the queue is first in first out, deferral follows the budget | `AttentionPolicy`, `AttentionRouting` |
| **decision write-back** decision route, `packages/writeback`, `packages/db` log | `review_decisions`, `writeback_log`, the host | record, claim, call, finalize | the host may act and its answer be lost; a crash leaves `PENDING` | the host sees each write once unless its success was taken for a failure; the log tells the truth | `Writeback` |
| **review ingest** `apps/api/src/services`, batching of `agent-runtime` | `review_reports.review_status`, findings | worker, stages, batches, failure, retry route | concurrent batches outlive their failed review; status writes are unguarded | until two retries race, a complete report is one whole review, announced once | `ReviewIngest` |
| **review verification** `services/review-verification.ts`, `verification-engine` | one `review_verifications` row and one clone directory per report | look, insert or take over, clone, build and test, write, clean up | a stale `RUNNING` row is taken over, a retry deletes the row, both under a live verification; all share the directory | a `RUNNING` row is worked on, `PASSED` is earned | `ReviewVerification` |
| **event stream** `packages/event-bus` | stream, pending list, attempt counts | publish, read, deliver, ack, dead-letter | at-least-once delivery, lost acknowledgements, restarts that forget the counts | nothing is lost, nothing is repeated without end or stuck | `EventStream` |
| **memory** `packages/memory` | versions of an idea with evidence | append, fold, decay, archive | concurrent appends fork a chain; folding is many statements | evidence is merged, never dropped | `MemoryChains` |
| **context source cache** `packages/context-engine` | one cache row per file, the load in flight | stat, look, join or load, store, invalidate | a load is older than those who join it; the file changes under it | a hit is no older than the file's stat, nor a row than its invalidation; a result goes no further back than a load then running | `SourceCache` |
| **MCP client** `packages/mcp` | registry, processes, table of waiting requests | get, send, answer, time out, close | late answers, dying servers, timers | each call ends, with its own answer or a refusal | `McpClient` |
| **auth** `packages/auth`, auth routes and hook | pending logins, users, sessions | login, callback, find or create, logout, check | repeated callbacks, first logins racing, tokens that outlive their session | one session per login; access is current | `SignIn` |
| **report page** `apps/web/src/pages/useReviewReport.ts` | what it read last | poll | decides from one read whether to read again | it stops polling | `ReviewVerification` |
| judge, judge shadow | judge rows | subscribe, run | best effort after `review.report_created` | never affects the report | – |
| learning loop, evaluation | weights, cycles | collect, fit, gate, promote | promotion only past the gate | – | – |
| embeddings | index | re-embed on event | late handlers | – | – |
| providers, sandbox, object store, code index, rest of the web UI | – | I/O | – | – | – |

The hazards of each, at the line where they bite and with the properties that
would catch them, are the `hazards` of `PROJECT.json`.

## 2. Modules

```
TaskStateMachine ◄── TaskLifecycle ◄── MCTaskLifecycle, TaskLifecycleProofs
       ▲                  └─ refines TaskLedger
       └───────── ReviewQueue ◄── AttentionPipeline ◄── MCAttentionPipeline, AttentionPipelineProofs
                                       └─ refines QueueItem
AttentionPolicy ◄── AttentionRouting ◄── MCAttentionRouting, AttentionRoutingProofs
Writeback ◄── MCWriteback, WritebackProofs
ReviewIngest ◄── ReviewVerification ◄── MCReviewVerification, ReviewVerificationProofs
   │ └───────◄── MCReviewIngest
   └─ refines ReportProgress
EventStream, MemoryChains, SourceCache ◄── StoreProofs
   └── with McpClient, SignIn ◄── MCServices; StoreProofs, MCServices ◄── ServicesProofs
ExtremaLemmas ◄── AttentionRoutingProofs, StoreProofs
```

**TaskStateMachine** – the transition table and the moves that need a
rationale, as sets of pairs.

**TaskLifecycle** – `TaskService`.  `task` and `history` are the two tables;
`call[c]` is a `transitionTask` call between its awaits.

| action | code |
|---|---|
| `CreateTask` | `createTask`: one INSERT |
| `BeginTransition` | read the row, take `from` from `expectedFrom` or the row, check the table and the rationale, compute the attempt and the key that names it |
| `Commit` / `Conflict` | the transaction: `UPDATE … WHERE state = from` and the history INSERT, or no row and `StateConflictError` |
| `Publish` | `task.state_changed` after the commit |
| `Crash` | the caller's process ends between two of these |

A caller may name any state of `Scope` as `from`: it passes it as
`expectedFrom`, and a caller without one passes the row's state, which is among
them.  **TaskLedger** is the contract: a task takes one legal move at a time and
each is counted once.  The refinement maps a task to its state and the length
of its history.

**ReviewQueue** – `ReviewService` and `ChangeStatusSubscriber`.  A change is a
pair of a task and a round: each return to `AWAITING_REVIEW` brings a new one.
`claim`, `release`, `drop`, `escalate` are one guarded transaction, hence one
action each.  `decide` is `Decide` (flip and decision in one transaction),
`MoveTask` (`transitionTask` with `expectedFrom`) and `Announce`; the
orchestrator's demand for a rationale on either verdict is part of `MoveTask`.
`todo` holds the handler runs that an event started: routing, the change's
status, the leak check.  All states before `AWAITING_REVIEW` are one, `WORKING`,
since nothing here tells them apart.

**AttentionPipeline** – composes `ReviewQueue` with the executor
(`exec[q]`: reload, gate, flip, record, move, sample – one step per await), the
kill switch (two statements, `Kill` and `RequeueInFlight`), and the sampler.
The gate's evidence – calibration, inflation, risk – may deny in any state, and
routing chooses the action freely, which `AttentionRouting` then looks into.
`overtaken` is a history variable: the tasks that the late verdict on a control of
an earlier round has moved.  No action reads it.
**QueueItem** is what the queue promises of each row: opened once, held and
given back, closed once; the pipeline refines it.

**AttentionPolicy** – the pure part of the attention engine: the five factors,
their weighted mean over those that are known, labels, the ordered rules and the
budget's deferral.  Scores are exact percents (the mean is a sum and its weight),
where the source uses floating point.  **AttentionRouting** – one action per
await of the two handlers that every task in `AWAITING_REVIEW` starts:

| action | code |
|---|---|
| `Score` | `assessCore`: evidence, factors, priority, label |
| `SaveAssessment` | the assessment INSERT and its event |
| `ChooseAction` | `route` reads assessment and flakiness, takes the first matching rule, and the gate reads the clock (`now`) before it waits |
| `GateOnBudget` | the awaited SELECT of `DailyBudgetGate.evaluate` counts the decisions since the midnight before `now` |
| `Place`, `Enqueue` | the maximum position, then the INSERT and its event |
| `Decide`, `Midnight` | what happens meanwhile |

`ahead` and `spentOn` are history variables: what the queue and the budget were
when the routing began.  A `FAILED` change may be `MEDIUM` and then be deferred;
only flakiness of its own report always escalates.  A change without report or
retries is scored on impact, novelty and complexity alone and may be `LOW`.

**Writeback** – the decision route, `MCPWriteBack` and the write-back log.  A
decision is its payload (the fingerprint is `dedup_key`); an intent is a
payload and a leg, `COMMENT` then `STATUS`.  `Record` is the INSERT with its
unique violation, `OptedOut` the success of a provider that the environment
switches off, `Claim` the insert against the partial unique index, `ClaimFault`
that transaction failing, `Call` the tool call with its four outcomes (acted and
answered; acted, answer lost; refused; host without a status tool), `Finalize` and `FinalizeFault` the UPDATE
and its failure, which the `catch` block takes for a failure of the host.
`doubted` is a history variable: the writes that took effect and that `write()`
learned to have failed.
`Key` is `dedupKey`; `Body` keeps of the texts only what makes two of them equal.

**ReviewIngest** – the asynchronous review.  `run[w]` is the stage of one
`processReview`, `batch[w][b]` where a batch is in `mapConcurrent`.  Storing a
batch is two statements; one that fails rejects the `Promise.all` while the other
workers go on, as `StartBatch` allows.  The retry route is `RetryRead`,
`RetryReset` (one transaction, unguarded), `RetryPublish`.  A report's status is
written by each stage without a guard.  `raced` counts the resets of a report that
was not in error any more: two retry requests had read `error` and the first one's
review was already running.  **ReportProgress** is what a polling client may see:
the stages in order until the report is contested in this way, anything after.

**ReviewVerification** – extends `ReviewIngest`, whose `Publish` starts a
`verify()` (`verifier[w]`) and whose `RetryReset` deletes the row.

| action | code |
|---|---|
| `Look` | the first SELECT: a verdict or a young `RUNNING` row ends the call |
| `InsertRow`, `TakeRow` | INSERT against the unique `report_id`, or UPDATE by id of an `ERROR`, `SKIPPED` or stale row |
| `Unusable` | no pull request or head SHA |
| `Clone`, `CloneFails` | `git clone` into the report's directory, which must be empty |
| `Compile`, `Test`, `Conclude` | the awaits of `CloneVerifier.verify` – build, then tests only of what built – and of the verdict's UPDATE |
| `VerifyFails` | the time-out, a check that throws or a verdict that cannot be written: the row becomes `ERROR` |
| `StatementFails` | a read or write of `verify()` that nothing catches fails, that of `ERROR` included: the row stays as it is |
| `Cleanup` | the directory is removed, whoever's clone it holds by now |
| `Age` | the row passes the staleness threshold |
| `ReadReport`, `ReadVerification` | the two reads of the report page |

A repository whose build passes is `PASSED` with its tests skipped; one with
tests but no build step is never tested, since `compile` is then `SKIPPED`.

**EventStream** – `RedisEventsBus` over its transport.  `entries` and `unacked`
outlive the process, `attempts` and `subscribed` do not.  `Flush` reads pending
entries before new ones; ids grow, so that is the oldest of both, and a batch is
a set served from its smallest id.  `Deliver` runs all handlers of an entry and
counts or dead-letters, `Ack` may fail.  A publication that fails is lost, as in the code.

**McpClient** – the registry's `get`, the client's request table with its timers,
the stdio transport, `closeAll`.  Two first `get`s may start two processes.

**MemoryChains** – the versions of one idea: `ReadHead` and `CreateVersion` of an
ingest, and `tick` statement by statement (fold evidence, raise, archive; decay
row by row; archive what is faint), stopped by a failing statement (`TickFault`) or
the end of the process.

**SourceCache** – `readSource` for one file: stat, look, join or load, store,
under rewrites and invalidations.  A rewrite moves the file's stat or keeps mtime
and size, as `cache-invalidating-listener.ts:6–9` permits; the artifact event comes
at any time or not at all.  History variables: `began[c]`, the version of the file
when the collect began; `dropped`, the version that the last invalidation leaves no
row older than, where a load that has read the file already counts with what it
read, for it stores its row after; `floor[c]`, what the collect's caller may expect
(`Reliable`): the later of the file's last change of stat and its last invalidation,
or the beginning of any collect that is still running, whose load it may join.

**SignIn** – login, callback, find-or-create, session, logout and the check of
every request, for one person, with a clock and restarts of the server.  `late`
and `held` are history variables of a request: whether it came after the
session's end, and which roles were set while it was served.

**MCServices** puts the last five, which share no state, into one instance; a
behaviour is one service's.  The other **MC…** modules only instantiate
constants.

## 3. Runs

Twelve runs: ten that must pass, two that show a disagreement of
[section 6](#6-disagreements-between-code-and-documentation).
Deadlock is not checked: every one of these programs may rightly stop, with no
request left to serve.

| run | instance | shows |
|---|---|---|
| `task_lifecycle` | 1 task, 2 callers, rework scope, 5 moves, 1 lost event | the trail replays the state; every move is announced once or lost with its process; attempts never run ahead of requeues; refines `TaskLedger` |
| `attention_pipeline` | 1 task, 2 rows, 2 reviewers, 1 crash, sampling | rows and decisions agree; executions that begin after a kill approve nothing; rows close once; a verdict becomes the task's state and reaches the change |
| `attention_rounds` | 2 rounds, 2 rows, 1 reviewer, sampling | a task is settled only by a decision about its present change, or by the late verdict on a control |
| `attention_routing` | 2 tasks, any two of 54 bodies of evidence, a budget of 1, 2 days | failed and flaky changes reach humans; first in, first out; deferral follows the budget |
| `writeback` | 2 requests, 6 payloads, lost answers, opt-out, 1 fault, 1 crash | the host sees a write once unless its success was taken for a failure; the log tells the truth; both legs get final |
| `review_ingest` | 3 reviews, 2 batches on 2 workers, 1 storage fault, 1 crash, lost error status, 2 retry clients | a complete report is one whole review; announced at most once, and once more for each race of retries; stages in order until then |
| `review_verification` | 4 reviews of one batch, 2 retry clients, failing statements, 1 crash | a `RUNNING` row is worked on and `PASSED` is earned, under takeovers, retries and time-outs |
| `review_liveness` | 3 reviews of one batch, 2 retry clients, 1 fault, no crash | a review ends, complete or in error; a report page stops polling |
| `services` | 2 events, 2 handlers, 2 attempts; 3 calls; 3 ingests; 3 collects; 2 logins, 2 callbacks, 1 request; a fault and a crash where there are any | nothing acknowledged is unhandled, nothing repeated without bound; answers reach their request; evidence is kept; the cache is fresh; one session per login; access is current |
| `services_progress` | 2 events in batches of one, 2 calls, 3 ingests | every entry settles, every call ends, a tick folds what it found |
| `leakage`, `writeback_repos` | the smallest that show it | section 6 |

**Why these bounds.**  *Tasks*: rows of different tasks share no state, so races
are on one; in routing they share the queue and the budget, so there are two,
with any two bodies of evidence.  *Callers, reviewers, retry clients*: every
guard here compares what one actor read with what another wrote; two suffice for
each pair of steps to overlap, and the crash gives a third party.  *Moves*: 5 is
a whole rework lap (`PENDING → QUEUED → EXECUTING → VERIFYING → REWORK →
QUEUED`), so that the attempt counter moves and a stale call can come back to a
state it has seen.  The scope leaves out the review states, which `ReviewQueue`
has, and keeps `CANCELLED`, a move with a rationale that is possible at most
turns.  *Rows*: a row and the control sampled from it, or a row per round.
*Payloads*: two approvals with the same text on one pull request (the index
decides between them), a rejection (whose text includes its report), one with a
comment, one not written back, one `REQUEST_CHANGES`.  *Batches*: two that run
at once and end in either order; that a third waits for a free worker is left to
the proof, which is for any number of both (it made the run, with two clients, too
large); the single-batch case, in which a failed answer fails the review, is in the
other two.  *Reviews*: three, so a report may fail, be retried, fail and be retried
again; four in `review_verification`, so that two verifications may run at once
and a third after a reset.  *Evidence*: no, failed and passed reports, flaky or
not, the change's own or an older one's, a smallest and a largest change, and
histories that move novelty and confidence to their ends.  *Days*: midnight comes
once.  *Entries*: two in one batch or in two, so that one may block the other.
*Collects*: three, so one may join a load that began before another's rewrite.
*Logins*: two with two callbacks, so one state may be brought twice and two first
logins race for the users row.

**Conditions in the properties.**  Each names what would break it and why it is
excluded; what the code does in the excluded case is in section 6.

- `CompleteIsWhole` speaks of reports for which no batch failed to be stored and no
  two retries raced, `StagesInOrder` of the stages before such a race, and
  `AnnouncedOnce` allows one announcement more for each race and nothing else.
- `OutcomeFitsChange` leaves out tasks that the verdict on a control of an earlier
  round has moved (`overtaken`), and `VerdictReachesTask` is about verdicts on
  other rows than controls, with a rationale, unless such a control is faster.
- `VerdictReachesTask`, `VerdictReachesChange` and `WritesGetFinal` excuse a crash
  of the process, after which nothing resumes the work; `WritesGetFinal` also a
  failed statement on the log and an opted-out provider.
- `RepeatsAreInDoubt` and `LogTellsTheTruth` name the writes whose success `write()`
  took for a failure (`doubted`): the host may see these again, and the log says
  `FAILED` of them.
- `RunningIsWorkedOn` excuses a crash, and the row of a verification that a failed
  statement ended (`left`): both leave it `RUNNING`.
- `RowIsFresh` and `ResultIsRecent` say how old content may be, not that it is the
  file's: a rewrite that keeps the stat is seen at the next invalidation, and a load
  that read before the invalidation may undo it.
- `DeferralFollowsBudget` counts all decisions since the day began, those after its
  end included.
- `ReportSettles` and `PageSettles` are checked without crashes and with a database
  that accepts every status: otherwise the report keeps its stage for ever and the
  retry route refuses it.
- `TicksConsolidate` excuses a tick that a failed statement or a crash stops, and
  `EvidenceIsKept` versions archived for their confidence.  A version that is
  `ACTIVE` but superseded counts as kept, since folding goes from it; retrieval ranks
  the heads of chains alone (`memory-retriever.ts:94`) and finds its evidence only
  after a tick.

Each property of a passing run has a mutant: a plausible bug in a mapped
definition (in `PROJECT.json` under `mutants`, in the modules marked *Mutant*)
that makes the run fail.

## 4. Fairness

The event loop resumes every continuation whose promise settles, so a started
call, request, execution, batch, verification or handler is weakly fair, step by
step.  Promises settle because the database driver, the MCP transport, git, the
sandboxes and the model clients have time-outs.  Nothing makes a client act:
receiving a request, claiming, deciding, killing, retrying, submitting a task,
verifying and rolling back are under no fairness, nor are faults and crashes.

- `TaskLifecycle` needs none: `MovesAccountedFor` is the safety half of "every
  move is announced", and the other half is that a started call goes on.
- `AttentionPipeline`: the later steps of `decide`, each execution, the started
  handlers, the kill's second statement.
- `Writeback`: each step of a request once it was received.
- `ReviewVerification` (with `ReviewIngest`): each run with its batches and its
  verification (`Work(w)`; none of its steps can be repeated for ever), the last
  two steps of a retry request, and the timer of an open report page.
- `EventStream`: the poll loop reschedules itself and a started process
  subscribes its handlers.  Handlers may throw every time.
- `McpClient`: each call's own steps, its timer among them; never the server.
- `MemoryChains`: what a tick does once it was called (`TickProgress`), never that
  one is: `MemoryLifecycleScheduler.start` has no caller
  (`apps/api/src/bootstrap.ts:845–856`, "Registered but NOT eagerly started").
  `TicksConsolidate` accordingly says what a tick does with what it found.
- `AttentionRouting`, `SourceCache` and `SignIn` are checked for safety only.

## 5. Proofs

Eight modules hold theorems and lemmas, each for every value of the constants (any
tasks, rows, callers, reviews, payloads, calls, clocks and bounds).  Every safety
invariant that a passing run checks, its action property and the three refinements
are theorems.  Assumed are only the named `ASSUME`s of the modules – bounds are
naturals, the sets that are counted are finite, the scope is made of task states,
evidence is well formed.  No theorem has a hypothesis of its own: what a property
excuses it says itself, by what happened (`raced`, `overtaken`, `doubted`, `left`,
`faults`, `crashes`) and not by how many clients or which settings there are.

| module | theorem | statement | inductive invariant |
|---|---|---|---|
| `TaskLifecycleProofs` | `TypeCorrect`, `TrailReplaysState`, `TrailIsLegal`, `ServiceImplementsLedger` | `TypeOK`, `HistoryIsPath`, `HistoryIsLegal`, `ImplementsLedger` | `AuditInv` |
| | `EveryMoveAccountedFor` | `MovesAccountedFor` | `AccountInv` |
| | `AttemptsNeverInvented` | `AttemptsAreRequeues` | `AttemptInv` |
| `AttentionPipelineProofs` | `PipeTyped`, `RowsTellDecisions`, `KilledMeansDenied` | `PipeTypeOK`, `RowMatchesDecisions`, `LateExecutionsDenied` | `PipeInv` |
| | `RowsAreItems` | `ItemsCloseOnce` | `PipeInv`, step by step |
| | `OutcomesFitChanges` | `OutcomeFitsChange` | `RoundsInv` |
| `AttentionRoutingProofs` | `RoutingTyped`, `BadNewsIsSeen`, `FirstInFirstOut`, `BudgetDefers` | `TypeOK`, `BadNewsReachesHumans`, `QueueIsFIFO`, `DeferralFollowsBudget` | `RoutingInv` |
| `WritebackProofs` | `LogIsTrue`, `ClaimsAreExclusive` | `LogTellsTheTruth`, `KeyHasOneHolder` | `WriteInv` |
| | `RepeatsInDoubt` | `RepeatsAreInDoubt` | `WriteInv` |
| `ReviewVerificationProofs` | `VerificationTyped`, `RunningHasWorker`, `PassWasEarned` | `VerificationTypeOK`, `RunningIsWorkedOn`, `PassIsEarned` | `WorkInv` |
| | `StagesFollow` | `StagesInOrder` | `StagesInv` |
| | `AnnouncedAtMostOnce` | `AnnouncedOnce` | `CountInv` |
| | `CompleteReportsAreWhole` | `CompleteIsWhole` | `WholeInv` |
| | `VerificationExtendsReview` | `VerificationSpec` implements `ReviewIngest` | none |
| `StoreProofs` | `NothingIsLost`, `RepeatsBounded` | `AckedIsHandled`, `RepeatsAreBounded` | `StreamInv` |
| | `EvidenceKept` | `EvidenceIsKept` | `MemoryInv` |
| | `RowFresh`, `ResultRecent` | `RowIsFresh`, `ResultIsRecent` | `CacheInv` |
| `ServicesProofs` | `AnswersAreOwn` | `AnswersReachTheirRequest` | `McpInv` |
| | `SessionIsSingle`, `AdmittedIsCurrent` | `OneSessionPerLogin`, `AccessIsCurrent` | `SignInv` |
| | `ServicesTyped` | `ServicesTypeOK` | `ServicesInv` |

`ExtremaLemmas` holds what the proofs need of minima and maxima of finite sets.
Every invariant is proved by the same three facts – it holds initially, each
action keeps it, it implies the property – with one step per action.  TLC agreed
to each inductive invariant on the instance of its run first.  What each adds to
the property, and why it must:

- `AuditInv`.  `HistoryIsLegal` is not inductive: the row that a transaction
  appends was checked two steps before, on a state that may have changed since.
  `PendingIsLegal` carries the result of those checks, which are about `from` and
  `to` alone; *that the row is still in `from`* is the guard of the UPDATE
  (`LockHolds`).  `CommitShape` states what the transaction does to both tables.
  For the refinement, `CreateTask` maps to the ledger's `Create`, `Commit` to its
  `Move` – legal by `CommitShape` – and all other steps to a stutter.
- `AccountInv`.  A move leaves the debts of a call as it is announced or lost;
  that it leaves *one* debt needs `RowsHaveOneOwner`: no two calls owe the event
  of one history row.
- `AttemptInv`.  The number written was computed from an older row:
  `PendingAttempts` says it is still at most the requeues the trail shows, plus
  one if the call itself is a requeue.
- `PipeInv`.  A row and its decisions agree (`Tells`) because everybody who is
  between two statements is known to stand on a row of the right status:
  executions (`ExecFits`), `decide` requests with what they recorded
  (`RequestsFit`).  `LateExecutionsDenied` needs that the switch, once off,
  is never seen on again (`SwitchStaysOff`).  For `QueueItem`, each action moves
  one row along one of the five arrows of `Moves` and leaves the others.
- `RoundsInv`.  Which change a verdict is about is decided when the row is
  enqueued, long before.  `InHandAwaits` is the argument: a row, other than a
  control, that somebody may still turn into a verdict is about the round its task
  awaits review in.  It holds since a change is routed once (`RoutesAreNew`,
  `RowsAreDistinct`) and has one decider at a time (`OneDecider`).  A control is
  about a round that is over from the moment it is sampled (`ControlsAreLate`), and
  the machine takes none (`MachineRows`): it settles its task only by coming to a
  later round, and from then on nothing is claimed of that task (`overtaken`).
- `RoutingInv`.  Each property is about queued items, while what makes it true
  was read several awaits before.  `StandsBehind`, `DeferralFits` and `NewsIsKept`
  say, from the step at which it becomes true, what an item already has.
  `DeferralFits` counts from the day that the gate read (`now`), since the count of
  a day only grows.  `BadNewsReachesHumans` rests on a bound of the weighted mean
  from below over all evidence (`ComputePriority` is written without recursion for
  that);
  `QueueIsFIFO` on positions having a maximum (`PositionsBounded`), which is all
  that finiteness of `Tasks` is used for.
- `WriteInv`.  `LogTellsTheTruth` needs that only one request works on a decision
  (`OneServer`, from the unique fingerprint) and what the log and the host hold at
  each of its steps (`LogFollows`).  `KeyHasOneHolder` is a theorem of its own: the
  partial unique index as a lock.  `RepeatsAreInDoubt` follows: a posted write that
  is not in doubt is `PENDING` or `SUCCEEDED` in the log, so it holds its key for
  good, and of those that hold a key there is one.
- `WorkInv`.  `RunningIsWorkedOn` must know which row a verification will write
  before it has looked (`StartsAfterReview`), and that row ids are never used
  twice, which the type invariant's clause on the row says.  `PassIsEarned` rests on
  what the two checks may come to together (`ChecksFit`).
- `StagesInv`.  The status is written without a guard, so it tells the stage only
  as long as one review is live (`OneReview`): `OneAtATime` says so of reviews and
  retries, `StatusFits` what the status then is, `AnnouncedLast` that nothing follows
  the announcement.  All of it holds until a retry resets a report that was not in
  error (`raced = 0`), whatever else is retried; then `ReportProgress` is contested.
- `CountInv`.  With any number of retries at once, what may yet be announced is
  counted: the reviews that are live or announced, the retries between reset and
  publication, and one more if the report is in error are together at most one,
  plus one for each race.  A reset without a race uses up the error.
- `WholeInv`, also until two retries race.  The batches of a failed review may run
  on.  While no batch failed to be stored, none does (`RunFits`, `Quiet`): a review
  that ended has nothing left at work, so a reset report is empty until the next
  review's batches.
- `StreamInv`.  What is being acknowledged was handled (`AckingIsHandled`), and an
  entry that will come back has had no more deliveries than crashes and lost
  acknowledgements made the process forget, plus those it counts
  (`DeliveriesAreCounted`).
- `MemoryInv`.  A planned fold goes from a version into a live one that is not
  itself folded (`FoldsAreLive`), so archiving the first after its evidence was
  merged loses nothing, whatever forks were appended since the plan was made.  That
  every superseded version has a head to go to (`HeadsOf` is never empty) would take
  an induction along a chain; safety does not need it, and in the runs ticks find
  one.
- `CacheInv`.  Versions and stats only grow (`NothingIsAhead`), and a collect whose
  stat is the present one began under it, so what it stores is no older
  (`LoadsAreYoung`).  `FloorsAreKept` is the argument for results: the row that a
  running collect would hit, and each running collect whose load it may join, are no
  older than what its caller was promised when it began.
- `McpInv`.  An id belongs to one request even after it timed out, for the server
  may still answer it (`IdsAreUsedOnce`).
- `SignInv`.  `StatesAreSpent`: a login's state is in the map or with one
  callback.  `RowIsGranted` and `RequestsAreBound`: the row holds what was last
  granted, and a late request finds its session revoked or expired for ever.
- `ServicesInv` joins the five: a step of the instance is a step of one service
  and changes nothing of the others (`ServicesStep`).

**Retries that race.**  The retry route does not guard its reset (section 6), and the
model lets any number of clients use it at once.  What then breaks is counted where
it happens, in `raced`, and three statements say how far the damage goes: nothing is
lost before the first race, and each race costs one announcement at most.
`VerificationExtendsReview` carries them over to `VerificationSpec`
(`VerifiedAtMostOnce`).

Only model-checked: the liveness properties (`VerdictReachesTask`,
`VerdictReachesChange`, `WritesGetFinal`, `ReportSettles`, `PageSettles`,
`EntriesSettle`, `CallsEnd`, `TicksConsolidate`), since liveness under fairness is
outside the proof system's reach, and the two runs of section 6, which are
counterexamples.

## 6. Disagreements between code and documentation

Checked by a run (the quotes are under `findings` in `PROJECT.json`):

| run | what happens |
|---|---|
| `leakage` | a rejected sampled control is never reported: the task has left `AWAITING_REVIEW`, so `decide` throws after its commit and before its event |
| `writeback_repos` | the key of a write omits the repository, so equal numbers in two repositories are duplicates |

Met while modelling, visible in the modules, not checked by a run of their own:

- *Tasks.*  `task-service.ts:146`: the attempt number is computed from the row
  read before the transaction; a call delayed over one rework lap writes the old
  number on an ordinary move (`docs/summary/HAI_flow.md:153`, "`attempt_number`
  increments only on `REWORK → QUEUED`").  `AttemptsAreRequeues` is therefore
  `<=`: an attempt may be hidden, never invented.
- *Queue.*  `review/src/service.ts:315`: an approval without rationale passes
  `decide`'s check, is committed, and is refused by the orchestrator (249–251:
  "Checked before any write so a validation failure never mutates the row").
  `VerdictReachesTask` speaks of verdicts given with one.  `service.ts:399`:
  nothing returns an abandoned claim (394–396: "the claim-timeout transition").
  `drop` and `escalate` close the row and leave the task in `AWAITING_REVIEW`.
- *Auto-approve.*  `executor.ts:197,211`: flip and decision are two autocommitted
  statements (206: "the audit trail is unbroken even with no human");
  `RowMatchesDecisions` has the exception.  `executor.ts:161`: an execution that
  read the switch before a kill approves its row after both statements of the
  kill, against `kill-switch.ts:13–14`; `LateExecutionsDenied` covers those that
  begin after it.
  A sampled control may be decided when its task is back in `AWAITING_REVIEW` for
  another round (`service.ts:315` compares the state, not the change; the shipped
  `auditSampleRate` is 0.1, `policy.ts:82`): its verdict settles the new change,
  whose own row stays open and may in turn settle the round after.  No document
  speaks of the case; `overtaken` marks it.
- *Routing.*  The budget is counted in decisions since the midnight before the
  gate read the clock (`daily-budget.ts:77–84`), and the SELECT comes later: when
  midnight falls between, decisions of the new day count for the old one, and an item
  is deferred to the end of a day that did not spend its budget.  All rows of
  `decisions` count, the machine's, drops and escalations included, where
  `daily-budget.ts:66` and `policy.ts:39` speak of human decisions.
  `deferred_until` is written and read by nothing: a deferred item is
  claimed and decided like any other.  The flakiness the router reads is the
  change's, the one in the score is of the task's latest report.
- *Write-back.*  A write whose answer is lost, by a time-out of the MCP call or a
  connection that breaks after the host acted, is recorded `FAILED`; its key is free,
  and the next decision with the same text is posted again.  So is one whose
  finalizing UPDATE fails after the host acted (`mcp-writeback.ts:157`).
  `writeback-log-store.ts:47` says "retry-after-failure is safe: the external write
  did not happen" and `dedup.ts:4` that a retry "must never double-post".
  `RepeatsAreInDoubt` says that no other write is repeated.  An opted-out provider
  (`mcp-writeback.ts:131`) is answered with success and leaves no row.
  A process that ends between claim and finalize leaves `PENDING`, which holds the
  key for good: no code resolves it.
  `reviews.ts:681`: a repeated request is answered from the table and does not
  resume a missing status (799–802: "resumes only the missing status"), and of
  approve, reject, approve the last is a repetition of the first.
  `reviews.ts:808`: write-back failures are returned, never thrown, so the `207`
  of `docs/api.md:131` is not reached for them.  `reviews.ts:95` joins the fields
  of a fingerprint with an unescaped bar.
- *Review.*  `review-worker.ts`: `processReview` swallows every error, so the
  worker's "up to 3 attempts" (8–10) is always one.  `reviews.ts:841`: two retry
  requests that both read `error` reset the report twice, the second time under a
  running review.  Two reviews then write one report: their findings stand
  together, it may leave `complete` again, and each race may announce it once more.
  `review-batch.ts:405`: a batch of a failed review may be stored
  next to the same batch of its retry (204–205).  `reviews.ts:875`: the retried
  review is made without the report's ticket.
- *Verification.*  `review-verification.ts:175`: a verification whose process
  died, or whose uncaught statement failed (`StatementFails`), stays `RUNNING`, and only another `review.report_created` could take it
  over, which a complete report does not get again (167–168).  The report page
  (`useReviewReport.ts:60`) stops when it finds a complete report whose
  verification row is not there yet (57–58).  Two verifications share the clone
  directory: the clean-up of one removes the other's files, so a spoiled `FAILED`
  or `SKIPPED` is possible, and with three at once a `PASSED` may be about
  another's clone of the same pull request.
- *MCP.*  `registry.ts:40–51`: two first calls start two server processes, of
  which the registry knows one (3–4); the client of a dead server stays in the
  registry and refuses every later call.
- *Memory.*  Chains fork under concurrent appends (`versioned-append.ts:45`,
  against `chain-resolve.ts:6–8`) and consolidation resolves them to any one of
  the heads; recurrence counts siblings, so it starts over once they are archived;
  each tick's decay starts from the last one's result, so it compounds
  (`decay.ts:12–13`); with the default floor 10 above the threshold 5 nothing that
  decayed is ever archived (`scheduler.ts:52`).  The run takes a threshold above
  the floor so that archiving happens.
- *Context cache.*  `cache-invalidating-listener.ts:2–9` says that the event makes
  "the next collect" re-read the file, and that for a rewrite which keeps mtime and
  size "correctness leans on the listener".  A load that read the file before such a
  rewrite and stores its row after the event's delete puts the old content back, under
  a stat that hits until the next event.
- *Event stream.*  A dead letter is acknowledged before it is reported, events
  delivered before a handler subscribed are acknowledged unhandled, and an event
  whose publication failed is gone.
- *Auth.*  `touchSession` has no caller (`session-service.ts:20`); the callback
  does not check a state's age; only pruning does.

## 7. What is not modelled, and why

- *In modelled components*: replies that change nothing (422 for unsupported
  hosts, 429 limits, 404s) and the read routes; feedback and metrics after
  `decide`, best effort; ticket writes, which take the same
  claim–call–finalize path; the synchronous ingest used by tests, which has no
  concurrency; batch progress, display only, which goes back when batches end out
  of order; deciding which text goes into a comment; poison payloads and
  unsubscription in the stream; the MCP client's SSE transport; the kill switch
  in `AttentionRouting`, which does not read it; overlapping memory ticks; the read of
  learned weights before scoring (`attention-subscriber.ts:151`), whose weights here
  are the static ones.
- *Clocks*: a clock is modelled in `SignIn` and the day in `AttentionRouting`;
  staleness and time-outs are steps that may come at any moment.
- *The stream's transport* is modelled as outliving the process, which its
  interface is made for; the repository's only implementation is in memory.
- *The context collector* is registered, but the artifact events that would
  invalidate its cache have no publisher any more; `Invalidate` may come any time.
- *Several API processes*: a crash ends all of `ReviewVerification`, `Writeback`
  and the pipeline at once; `TaskLifecycle`'s callers end one by one and may be of
  different processes.
- *Out of reach or pure I/O*: most of the implementation's lines – model prompts,
  parsing and repair of answers, host mapping of providers, sandbox commands,
  object store, telemetry, floating-point fitting of weights, code indexing and
  the web UI's display.  They hold no state that two actors share; a model of them
  would repeat text processing, so the map covers the part of the code that
  changes shared state, and little else.

## 8. Where it could go on

1. **Proofs**: what is left is liveness, which stays with TLC.
2. **Judge shadow and embeddings**: best-effort subscribers; their late handlers
   write rows a retry has already cleared.
3. **The learning loop**, with weights from a small set in place of the fit: that
   no promotion passes the gate on data of an older policy.
4. **`AttentionRouting` in place of `ReviewQueue`'s free choice** of an action:
   the two share the queue row and are now checked each on its own.
