# Verification of JobApply

JobApply (`src/src/jobapply`) is an autonomous LinkedIn Easy Apply agent. A *run*
is one process executing a LangGraph workflow: search, qualify, generate, execute,
notify. Runs share a MongoDB and a Telegram bot. Several runs may be active at once, any
of them may die at any moment, and a run is continued from its checkpoint with
`jobapply --run-id`. What must never go wrong is the live submission: one application
per job, within the caps, never in doubt about what was clicked.

Paths below are relative to `src/src/jobapply/`.

## Inventory

| Component | State it keeps | Operations | Hard behaviour |
|---|---|---|---|
| `AttemptRepository` (`utils/attempts.py`) | `application_attempts`: one document per job with status, attempt id, run id | `preflight_check`, `begin_attempt`, `reserve_quota_state`, `mark_unknown`, `mark_submitted`, `mark_released` | claims of several runs race; an update may be applied although its answer is lost; a claim has no lease |
| `QuotaRepository` (`utils/attempts.py`) | `application_quotas`: one document per UTC day: `daily_reserved`, `daily_submitted`, `sessions`, `reservations` | `reserve_quota`, `release_quota`, `commit_quota`, `get_daily_consumed` | the last slot; lost answers; midnight between two calls |
| `execution_node` (`nodes/execution.py`, `execution/outcomes.py`) | locals of one call: `attempt_id`, `quota_reserved`, `submission_attempted`, ... | preflight, form, claim, reserve, mark unknown, click, wait, mark submitted, secondary writes, cleanup, exception handlers | every `await` interleaves with the other runs, may fail, and is a point of crash |
| `DeduplicationStore` (`utils/dedup.py`) | `applied_jobs`: one document per job | `mark_seen`, `find_seen_ids`, `get_daily_count` | overwriting upserts; the set of seen ids is old when it is used |
| Workflow (`graph.py`, `nodes/select_next_job.py`, `nodes/outcomes.py`, `state.py`) | checkpointed state: job/page/query cursors, counters, outcomes, pause flag | routing, `select_next_job_node`, increments | caps and pauses on every path to a submission; dry runs |
| Run lifecycle (`main.py`) | run id, initial state, terminal status | start, resume, `_finalize_run` | precedence of cancellation, workflow, cleanup and publication errors |
| Notification outbox (`utils/telegram_storage.py`, `utils/telegram.py`, `nodes/notification.py`) | `notification_outbox`: record with chunks, status, lease, attempts | `enqueue_notification`, `claim_due_records`, chunk marks, `mark_record_*`, `reconcile_expired_sending_records`, `drain_outbox` | at-most-once sending over ambiguous transport errors; leases that expire while sending |
| Prompts and correlated replies (same files) | correlations, poll cursor, waiter and poll leases | create, claim waiter, record reply, consume, callbacks, recovery | a reply that arrives after a restart; two waiters; cursor advanced before or after the reply is stored |
| The Easy Apply form (`nodes/execution.py`, `execution/telegram_qa.py`, `execution/controls.py`, `utils/candidate_facts.py`) | the fields of the form on LinkedIn's page; element handles; the answer at hand; saved facts | guards, passes over a page, questions, filling with read-back, validation, next page, submit boundary | the page re-renders during minutes of waiting; barriers come up; a restart asks again; equal wording, different question |
| Telegram control (`utils/telegram_control.py`, `live.py`) | `workflow_task`, the last announced task | start, stop, report, announce, serve | commands are handled in two tasks; a cancellation is due 0.2 s later; a failing cleanup replaces it |
| Manual-review queue (`utils/manual_review.py`, `review_cli.py`) | `manual_review_queue`; a bounded pending list in the checkpoint | enqueue, flush, acknowledge, resolve | the durable write fails and is retried later; operator and agent race |
| Index lifecycle (`utils/mongo.py` and the five repositories' `ensure_indexes`) | shared future, success flag, cached error | first caller initialises, others wait; reset on close | cancellation of the initiator; a reset in the middle |
| Account safety (`utils/account_safety.py`) | pause fields of the state | detection, pause | a paused run must not be resumed |
| Browser management (`utils/browser.py`) | the marker file, the debug port, processes | verify, launch, connect, leave | read-judge-unlink by several processes; process ids used again; a crash between launch and marker |
| Search, qualification, generation, approval, LLM, observability, operator commands | mostly I/O | | see *Not modelled* |

Components interact through MongoDB documents (attempts, quotas, seen jobs, outbox,
correlations, reviews), through the checkpointed state (counters, outcomes, pending
reviews, pause) and through browser and Telegram calls. There is no other channel
between runs.

What makes each component correct: a job is clicked at most once and every click is on
record (attempts); counters equal the reservations they stand for and stay within caps
(quota); the node always returns, reports what happened and gives back what it did not
use (execution); a notification chunk is sent at most once and in order (outbox); one
answer per question, consumed once (correlations); every needed review is queued or
visibly pending (review queue); nobody waits for ever for an index (index lifecycle); no
control gets an answer that is not its own and no form is submitted incomplete or behind a
barrier (form); one run at a time, and a stop that reaches the run it was meant for
(control); no program is driven that the agent did not launch (browser).

## Modules

| Module | Models | Role |
|---|---|---|
| `AttemptLedger` | one document of `application_attempts`: statuses, legal transitions and the filter of every conditional update | parameterised by `Tokens`, `Runs`; instantiated |
| `QuotaLedger` | one document of `application_quotas`: filters and effects of reserve, refund and commit | parameterised by the caps; instantiated |
| `LiveSubmission` | the live path of `execution_node` by several runs over both ledgers and the seen jobs, with crashes, resumes, lost answers and midnights | composes the two ledgers |
| `SubmitOnce` | abstract specification: free, held, armed, done; budget per day; one click | `LiveSubmission` implements it (`Promise`, `KeepsPromise`) |
| `MCLiveSubmission` | symmetry for TLC | extended by the runs |
| `LiveInvariant` | the inductive invariants of `LiveSubmission` | TLAPS |
| `LiveSubmission_proofs` | proofs of the types, of all safety properties and of the refinement of `SubmitOnce` | TLAPS |
| `NotificationOutbox` | the outbox documents and the calls of `enqueue_and_deliver` that fill and drain them, with leases that run out, lost answers and crashes | stands alone |
| `MCNotificationOutbox` | symmetry for TLC | extended by `outbox` |
| `OutboxOnce_proofs` | proofs of the outbox's types and safety properties | TLAPS |
| `IndexLifecycle` | the process-wide client of `MongoClientManager` and the shared index initialisation of a repository, with failures, cancellations and closes | stands alone; checked directly |
| `SharedResources_proofs` | proofs about what a process sets up at need: the index exists before its use and is asked for once a lifecycle; clients are closed once; the browser is the agent's own and its marker is true | TLAPS |
| `TelegramChannel` | questions over the single chat: correlations, waiter and poll leases, the getUpdates cursor, callers of `send_and_wait_for_reply` and the controller's poll | stands alone |
| `MCTelegramChannel` | its instance | extended by the run |
| `TelegramChannel_proofs` | proofs of the types and all properties of the channel | TLAPS |
| `ManualReviewQueue` | the review documents, the pending list and overflow counter of a run with its checkpoint, `flush_manual_review_queue` at its three boundaries, the operators' commands | stands alone |
| `MCManualReviewQueue` | its instance and symmetry | extended by the run |
| `ReviewQueue_proofs` | proofs of all properties of the review queue | TLAPS |
| `Workflow` | one run: the graph's nodes and routers, caps and limits, the cursors over jobs, pages and queries, and the invocations of `main.run` that start, break off, kill, resume and finalise it | stands alone; `execution_node` is what `LiveSubmission` leaves of it |
| `MCWorkflow` | what LinkedIn shows and how the run is started | extended by the runs |
| `Workflow_proofs` | proofs of the types and that stopped runs rest, outcomes add up, the summary is true, the limits are kept and nothing is passed over | TLAPS |
| `TelegramControl` | `TelegramControlService` and the runs it starts and stops: tasks of one loop, commands from two polls, cancellations | stands alone; leases and cursor in the grain of a fetch, their steps are in `TelegramChannel` |
| `TelegramControl_proofs` | proofs of all safety properties of the controller | TLAPS |
| `FormFlow` | `execution_node` from the job page to the submit button: guards, passes, questions, filling, validation, restarts | ends where `LiveSubmission` begins |
| `FormFlow_proofs` | proofs of the types and of all safety properties of the form | TLAPS |
| `MCFormFlow` | the forms, facts and saved answers of the instance | extended by the run |
| `BrowserOwnership` | the marker, the port and the processes of `managed_browser`, by several agents | stands alone |

### How `LiveSubmission` corresponds to the code

One action is the code between two awaits. `pc[r]` names the call a run is about to
make: `claim_*` are the reads and writes of `begin_attempt`, `reserve_*` those of
`reserve_quota`, `quota_state` and `mark_unknown` the next two transitions, `click` and
`confirm` the browser, `submitted_*` the calls of `mark_submitted`, `commit_*` and
`mark_seen` the secondary writes, `refund_*` and `withdraw_*` the cleanup
(`_cleanup_pre_click`). A run at `off` has not started, at `idle` waits in the graph for
the next job, at `stopped` is paused for good, at `down` has died.

- `attempts`, `quota`, `seen` are the collections; `today` the UTC date.
- `job`, `token`, `day`, `ending`, `quotaReserved`, `exitRaised` are the node's locals;
  `outcomes`, `appCount`, `dailyCount` the checkpoint.
- `used`, `clicks`, `clicked`, `confirmed`, `stranded` are history: attempt ids handed out,
  clicks on Submit, what LinkedIn confirmed, and the attempts that met a crash, whose claim
  lost its answer or whose give-back raised.
- A conditional update answers truly, or raises with or without having been applied
  (`UpdateResults`); a read may raise. `insert_one` under the unique index on `job_id`
  succeeds only when the document is absent.
- Leaving the browser context may raise after the node has decided its outcome: the outer
  handlers then clean up a second time or pause (`CleanupDone`, `NotPersisted`,
  `FailOrPause`).
- A day whose document is absent and one just inserted by `_ensure_day_doc` answer every
  read and filter alike; both are `EmptyDay`.
- The form, its questions and its pages are one step (`FormEnds`, `AlreadyApplied`,
  `SubmittedTextSeen`, `ReachSubmit`) that ends in any outcome the code can report.
- `Pause` leads to `stopped`: the graph routes to its end and `main` does not resume a
  paused run into the node.


### How `NotificationOutbox` corresponds to the code

A record's fields are functions of its key (`status`, `lease`, `expired` for a
`lease_expires_at` in the past, `due` for `next_attempt_at`, `tries` for `attempts`, and
the sets of chunks marked `sent` and `in_flight`). `pc[w]` names the operation a call is about
to make. `cur[w]` and `batch[w]` are the copies `claim_due_records` returned; the document
may have moved on, and every update repeats its filter (`Holds`, `MayReject`).

- A lease id is the number of leases issued for the key so far, so it is as fresh as a uuid.
- An exception that no handler of the outbox catches ends the call where it is, before or
  after an operation took effect; a crash does the same. Both are `Abandon`. The one handler
  there is, around `insert_one`, is part of `EnqueueInsert`.
- `mark_record_failed` reads the record only for `max_attempts`, which never changes, so the read and
  the update are one action.
- A payload that conflicts with the stored one changes only the `reason`, which
  `enqueue_and_deliver` ignores for an existing record; payloads are therefore not told apart.
- The records of a batch are sent in any order, which includes the order of the cursor.

### How `IndexLifecycle` corresponds to the code

`pc[c]` is the next step of a repository call: `enter` the first block under the lock,
`create` the await of `create_index`, `record`/`resolve` and `record_error`/`resolve_error`
the flags and `set_result` after it, `await` the wait on the shared future, `check` the flags
after it. `at[k]` is the next step of a `close`: `wait` and `woken` around the condition
variable, `hooks`, `close`, `notify`. A task is cancelled only where it awaits (`CancelCreate`,
`CancelAwait`); cancelling a waiter cancels the `concurrent.futures.Future` it wraps, so the
other waiters are cancelled too and the initiator's `set_result` raises (`Resolve`).
The six copies of the code (attempts, quotas, seen jobs, correlations, outbox, reviews) differ
in names and in the indexes they create; `built` stands for the unique one, and a failure may
come before or after it. The map names lines of all of them.

### How `TelegramChannel` corresponds to the code

The first group of variables is one document of `telegram_correlations` by key, the second
the document of `telegram_cursors`; `updates` is the log Telegram keeps, in which a message is one of
`Text` (refers to no other, or replies to the prompt asked last), `Other` (replies to another message, or is
a press of another button), `Command`, and a press of a prompt's own button is
the key. `promptAt[k]` divides the log into what is older than the prompt and what is not,
as message ids do. `pc[a]` names the operation the actor makes next; `last`, `at`, `upto` are
`_last_update_id`, the update being processed and the end of the batch.

- Leases: a claim succeeds when the document has no lease or one that has run out. Since a
  claim that finds the latter replaces it, whether a lease has run out need not be state: an
  occupied lease may be found either way, by a claim and by the reconciliation.
  `Gone` is the lease of a call that died.
- Exceptions: in the polling loop they give both leases back (`Raise`); anywhere else they
  leave things as they are, like a crash (`Abandon`).
- `getUpdates` forgets what was confirmed by a later offset; the log here does not. A poller with
  an old offset therefore sees more than it could.
- A prompt is one message. Prompts with buttons always are; a long plain prompt is sent in
  chunks, and a rejected later chunk would be called `prompt_failed`.
- A waiter dispatches a command only if its process has a handler (`utils/telegram.py:895`), which
  `serve` sets and unsets: the callers in `Supervised` do. Any other run sharing the chat, such as a plain `jobapply --run-id` beside the controller,
  takes a command for a text: the answer to its question if it asks one, and otherwise nothing. Such commands are
  `unheard`, and `CommandsAreObeyed` says that no others are lost. A call keeps what it has: `serve` unsets the
  handler as it cancels its run, so a call that absorbs that cancellation and polls on would be one more that hears nothing.
- Not in the model: the TTL index on `expires_at`, and texts refused as security challenges
  (an exception, so `Raise`).

### How `ManualReviewQueue` corresponds to the code

An item is its deterministic key: the key is a hash of run, job, reason and detail, and both the
node and the reconstruction compute it from the same outcome, so the key *is* the outcome.
`state` and `label` are the documents. `outcomes`, `pending`, `overflow` and `over` (the
notification node has run) are the graph state in memory, `saved` the last checkpoint, which
may lag behind; `Stop` goes back to it. `pc` is `idle` between nodes, `pending` and `rebuild`
in the two loops of the flush, `enqueue` inside `safe_enqueue_manual_review`, whose `caller`
says what happens with the answer. `boundary` tells the three flushes apart: on resume the result is
written to the checkpoint, in the notification node it is part of the node's update, and at
the end it only corrects what the summary reports. `desk[o]` is an operator's command; the first operation of a
command is part of issuing it, since nothing precedes it.

- Sets stand for the pending list and the outcomes: a key occurs once in each, and the order of the loops is free.
- Construction of an item does not fail: every field is cut to its bound before validation.
- `Stop` also stands for a checkpoint that cannot be updated on resume, which aborts the run.

### How `Workflow` corresponds to the code

One action is one node of `graph.py` with the router on its outgoing edge, because LangGraph
evaluates the router on the state the node leaves before anything else runs. The variables of
the first group are the fields of `JobApplyState`; `saved` is the last checkpoint, a `Snapshot` of
all of them. Checkpoints are written in the background while the next node runs, so at the
end of a node the one before it is certainly stored and its own perhaps (`Checkpointed`). `Kill`
and `BreakOff` go back to `saved` (`Forget`), so a node may run twice, its writes to
MongoDB included: `record` (seen jobs) and `ledger` (attempts) survive.

- `listings` is a function from places on the page to jobs: places whose card was passed over or could not be read are
  missing. `index` is the last place passed.
- `execution_node` is one step that ends as its outcomes say: before Submit (`GiveUp`, `MeetBarrier`),
  already applied, a claim of the page, a rehearsal, a click with its three endings, or a job
  another run holds. The durable caps of `reserve_quota` are `SlotFree`.
- `failed` is all the routers see of `application_status`, `fit` of `qualification_result`. `errors` counts only failed evaluations
  and letters; other errors are added without effect.
- `announced` is `effective_dry_run`: what the log, the tags and the summary say. It is not part of
  the graph's state.
- The explicit search overrides of a resume and the review-queue flush do not touch any field
  modelled here. Midnights are in `LiveSubmission`.
- `approval_node` is registered but no edge leads to it.

### How `TelegramControl` corresponds to the code

A task is a number, in the order of creation; `pc[Controller]` is where `serve` stands, `pc[t]` where
run `t` does: `preflight` in `run_live`, `graph`, `asking`, `waiting` in the workflow and its questions, `flush` and `read` in
the two awaits of the end of `main.run`. `handle`, `reply` and `save` are the command handler, which runs
in the task of whoever fetched the command; `at[a]` and `upto[a]` are its place in the batch. `target[a]` is the task
`stop_workflow` captured, `timers` the pending `call_later`. `Cancel` is `task.cancel()`: `Hits` says where a `CancelledError` takes
the run, `Replacements` what an exception on its way makes of it.

- The lease and the cursor are `TelegramChannel`'s, here without the steps inside a claim. A lease
  that runs out under a holder at work is a fault (`overtaken`).
- Handlers do not await between reading `is_running` and creating or capturing the task, so `Handle` is one action.
- `/report` and an unknown command only send a message (`HandleOther`).
- Two pending timers of one run stand for any larger number: a third would find the run at rest.

### How `FormFlow` corresponds to the code

A form is a sequence of control records; what the code reads of one is its `label`, and the labels map to candidate facts
(`classify_candidate_fact`). A value remembers the question the operator was shown, so that an answer in the wrong
control can be told. `pc` walks through the node: guards (`GuardPoints`), the passes of
`process_page` (`Passes`, each with its filters in `Collected`), `ask`, `prompt`, `wait`, `keep`, `put` for one control,
then validation, the navigation button and the boundary before the claim. `taken` is the render the
element handles belong to: an older one is `Stale`. Radio groups and choice groups are found again by their
label, the other controls only by handle (`Targets`).

- `batch` is the set of controls the pass has still to handle; they come in document order, so `Current` is the least.
- Prompt keys are ordinal and label, as the correlation key is; a restart counts from 0 again (`Crash`).
- A barrier shows in the status of the navigation, as an element, or elsewhere; an inspection that raises
  counts as a barrier except for selectors (`Detected`).
- What text an answer has is left out but for whether the control offers it (`Offers`).
- `FormsAssumption` says that radios of one label are all answered by the profile or none is: `get_auto_fill_value`
  (`execution/planning.py:160`) reads the label alone. `MemoriesAssumption` says that a valid fact was given to a question of that
  fact: `remember` (`utils/candidate_facts.py:216`) stores an answer under the identity of its question. TLC evaluates both.
- `skipped` is history: the question the operator's last word on this job was a `/skip` of. It counts if the question
  is shown without an answer and its fact could be read; it is forgotten when LinkedIn no longer shows
  the question (`LoseSkip`), for then nothing asks it again.
- The resume upload and the choice of the navigation button succeed or end in a review (`Validate`).

### How `BrowserOwnership` corresponds to the code

An agent is a JobApply process that uses the browser; `stage[a]` is where it stands in `managed_browser`. A program stands for its creation time, `pidOf` is its process id while it lives. `verify_browser_ownership` is `ReadMarker`,
`CheckProcess` and `Unlink`; `purpose[c]` says which of its four calls is running and therefore what follows. `Spawn`, `Truncate` and
`WriteMarker` are `launch_edge_for_jobapply` from `Popen` to `write_text`. `Connect` attaches to whatever
listens on the port by then. Edge hands over to a browser that has the profile already (`Start`).

- `Recovers` says when agents get to a browser, not that they always do. `Obstructed` names what the code leaves to time or to an
  operator: an unrelated process with the port, or with the id the marker names, blocks every verification and every launch
  until it ends (`utils/browser.py:230-231`, `305-308`: the marker is neither the browser's nor provably dead);
  a browser that lost its marker or came up without the port has to be closed; a marker cut off by a
  crash has to be removed. While none of these holds, whatever happened before, every agent connects again and again.
- `edge_auto_launch` is on; without it the agent only connects.
- The process tree of a browser is one program; command-line checks hold for what the agent launched and for nothing else.
## Runs

| Run | Checks | Instance |
|---|---|---|
| `live_race` | `SubmitAtMostOnce`, `ClickIsOnRecord`, `ClickKeepsItsSlot`, `NoOrphanClaim`, `ClickIsAccountedFor`, `KeepsPromise` | 1 job, 2 runs, 3 attempt ids, daily cap 1, session cap 2, one midnight |
| `live_caps` | `CapsAreKept` (`CountersExact`, `WithinCaps`), `SlotsMatchAttempts` (`CommittedIsSubmitted`, `NoLeakedSlot`) | 2 jobs, 2 runs, 2 attempt ids, both caps 1 |
| `live_progress` | `NodeSettles` (`NodeTerminates`, `ClaimSettles`; under `FairSpec`, no symmetry) | 1 job, 2 runs, 2 attempt ids |
| `outbox` | `DeliveredIsPrefix`, `RecordsAreTrue` (`ResendIsSafe`, `SentIsDelivered`) | 2 keys, 2 calls, 2 chunks, 2 attempts |
| `indexes` | `ReadyIsBuilt`, `OnceALifecycle`, `EveryoneIsAnswered` (`WaitersAnswered`, `ClosesEnd`; under `FairSpec`) | 2 calls, 2 closers, 2 closes |
| `telegram` | `PromptSentOnce`, `StatusIsTrue`, `AnswerIsForItsQuestion`, `CommandsAreObeyed`, `NoAnswerPassedOver` | 1 key, the controller, a caller in its process and one in another, 2 updates |
| `review` | `GapsAreCounted`, `FlushReachesAll`, `RepliesAreTrue`, `ResolutionIsFinal` | 2 items, one of them ambiguous, a pending list of 1, 2 operators, 2 labels |
| `workflow` | `WithinLimits`, `OutcomesAddUp` (`BooksBalance`, `OneOutcomePerJob`), `NothingIsPassedOver`, `SummaryIsTrue`, `RunEnds` (under `FairSpec`) | 3 jobs, 2 queries of 2 pages, a live and a dry run, one stop, another run |
| `workflow_dry_run` | refutes `DryRunIsKept` | the same, resumed with either flag |
| `control` | `LiveRunIsKnown`, `StopHitsItsRun`, `FinalisedOnce`, `OperatorIsServed` (`StopIsFinal`, `EndIsAnnounced`; under `FairSpec`) | 2 commands, 1 fault, Ctrl+C |
| `form` | `AnswersFit`, `SubmitIsComplete`, `SkipIsFinal`, `NoClickBehindBarrier`, `FormEnds` (under `FairSpec`) | 3 forms of 4, 5 and 1 controls, 3 page steps, 1 re-render, 2 troubles |
| `browser` | `DrivesItsOwn`, `OneMarkedBrowser` (`MarkerOutlivesItsBrowser`, `LaunchesOne`), `Recovers` (under `FairBrowserSpec`) | 2 agents, 2 process ids, 3 programs, 2 tries, 1 trouble; other programs free |

Bounds. Two runs are enough for every race on one document, since a third
contender meets the same document states as the second. Three attempt ids let a job be
claimed, released, claimed afresh and contended once more. A cap of 1 makes two runs
fight over the last slot at once; with `SessionCap` 2 a run may also use the next day's slot.
One midnight separates reserving from clicking, committing or refunding. The number
of attempt ids bounds the number of claims (`TokenLeft`), `LastDay` the midnights; nothing
else is bounded.

In `outbox` two chunks give a message a part before and a part after a failure, two
attempts a retry and a last one; a call may be repeated without bound and the state space is
still finite.

In `indexes` two closes give three lifecycles, so that the result of an initialisation can
arrive in a later one; two calls are an initiator and a waiter, or two initiators of different
lifecycles. `FairSpec` there asks that the event loop and the threads run on and that the
database answers; nobody has to call, close or cancel.

In `telegram` the two callers ask the same question, as a run and its resumption do: callers
under different keys meet only at the cursor, where the controller competes already, and
updates for another question are `Other`. One of them runs in the controller's process and hears commands, the other is a
plain `jobapply --run-id` (`Supervised`), so they are not symmetric. Callers call again without bound. Two updates are a batch with a
boundary inside: one may be dealt with and the other not. No two are alike (`Sendable`), which leaves two answers, as a press and as a
message; a message is `Other` only once there is a prompt, for before that it is to no call different from a `Text`.
`misled` is history and keeps only the replies handed to a caller that are none to its question (`MayReply`), so that it tells no
states apart while `AnswerIsForItsQuestion` holds.

In `review` a pending list of one entry overflows with the second item, and two operators
with two labels and none can disagree in every way two commands can. Crashes, resumes, refused writes and commands are
not bounded.

In `workflow` the first page has two jobs and shows one of them twice, that job comes back under the
second query, an excluded job stands alone on the second page, and the last page is empty; so every
branch of the exhaustion is taken, with listings left to do on either side of a stop. One stop
(`MaxStops`) already repeats any node from a checkpoint that may lag. `Modes` pairs a live run of
two applications and two evaluations with a dry run of one application and no limit of evaluations.
`FairSpec` asks that a live process runs its nodes and its finalisation: every await
of a node has a timeout of the browser, the LLM client, Telegram or the database driver. Starting, resuming, killing
and other runs are not fair.

In `control` two commands give a stop and a start in either order and any pair of them in
one batch or two; a fault handles one of them twice, so that up to four runs come into being. `FairSpec`
there asks that the event loop runs what is ready: every request of the controller and of a run has a timeout, and a
timer that is due fires. In `form` the two larger forms have between them every kind of control, a profile field, an
auto-skipped one, an optional and a hidden one, two questions with one fact and one without, on one page and on
two; the third is nothing but a question that may be skipped, so that hiding it leaves a form to submit. Saved answers exist or not. Two troubles are a crash with whatever it is to be combined with. `MaxSteps` is 3 rather than
10: two pages and one press that LinkedIn ignores, or nothing but ignored presses, which cost no trouble: a form that never advances ends by the limit. `FairSpec` asks that the node goes on; the wait for an answer ends by
its timeout, and neither operator nor LinkedIn owe anything. In `browser` three programs are two browsers and a
or two foreign ones, or three browsers in turn; two ids make one of them be used again. Foreign programs come as often as
the programs allow, on the port or not, and end or stay; browsers close as often as another can be launched. A trouble is a crash, a failing
inspection, launch or connection, or an agent that begins while the other is at work. `FairBrowserSpec` asks that the agents go from job
to job and that a process that starts or ends gets there; `Begin` has strong fairness, as that bound on overlaps
makes an agent wait for the other, which the code does not.

`CHECK_DEADLOCK FALSE` is said where the system really stops: every run has finished its
jobs, is paused, or has used up the attempt ids.

Fairness. `FairSpec` asks that a live process keeps executing its node:
every await in it is bounded by a driver, browser or Telegram timeout. Starting a run,
resuming it, crashing and midnight are not fair: nothing in the code makes them happen.

### Where the code and its documentation disagree

One disagreement is a run of its own and a finding of `PROJECT.json`:

- `DryRunIsKept` (`workflow_dry_run`): a resumed run takes `dry_run` from its checkpoint (`main.py:42-48`,
  `main.py:496-500`) while the log, the tags and the summary take it from the command line or `.env`, where it
  is on by default. A live run that was interrupted and is resumed with the command the log suggests announces
  "DRY RUN MODE - No applications will be submitted" and clicks Submit.

The others are stated in their modules and do not hold; TLC refutes each on the small instance named here.

- `UnknownIsConsumed` (`LiveSubmission`; 1 job, 1 run, 1 attempt id): `get_daily_consumed` is documented as reserved +
  unknown + committed, but a `mark_unknown` that was applied and raised is followed by a cleanup that
  refunds the slot (`nodes/execution.py:1933-1937`) and cannot release the attempt. The
  refund itself is harmless for the click (`ClickKeepsItsSlot` holds: nothing was clicked).
- `InitialisationIsShared` (`IndexLifecycle`; 2 calls, 1 close): cancelling one waiter cancels the shared future, and
  the initiator's `set_result` raises. Under the controller this leaves a shared future that is never
  resolved when `/stop` cancels a run in the middle of an index initialisation, and the next `/run` waits for it.
- `InFlightHasLease` (`TelegramChannel`; 1 caller, the controller, 1 update): an exception between sending a prompt and
  recording it leaves the correlation in flight without a lease.
- `AnswersAreTheirOwn` (`FormFlow` with `MCUnlabelled`, `MCUnlabelledFactOf`, `MCNoMemories`): `utils/candidate_facts.py:92` promises
  to reuse repeated wording "without guessing that two semantically different questions are equivalent".
  `get_choice_label` (`execution/controls.py:17`) declares a constant twice in the script it evaluates, which
  always fails, and falls back to the aria-label or to "Choice question": two unlabelled dropdowns are one
  question, and the answer to the first is put into the second without asking.
- `ControllerStaysAlive` (`TelegramControl`): "the controller remains alive between runs" (`utils/telegram_control.py:222`), but the
  online message and the announcement of a finished run are sent outside the loop's `try`: a
  Telegram request that fails there ends `serve`.

Seen while modelling, and part of the models:

- A `/skip` is undone on resume when its question was asked only because the saved fact could not be read: the
  resumed run reads the fact and answers (`SkipIsFinal` excepts it).
- A required control that is hidden is asked about, and filling it fails the job.
- `utils/account_safety.py` "fails closed by default on inspection errors", but the exceptions of single selectors are
  passed over: a barrier that only a selector can tell is missed when that selector raises (`Detected`).
- A cancellation may be lost for good: the exception of a cleanup takes its place and the node files it as one failed
  job, and a second cancellation during `_read_checkpoint_state` is absorbed there (`swallowed`, `Tolerates`).
- Commands fetched under a lease that has run out since are still handled, although their cursor is
  not saved; another poller handles them again (`overtaken`).
- `utils/browser.py:173` removes a marker "ONLY if the owning process is provably dead", which holds of one agent at a
  time (`MarkerOutlivesItsBrowser`): another process may write its marker between the judgement and the unlink. A crash between
  the launch and the marker, or in the middle of writing it, leaves a browser or a file only the operator
  can clear.
- A control LinkedIn replaces between the validation of its page (`nodes/execution.py:1700`) and the last click is not
  validated again, and may be submitted empty: `SubmitIsComplete` exempts it (`disturbed`).
- A slot is charged to the UTC date of `reserve_quota` (`utils/attempts.py:759`) and clicked arbitrarily later, so around
  midnight the clicks of one calendar day may exceed the daily cap; `WithinCaps` speaks of charged days.
- `utils/telegram.py:944` consumes a reply, and erases its text, before the call returns: a crash in between loses the
  answer, and the resumed node ends with a review (`Prompt` of `FormFlow`).

## Proofs

Type invariants are proved where a component has a proof module (`LegalTransitions` too) and are not
repeated in the runs.

`LiveSubmission_proofs` proves `TypeCorrect == Spec => []TypeOK` for all constants
satisfying the module's assumptions (`NoJob`, `NoToken` outside `Jobs`, `Tokens`; `Jobs` finite; caps and
`LastDay` natural numbers). `TypeOK` is inductive by itself; the proof has one lemma per
group of conjuncts and one step per action.

It also proves every safety property of the submit boundary: `SubmitAtMostOnce`, `ClickIsOnRecord`,
`CapsAreKept`, `ClickKeepsItsSlot`, `NoOrphanClaim`, `SlotsMatchAttempts`, `ClickIsAccountedFor`, the action
property `LegalTransitions`, `SubmittedIsConfirmed`, and `PromiseKept == Spec => KeepsPromise`. None of them is
inductive; the invariants that are stand in `LiveInvariant`, and each holds in every state TLC
reaches on the instances of `live_race` and `live_caps`. They are proved in this order, each relative to those before:

- `ClickInv`, the attempt. That Submit has not been clicked cannot be read off a run's
  program counter. Ids on record or held are among those handed out (`FreshTokens`); no two runs hold the same one
  (`OneHolder`); a run about to click or past it finds its own attempt on record
  (`HolderOnRecord`, `RecordedBeforeClick`); every click counted is one of `clicked`
  (`ClicksCounted`). A fresh claim then cannot take a job that was clicked: the job is
  on record as submission_unknown or submitted, from which no transition leads back.
- `CountersInv`, the counters. A slot is written only under an id that was handed out, and the set of those is
  finite, so a slot written or emptied changes each count by exactly one; the three updates of the
  quota document (`Charges`, `Refunds`, `Commits`) write one slot each, the run's own.
- `SlotInv`, whose slot is where. Per point of the node (`SlotOK`): none before the conditional increment; one, on the
  day the run works on, after it; the run's own, charged, from `quota_state` to the click; none of today's left after the refund unless
  its failure was noted. No slot and no run is ahead of the date (`NotAhead`), so midnight only ever turns today's slot into an earlier day's.
- `FlowInv`, what the run did. Per point (`FlowOK`): not clicked before the click is awaited, clicked from then on; the secondary
  writes follow the record; a job in hand has no outcome yet, and a job the run clicked stays in hand, under the attempt
  that clicked it, until its outcome is reported. With what each return reports (`ReturnReason`)
  `ClickIsAccountedFor` follows.
- `ClickKeepsItsSlot` is inductive on top of these: a refund is sent by the holder of an attempt before its
  click only. `SettleInv` is `NoOrphanClaim` and `SlotsMatchAttempts`; its lemma `LetsGo` lists the steps in which a run gives up its
  attempt id. `ConfirmInv` carries the confirmation from `AwaitConfirmation` to the record.

The refinement maps a job's document to a phase and a holder and a day's document to the set of charged attempts:

| Step of `LiveSubmission` | Step of `SubmitOnce` |
|---|---|
| insert, or reclaim of a released document | `Claim` |
| created to quota_reserved | none |
| `mark_unknown` | `Arm` |
| a click that lands | `Click` |
| `mark_submitted` | `Confirm` |
| the cleanup releases the claim | `GiveBack` |
| the conditional increment of the counters | `Charge` |
| the refund | `Refund` |
| commit of the slot, and every other step | none |

A write that was applied and lost its answer is the same abstract step. `Claim` of a new id needs `FreshTokens` and `FreshSlots`; `Charge` needs `SlotOK` (the
attempt is charged once) and `CountersInv` (the budget); `Refund` needs `FlowOK` (the attempt has not clicked); `Arm` and `Click` need the slot that `SlotOK` says is there.


`OutboxOnce_proofs` proves the type invariant, both properties of the outbox run and `TerminalStays`,
for any sets of keys and calls and any numbers of chunks and attempts. The inductive
invariant `OutboxInv` says of every record that it is *settled* (what Telegram delivered is
exactly the chunks marked sent, which come first) or in doubt about one chunk, the one
in flight; that lease ids are unique and only the newest claim can still
hold the record; and that a request is under way only for the newest claim of a record
that is `sending`, or was left in doubt by a reconciliation. Each operation then falls under
one of five step lemmas (what a call does to its locals, to an idle record, to one it holds
and when it closes it), so that the actions' proofs are short.

`SharedResources_proofs` proves `ReadyIsBuilt` and `OnceALifecycle` of the index lifecycle for any callers, closers
and number of closes. `IndexInv` adds that whoever has seen `create_index` return still has the index
(`BuiltOK`: nothing drops it), and that the published future is the one of the lifecycle after the
last reset, futures of later ones not having been asked for (`LifecycleOK`).
It also proves the types and `ClosedOnce`, that no client is closed twice or handed out after its close. `ClientInv` says that a close excludes every other and
leaves no client in place (`OneCloses`), and counts: a reset belongs to a close of its own, and a client to the lifecycle that the next reset ends (`Counted`),
so that `MaxCloses` closes need no more than one client and one future more. The count is of a finite set of closers, though there may be infinitely many.

`TelegramChannel_proofs` proves all five properties of `TelegramChannel` for any sets of callers and keys and any number
of updates. That a prompt was delivered cannot be read off its document while the answer of
Telegram is awaited, so the inductive invariant `AskInv` says: a key whose prompt was delivered, or is
being sent, is `Asked`, that is, `mark_prompt_in_flight` refuses it for ever; at most one call per key is
about to send or was rejected (`OneSender`), and none while the status is prompt_failed; a call that is recording a
delivery has made one (`SenderOK`); and whoever waits, or read a message id at registration, waits
for a prompt recorded as sent (`WaiterOK`). `PromptSentOnce` and `StatusIsTrue` follow. Steps fall under `QuietStep`, which delivers nothing, and
the two that begin and end a send.

The routing rests on `RouteInv`, which holds of the log in parts: the log is clear, its commands dispatched or unheard (`Dealt`), up to the
cursor, up to every recorded reply, and before the update an actor has in hand (`BatchOK`); a recorded reply answers its question and
is the only thing handed on (`ReplyOK`); no caller reads behind the cursor, and what a waiting caller passed since the
cursor is no answer (`PassedOK`). One lemma says what the step of one actor does to the rest (`StepFrame`: leases are
taken for oneself or given up, a status never goes back), one that this keeps everybody else's part (`OthersKeep`), and
`OwnNext` follows the actor's own batch. The prompt's date, which the properties compare with, is safe because `AskInv` excludes a second send.
`NoCommandLost` draws the conclusion for an installation in which every call is made in the controller's process: there nothing is unheard, so
every command is dispatched. `Positions` adds the bounds `TypeOK` asks for: dates, batches and dispatched commands are positions in the log.

`ReviewQueue_proofs` proves these four, `AmbiguousIsLabelled` and `PendingKeptUntilQueued` of `ManualReviewQueue`, for any finite set of items and any
bound of the pending list. `GapsAreCounted` is not inductive: at the end of a flush `pending` becomes `kept`,
and a restart replaces everything by the checkpoint. `RunInv` therefore adds `FlushInv` (a pending entry is
kept, ahead of the flush, or queued), `SavedCounts` (the checkpoint leaves no more gaps than it counts, and what became
pending after it is queued or no outcome of it) and `SavedFresh`. `ReachInv` says how far the second
pass is. On the operators' side `DeskInv` says that an unresolved item has no label and that a command waiting to
resolve an ambiguous one has one; `Forward`, which every step satisfies, carries what was reported along.

`Workflow_proofs` proves every safety property of `Workflow` (`OutcomesAddUp`, `WithinLimits`, `NothingIsPassedOver`,
`SummaryIsTrue`, `StoppedRunsRest`) for any scope, settings and number of stops, from the module's assumptions on its constants only. None is
inductive: a kill goes back to a checkpoint that may lag by one node, so the property must also hold of what is saved.

- `Sound` (the counters, the job at hand, the cursor within its scope, no pause at a working node), `Resting`, `Limited` and
  `Covered` are therefore written of any state; `BooksInv`, `RestInv`, `LimitsInv` and `CoverInv` say them of the state in memory
  and of the saved one, and what holds before the first checkpoint (`Untouched`, `Unstarted`).
- A pause that reached a qualified job would leave it without an outcome, which is why the books need `Quiet`.
- `Limited` needs that a job on its way to the LLM is not one too many, that only a dry run rehearses, and that the ledger, not the checkpoint,
  bounds the clicks. `AddOne` and `RehearsedAppend` are the counting.
- `Covered` has what a page knows of itself once its search answered (`Answered`), what lies behind the cursor (`Passed`: all seen or
  tried, but for the job being judged) and what lies behind the page (`Explored`). `SelectCovers` is the heart: the selected listing
  is the least one unseen, so nothing before it is left. What was searched and tried stays so across a kill (`CoveredStays`).
- `FitInv` is the rest of the types, of the state in memory and the saved one; those who clicked are finitely many, so `Start` can count them.
- `SummaryInv` says what is true between the end of a workflow and its summary.

`TelegramControl_proofs` proves the type invariant, `LiveRunIsKnown`, `StopHitsItsRun`, `FinalisedOnce` and `ClosedAfterRuns` for any number
of commands and faults. The inductive invariant `ControlInv` adds that runs are created in order and only created ones
are captured (`BornInOrder`), that no run is at work before the first and during an announcement, when `workflow_task` is about to be
forgotten (`QuietMoments`), that a timer was armed for a run a stop was accepted for (`TimersAreDue`), and that
`run()` is entered between preflight and graph (`EnteredInOrder`). Steps fall under four lemmas: the controller moves (`ControllerMove`), a
run moves (`RunMove`), a run is created when none is at work (`CreateStep`), a cancellation reaches one (`CancelStep`).

`FormFlow_proofs` proves the types, `AnswersFit`, `SubmitIsComplete`, `NoClickBehindBarrier` and `SkipIsFinal` of `FormFlow` for any
forms, facts, saved answers and bounds that satisfy its three assumptions. `FormInv` is inductive; its parts, each preserved with those before it at hand:

- `FactsFit`: a valid fact was given to a question of that fact. `InHand`: the answer at hand may be put in the control the node handles; a
  profile answer is only ever in hand for a kind the profile answers. `TargetFits` then says that wherever the answer ends up,
  by handle or found again by label, it belongs there; this is `AnswersFit`.
- `PagesFilled`: the pages behind the node, and the one it leaves, are filled but for what was replaced since (`disturbed`).
  At the last page these are all pages: `SubmitIsComplete`.
- `BarrierSeen`: at the points from which a click follows without another guard there is no barrier, or an excused one. A barrier in the status of
  a navigation is there only until the guard that reads it.
- `Asked`: what the operator is asked about has no other answer. `SkipStands`: the skipped question is shown
  without an answer, nothing but the operator answers it, and the node has not come past it since it last started (`NotPast`: its page is not yet
  left, its pass is not over). To submit the node would have to come past, hence `SkipIsFinal`. The lemmas
  `SkipQuiet`, `SkipHere` and `PutElsewhere` are the three ways a step leaves it standing.

The first statement of `SkipIsFinal`, without `LoseSkip`, did not survive the attempt: on a form of one
choice group, LinkedIn hiding the group at the second attempt leaves nothing that is asked, and the form is submitted. The form `OneQuestion` is in the run
since.

`SharedResources_proofs` also proves `DrivesItsOwn` and `OneMarkedBrowser` of `BrowserOwnership` for any agents, process ids, programs, tries
and troubles. `BrowserInv` adds to the types:

- `NamesBrowsers`: whatever a marker, read, written or about to be written, or a verification names was launched by the agent, and so was
  born: a program born later under a reused process id has a name of its own. `DrivesItsOwn` follows.
- `OneAtWork`: until two overlap, all agents but one rest. `MineIsTrue`: the marker about to be written names its browser while that lives.
- `MarkerIsTrue`: until then, a living browser is named by the marker or known to have none; who checks has read the marker that is still there,
  who is about to remove it knows that it names no living browser, and who is on the way to a launch knows that it is absent (`Knows`).
  Hence no living browser loses its marker, and a launch finds none.

Every step of an agent that leaves machine and marker alone falls under one lemma (`QuietKeeps`); the six stages with knowledge,
the births of programs (`Births`, `NamesSurviveBirth`) and the machine (`MachineKeeps`) have the others. The definitions of the
two modules have distinct names, so that one module of proofs extends both.

Every safety property a run checks is proved but `DryRunIsKept`, which does not hold. Only model-checked is all liveness (`NodeSettles` and the other temporal
properties with fairness). Liveness under fairness and ENABLED are out of the prover's reach.

## Not modelled, and why

- Finding and reading elements, PDF output, LLM calls, tracing, logging, summaries, paths, the
  doctor: I/O and text without coordination.
- Tabs, screenshots and keeping the machine awake (`utils/browser.py`, `utils/power.py`); the cache of source files
  (`utils/source_cache.py`): I/O.
- The classification of account-safety barriers: text matching; its effect, the pause, is modelled.
- `sessions.<run>.submitted` in the quota document: nothing reads it.
- The Telegram messages of `execution_node` and its review-queue writes inside a run of `Workflow`: they are in modules of
  their own.
- A job that the text of the page claims submitted is reported so without an attempt on record
  (`SubmittedTextSeen`, `FindClaim`): modelled, but LinkedIn's text is what the README calls an explicit
  message, so no property forbids it.

## Plan

Still to do, in this order:

1. `Workflow` over the review queue and the outbox: one notification and one flush per end of a run, however often it is resumed.
2. The page a job ends on: tabs of `managed_browser` that are left open by a failed job.




