---------------------------- MODULE LiveSubmission ----------------------------
(***************************************************************************)
(* The live path of execution_node (nodes/execution.py): several runs of   *)
(* the agent, each a process of its own, take jobs to LinkedIn's Submit    *)
(* button and coordinate only through MongoDB.  One action is the code     *)
(* between two awaits: a database call, a browser call or the end of the   *)
(* node.  A database update may take effect, raise, or do both; a run may  *)
(* crash between any two steps and resume from its checkpoint, which       *)
(* re-enters the node from its first line; the UTC day may change between  *)
(* any two steps.                                                          *)
(***************************************************************************)
EXTENDS Integers, FiniteSets

CONSTANTS
    Jobs,        \* canonical job ids
    Tokens,      \* attempt ids: also the bound on the number of claims
    Runs,        \* run ids
    DailyCap,
    SessionCap,
    LastDay,     \* bound on the number of midnights
    NoJob,
    NoToken

ASSUME SentinelAssumption == NoJob \notin Jobs /\ NoToken \notin Tokens
ASSUME FiniteAssumption == IsFiniteSet(Jobs)
ASSUME BoundsAssumption == DailyCap \in Nat /\ SessionCap \in Nat /\ LastDay \in Nat

A == INSTANCE AttemptLedger
Q == INSTANCE QuotaLedger

Days == 0..LastDay

VARIABLES
    \* MongoDB
    attempts,       \* application_attempts, by job
    quota,          \* application_quotas, by day
    seen,           \* applied_jobs (DeduplicationStore), by job
    today,          \* the UTC date
    \* the locals of a run's execution_node
    pc,
    job,            \* current_job
    token,          \* attempt_id
    day,            \* date_key of the quota call in progress
    ending,         \* the outcome to report once the cleanup is done
    quotaReserved,  \* quota_reserved
    exitRaised,     \* leaving the browser context raised after a cleanup
    \* a run's checkpointed state
    outcomes,       \* application_outcomes, by job
    appCount,       \* applications_count
    dailyCount,     \* daily_applications_count
    \* history
    used,           \* attempt ids handed out
    clicks,         \* how often Submit was clicked, by job
    clicked,        \* who clicked what, and when
    confirmed,      \* attempts LinkedIn confirmed
    stranded        \* attempts that met a crash, or whose claim or give-back failed

store   == <<attempts, quota, seen>>
locals  == <<job, token, day, ending, quotaReserved, exitRaised>>
runs    == <<outcomes, appCount, dailyCount>>
history == <<used, clicks, clicked, confirmed, stranded>>
vars    == <<store, today, pc, locals, runs, history>>

Outcomes == {"none", "skipped", "failed", "needs_manual_review", "submitted"}

SeenStatus == {"unseen", "already_applied", "submitted"}

ClaimPoints == {"claim_read", "claim_insert", "claim_reclaim", "claim_reread"}

UnclaimedPoints == {"preflight", "form"} \cup ClaimPoints

PreClickPoints ==
    {"reserve_read", "reserve_write", "reserve_reread", "reserve_final",
     "quota_state", "mark_unknown"}

CleanupPoints == {"refund_read", "refund_write", "withdraw_read", "withdraw_write"}

ClickedPoints ==
    {"confirm", "submitted_read", "submitted_write",
     "commit_read", "commit_write", "mark_seen"}

HoldingPoints == PreClickPoints \cup CleanupPoints \cup {"click"} \cup ClickedPoints

RestPoints == {"off", "idle", "stopped", "down"}

Points == UnclaimedPoints \cup HoldingPoints \cup RestPoints

-----------------------------------------------------------------------------
(* What an awaited update can do when its filter matches iff m: answer truly,
   or raise with or without having been applied. *)
UpdateResults(m) ==
    {[applied |-> m, raised |-> FALSE]}
    \cup {[applied |-> a, raised |-> TRUE] : a \in {m, FALSE}}

Acknowledged(res) == res.applied /\ ~res.raised

Doc(r) == attempts[job[r]]

DayDoc(r) == quota[day[r]]

Goto(r, point) == pc' = [pc EXCEPT ![r] = point]

Stranded(r, raised) == IF raised THEN stranded \cup {token[r]} ELSE stranded

(* execution_node returns: the outcome enters the checkpoint, locals vanish. *)
Return(r, outcome, point) ==
    /\ outcomes' = [outcomes EXCEPT ![r][job[r]] = outcome]
    /\ Goto(r, point)
    /\ job' = [job EXCEPT ![r] = NoJob]
    /\ token' = [token EXCEPT ![r] = NoToken]
    /\ day' = [day EXCEPT ![r] = 0]
    /\ ending' = [ending EXCEPT ![r] = "none"]
    /\ quotaReserved' = [quotaReserved EXCEPT ![r] = FALSE]
    /\ exitRaised' = [exitRaised EXCEPT ![r] = FALSE]

Finish(r, outcome) == Return(r, outcome, "idle")

(* _account_safety_execution_update: the run is routed to its end and a paused
   run is never resumed. *)
Pause(r) == Return(r, "needs_manual_review", "stopped")

(* The outer exception handler when no attempt is held. *)
FailOrPause(r) == Finish(r, "failed") \/ Pause(r)

(* Mutation: the reserved slot is forgotten. *)
BugCleanUpKeepsSlot(r, outcome, reserved) ==
    /\ ending' = [ending EXCEPT ![r] = outcome]
    /\ Goto(r, "withdraw_read")

(* _cleanup_pre_click begins: the quota slot goes back first, if there is one. *)
CleanUp(r, outcome, reserved) ==
    /\ ending' = [ending EXCEPT ![r] = outcome]
    /\ Goto(r, IF reserved THEN "refund_read" ELSE "withdraw_read")

(* caps_reached on the checkpointed counters of a live run. *)
CapsReached(r) == appCount[r] >= SessionCap \/ dailyCount[r] >= DailyCap

-----------------------------------------------------------------------------
Init ==
    /\ attempts = [j \in Jobs |-> A!AbsentAttempt]
    /\ quota = [d \in Days |-> Q!EmptyDay]
    /\ seen = [j \in Jobs |-> [status |-> "unseen", applied |-> 0]]
    /\ today = 0
    /\ pc = [r \in Runs |-> "off"]
    /\ job = [r \in Runs |-> NoJob]
    /\ token = [r \in Runs |-> NoToken]
    /\ day = [r \in Runs |-> 0]
    /\ ending = [r \in Runs |-> "none"]
    /\ quotaReserved = [r \in Runs |-> FALSE]
    /\ exitRaised = [r \in Runs |-> FALSE]
    /\ outcomes = [r \in Runs |-> [j \in Jobs |-> "none"]]
    /\ appCount = [r \in Runs |-> 0]
    /\ dailyCount = [r \in Runs |-> 0]
    /\ used = {}
    /\ clicks = [j \in Jobs |-> 0]
    /\ clicked = {}
    /\ confirmed = {}
    /\ stranded = {}

SubmittedToday ==
    Cardinality({j \in Jobs : seen[j] = [status |-> "submitted", applied |-> today]})

(* main.run: a fresh run takes its daily count from get_daily_count, which
   falls back to the dedup count alone when the quota cannot be read. *)
StartRun(r) ==
    /\ pc[r] = "off"
    /\ \E quotaCount \in {Q!Consumed(quota[today]), 0} :
         dailyCount' = [dailyCount EXCEPT ![r] =
             IF quotaCount > SubmittedToday THEN quotaCount ELSE SubmittedToday]
    /\ Goto(r, "idle")
    /\ UNCHANGED <<store, today, locals, outcomes, appCount, history>>

(* The graph hands a job to execution_node.  The search that found the job may
   be arbitrarily old, so nothing in the store constrains it. *)
SelectJob(r, j) ==
    /\ pc[r] = "idle"
    /\ outcomes[r][j] = "none"
    /\ ~CapsReached(r)
    /\ job' = [job EXCEPT ![r] = j]
    /\ Goto(r, "preflight")
    /\ UNCHANGED <<store, today, token, day, ending, quotaReserved, exitRaised,
                   runs, history>>

(* preflight_check and the returns that follow it. *)
Preflight(r) ==
    /\ pc[r] = "preflight"
    /\ \/ /\ A!CanProceed(Doc(r))
          /\ Goto(r, "form")
          /\ UNCHANGED <<locals, outcomes>>
       \/ /\ Doc(r).status = "submission_unknown"
          /\ Finish(r, "needs_manual_review")
       \/ /\ Doc(r).status \in {"submitted", "created", "quota_reserved"}
          /\ Finish(r, "skipped")
       \/ Finish(r, "failed")     \* the read raised
    /\ UNCHANGED <<store, today, appCount, dailyCount, history>>

(* Navigation, form filling and questions end without reaching Submit. *)
FormEnds(r) ==
    /\ pc[r] = "form"
    /\ \/ \E o \in {"skipped", "failed", "needs_manual_review"} : Finish(r, o)
       \/ Pause(r)
    /\ UNCHANGED <<store, today, appCount, dailyCount, history>>

(* LinkedIn shows the job as applied to; the dedup write may fail. *)
AlreadyApplied(r) ==
    /\ pc[r] = "form"
    /\ Finish(r, "skipped")
    /\ seen' \in {seen, [seen EXCEPT ![job[r]].status = "already_applied"]}
    /\ UNCHANGED <<attempts, quota, today, appCount, dailyCount, history>>

(* The form vanished and the page says "application sent": the node reports
   the job submitted without an attempt, a quota slot or a counter. *)
SubmittedTextSeen(r) ==
    /\ pc[r] = "form"
    /\ Finish(r, "submitted")
    /\ UNCHANGED <<store, today, appCount, dailyCount, history>>

(* Bound: every run about to claim still finds an unused attempt id. *)
TokenLeft ==
    Cardinality({r \in Runs : pc[r] \in ClaimPoints}) < Cardinality(Tokens \ used)

(* The form is complete and Submit is enabled. *)
ReachSubmit(r) ==
    /\ pc[r] = "form"
    /\ TokenLeft
    /\ Goto(r, "claim_read")
    /\ UNCHANGED <<store, today, locals, runs, history>>

-----------------------------------------------------------------------------
(* 1. begin_attempt *)

(* A job that could not be claimed; leaving the browser context may raise. *)
NotClaimed(r, status) ==
    \/ Finish(r, IF status = "submission_unknown" THEN "needs_manual_review" ELSE "skipped")
    \/ FailOrPause(r)

ClaimRead(r) ==
    /\ pc[r] = "claim_read"
    /\ \/ /\ Doc(r).status = "absent"
          /\ Goto(r, "claim_insert")
          /\ UNCHANGED <<locals, outcomes>>
       \/ /\ Doc(r).status = "released"
          /\ Goto(r, "claim_reclaim")
          /\ UNCHANGED <<locals, outcomes>>
       \/ /\ ~A!CanProceed(Doc(r))
          /\ NotClaimed(r, Doc(r).status)
       \/ FailOrPause(r)
    /\ UNCHANGED <<store, today, appCount, dailyCount, history>>

(* The claim is written under a fresh attempt id; the id is the run's only if
   the write was acknowledged. *)
ClaimWrite(r, res, t) ==
    /\ used' = used \cup {t}
    /\ attempts' = IF res.applied
                   THEN [attempts EXCEPT ![job[r]] = A!FreshClaim(t, r)]
                   ELSE attempts
    /\ stranded' = IF res.raised THEN stranded \cup {t} ELSE stranded
    /\ UNCHANGED <<clicks, clicked, confirmed>>

Claimed(r, t) ==
    /\ token' = [token EXCEPT ![r] = t]
    /\ Goto(r, "reserve_read")
    /\ UNCHANGED <<job, day, ending, quotaReserved, exitRaised, outcomes>>

(* insert_one under the unique index: any exception, a duplicate key among
   them, is answered by reading the document again. *)
ClaimInsert(r) ==
    /\ pc[r] = "claim_insert"
    /\ \E res \in UpdateResults(Doc(r).status = "absent"), t \in Tokens \ used :
          /\ ClaimWrite(r, res, t)
          /\ IF Acknowledged(res)
             THEN Claimed(r, t)
             ELSE Goto(r, "claim_reread") /\ UNCHANGED <<locals, outcomes>>
    /\ UNCHANGED <<quota, seen, today, appCount, dailyCount>>

(* The conditional update of a released document: an exception leaves
   begin_attempt, an unmatched filter re-reads. *)
ClaimReclaim(r) ==
    /\ pc[r] = "claim_reclaim"
    /\ \E res \in UpdateResults(A!MayReclaim(Doc(r))), t \in Tokens \ used :
          /\ ClaimWrite(r, res, t)
          /\ IF Acknowledged(res) THEN Claimed(r, t)
             ELSE IF res.raised THEN FailOrPause(r)
             ELSE Goto(r, "claim_reread") /\ UNCHANGED <<locals, outcomes>>
    /\ UNCHANGED <<quota, seen, today, appCount, dailyCount>>

ClaimReread(r) ==
    /\ pc[r] = "claim_reread"
    /\ \/ Doc(r).status # "absent" /\ NotClaimed(r, Doc(r).status)
       \/ FailOrPause(r)      \* no document, or the read raised
    /\ UNCHANGED <<store, today, appCount, dailyCount, history>>

-----------------------------------------------------------------------------
(* 2. reserve_quota *)

(* Mutation: the node gives up without the cleanup. *)
BugNoCleanUp(r, outcome) ==
    /\ Goto(r, "idle")
    /\ token' = [token EXCEPT ![r] = NoToken]
    /\ job' = [job EXCEPT ![r] = NoJob]
    /\ UNCHANGED <<ending, quotaReserved, exitRaised>>

(* The quota is not reserved: the claim is given back. *)
NotReserved(r, outcome) ==
    /\ CleanUp(r, outcome, FALSE)
    /\ UNCHANGED <<token, job, quotaReserved, exitRaised>>

Reserved(r) ==
    /\ quotaReserved' = [quotaReserved EXCEPT ![r] = TRUE]
    /\ Goto(r, "quota_state")
    /\ UNCHANGED <<job, token, day, ending, exitRaised>>

(* The cap test, the day document and the first read. *)
ReserveRead(r) ==
    /\ pc[r] = "reserve_read"
    /\ \/ /\ day' = [day EXCEPT ![r] = today]
          /\ IF Q!CapReached(quota[today], r)
             THEN NotReserved(r, "skipped")
             ELSE /\ Goto(r, "reserve_write")
                  /\ UNCHANGED <<job, token, ending, quotaReserved, exitRaised>>
       \/ /\ NotReserved(r, "needs_manual_review")    \* a call raised
          /\ UNCHANGED day
    /\ UNCHANGED <<store, today, runs, history>>

(* The conditional increment of both counters.  After an acknowledged update
   one more read follows, whose failure is handled like the update's. *)
ReserveWrite(r) ==
    /\ pc[r] = "reserve_write"
    /\ \E res \in UpdateResults(Q!MayCharge(DayDoc(r), token[r], r)) :
          /\ quota' = IF res.applied
                      THEN [quota EXCEPT ![day[r]] = Q!Charge(@, token[r], r)]
                      ELSE quota
          /\ IF Acknowledged(res) THEN Reserved(r)
             ELSE /\ Goto(r, IF res.raised THEN "reserve_reread" ELSE "reserve_final")
                  /\ UNCHANGED locals
    /\ UNCHANGED <<attempts, seen, today, runs, history>>

(* One more read: the run's own reservation is a success, anything else is not
   and the read may raise too. *)
ReserveCheck(r, outcome) ==
    /\ \/ /\ Q!OwnsCharged(DayDoc(r), token[r], r)
          /\ Reserved(r)
          /\ UNCHANGED stranded
       \/ /\ ~Q!OwnsCharged(DayDoc(r), token[r], r)
          /\ NotReserved(r, outcome)
          /\ UNCHANGED <<day, stranded>>
       \/ /\ NotReserved(r, "needs_manual_review")
          /\ UNCHANGED day
          /\ stranded' = Stranded(r, TRUE)
    /\ UNCHANGED <<store, today, runs, used, clicks, clicked, confirmed>>

(* Mutation: the update is retried for as long as it raises. *)
BugRetryForever(r) ==
    /\ pc[r] = "reserve_reread"
    /\ Goto(r, "reserve_write")
    /\ UNCHANGED <<store, today, locals, runs, history>>

(* The update raised: without a reservation of its own the call raises too. *)
ReserveReread(r) ==
    /\ pc[r] = "reserve_reread"
    /\ ReserveCheck(r, "needs_manual_review")

(* The update matched nothing: a cap was reached in the meantime. *)
ReserveFinal(r) ==
    /\ pc[r] = "reserve_final"
    /\ ReserveCheck(r, "skipped")

-----------------------------------------------------------------------------
(* 3.-6. the attempt's transitions around the click *)

(* A conditional update of the attempt by its holder, taken before the click:
   unless acknowledged, everything is given back. *)
PreClickUpdate(r, may, status, point) ==
    /\ \E res \in UpdateResults(may) :
          /\ attempts' = IF res.applied
                         THEN [attempts EXCEPT ![job[r]] = A!MoveTo(@, status)]
                         ELSE attempts
          /\ IF Acknowledged(res)
             THEN Goto(r, point) /\ UNCHANGED ending
             ELSE CleanUp(r, "needs_manual_review", TRUE)
    /\ UNCHANGED <<quota, seen, today, job, token, day, quotaReserved, exitRaised,
                   runs, history>>

(* reserve_quota_state *)
ReserveQuotaState(r) ==
    /\ pc[r] = "quota_state"
    /\ PreClickUpdate(r, A!MayReserve(Doc(r), token[r]), "quota_reserved", "mark_unknown")

(* Mutation: Submit is clicked first and recorded afterwards. *)
BugClickUnrecorded(r) ==
    /\ pc[r] = "mark_unknown"
    /\ Goto(r, "click")
    /\ UNCHANGED <<store, today, locals, runs, history>>

(* mark_unknown: the attempt is recorded as possibly submitted before Submit
   is touched. *)
MarkUnknown(r) ==
    /\ pc[r] = "mark_unknown"
    /\ PreClickUpdate(r, A!MayMarkUnknown(Doc(r), token[r]), "submission_unknown", "click")

(* next_btn.click(): may land, may raise, may do both. *)
Click(r) ==
    /\ pc[r] = "click"
    /\ \E landed, raised \in BOOLEAN :
          /\ landed \/ raised
          /\ clicks' = IF landed THEN [clicks EXCEPT ![job[r]] = @ + 1] ELSE clicks
          /\ clicked' = IF landed
                        THEN clicked \cup {[token |-> token[r], job |-> job[r],
                                            run |-> r, day |-> today]}
                        ELSE clicked
          /\ IF raised THEN Pause(r)
             ELSE Goto(r, "confirm") /\ UNCHANGED <<locals, outcomes>>
    /\ UNCHANGED <<store, today, appCount, dailyCount, used, confirmed, stranded>>

(* Mutation: a timeout passes for a success. *)
BugTimeoutConfirms(r) ==
    /\ pc[r] = "confirm"
    /\ Goto(r, "submitted_read")
    /\ UNCHANGED <<store, today, locals, runs, history>>

(* Mutation: a timeout passes for a failure, and everything is given back. *)
BugTimeoutRefunds(r) ==
    /\ pc[r] = "confirm"
    /\ CleanUp(r, "needs_manual_review", TRUE)
    /\ UNCHANGED <<store, today, job, token, day, quotaReserved, exitRaised, runs, history>>

(* Mutation: a timeout is reported as an ordinary failure. *)
BugTimeoutFails(r) ==
    /\ pc[r] = "confirm"
    /\ Finish(r, "failed")
    /\ UNCHANGED <<store, today, appCount, dailyCount, history>>

(* Mutation: the quota is committed before the attempt is submitted. *)
BugCommitFirst(r) ==
    /\ pc[r] = "confirm"
    /\ Goto(r, "commit_read")
    /\ UNCHANGED <<store, today, locals, runs, history>>

(* wait_for_submission_or_safety: the success text, or a barrier, a timeout or
   an exception, which pause the run. *)
AwaitConfirmation(r) ==
    /\ pc[r] = "confirm"
    /\ \/ /\ confirmed' = confirmed \cup {token[r]}
          /\ Goto(r, "submitted_read")
          /\ UNCHANGED <<locals, outcomes>>
       \/ Pause(r) /\ UNCHANGED confirmed
    /\ UNCHANGED <<store, today, appCount, dailyCount, used, clicks, clicked, stranded>>

(* mark_submitted failed: manual review, or a pause when leaving the browser
   context raises as well. *)
NotPersisted(r) == Finish(r, "needs_manual_review") \/ Pause(r)

(* mark_submitted found the transition done, by this attempt or by another. *)
FoundSubmitted(r) ==
    /\ Doc(r).status = "submitted"
    /\ IF Doc(r).token = token[r] THEN Finish(r, "skipped") ELSE NotPersisted(r)

SubmittedRead(r) ==
    /\ pc[r] = "submitted_read"
    /\ \/ FoundSubmitted(r)
       \/ /\ Doc(r).status # "submitted"
          /\ Goto(r, "submitted_write")
          /\ UNCHANGED <<locals, outcomes>>
       \/ NotPersisted(r)
    /\ UNCHANGED <<store, today, appCount, dailyCount, history>>

(* An update that matched nothing is followed by one more read. *)
SubmittedWrite(r) ==
    /\ pc[r] = "submitted_write"
    /\ \E res \in UpdateResults(A!MaySubmit(Doc(r), token[r])) :
          /\ attempts' = IF res.applied
                         THEN [attempts EXCEPT ![job[r]] = A!MoveTo(@, "submitted")]
                         ELSE attempts
          /\ IF Acknowledged(res)
             THEN Goto(r, "commit_read") /\ UNCHANGED <<locals, outcomes>>
             ELSE IF ~res.raised /\ Doc(r).status = "submitted"
             THEN FoundSubmitted(r)
             ELSE NotPersisted(r)
    /\ UNCHANGED <<quota, seen, today, appCount, dailyCount, history>>

-----------------------------------------------------------------------------
(* 7. the secondary writes: their failures become error lines only *)

(* commit_quota reads today's document; the reservation may be in another. *)
CommitRead(r) ==
    /\ pc[r] = "commit_read"
    /\ day' = [day EXCEPT ![r] = today]
    /\ Goto(r, "commit_write") \/ Goto(r, "mark_seen")
    /\ UNCHANGED <<store, today, job, token, ending, quotaReserved, exitRaised,
                   runs, history>>

CommitWrite(r) ==
    /\ pc[r] = "commit_write"
    /\ \E res \in UpdateResults(Q!MayCommit(DayDoc(r), token[r], r)) :
          /\ quota' = IF res.applied
                      THEN [quota EXCEPT ![day[r]] = Q!Commit(@, token[r], r)]
                      ELSE quota
    /\ Goto(r, "mark_seen")
    /\ UNCHANGED <<attempts, seen, today, locals, runs, history>>

(* mark_seen and _applied_update, which counts the application. *)
MarkSeen(r) ==
    /\ pc[r] = "mark_seen"
    /\ seen' \in {seen, [seen EXCEPT ![job[r]] = [status |-> "submitted", applied |-> today]]}
    /\ Finish(r, "submitted")
    /\ appCount' = [appCount EXCEPT ![r] = @ + 1]
    /\ dailyCount' = [dailyCount EXCEPT ![r] = @ + 1]
    /\ UNCHANGED <<attempts, quota, today, history>>

-----------------------------------------------------------------------------
(* _cleanup_pre_click: release_quota, then mark_released.  Each failure turns
   the reported outcome into a manual review and the cleanup goes on. *)

CleanupStep(r, ok, point) ==
    /\ ending' = IF ok THEN ending ELSE [ending EXCEPT ![r] = "needs_manual_review"]
    /\ Goto(r, point)

RefundRead(r) ==
    /\ pc[r] = "refund_read"
    /\ day' = [day EXCEPT ![r] = today]
    /\ LET slot == quota[today].slots[token[r]] IN
       \/ /\ slot = [status |-> "released", run |-> r]
          /\ CleanupStep(r, TRUE, "withdraw_read")
          /\ UNCHANGED stranded
       \/ /\ slot # [status |-> "released", run |-> r]
          /\ CleanupStep(r, TRUE, "refund_write")
          /\ UNCHANGED stranded
       \/ /\ CleanupStep(r, FALSE, "withdraw_read")     \* the read raised
          /\ stranded' = Stranded(r, TRUE)
    /\ UNCHANGED <<store, today, job, token, quotaReserved, exitRaised, runs,
                   used, clicks, clicked, confirmed>>

RefundWrite(r) ==
    /\ pc[r] = "refund_write"
    /\ \E res \in UpdateResults(Q!MayRefund(DayDoc(r), token[r], r)) :
          /\ quota' = IF res.applied
                      THEN [quota EXCEPT ![day[r]] = Q!Refund(@, token[r], r)]
                      ELSE quota
          /\ stranded' = Stranded(r, res.raised)
          /\ CleanupStep(r, Acknowledged(res), "withdraw_read")
    /\ UNCHANGED <<attempts, seen, today, job, token, day, quotaReserved, exitRaised,
                   runs, used, clicks, clicked, confirmed>>

(* The cleanup is over.  Leaving the browser context may raise once: then the
   outer handler cleans up again and reports a manual review. *)
CleanupDone(r, ok) ==
    \/ Finish(r, IF ok THEN ending[r] ELSE "needs_manual_review")
    \/ /\ ~exitRaised[r]
       /\ exitRaised' = [exitRaised EXCEPT ![r] = TRUE]
       /\ CleanUp(r, "needs_manual_review", quotaReserved[r])
       /\ UNCHANGED <<job, token, day, quotaReserved, outcomes>>

WithdrawRead(r) ==
    /\ pc[r] = "withdraw_read"
    /\ \/ /\ Doc(r).status = "released"
          /\ CleanupDone(r, Doc(r).token = token[r])
          /\ UNCHANGED stranded
       \/ /\ Doc(r).status # "released"
          /\ Goto(r, "withdraw_write")
          /\ UNCHANGED <<locals, outcomes, stranded>>
       \/ /\ CleanupDone(r, FALSE)     \* the read raised
          /\ stranded' = Stranded(r, TRUE)
    /\ UNCHANGED <<store, today, appCount, dailyCount, used, clicks, clicked, confirmed>>

WithdrawWrite(r) ==
    /\ pc[r] = "withdraw_write"
    /\ \E res \in UpdateResults(A!MayRelease(Doc(r), token[r])) :
          /\ attempts' = IF res.applied
                         THEN [attempts EXCEPT ![job[r]] = A!MoveTo(@, "released")]
                         ELSE attempts
          /\ stranded' = Stranded(r, res.raised)
          /\ CleanupDone(r, Acknowledged(res))
    /\ UNCHANGED <<quota, seen, today, appCount, dailyCount,
                   used, clicks, clicked, confirmed>>

-----------------------------------------------------------------------------
(* The environment *)

(* The process dies or is cancelled: nothing is cleaned up. *)
Crash(r) ==
    /\ pc[r] \notin RestPoints
    /\ Goto(r, "down")
    /\ stranded' = IF token[r] = NoToken THEN stranded ELSE Stranded(r, TRUE)
    /\ token' = [token EXCEPT ![r] = NoToken]
    /\ day' = [day EXCEPT ![r] = 0]
    /\ ending' = [ending EXCEPT ![r] = "none"]
    /\ quotaReserved' = [quotaReserved EXCEPT ![r] = FALSE]
    /\ exitRaised' = [exitRaised EXCEPT ![r] = FALSE]
    /\ UNCHANGED <<store, today, job, runs, used, clicks, clicked, confirmed>>

(* jobapply --run-id: LangGraph re-enters execution_node with the same job. *)
Resume(r) ==
    /\ pc[r] = "down"
    /\ Goto(r, "preflight")
    /\ UNCHANGED <<store, today, locals, runs, history>>

Midnight ==
    /\ today < LastDay
    /\ today' = today + 1
    /\ UNCHANGED <<store, pc, locals, runs, history>>

(* The steps execution_node takes once it has been given a job. *)
NodeStep(r) ==
    \/ Preflight(r) \/ FormEnds(r) \/ AlreadyApplied(r) \/ SubmittedTextSeen(r)
    \/ ReachSubmit(r)
    \/ ClaimRead(r) \/ ClaimInsert(r) \/ ClaimReclaim(r) \/ ClaimReread(r)
    \/ ReserveRead(r) \/ ReserveWrite(r) \/ ReserveReread(r) \/ ReserveFinal(r)
    \/ ReserveQuotaState(r) \/ MarkUnknown(r) \/ Click(r) \/ AwaitConfirmation(r)
    \/ SubmittedRead(r) \/ SubmittedWrite(r)
    \/ CommitRead(r) \/ CommitWrite(r) \/ MarkSeen(r)
    \/ RefundRead(r) \/ RefundWrite(r) \/ WithdrawRead(r) \/ WithdrawWrite(r)

Next ==
    \/ \E r \in Runs : \/ StartRun(r)
                       \/ \E j \in Jobs : SelectJob(r, j)
                       \/ NodeStep(r)
                       \/ Crash(r)
                       \/ Resume(r)
    \/ Midnight

Spec == Init /\ [][Next]_vars

(* A live process keeps executing its node: every await in it is bounded by a
   driver, browser or Telegram timeout.  Starting, crashing, resuming and
   midnight owe nothing. *)
FairSpec == Spec /\ \A r \in Runs : WF_vars(NodeStep(r))

-----------------------------------------------------------------------------
(* Properties *)

StoreOK ==
    /\ attempts \in [Jobs -> A!AttemptDoc]
    /\ quota \in [Days -> Q!DayDoc]
    /\ seen \in [Jobs -> [status: SeenStatus, applied: Days]]
    /\ today \in Days

LocalsOK ==
    /\ pc \in [Runs -> Points]
    /\ job \in [Runs -> Jobs \cup {NoJob}]
    /\ token \in [Runs -> Tokens \cup {NoToken}]
    /\ day \in [Runs -> Days]
    /\ ending \in [Runs -> Outcomes]
    /\ quotaReserved \in [Runs -> BOOLEAN]
    /\ exitRaised \in [Runs -> BOOLEAN]
    /\ \A r \in Runs : pc[r] \notin {"off", "idle", "stopped"} => job[r] \in Jobs
    /\ \A r \in Runs : pc[r] \in HoldingPoints <=> token[r] # NoToken

RunsOK ==
    /\ outcomes \in [Runs -> [Jobs -> Outcomes]]
    /\ appCount \in [Runs -> Nat]
    /\ dailyCount \in [Runs -> Nat]

HistoryOK ==
    /\ used \subseteq Tokens
    /\ clicks \in [Jobs -> Nat]
    /\ clicked \subseteq [token: Tokens, job: Jobs, run: Runs, day: Days]
    /\ confirmed \subseteq Tokens
    /\ stranded \subseteq Tokens

(* Types, and two facts the node relies on: a run past its first line or waiting
   to be resumed has a job, and it has an attempt id exactly from a successful
   claim until it returns or dies. *)
TypeOK == StoreOK /\ LocalsOK /\ RunsOK /\ HistoryOK

(* Submit is clicked at most once for a job, over all runs, crashes, resumes
   and failed writes: the reason mark_unknown is durable before the click. *)
SubmitAtMostOnce == \A j \in Jobs : clicks[j] <= 1

(* Whatever was clicked is on record, for ever, under the attempt that clicked
   it: the job is submission_unknown or submitted and belongs to that attempt,
   so no later run finds it free. *)
ClickIsOnRecord ==
    \A c \in clicked :
        /\ attempts[c.job].status \in {"submission_unknown", "submitted"}
        /\ attempts[c.job].token = c.token
        /\ attempts[c.job].run = c.run

(* submitted is recorded only for an application that was clicked and that
   LinkedIn confirmed to the attempt on record. *)
SubmittedIsConfirmed ==
    \A j \in Jobs :
        attempts[j].status = "submitted" =>
            /\ attempts[j].token \in confirmed
            /\ \E c \in clicked : c.job = j /\ c.token = attempts[j].token

(* The quota slot of an attempt that clicked is never given back, whatever
   happens to the run afterwards: release_quota is for pre-click failures. *)
ClickKeepsItsSlot ==
    \A c \in clicked : \E d \in Days : Q!OwnsCharged(quota[d], c.token, c.run)

(* The day's counters, which the caps are tested against, equal the number of
   reservations they stand for, for the day and for each session, although
   increments, refunds and commits may be applied without being acknowledged. *)
CountersExact ==
    \A d \in Days :
        /\ quota[d].reserved = Cardinality({t \in Tokens : Q!Charged(quota[d], t)})
        /\ quota[d].submitted =
               Cardinality({t \in Tokens : quota[d].slots[t].status = "committed"})
        /\ \A r \in Runs : quota[d].sessions[r] =
               Cardinality({t \in Tokens : Q!OwnsCharged(quota[d], t, r)})

(* No day holds more live reservations than the daily cap, nor a session more
   than its own, with every run racing for the last slot. *)
WithinCaps ==
    \A d \in Days :
        /\ Cardinality({t \in Tokens : Q!Charged(quota[d], t)}) <= DailyCap
        /\ \A r \in Runs :
               Cardinality({t \in Tokens : Q!OwnsCharged(quota[d], t, r)}) <= SessionCap

(* The caps are kept over counters that are exact, with every run racing for the
   last slot and updates applied without being acknowledged. *)
CapsAreKept == CountersExact /\ WithinCaps

(* A committed quota slot stands for a submitted application of that attempt. *)
CommittedIsSubmitted ==
    \A d \in Days, t \in Tokens :
        quota[d].slots[t].status = "committed" =>
            \E j \in Jobs : attempts[j].status = "submitted" /\ attempts[j].token = t

(* A claim that no run is working on was left behind by a crash, by a claim
   whose answer was lost or by a failed give-back: one failed call anywhere else
   never strands a job. *)
NoOrphanClaim ==
    \A j \in Jobs :
        attempts[j].status \in {"created", "quota_reserved"} =>
            \/ attempts[j].token \in stranded
            \/ \E r \in Runs : token[r] = attempts[j].token /\ job[r] = j

(* A reserved slot of today that neither an attempt past mark_unknown nor a run
   at work accounts for was left behind by a crash or a failed give-back: one
   failed call anywhere else never costs a slot. *)
NoLeakedSlot ==
    \A t \in Tokens :
        quota[today].slots[t].status = "reserved" =>
            \/ t \in stranded
            \/ \E j \in Jobs : A!Matches(attempts[j], t, {"submission_unknown", "submitted"})
            \/ \E r \in Runs : token[r] = t

(* Slots and attempts agree, whatever order the two collections are written in
   and wherever a run fails or dies between two writes. *)
SlotsMatchAttempts == CommittedIsSubmitted /\ NoLeakedSlot

(* The run that clicked Submit never files the job as an ordinary skip or
   failure: it reports submitted or manual review, and says skipped only when
   the record says submitted, failed only when it crashed after the click. *)
ClickIsAccountedFor ==
    \A c \in clicked :
        /\ outcomes[c.run][c.job] = "skipped" => attempts[c.job].status = "submitted"
        /\ outcomes[c.run][c.job] = "failed" => c.token \in stranded

(* What the code's own words promise and a run refutes. *)

(* Consumed capacity counts every submission_unknown attempt
   ("daily_reserved = reserved + unknown + committed"). *)
UnknownIsConsumed ==
    \A j \in Jobs :
        attempts[j].status = "submission_unknown" =>
            \E d \in Days : Q!Charged(quota[d], attempts[j].token)

(* Every change of an attempt is a step of LEGAL_ATTEMPT_TRANSITIONS, and it
   changes hands only when a released job is claimed afresh. *)
LegalTransitions ==
    [][\A j \in Jobs :
          /\ A!LegalStep(attempts[j].status, attempts'[j].status)
          /\ attempts[j].status # "absent" =>
                \/ attempts'[j].token = attempts[j].token
                \/ attempts[j].status = "released" /\ attempts'[j].status = "created"
      ]_attempts

(* execution_node returns, or its process is gone. *)
NodeTerminates ==
    \A r \in Runs : pc[r] \notin RestPoints ~> pc[r] \in RestPoints

(* A claim does not stay pending: it is given back or reaches mark_unknown,
   unless it was stranded. *)
ClaimSettles ==
    \A j \in Jobs, t \in Tokens :
        LET Pending == A!Matches(attempts[j], t, {"created", "quota_reserved"})
        IN  Pending ~> ~Pending \/ t \in stranded

(* A run gets through execution_node and leaves no claim pending behind it. *)
NodeSettles == NodeTerminates /\ ClaimSettles

(* The abstract view: what a job's document and a day's slots amount to. *)
PhaseOf(status) ==
    CASE status \in {"absent", "released"}        -> "free"
      [] status \in {"created", "quota_reserved"} -> "held"
      [] status = "submission_unknown"            -> "armed"
      [] status = "submitted"                     -> "done"

Promise == INSTANCE SubmitOnce WITH
    Budget  <- DailyCap,
    phase   <- [j \in Jobs |-> PhaseOf(attempts[j].status)],
    holder  <- [j \in Jobs |-> IF A!CanProceed(attempts[j])
                               THEN NoToken ELSE attempts[j].token],
    charged <- [d \in Days |-> {t \in Tokens : Q!Charged(quota[d], t)}]

(* The submit boundary implements its promise: with runs that crash, resume and
   race and calls that fail, every step on the two collections and the Submit
   button is a step of SubmitOnce or none. *)
KeepsPromise == Promise!Spec
=============================================================================
