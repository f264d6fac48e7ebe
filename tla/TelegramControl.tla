---------------------------- MODULE TelegramControl ----------------------------
(***************************************************************************)
(* TelegramControlService (utils/telegram_control.py) with the workflow    *)
(* runs it starts and stops: the tasks of one asyncio loop.  A command is  *)
(* fetched either by the controller's own poll or by the poll of the run   *)
(* that waits for an answer, and its handler then runs inside that task.   *)
(* One action is the code between two awaits; the leases and the cursor    *)
(* are those of TelegramChannel, which has their finer steps.  A request   *)
(* to Telegram or MongoDB may fail, a cancellation may be replaced by the  *)
(* exception of a cleanup it passes through, and the operator may press    *)
(* Ctrl+C once.                                                            *)
(***************************************************************************)
EXTENDS Integers, Sequences, FiniteSets

CONSTANTS
    MaxCommands,   \* bound: commands the user sends
    MaxFaults      \* bound: failed requests, lost leases and failed cleanups

ASSUME BoundsAssumption == MaxCommands \in Nat /\ MaxFaults \in Nat

(* The first run, one for each /run, one for each /run handled again. *)
MaxRuns == 1 + MaxCommands + MaxFaults

Tasks == 1..MaxRuns
NoTask == 0
Controller == 0
Nobody == -1
Actors == {Controller} \cup Tasks

Commands == {"/run", "/stop", "/status"}     \* "/status" stands for "/report" too

VARIABLES
    \* Telegram and MongoDB
    inbox,          \* the commands sent, in order
    cursor,         \* how many of them are acknowledged
    lease,          \* who holds the poll lease
    \* the tasks
    pc,
    at, upto,       \* the command being handled, the last one fetched
    target,         \* the task stop_workflow captured
    result,         \* how a run ends, decided before its summary
    \* TelegramControlService and the loop
    workflowTask,   \* workflow_task
    lastAnnounced,  \* _last_announced_task
    started,        \* tasks created
    timers,         \* pending call_later(0.2, task.cancel), by task
    \* history
    entered,        \* runs that got past their preflight
    finalised,      \* how often _finalize_run was entered, by run
    stopped,        \* runs a /stop was accepted for
    swallowed,      \* runs that lost a cancellation to a failing cleanup
    told,           \* runs whose end was announced
    interrupted,    \* Ctrl+C was pressed
    overtaken,      \* a lease ran out under a holder that was still at work
    faults

channel == <<inbox, cursor, lease>>
batches == <<at, upto, target>>
service == <<workflowTask, lastAnnounced, started, timers>>
history == <<entered, finalised, stopped, swallowed, told, interrupted, overtaken>>
vars == <<channel, pc, batches, result, service, history, faults>>

Dispatching == {"handle", "reply", "save"}

ControllerPoints ==
    {"greet", "announce", "announcing", "poll", "gather", "closed"} \cup Dispatching

AskingPoints == {"asking", "waiting"} \cup Dispatching

GraphPoints == {"graph"} \cup AskingPoints

RunPoints == {"unborn", "preflight", "flush", "read", "done"} \cup GraphPoints

Results == {"none", "finished", "failed", "cancelled"}

Live(t) == pc[t] \notin {"unborn", "done"}

IsRunning == workflowTask # NoTask /\ pc[workflowTask] # "done"

(* set_control_command_handler(None) is the first thing serve's finally does. *)
HandlerSet == pc[Controller] \notin {"gather", "closed"}

Goto(a, point) == pc' = [pc EXCEPT ![a] = point]

Fault == faults < MaxFaults /\ faults' = faults + 1

-----------------------------------------------------------------------------
Init ==
    /\ inbox = <<>> /\ cursor = 0 /\ lease = Nobody
    /\ pc = [a \in Actors |-> IF a = Controller THEN "greet" ELSE "unborn"]
    /\ at = [a \in Actors |-> 0]
    /\ upto = [a \in Actors |-> 0]
    /\ target = [a \in Actors |-> NoTask]
    /\ result = [t \in Tasks |-> "none"]
    /\ workflowTask = NoTask /\ lastAnnounced = NoTask /\ started = 0
    /\ timers = [t \in Tasks |-> 0]
    /\ entered = {} /\ finalised = [t \in Tasks |-> 0]
    /\ stopped = {} /\ swallowed = {} /\ told = {}
    /\ interrupted = FALSE /\ overtaken = FALSE /\ faults = 0

Send(command) ==
    /\ Len(inbox) < MaxCommands
    /\ inbox' = Append(inbox, command)
    /\ UNCHANGED <<cursor, lease, pc, batches, result, service, history, faults>>

(* asyncio.create_task(self.runner()) *)
CreateTask(a, point) ==
    /\ started < MaxRuns
    /\ started' = started + 1
    /\ workflowTask' = started + 1
    /\ lastAnnounced' = NoTask
    /\ pc' = [pc EXCEPT ![a] = point, ![started + 1] = "preflight"]

-----------------------------------------------------------------------------
(* Cancelling a task *)

(* Mutation: a cancellation leaves the finalisation. *)
BugTolerates(t) == FALSE

(* _read_checkpoint_state tolerates a cancellation and the finalisation goes on. *)
Tolerates(t) == pc[t] = "read"

(* Where a CancelledError takes a run, and what it will end with.  The read of
   the checkpoint eats it; an exception raised by a cleanup on its way (a lease
   release, leaving the browser) takes its place, and the node files that as
   the failure of one job. *)
Hits(t) ==
    CASE pc[t] = "preflight" -> {[point |-> "done", result |-> "cancelled"]}
      [] pc[t] \in GraphPoints \cup {"flush"} ->
             {[point |-> "read", result |-> "cancelled"]}
      [] OTHER -> {[point |-> "done", result |-> result[t]]}

Replacements(t) ==
    CASE pc[t] = "preflight" -> {[point |-> "done", result |-> "failed"]}
      [] pc[t] \in GraphPoints ->
             {[point |-> "graph", result |-> "none"], [point |-> "read", result |-> "failed"]}
      [] OTHER -> {}

(* The cursor when the save of actor a is interrupted: it may have been done. *)
Interrupted(a) ==
    {cursor} \cup (IF pc[a] = "save" /\ lease = a THEN {at[a]} ELSE {})

Drop(S) ==
    /\ at' = [a \in Actors |-> IF a \in S THEN 0 ELSE at[a]]
    /\ upto' = [a \in Actors |-> IF a \in S THEN 0 ELSE upto[a]]
    /\ target' = [a \in Actors |-> IF a \in S THEN NoTask ELSE target[a]]

(* A lease is given back on the way out, unless that fails as well. *)
GiveBack(S) == lease' \in {lease} \cup (IF lease \in S THEN {Nobody} ELSE {})

(* task.cancel() of t, with the controller moved to the given point; the
   actors in S abandon what they do. *)
Cancel(t, point, S) ==
    /\ \/ /\ \E hit \in Hits(t) :
               /\ pc' = [pc EXCEPT ![Controller] = point, ![t] = hit.point]
               /\ result' = [result EXCEPT ![t] = hit.result]
          /\ UNCHANGED <<swallowed, faults>>
       \/ /\ \E hit \in Replacements(t) :
               /\ pc' = [pc EXCEPT ![Controller] = point, ![t] = hit.point]
               /\ result' = [result EXCEPT ![t] = hit.result]
          /\ swallowed' = swallowed \cup {t}
          /\ Fault
    /\ finalised' = IF Tolerates(t) THEN [finalised EXCEPT ![t] = @ + 1] ELSE finalised
    /\ Drop(S \cup {t})
    /\ GiveBack(S \cup {t})
    /\ cursor' \in UNION {Interrupted(a) : a \in S \cup {t}}

(* Mutation: the timer cancels whatever runs when it comes due. *)
BugFireTimer(t) ==
    /\ timers[t] > 0
    /\ timers' = [timers EXCEPT ![t] = @ - 1]
    /\ IF IsRunning
       THEN Cancel(workflowTask, pc[Controller], {})
       ELSE UNCHANGED <<pc, result, finalised, batches, lease, cursor, swallowed, faults>>
    /\ UNCHANGED <<inbox, workflowTask, lastAnnounced, started, entered, stopped, told,
                   interrupted, overtaken>>

(* call_later(0.2, task.cancel) comes due; on a finished task it does nothing. *)
FireTimer(t) ==
    /\ timers[t] > 0
    /\ timers' = [timers EXCEPT ![t] = @ - 1]
    /\ Cancel(t, pc[Controller], {})
    /\ UNCHANGED <<inbox, workflowTask, lastAnnounced, started, entered, stopped, told,
                   interrupted, overtaken>>

(* serve's finally: the handler is withdrawn, a run still at work is cancelled
   and waited for. *)
Finally ==
    /\ IF IsRunning
       THEN Cancel(workflowTask, "gather", {Controller})
       ELSE /\ Goto(Controller, "gather")
            /\ Drop({Controller})
            /\ GiveBack({Controller})
            /\ cursor' \in Interrupted(Controller)
            /\ UNCHANGED <<result, swallowed, finalised, faults>>
    /\ UNCHANGED <<inbox, service, entered, stopped, told, overtaken>>

-----------------------------------------------------------------------------
(* The handler, in the task of actor a *)

(* The rest of the batch is not handled: the controller logs and polls again,
   a run's question fails and with it the job. *)
Abort(a) ==
    /\ Goto(a, IF a = Controller THEN "announce" ELSE "graph")
    /\ Drop({a})
    /\ GiveBack({a})

(* Mutation: /run does not look whether a run is at work. *)
BugHandleRun(a) ==
    /\ inbox[at[a]] = "/run" /\ HandlerSet
    /\ CreateTask(a, "reply")
    /\ UNCHANGED <<target, timers>>

(* start_workflow: the task exists before its message is sent. *)
HandleRun(a) ==
    /\ inbox[at[a]] = "/run" /\ HandlerSet /\ ~IsRunning
    /\ CreateTask(a, "reply")
    /\ UNCHANGED <<target, timers>>

(* stop_workflow captures the task it found running. *)
HandleStop(a) ==
    /\ inbox[at[a]] = "/stop" /\ HandlerSet /\ IsRunning
    /\ target' = [target EXCEPT ![a] = workflowTask]
    /\ Goto(a, "reply")
    /\ UNCHANGED service

(* Everything else is answered only; without a handler not even that. *)
HandleOther(a) ==
    /\ \/ ~HandlerSet
       \/ inbox[at[a]] = "/run" /\ IsRunning
       \/ inbox[at[a]] = "/stop" /\ ~IsRunning
       \/ inbox[at[a]] = "/status"
    /\ Goto(a, IF HandlerSet THEN "reply" ELSE "save")
    /\ UNCHANGED <<target, service>>

Handle(a) ==
    /\ pc[a] = "handle"
    /\ HandleRun(a) \/ HandleStop(a) \/ HandleOther(a)
    /\ UNCHANGED <<channel, at, upto, result, history, faults>>

(* Mutation: the message is best effort, and without it nothing is stopped. *)
BugReply(a) ==
    /\ pc[a] = "reply"
    /\ Goto(a, "save")
    /\ target' = [target EXCEPT ![a] = NoTask]
    /\ \/ /\ target[a] # NoTask
          /\ timers' = [timers EXCEPT ![target[a]] = IF @ < 2 THEN @ + 1 ELSE @]
          /\ stopped' = stopped \cup {target[a]}
          /\ UNCHANGED faults
       \/ /\ Fault \/ (target[a] = NoTask /\ UNCHANGED faults)
          /\ UNCHANGED <<timers, stopped>>
    /\ UNCHANGED <<channel, at, upto, result, workflowTask, lastAnnounced, started, entered,
                   finalised, swallowed, told, interrupted, overtaken>>

(* The message of the handler is sent; a stop then arms its timer.  A third
   pending timer would add nothing to two. *)
Reply(a) ==
    /\ pc[a] = "reply"
    /\ \/ /\ Goto(a, "save")
          /\ target' = [target EXCEPT ![a] = NoTask]
          /\ IF target[a] = NoTask
             THEN UNCHANGED <<timers, stopped>>
             ELSE /\ timers' = [timers EXCEPT ![target[a]] = IF @ < 2 THEN @ + 1 ELSE @]
                  /\ stopped' = stopped \cup {target[a]}
          /\ UNCHANGED <<lease, at, upto, faults>>
       \/ /\ Abort(a)
          /\ Fault
          /\ UNCHANGED <<timers, stopped>>
    /\ UNCHANGED <<inbox, cursor, result, workflowTask, lastAnnounced, started, entered,
                   finalised, swallowed, told, interrupted, overtaken>>

(* save_cursor: refused without the lease. *)
Save(a) ==
    /\ pc[a] = "save"
    /\ \/ /\ lease = a
          /\ cursor' = at[a]
          /\ IF at[a] < upto[a]
             THEN /\ at' = [at EXCEPT ![a] = @ + 1]
                  /\ Goto(a, "handle")
                  /\ UNCHANGED <<lease, upto, target>>
             ELSE /\ Drop({a})
                  /\ IF a = Controller
                     THEN Goto(a, "announce") /\ GiveBack({a})
                     ELSE Goto(a, "waiting") /\ UNCHANGED lease
          /\ UNCHANGED faults
       \/ /\ lease # a
          /\ Abort(a)
          /\ UNCHANGED <<cursor, faults>>
       \/ /\ cursor' \in Interrupted(a)
          /\ Abort(a)
          /\ Fault
    /\ UNCHANGED <<inbox, result, service, history>>

(* getUpdates under the lease; with nothing new the poll is over. *)
Fetch(a) ==
    /\ cursor < Len(inbox)
    /\ at' = [at EXCEPT ![a] = cursor + 1]
    /\ upto' = [upto EXCEPT ![a] = Len(inbox)]
    /\ Goto(a, "handle")

-----------------------------------------------------------------------------
(* serve *)

(* The online message, then the first run. *)
Greet ==
    /\ pc[Controller] = "greet"
    /\ \/ /\ CreateTask(Controller, "announce")
          /\ UNCHANGED <<channel, batches, result, timers, history, faults>>
       \/ /\ Fault
          /\ Goto(Controller, "gather")
          /\ UNCHANGED <<channel, batches, result, service, history>>

(* Mutation: a cancelled run is not a finished one. *)
BugUnannounced ==
    /\ workflowTask # NoTask /\ pc[workflowTask] = "done"
    /\ workflowTask # lastAnnounced /\ result[workflowTask] # "cancelled"

(* A finished task whose end has not been announced. *)
Unannounced ==
    workflowTask # NoTask /\ pc[workflowTask] = "done" /\ workflowTask # lastAnnounced

(* _announce_finished_task up to its message. *)
Announce ==
    /\ pc[Controller] = "announce"
    /\ IF Unannounced
       THEN lastAnnounced' = workflowTask /\ Goto(Controller, "announcing")
       ELSE UNCHANGED lastAnnounced /\ Goto(Controller, "poll")
    /\ UNCHANGED <<channel, batches, result, workflowTask, started, timers, history, faults>>

(* The message is sent outside the try block of serve's loop. *)
Announced ==
    /\ pc[Controller] = "announcing"
    /\ \/ /\ told' = told \cup {workflowTask}
          /\ workflowTask' = NoTask
          /\ Goto(Controller, "poll")
          /\ UNCHANGED faults
       \/ /\ Fault
          /\ Goto(Controller, "gather")
          /\ UNCHANGED <<told, workflowTask>>
    /\ UNCHANGED <<channel, batches, result, lastAnnounced, started, timers, entered,
                   finalised, stopped, swallowed, interrupted, overtaken>>

(* A run that waits for the lease goes first. *)
Asking == \E t \in Tasks : pc[t] \in AskingPoints

Poll ==
    /\ pc[Controller] = "poll"
    /\ \/ /\ ~Asking
          /\ lease = Nobody
          /\ lease' = Controller
          /\ Fetch(Controller)
       \/ /\ Goto(Controller, "announce")
          /\ UNCHANGED <<lease, at, upto>>
    /\ UNCHANGED <<inbox, cursor, target, result, service, history, faults>>

(* Ctrl+C: asyncio.run cancels serve at the await where it stands. *)
Interrupt ==
    /\ pc[Controller] \notin {"handle", "gather", "closed"}
    /\ ~interrupted
    /\ interrupted' = TRUE
    /\ Finally

(* Mutation: the run that was cancelled is not waited for. *)
BugClose ==
    /\ pc[Controller] = "gather"
    /\ Goto(Controller, "closed")
    /\ UNCHANGED <<channel, batches, result, service, history, faults>>

(* gather returned; close_llm_client and DeduplicationStore.close follow. *)
Close ==
    /\ pc[Controller] = "gather"
    /\ ~IsRunning
    /\ Goto(Controller, "closed")
    /\ UNCHANGED <<channel, batches, result, service, history, faults>>

-----------------------------------------------------------------------------
(* A run: run_live and main.run *)

(* run_preflight and the session message; run() is entered after them. *)
Preflight(t) ==
    /\ pc[t] = "preflight"
    /\ \/ /\ Goto(t, "graph")
          /\ entered' = entered \cup {t}
          /\ UNCHANGED result
       \/ /\ Goto(t, "done")
          /\ result' = [result EXCEPT ![t] = "failed"]
          /\ UNCHANGED entered
    /\ UNCHANGED <<channel, batches, service, finalised, stopped, swallowed, told,
                   interrupted, overtaken, faults>>

(* The graph asks a question, ends, or raises. *)
GraphStep(t) ==
    /\ pc[t] = "graph"
    /\ \/ /\ Goto(t, "asking") \/ Goto(t, "flush")
          /\ UNCHANGED result
       \/ /\ Goto(t, "read")
          /\ result' = [result EXCEPT ![t] = "failed"]
    /\ UNCHANGED <<channel, batches, service, history, faults>>

ClaimLease(t) ==
    /\ pc[t] = "asking"
    /\ lease = Nobody
    /\ lease' = t
    /\ Goto(t, "waiting")
    /\ UNCHANGED <<inbox, cursor, batches, result, service, history, faults>>

FetchCommands(t) ==
    /\ pc[t] = "waiting"
    /\ lease = t
    /\ Fetch(t)
    /\ UNCHANGED <<channel, target, result, service, history, faults>>

(* An answer, the deadline or a lost lease. *)
QuestionEnds(t) ==
    /\ pc[t] \in {"asking", "waiting"}
    /\ Goto(t, "graph")
    /\ GiveBack({t})
    /\ UNCHANGED <<inbox, cursor, batches, result, service, history, faults>>

(* The final flush, then _finalize_run, which awaits nothing: the controller
   keeps the shared clients open.  Publishing the summary may fail. *)
Flush(t) ==
    /\ pc[t] = "flush"
    /\ Goto(t, "done")
    /\ \E outcome \in {"finished", "failed"} : result' = [result EXCEPT ![t] = outcome]
    /\ finalised' = [finalised EXCEPT ![t] = @ + 1]
    /\ UNCHANGED <<channel, batches, service, entered, stopped, swallowed, told,
                   interrupted, overtaken, faults>>

(* _read_checkpoint_state, then _finalize_run and what was raised. *)
ReadCheckpoint(t) ==
    /\ pc[t] = "read"
    /\ Goto(t, "done")
    /\ finalised' = [finalised EXCEPT ![t] = @ + 1]
    /\ UNCHANGED <<channel, batches, result, service, entered, stopped, swallowed, told,
                   interrupted, overtaken, faults>>

Holding(a) == pc[a] \in Dispatching \cup {"waiting"}

(* A lease runs out: of a holder that is gone, or of one that is slow. *)
LeaseRunsOut ==
    /\ lease # Nobody
    /\ lease' = Nobody
    /\ overtaken' = (overtaken \/ Holding(lease))
    /\ IF Holding(lease) THEN Fault ELSE UNCHANGED faults
    /\ UNCHANGED <<inbox, cursor, pc, batches, result, service, entered, finalised, stopped,
                   swallowed, told, interrupted>>

-----------------------------------------------------------------------------
Dispatch(a) == Handle(a) \/ Reply(a) \/ Save(a)

ControllerStep ==
    Greet \/ Announce \/ Announced \/ Poll \/ Close \/ Dispatch(Controller)

RunStep(t) ==
    \/ Preflight(t) \/ GraphStep(t) \/ ClaimLease(t) \/ FetchCommands(t) \/ QuestionEnds(t)
    \/ Flush(t) \/ ReadCheckpoint(t) \/ Dispatch(t)

Next ==
    \/ \E command \in Commands : Send(command)
    \/ ControllerStep
    \/ \E t \in Tasks : RunStep(t) \/ FireTimer(t)
    \/ Interrupt
    \/ LeaseRunsOut

Spec == Init /\ [][Next]_vars

(* The loop runs whatever is ready: every request has a timeout, so neither
   serve nor a run stays at an await for ever, and a timer that is due fires.
   The user, Ctrl+C and slow holders of the lease owe nothing. *)
FairSpec ==
    /\ Spec
    /\ WF_vars(ControllerStep)
    /\ WF_vars(\E t \in Tasks : RunStep(t))
    /\ WF_vars(\E t \in Tasks : FireTimer(t))

-----------------------------------------------------------------------------
(* Properties *)

TypeOK ==
    /\ inbox \in Seq(Commands)
    /\ cursor \in Nat
    /\ lease \in Actors \cup {Nobody}
    /\ pc \in [Actors -> ControllerPoints \cup RunPoints]
    /\ pc[Controller] \in ControllerPoints
    /\ \A t \in Tasks : pc[t] \in RunPoints
    /\ at \in [Actors -> Nat]
    /\ upto \in [Actors -> Nat]
    /\ target \in [Actors -> Tasks \cup {NoTask}]
    /\ result \in [Tasks -> Results]
    /\ workflowTask \in Tasks \cup {NoTask}
    /\ lastAnnounced \in Tasks \cup {NoTask}
    /\ started \in 0..MaxRuns
    /\ timers \in [Tasks -> 0..2]
    /\ entered \subseteq Tasks
    /\ finalised \in [Tasks -> Nat]
    /\ stopped \subseteq Tasks
    /\ swallowed \subseteq Tasks
    /\ told \subseteq Tasks \cup {NoTask}
    /\ interrupted \in BOOLEAN /\ overtaken \in BOOLEAN
    /\ faults \in 0..MaxFaults

(* A run that is at work is the one the controller knows, so /stop, /status and
   Ctrl+C reach it, and there is never a second one: although /run is handled
   in the middle of the announcement of the last run's end, before it or twice. *)
LiveRunIsKnown == \A t \in Tasks : Live(t) => t = workflowTask

(* A run is cancelled for its own sake only: a /stop was accepted while it was
   at work, or the operator pressed Ctrl+C.  A stop that comes due late, twice
   or after its run has ended never hits the run that a later /run started. *)
StopHitsItsRun ==
    \A t \in Tasks :
        result[t] = "cancelled" \/ t \in swallowed => t \in stopped \/ interrupted

(* A run that entered run() goes through its finalisation exactly once, however
   many cancellations reach it and wherever: in the graph, in the final flush
   or in the finalisation's own await. *)
FinalisedOnce ==
    \A t \in Tasks : finalised[t] = IF pc[t] = "done" /\ t \in entered THEN 1 ELSE 0

(* The shared clients are closed only when no run is left to use them, and none
   starts afterwards. *)
ClosedAfterRuns == pc[Controller] = "closed" => \A t \in Tasks : ~Live(t)

(* When the last command the user sent is a /stop and it is acknowledged, no
   run stays at work: the request survives a failed message, a failed save that
   has it handled twice, and a hand-over between the two pollers.  Two things
   defeat it: a cleanup that raises while the cancellation passes through it,
   and a lease that runs out under a poller that has fetched a /run. *)
Quiet == inbox # <<>> /\ cursor = Len(inbox) /\ inbox[cursor] = "/stop"

StopIsFinal ==
    Quiet ~> \/ ~Quiet
             \/ \A t \in Tasks : ~Live(t)
             \/ swallowed # {} \/ overtaken

(* The end of a run is announced, unless a new run was started first or the
   controller is going down. *)
Unreported == \E t \in Tasks : t = started /\ pc[t] = "done" /\ t \notin told

EndIsAnnounced == Unreported ~> ~Unreported \/ ~HandlerSet

(* The operator gets what was asked for: a stop takes effect and an end is told. *)
OperatorIsServed == StopIsFinal /\ EndIsAnnounced

(* "the controller remains alive between runs": serve ends only when it is
   interrupted. *)
ControllerStaysAlive == ~HandlerSet => interrupted
=============================================================================
