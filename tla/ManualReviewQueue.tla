--------------------------- MODULE ManualReviewQueue ---------------------------
(***************************************************************************)
(* The durable manual-review queue (utils/manual_review.py): a run queues  *)
(* its needs_manual_review outcomes (execution/outcomes.py), keeps what    *)
(* storage refused in the bounded pending list of its checkpointed state,  *)
(* and retries at three boundaries: on resume, before the summary, and at  *)
(* the end of the run (main.py, nodes/notification.py).  Operators         *)
(* acknowledge and resolve the same documents with `jobapply review`.  One *)
(* action is one MongoDB operation, one node or one step of the flush.     *)
(*                                                                         *)
(* An item stands for its deterministic key (run, job, reason, detail);    *)
(* the reason fixes whether it is ambiguous, so Ambiguous is a constant.   *)
(***************************************************************************)
EXTENDS Naturals, FiniteSets

CONSTANTS
    Items,       \* the keys of the outcomes a run can produce
    Ambiguous,   \* those whose outcome has ambiguous_submission set
    Cap,         \* MAX_PENDING_MANUAL_REVIEW_ITEMS
    Operators,   \* `jobapply review` commands running side by side
    Labels,      \* ResolutionLabel
    NoLabel,
    NoItem

ASSUME ItemsAssumption == IsFiniteSet(Items) /\ NoItem \notin Items
ASSUME AmbiguousAssumption == Ambiguous \subseteq Items
ASSUME CapAssumption == Cap \in Nat \ {0}
ASSUME LabelsAssumption == NoLabel \notin Labels

VARIABLES
    \* manual_review collection, by item_id
    state,       \* "absent" before the insert
    label,       \* resolution_label
    \* the graph state of the running process
    outcomes,    \* application_outcomes that need manual review
    pending,     \* manual_review_queue_pending
    overflow,    \* manual_review_queue_overflow
    over,        \* the notification node has run
    saved,       \* the checkpoint: the same four values
    \* the locals of a run
    pc,
    boundary,    \* which call of flush_manual_review_queue
    caller,      \* who awaits safe_enqueue_manual_review
    item,
    todo,        \* what the current pass of the flush has not looked at
    kept,        \* remaining
    seen,        \* seen_keys
    tried,       \* history: how this flush's last enqueue of an item ended
    desk         \* per operator: where a command is, its arguments and answer

docs == <<state, label>>
memory == <<outcomes, pending, overflow, over>>
flushing == <<boundary, todo, kept, seen>>
run == <<memory, saved, pc, flushing, caller, item, tried>>
vars == <<docs, run, desk>>

Memory == [outcomes |-> outcomes, pending |-> pending, overflow |-> overflow, over |-> over]

Cmd(at, name, i, l, answer) ==
    [at |-> at, name |-> name, item |-> i, label |-> l, answer |-> answer]

NoCmd == Cmd("idle", "none", NoItem, NoLabel, "none")

Init ==
    /\ state = [i \in Items |-> "absent"]
    /\ label = [i \in Items |-> NoLabel]
    /\ outcomes = {} /\ pending = {} /\ overflow = 0 /\ over = FALSE
    /\ saved = Memory
    /\ pc = "idle"
    /\ boundary = "none" /\ caller = "none" /\ item = NoItem
    /\ todo = {} /\ kept = {} /\ seen = {}
    /\ tried = [i \in Items |-> "no"]
    /\ desk = [o \in Operators |-> NoCmd]

-----------------------------------------------------------------------------
(* safe_enqueue_manual_review, and what each caller does with its answer. *)

(* Mutation: the overflow is not counted. *)
BugKeepPendingSilently ==
    /\ pending' = IF Cardinality(pending) >= Cap THEN pending ELSE pending \cup {item}
    /\ UNCHANGED overflow

(* Mutation: the newest entry evicts an older one. *)
BugKeepPendingEvicts ==
    /\ \E old \in pending \cup {item} :
          pending' = (IF Cardinality(pending) >= Cap THEN pending \ {old} ELSE pending)
                     \cup {item}
    /\ overflow' = IF Cardinality(pending) >= Cap THEN overflow + 1 ELSE overflow

(* _pending_state_update: a full list keeps what it has. *)
KeepPending ==
    IF Cardinality(pending) >= Cap
    THEN /\ overflow' = overflow + 1
         /\ UNCHANGED pending
    ELSE /\ pending' = pending \cup {item}
         /\ UNCHANGED overflow

(* manual_review_update: the outcome and its accounting are one state update. *)
NodeEnds(ok) ==
    /\ outcomes' = outcomes \cup {item}
    /\ IF ok THEN UNCHANGED <<pending, overflow>> ELSE KeepPending
    /\ pc' = "idle"
    /\ UNCHANGED <<over, flushing, tried>>

FlushGoesOn(ok) ==
    /\ pc' = caller
    /\ kept' = IF caller = "pending" /\ ~ok THEN kept \cup {item} ELSE kept
    /\ seen' = IF caller = "pending" /\ ok THEN seen \cup {item}
               ELSE IF caller = "rebuild" /\ ~ok THEN seen \ {item} ELSE seen
    /\ tried' = [tried EXCEPT ![item] = IF ok THEN "landed" ELSE "failed"]
    /\ UNCHANGED <<memory, boundary, todo>>

Enqueued(ok) ==
    /\ IF caller = "node" THEN NodeEnds(ok) ELSE FlushGoesOn(ok)
    /\ item' = NoItem
    /\ caller' = "none"
    /\ UNCHANGED saved

(* Mutation: an upsert instead of an insert. *)
BugEnqueue ==
    /\ pc = "enqueue"
    /\ state' = [state EXCEPT ![item] = "open"]
    /\ Enqueued(TRUE)
    /\ UNCHANGED <<label, desk>>

(* enqueue: insert_one under the unique index; an exception, be it a duplicate
   key, an outage or a lost answer, is answered by reading the item, which may
   raise as well.  Nobody but this run inserts its items, so both are one step. *)
Enqueue ==
    /\ pc = "enqueue"
    /\ \/ /\ state[item] = "absent"
          /\ state' = [state EXCEPT ![item] = "open"]
          /\ \E ok \in BOOLEAN : Enqueued(ok)
       \/ /\ UNCHANGED state
          /\ \E ok \in {FALSE, state[item] # "absent"} : Enqueued(ok)
    /\ UNCHANGED <<label, desk>>

(* A tail node of the graph builds a needs_manual_review outcome. *)
NeedsReview(i) ==
    /\ pc = "idle" /\ ~over
    /\ i \notin outcomes
    /\ pc' = "enqueue"
    /\ item' = i
    /\ caller' = "node"
    /\ UNCHANGED <<docs, memory, saved, flushing, tried, desk>>

-----------------------------------------------------------------------------
(* flush_manual_review_queue *)

FirstOf(entries) ==
    {part \in SUBSET entries :
        Cardinality(part) = IF Cardinality(entries) > Cap THEN Cap ELSE Cardinality(entries)}

StartFlush(where) ==
    /\ boundary' = where
    /\ todo' \in FirstOf(pending)
    /\ kept' = {}
    /\ seen' = {}
    /\ tried' = [i \in Items |-> "no"]
    /\ pc' = "pending"

(* notification_node flushes before it composes the summary. *)
Notify ==
    /\ pc = "idle" /\ ~over
    /\ StartFlush("notify")
    /\ UNCHANGED <<docs, memory, saved, caller, item, desk>>

(* ainvoke has returned, its checkpoints written. *)
Finish ==
    /\ pc = "idle" /\ over /\ saved.over
    /\ StartFlush("final")
    /\ UNCHANGED <<docs, memory, saved, caller, item, desk>>

Try(i) ==
    /\ todo' = todo \ {i}
    /\ item' = i
    /\ caller' = pc
    /\ pc' = "enqueue"
    /\ UNCHANGED <<docs, memory, saved, boundary, kept, seen, tried, desk>>

FlushPending ==
    /\ pc = "pending"
    /\ \E i \in todo : Try(i)

(* Mutation: only the pending entries are retried. *)
BugReconstruct ==
    /\ pc = "pending" /\ todo = {}
    /\ pc' = "rebuild"
    /\ UNCHANGED <<docs, memory, saved, flushing, caller, item, tried, desk>>

(* The second pass goes over every authoritative outcome. *)
Reconstruct ==
    /\ pc = "pending" /\ todo = {}
    /\ pc' = "rebuild"
    /\ todo' = outcomes
    /\ UNCHANGED <<docs, memory, saved, boundary, kept, seen, caller, item, tried, desk>>

Rebuild ==
    /\ pc = "rebuild"
    /\ \E i \in todo \ seen : Try(i)

Flushed == pc = "rebuild" /\ todo \ seen = {}

Rest ==
    /\ boundary' = "none"
    /\ todo' = {} /\ kept' = {} /\ seen' = {}
    /\ tried' = [i \in Items |-> "no"]

NotificationEnds ==
    /\ Flushed /\ boundary = "notify"
    /\ pending' = kept
    /\ over' = TRUE
    /\ pc' = "idle"
    /\ Rest
    /\ UNCHANGED <<docs, outcomes, overflow, saved, caller, item, desk>>

(* aupdate_state; a run that was complete goes on with the values it read. *)
ResumeEnds ==
    /\ Flushed /\ boundary = "resume"
    /\ saved' = [saved EXCEPT !.pending = kept]
    /\ pending' = IF over THEN pending ELSE kept
    /\ pc' = "idle"
    /\ Rest
    /\ UNCHANGED <<docs, outcomes, overflow, over, caller, item, desk>>

(* The final flush only corrects the state the summary is built from. *)
RunEnds ==
    /\ Flushed /\ boundary = "final"
    /\ pending' = kept
    /\ pc' = "ended"
    /\ Rest
    /\ UNCHANGED <<docs, outcomes, overflow, over, saved, caller, item, desk>>

-----------------------------------------------------------------------------
(* LangGraph writes checkpoints behind the nodes; a process stops anywhere, by a
   crash, an interrupt, an override that could not be persisted or its end. *)

Checkpoint ==
    /\ ~saved.over
    /\ saved # Memory
    /\ saved' = Memory
    /\ UNCHANGED <<docs, memory, pc, flushing, caller, item, tried, desk>>

Stop ==
    /\ pc # "down"
    /\ pc' = "down"
    /\ outcomes' = saved.outcomes
    /\ pending' = saved.pending
    /\ overflow' = saved.overflow
    /\ over' = saved.over
    /\ caller' = "none" /\ item' = NoItem
    /\ Rest
    /\ UNCHANGED <<docs, saved, desk>>

Resume ==
    /\ pc = "down"
    /\ StartFlush("resume")
    /\ UNCHANGED <<docs, memory, saved, caller, item, desk>>

-----------------------------------------------------------------------------
(* `jobapply review acknowledge` and `resolve`.  A storage error, or an answer
   lost after the operation, ends a command with "error".  A command stays on
   record as long as its answer says something of the item. *)

Continue(o, at, name, i, l) == desk' = [desk EXCEPT ![o] = Cmd(at, name, i, l, "none")]

Answer(o, name, i, l, answer) ==
    desk' = [desk EXCEPT ![o] = IF answer \in {"changed", "no-op"}
                                THEN Cmd("idle", name, i, l, answer) ELSE NoCmd]

(* find_one_and_update under the exact prior state. *)
Acknowledge(o, i) ==
    /\ desk[o].at = "idle"
    /\ \/ /\ state[i] = "open"
          /\ state' = [state EXCEPT ![i] = "acknowledged"]
          /\ \E answer \in {"changed", "error"} : Answer(o, "acknowledge", i, NoLabel, answer)
       \/ /\ UNCHANGED state
          /\ \/ state[i] # "open" /\ Continue(o, "reread", "acknowledge", i, NoLabel)
             \/ Answer(o, "acknowledge", i, NoLabel, "error")
    /\ UNCHANGED <<label, run>>

(* same_label: what an operator hears of an item that is resolved already. *)
AlreadyResolved(i, l) ==
    IF l = NoLabel \/ label[i] = NoLabel \/ label[i] = l THEN "no-op" ELSE "conflict"

(* Mutation: the flag is not looked at. *)
BugNeedsLabel(i, l) == FALSE

NeedsLabel(i, l) == i \in Ambiguous /\ l = NoLabel

(* resolve reads the item first. *)
Resolve(o, i, l) ==
    /\ desk[o].at = "idle"
    /\ \/ state[i] = "absent" /\ Answer(o, "resolve", i, l, "not_found")
       \/ state[i] = "resolved" /\ Answer(o, "resolve", i, l, AlreadyResolved(i, l))
       \/ /\ state[i] \in {"open", "acknowledged"}
          /\ IF NeedsLabel(i, l)
             THEN Answer(o, "resolve", i, l, "conflict")
             ELSE Continue(o, "cas", "resolve", i, l)
       \/ Answer(o, "resolve", i, l, "error")
    /\ UNCHANGED <<docs, run>>

(* Mutation: the filter asks for the item only. *)
BugResolvable(i) == state[i] # "absent"

(* The filter of its find_one_and_update. *)
Resolvable(i) == state[i] \in {"open", "acknowledged"}

ResolveCas(o) ==
    LET i == desk[o].item
        l == desk[o].label
    IN /\ desk[o].at = "cas"
       /\ \/ /\ Resolvable(i)
             /\ state' = [state EXCEPT ![i] = "resolved"]
             /\ label' = [label EXCEPT ![i] = IF l = NoLabel THEN @ ELSE l]
             /\ \E answer \in {"changed", "error"} : Answer(o, "resolve", i, l, answer)
          \/ /\ UNCHANGED docs
             /\ \/ ~Resolvable(i) /\ Continue(o, "reread", "resolve", i, l)
                \/ Answer(o, "resolve", i, l, "error")
       /\ UNCHANGED run

(* _transition_rejection, and resolve's reading after a lost race. *)
Rejection(name, i, l) ==
    CASE state[i] = "absent" -> "not_found"
      [] state[i] = "open" -> "conflict"
      [] state[i] = "acknowledged" -> IF name = "acknowledge" THEN "already" ELSE "conflict"
      [] state[i] = "resolved" -> IF name = "acknowledge" THEN "already" ELSE AlreadyResolved(i, l)

Reject(o) ==
    LET c == desk[o] IN
    /\ c.at = "reread"
    /\ \E answer \in {Rejection(c.name, c.item, c.label), "error"} :
          Answer(o, c.name, c.item, c.label, answer)
    /\ UNCHANGED <<docs, run>>

-----------------------------------------------------------------------------
Run ==
    \/ Enqueue \/ \E i \in Items : NeedsReview(i)
    \/ Notify \/ Finish \/ FlushPending \/ Reconstruct \/ Rebuild
    \/ NotificationEnds \/ ResumeEnds \/ RunEnds
    \/ Checkpoint \/ Stop \/ Resume

Operator(o) ==
    \/ \E i \in Items : Acknowledge(o, i) \/ \E l \in Labels \cup {NoLabel} : Resolve(o, i, l)
    \/ ResolveCas(o) \/ Reject(o)

Next == Run \/ \E o \in Operators : Operator(o)

Spec == Init /\ [][Next]_vars

-----------------------------------------------------------------------------
States == {"absent", "open", "acknowledged", "resolved"}

Commands == [at : {"idle", "cas", "reread"}, name : {"none", "acknowledge", "resolve"},
             item : Items \cup {NoItem}, label : Labels \cup {NoLabel},
             answer : {"none", "changed", "no-op"}]

(* Every variable keeps its type, and the pending list its bound: the cut of a
   flush to MAX_PENDING_MANUAL_REVIEW_ITEMS never drops an entry. *)
TypeOK ==
    /\ state \in [Items -> States]
    /\ label \in [Items -> Labels \cup {NoLabel}]
    /\ outcomes \in SUBSET Items
    /\ pending \in SUBSET Items /\ Cardinality(pending) <= Cap
    /\ overflow \in Nat
    /\ over \in BOOLEAN
    /\ saved \in [outcomes : SUBSET Items, pending : SUBSET Items, overflow : Nat, over : BOOLEAN]
    /\ pc \in {"idle", "enqueue", "pending", "rebuild", "ended", "down"}
    /\ boundary \in {"none", "notify", "resume", "final"}
    /\ caller \in {"none", "node", "pending", "rebuild"}
    /\ item \in Items \cup {NoItem}
    /\ todo \in SUBSET Items /\ kept \in SUBSET Items /\ seen \in SUBSET Items
    /\ tried \in [Items -> {"no", "landed", "failed"}]
    /\ desk \in [Operators -> Commands]

(* No outcome goes missing silently: the outcomes that have neither a document
   nor a pending entry are at most as many as the overflow counter reports,
   through refused writes, lost answers, lagging checkpoints and restarts
   (_pending_state_update, flush_manual_review_queue). *)
Unqueued == {i \in outcomes : state[i] = "absent"}

GapsAreCounted == Cardinality(Unqueued \ pending) <= overflow

(* A flush that has gone through both passes has queued every outcome of the
   run, the overflowed ones included, except those whose write failed in this
   very flush (flush_manual_review_queue, "the real recovery path"). *)
FlushReachesAll ==
    Flushed => \A i \in outcomes : state[i] # "absent" \/ tried[i] = "failed"

(* An entry leaves the pending list only once its item has a document, or when
   a restart takes back the outcome it stood for (no entry is ever evicted). *)
PendingKeptUntilQueued ==
    [][\A i \in pending \ pending' : state'[i] # "absent" \/ i \notin outcomes']_vars

(* Operators' work is never undone: an item only moves forward and the label it
   was resolved with stays, whatever replays of its outcome are still to come
   and whichever commands race for it (enqueue, acknowledge, resolve). *)
Rank == [s \in States |->
    CASE s = "absent" -> 0 [] s = "open" -> 1 [] s = "acknowledged" -> 2 [] s = "resolved" -> 3]

ResolutionIsFinal ==
    [][\A i \in Items : /\ Rank[state[i]] <= Rank[state'[i]]
                        /\ state[i] = "resolved" => label'[i] = label[i]]_vars

(* An ambiguous submission is never resolved without saying what became of it,
   even by a command that read the item before others changed it (resolve). *)
AmbiguousIsLabelled ==
    \A i \in Ambiguous : state[i] = "resolved" => label[i] # NoLabel

(* What a command reports is so and stays so: one "changed" per transition, the
   resolution told is the one stored, and a no-op resolve contradicts no label
   (acknowledge, resolve and the answers of review_cli.py). *)
Told(o, name, answer) == desk[o].name = name /\ desk[o].answer = answer

RepliesAreTrue ==
    \A o \in Operators :
        LET i == desk[o].item
            l == desk[o].label
        IN /\ Told(o, "resolve", "changed") => state[i] = "resolved" /\ label[i] = l
           /\ Told(o, "acknowledge", "changed") => state[i] \in {"acknowledged", "resolved"}
           /\ Told(o, "resolve", "no-op") =>
                 state[i] = "resolved" /\ (NoLabel \in {l, label[i]} \/ label[i] = l)
           /\ \A p \in Operators \ {o}, name \in {"acknowledge", "resolve"} :
                 Told(o, name, "changed") /\ Told(p, name, "changed") => i # desk[p].item
=============================================================================
