---------------------------- MODULE TelegramChannel ----------------------------
(***************************************************************************)
(* Questions asked over the bot's single chat: the correlations and the    *)
(* getUpdates cursor of TelegramRepository (utils/telegram_storage.py), the *)
(* calls of TelegramClient.send_and_wait_for_reply that ask and wait, and  *)
(* the controller's poll_control_commands_once that competes with them for *)
(* the cursor (utils/telegram.py).  One action is one MongoDB operation or *)
(* one Telegram request.  An exception that no handler catches leaves the  *)
(* call where it is, as a crash does, leases and all (Abandon); one raised *)
(* in the polling loop gives the leases back first (Raise).                *)
(***************************************************************************)
EXTENDS Naturals, Sequences, FiniteSets

CONSTANTS
    Keys,        \* correlation keys
    Callers,     \* callers of send_and_wait_for_reply, in any process
    KeyOf,       \* the key each of them asks under
    Supervised,  \* those in a process in which serve has set the command handler
    Controller,  \* the loop of TelegramControlService.serve
    Nobody,      \* no lease
    Gone,        \* the lease of a call that has died
    Text,        \* a message that refers to no other
    Other,       \* a message or button press that refers to some other message
    Command,     \* a control command
    MaxUpdates   \* bound: what the user sends

ASSUME UpdatesAssumption == MaxUpdates \in Nat
ASSUME ActorsAssumption ==
    {Controller, Nobody, Gone} \cap Callers = {} /\ Cardinality({Controller, Nobody, Gone}) = 3
ASSUME KeysAssumption == KeyOf \in [Callers -> Keys]
ASSUME SupervisedAssumption == Supervised \subseteq Callers
ASSUME KindsAssumption ==
    {Text, Other, Command} \cap Keys = {} /\ Cardinality({Text, Other, Command}) = 3

VARIABLES
    \* telegram_correlations, by key
    status,    \* "absent" before the insert
    inFlight,  \* prompt_in_flight
    sentId,    \* prompt_message_id is recorded
    waiter,    \* lease_id, as the caller that holds it
    reply,     \* reply_update_id, 0 for None
    \* telegram_cursors: the document of this bot and chat
    cursor,    \* last_update_id
    poller,    \* lease_id, as the one that holds it
    \* Telegram
    updates,   \* what the user sent; a button press by the key of its prompt
    prompts,   \* prompts delivered, by key
    promptAt,  \* how many of the updates are older than the prompt
    \* the locals of a call; of the controller too where it has them
    pc,
    known,     \* register_intent returned a prompt_message_id
    last,      \* _last_update_id
    at,        \* the update being processed
    upto,      \* the last update of the batch
    answer,    \* the reply consume_reply returned, 0 for none
    \* history
    obeyed,    \* commands dispatched
    unheard,   \* of the others, those that a process without a handler took up
    misled     \* replies handed to a caller that are none to its question, by key

correlation == <<status, inFlight, sentId, waiter, reply>>
polling == <<cursor, poller>>
chat == <<updates, prompts, promptAt>>
batch == <<last, at, upto>>
commands == <<obeyed, unheard>>
vars == <<correlation, polling, chat, pc, known, batch, answer, commands, misled>>

Actors == Callers \cup {Controller}

Statuses == {"absent", "pending", "replied", "consumed", "timed_out", "prompt_failed",
             "delivery_unknown"}

(* Inside the try block of the polling loop. *)
InLoop == {"renew", "command", "record", "save", "save_reply", "consume"}

Recovering == {"recover_save", "recover_consume"}

Points == InLoop \cup Recovering \cup
    {"idle", "insert", "claim_cached", "cached_consume",
     "recover_poll", "claim", "claim_poll", "mark", "send", "record_sent", "mark_failed",
     "mark_unknown", "read_cursor", "release_poll", "release_waiter", "time_out",
     "late_release", "late_read"}

Goto(a, point) == pc' = [pc EXCEPT ![a] = point]

-----------------------------------------------------------------------------
Init ==
    /\ status = [k \in Keys |-> "absent"]
    /\ inFlight = [k \in Keys |-> FALSE]
    /\ sentId = [k \in Keys |-> FALSE]
    /\ waiter = [k \in Keys |-> Nobody]
    /\ reply = [k \in Keys |-> 0]
    /\ cursor = 0 /\ poller = Nobody
    /\ updates = <<>>
    /\ prompts = [k \in Keys |-> 0]
    /\ promptAt = [k \in Keys |-> 0]
    /\ pc = [a \in Actors |-> "idle"]
    /\ known = [w \in Callers |-> FALSE]
    /\ last = [w \in Callers |-> 0]
    /\ at = [a \in Actors |-> 0]
    /\ upto = [a \in Actors |-> 0]
    /\ answer = [w \in Callers |-> 0]
    /\ obeyed = {} /\ unheard = {}
    /\ misled = [k \in Keys |-> {}]

(* The batch is of no more use. *)
DropBatch(a) ==
    /\ last' = [w \in Callers |-> IF w = a THEN 0 ELSE last[w]]
    /\ at' = [at EXCEPT ![a] = 0]
    /\ upto' = [upto EXCEPT ![a] = 0]

(* On the way out of the loop; the controller is between two polls again. *)
Quit(a) == Goto(a, IF a = Controller THEN "idle" ELSE "release_poll") /\ DropBatch(a)

(* The call is over; its locals are gone. *)
Leave(a) ==
    /\ Goto(a, "idle")
    /\ DropBatch(a)
    /\ known' = [w \in Callers |-> IF w = a THEN FALSE ELSE known[w]]
    /\ answer' = [w \in Callers |-> IF w = a THEN 0 ELSE answer[w]]

(* What the user sent after the prompt, and not to anything else. *)
Answers(k, u) == u > promptAt[k] /\ updates[u] \in {k, Text}

(* What may be recorded as the reply: an answer, or a command where a caller that asks
   the question has no handler to give it to. *)
MayReply(k, u) ==
    \/ Answers(k, u)
    \/ u > promptAt[k] /\ updates[u] = Command /\ \E w \in Callers \ Supervised : KeyOf[w] = k

(* A CorrelationWaitResult; with the reply u, if that is not 0. *)
Return(w, u) ==
    /\ Leave(w)
    /\ misled' = IF u = 0 \/ MayReply(KeyOf[w], u) THEN misled
                 ELSE [misled EXCEPT ![KeyOf[w]] = @ \cup {u}]

(* A step that leaves everything but pc, and what its caller says, alone. *)
Idle == UNCHANGED <<known, batch, answer, commands, misled>>

-----------------------------------------------------------------------------
(* register_intent *)

(* lease_expires_at < now: never of a lease_id of None, at any time of another. *)
MayBeStuck(k) == status[k] = "pending" /\ inFlight[k] /\ waiter[k] # Nobody

(* The call begins with reconcile_expired_correlations, which finds no lease that has
   run out, or some. *)
Reconcile(w) ==
    /\ pc[w] = "idle"
    /\ \E stuck \in SUBSET {k \in Keys : MayBeStuck(k)} :
          /\ status' = [k \in Keys |-> IF k \in stuck THEN "delivery_unknown" ELSE status[k]]
          /\ inFlight' = [k \in Keys |-> inFlight[k] /\ k \notin stuck]
          /\ waiter' = [k \in Keys |-> IF k \in stuck THEN Nobody ELSE waiter[k]]
    /\ Idle
    /\ UNCHANGED <<sentId, reply, polling, chat, pc>>

(* The result of the registration, and what send_and_wait_for_reply does with it:
   a pending question is asked or waited for, one replied to is answered from the
   document, and any other status is returned. *)
Registered(w) ==
    \/ /\ status[KeyOf[w]] \in {"pending", "replied"}
       /\ known' = [known EXCEPT ![w] = sentId[KeyOf[w]]]
       /\ Goto(w, IF status[KeyOf[w]] = "pending" THEN "claim" ELSE "claim_cached")
       /\ UNCHANGED <<batch, answer, misled>>
    \/ /\ status[KeyOf[w]] \notin {"absent", "pending", "replied"}
       /\ Return(w, 0)

(* The prompt may be rendered differently from the stored one, a conflict. *)
Register(w) ==
    /\ pc[w] = "idle"
    /\ \/ /\ status[KeyOf[w]] = "absent"
          /\ Goto(w, "insert")
          /\ UNCHANGED <<known, batch, answer, misled>>
       \/ Registered(w)
       \/ status[KeyOf[w]] # "absent" /\ Return(w, 0)
    /\ UNCHANGED <<correlation, polling, chat, commands>>

(* insert_one under the unique index; an exception is answered by reading. *)
Insert(w) ==
    /\ pc[w] = "insert"
    /\ \/ /\ status[KeyOf[w]] = "absent"
          /\ status' = [status EXCEPT ![KeyOf[w]] = "pending"]
          /\ Goto(w, "claim")
          /\ UNCHANGED <<known, batch, answer, misled>>
       \/ Registered(w) /\ UNCHANGED status
    /\ UNCHANGED <<inFlight, sentId, waiter, reply, polling, chat, commands>>

-----------------------------------------------------------------------------
(* The leases.  Whether one has run out is not a state: once a claim finds that it
   has, the lease is another. *)

Claimable(k) == status[k] \in {"pending", "replied"}

(* Held by another, and not run out. *)
Held(k) == waiter[k] # Nobody

ClaimWaiter(w) ==
    /\ Claimable(KeyOf[w])
    /\ waiter' = [waiter EXCEPT ![KeyOf[w]] = w]

WaiterRefused(w) == ~Claimable(KeyOf[w]) \/ Held(KeyOf[w])

DropWaiter(w) ==
    waiter' = [waiter EXCEPT ![KeyOf[w]] = IF @ = w THEN Nobody ELSE @]

Holds(w) == waiter[KeyOf[w]] = w

ClaimPoll(a) == poller' = a

PollRefused == poller # Nobody

DropPoll(a) == poller' = IF poller = a THEN Nobody ELSE poller

(* save_cursor under the exact lease. *)
SaveCursor(a, u) ==
    /\ poller = a
    /\ cursor' = IF u > cursor THEN u ELSE cursor

-----------------------------------------------------------------------------
(* A reply recorded by an earlier call *)

(* The lease, and the reply_kind of the document, which a reply fixes. *)
ClaimCached(w) ==
    /\ pc[w] = "claim_cached"
    /\ \/ /\ ClaimWaiter(w)
          /\ Goto(w, IF updates[reply[KeyOf[w]]] = KeyOf[w] THEN "recover_poll" ELSE "cached_consume")
       \/ WaiterRefused(w) /\ Goto(w, "claim") /\ UNCHANGED waiter
    /\ Idle
    /\ UNCHANGED <<status, inFlight, sentId, reply, polling, chat>>

MayConsume(w) == status[KeyOf[w]] = "replied" /\ Holds(w)

MarkConsumed(w) ==
    /\ status' = [status EXCEPT ![KeyOf[w]] = "consumed"]
    /\ DropWaiter(w)

CachedConsume(w) ==
    /\ pc[w] = "cached_consume"
    /\ IF MayConsume(w)
       THEN MarkConsumed(w) /\ Return(w, reply[KeyOf[w]])
       ELSE /\ Goto(w, "claim")
            /\ UNCHANGED <<status, waiter, known, batch, answer, misled>>
    /\ UNCHANGED <<inFlight, sentId, reply, polling, chat, commands>>

RecoverPoll(w) ==
    /\ pc[w] = "recover_poll"
    /\ \/ ClaimPoll(w) /\ Goto(w, "recover_save")
       \/ PollRefused /\ Goto(w, "release_waiter") /\ UNCHANGED poller
    /\ Idle
    /\ UNCHANGED <<correlation, cursor, chat>>

RecoverSave(w) ==
    /\ pc[w] = "recover_save"
    /\ \/ SaveCursor(w, reply[KeyOf[w]]) /\ Goto(w, "recover_consume")
       \/ poller # w /\ Goto(w, "release_poll") /\ UNCHANGED cursor
    /\ Idle
    /\ UNCHANGED <<correlation, poller, chat>>

RecoverConsume(w) ==
    /\ pc[w] = "recover_consume"
    /\ \/ /\ MayConsume(w)
          /\ MarkConsumed(w)
          /\ answer' = [answer EXCEPT ![w] = reply[KeyOf[w]]]
       \/ ~MayConsume(w) /\ UNCHANGED <<status, waiter, answer>>
    /\ Goto(w, "release_poll")
    /\ UNCHANGED <<inFlight, sentId, reply, polling, chat, known, batch, commands, misled>>

-----------------------------------------------------------------------------
(* Asking *)

Claim(w) ==
    /\ pc[w] = "claim"
    /\ \/ /\ ClaimWaiter(w)
          /\ Goto(w, "claim_poll")
          /\ UNCHANGED <<known, batch, answer, misled>>
       \/ /\ WaiterRefused(w)
          /\ Return(w, 0)
          /\ UNCHANGED waiter
    /\ UNCHANGED <<status, inFlight, sentId, reply, polling, chat, commands>>

(* One of the attempts took the lease, or the last of them failed. *)
ClaimForQuestion(w) ==
    /\ pc[w] = "claim_poll"
    /\ \/ ClaimPoll(w) /\ Goto(w, IF known[w] THEN "read_cursor" ELSE "mark")
       \/ PollRefused /\ Goto(w, "release_waiter") /\ UNCHANGED poller
    /\ known' = [known EXCEPT ![w] = FALSE]
    /\ UNCHANGED <<correlation, cursor, chat, batch, answer, commands, misled>>

(* Mutation: a prompt in flight does not count. *)
BugMayMark(w) == status[KeyOf[w]] = "pending" /\ Holds(w) /\ ~sentId[KeyOf[w]]

MayMark(w) ==
    /\ status[KeyOf[w]] = "pending" /\ Holds(w)
    /\ ~sentId[KeyOf[w]] /\ ~inFlight[KeyOf[w]]

MarkPromptInFlight(w) ==
    /\ pc[w] = "mark"
    /\ \/ /\ MayMark(w)
          /\ inFlight' = [inFlight EXCEPT ![KeyOf[w]] = TRUE]
          /\ Goto(w, "send")
       \/ ~MayMark(w) /\ Goto(w, "release_poll") /\ UNCHANGED inFlight
    /\ Idle
    /\ UNCHANGED <<status, sentId, waiter, reply, polling, chat>>

(* Mutation: an ambiguous failure counts as a rejection. *)
BugFailures == {"mark_failed"}

(* What an ambiguous failure leads to. *)
Failures == {"mark_unknown"}

(* Delivered, with or without an answer; rejected; or not delivered, as far as
   anyone can tell. *)
Send(w) ==
    /\ pc[w] = "send"
    /\ \/ /\ prompts' = [prompts EXCEPT ![KeyOf[w]] = @ + 1]
          /\ promptAt' = [promptAt EXCEPT ![KeyOf[w]] = Len(updates)]
          /\ \E next \in {"record_sent"} \cup Failures : Goto(w, next)
       \/ /\ \E next \in {"mark_failed"} \cup Failures : Goto(w, next)
          /\ UNCHANGED <<prompts, promptAt>>
    /\ Idle
    /\ UNCHANGED <<correlation, polling, updates>>

MaySettle(w) == status[KeyOf[w]] = "pending" /\ Holds(w) /\ ~sentId[KeyOf[w]]

RecordPromptSent(w) ==
    /\ pc[w] = "record_sent"
    /\ \/ /\ MaySettle(w)
          /\ sentId' = [sentId EXCEPT ![KeyOf[w]] = TRUE]
          /\ inFlight' = [inFlight EXCEPT ![KeyOf[w]] = FALSE]
          /\ Goto(w, "read_cursor")
       \/ ~MaySettle(w) /\ Goto(w, "mark_unknown") /\ UNCHANGED <<sentId, inFlight>>
    /\ Idle
    /\ UNCHANGED <<status, waiter, reply, polling, chat>>

Settle(w, outcome) ==
    /\ \/ /\ MaySettle(w)
          /\ status' = [status EXCEPT ![KeyOf[w]] = outcome]
          /\ inFlight' = [inFlight EXCEPT ![KeyOf[w]] = FALSE]
          /\ DropWaiter(w)
       \/ ~MaySettle(w) /\ UNCHANGED <<status, inFlight, waiter>>
    /\ Goto(w, "release_poll")
    /\ Idle
    /\ UNCHANGED <<sentId, reply, polling, chat>>

MarkPromptFailed(w) == pc[w] = "mark_failed" /\ Settle(w, "prompt_failed")

MarkDeliveryUnknown(w) == pc[w] = "mark_unknown" /\ Settle(w, "delivery_unknown")

-----------------------------------------------------------------------------
(* Polling *)

(* Mutation: the prompt a message refers to is not compared. *)
BugReplyTo(k, u) ==
    updates[u] \in {k, Other} \/ (updates[u] \in {Text, Command} /\ u > promptAt[k])

(* callback_data_is_for_current_prompt and correlated_reply_text, to which a command is
   a text like any other *)
ReplyTo(k, u) == updates[u] = k \/ (updates[u] \in {Text, Command} /\ u > promptAt[k])

(* The controller passes its handler; a call finds it in _control_command_handler, which
   is None in a process that runs no controller. *)
Hears(a) == a = Controller \/ a \in Supervised

(* Mutation: a waiter does not look for commands. *)
BugIsCommand(a, u) == a = Controller /\ updates[u] = Command

IsCommand(a, u) == updates[u] = Command /\ Hears(a)

(* On to update u of a batch that ends at hi. *)
Proceed(a, u, hi) ==
    \/ /\ u > hi
       /\ at' = [at EXCEPT ![a] = 0]
       /\ upto' = [upto EXCEPT ![a] = 0]
       /\ UNCHANGED unheard
       /\ Goto(a, IF a = Controller THEN "idle" ELSE "renew")
    \/ /\ u <= hi
       /\ at' = [at EXCEPT ![a] = u]
       /\ upto' = [upto EXCEPT ![a] = hi]
       /\ unheard' = unheard \cup (IF updates[u] = Command /\ ~Hears(a) THEN {u} \ obeyed ELSE {})
       /\ Goto(a, IF IsCommand(a, u) THEN "command"
                  ELSE IF a # Controller /\ ReplyTo(KeyOf[a], u) THEN "record" ELSE "save")

(* poll_control_commands_once takes the lease.  That it does not try while a
   question of the same process waits for the lease is left out. *)
PollControl ==
    /\ pc[Controller] = "idle"
    /\ ClaimPoll(Controller)
    /\ Goto(Controller, "read_cursor")
    /\ Idle
    /\ UNCHANGED <<correlation, cursor, chat>>

(* Mutation: the offset skips an update. *)
BugOffset(u) == u + 2

Offset(u) == u + 1

(* getUpdates after update u: it reads a log that only grows, so it needs no step of
   its own. *)
Fetch(a, u) == Proceed(a, Offset(u), Len(updates))

(* get_cursor; the controller, which asks once, fetches. *)
ReadCursor(a) ==
    /\ pc[a] = "read_cursor"
    /\ \/ a = Controller /\ Fetch(a, cursor) /\ UNCHANGED last
       \/ /\ a # Controller
          /\ last' = [last EXCEPT ![a] = cursor]
          /\ Goto(a, "renew")
          /\ UNCHANGED <<at, upto, unheard>>
    /\ UNCHANGED <<correlation, polling, chat, known, answer, obeyed, misled>>

(* renew_poll_lease, and the next batch *)
Renew(w) ==
    /\ pc[w] = "renew"
    /\ \/ poller = w /\ Fetch(w, last[w]) /\ UNCHANGED last
       \/ poller # w /\ Quit(w) /\ UNCHANGED unheard
    /\ UNCHANGED <<correlation, polling, chat, known, answer, obeyed, misled>>

DispatchCommand(a) ==
    /\ pc[a] = "command"
    /\ obeyed' = obeyed \cup {at[a]} /\ unheard' = unheard \ {at[a]}
    /\ Goto(a, "save")
    /\ UNCHANGED <<correlation, polling, chat, known, batch, answer, misled>>

Save(a) ==
    /\ pc[a] = "save"
    /\ \/ /\ SaveCursor(a, at[a])
          /\ last' = [w \in Callers |-> IF w = a THEN at[a] ELSE last[w]]
          /\ Proceed(a, at[a] + 1, upto[a])
       \/ poller # a /\ Quit(a) /\ UNCHANGED <<cursor, unheard>>
    /\ UNCHANGED <<correlation, poller, chat, known, answer, obeyed, misled>>

MayRecord(w) ==
    /\ status[KeyOf[w]] = "pending" /\ Holds(w) /\ sentId[KeyOf[w]]
    /\ at[w] > promptAt[KeyOf[w]]

(* record_callback_reply and record_reply: after a press that is not accepted the
   cursor moves on, after a message it does not. *)
Record(w) ==
    /\ pc[w] = "record"
    /\ \/ /\ MayRecord(w)
          /\ status' = [status EXCEPT ![KeyOf[w]] = "replied"]
          /\ reply' = [reply EXCEPT ![KeyOf[w]] = at[w]]
          /\ Goto(w, "save_reply")
          /\ UNCHANGED <<at, upto, unheard>>
       \/ /\ ~MayRecord(w)
          /\ \/ updates[at[w]] = KeyOf[w] /\ Goto(w, "save") /\ UNCHANGED <<at, upto, unheard>>
             \/ updates[at[w]] # KeyOf[w] /\ Proceed(w, at[w] + 1, upto[w])
          /\ UNCHANGED <<status, reply>>
    /\ UNCHANGED <<inFlight, sentId, waiter, polling, chat, known, last, answer, obeyed, misled>>

SaveReply(w) ==
    /\ pc[w] = "save_reply"
    /\ \/ SaveCursor(w, at[w]) /\ Goto(w, "consume") /\ DropBatch(w)
       \/ poller # w /\ Quit(w) /\ UNCHANGED cursor
    /\ UNCHANGED <<correlation, poller, chat, known, answer, commands, misled>>

(* Done, with the answer or with an exception instead of it; or refused. *)
Consume(w) ==
    /\ pc[w] = "consume"
    /\ \/ /\ MayConsume(w)
          /\ MarkConsumed(w)
          /\ \E u \in {0, reply[KeyOf[w]]} : answer' = [answer EXCEPT ![w] = u]
       \/ ~MayConsume(w) /\ UNCHANGED <<status, waiter, answer>>
    /\ Goto(w, "release_poll")
    /\ UNCHANGED <<inFlight, sentId, reply, polling, chat, known, batch, commands, misled>>

-----------------------------------------------------------------------------
(* Ending *)

(* The controller may fail to, and polls again some time. *)
ReleasePoll(a) ==
    /\ \/ a = Controller /\ pc[a] = "idle" /\ UNCHANGED pc
       \/ pc[a] = "release_poll" /\ Goto(a, "release_waiter")
    /\ DropPoll(a)
    /\ Idle
    /\ UNCHANGED <<correlation, cursor, chat>>

ReleaseWaiter(w) ==
    /\ pc[w] = "release_waiter"
    /\ DropWaiter(w)
    /\ Return(w, answer[w])
    /\ UNCHANGED <<status, inFlight, sentId, reply, polling, chat, commands>>

(* The deadline has passed. *)
TimeOutPoll(w) ==
    /\ pc[w] = "renew"
    /\ DropPoll(w)
    /\ Goto(w, "time_out")
    /\ DropBatch(w)
    /\ UNCHANGED <<correlation, cursor, chat, known, answer, commands, misled>>

MarkTimedOut(w) ==
    /\ pc[w] = "time_out"
    /\ \/ /\ status[KeyOf[w]] = "pending" /\ Holds(w)
          /\ status' = [status EXCEPT ![KeyOf[w]] = "timed_out"]
          /\ DropWaiter(w)
          /\ Goto(w, "release_waiter")
       \/ /\ ~(status[KeyOf[w]] = "pending" /\ Holds(w))
          /\ Goto(w, "late_release")
          /\ UNCHANGED <<status, waiter>>
    /\ Idle
    /\ UNCHANGED <<inFlight, sentId, reply, polling, chat>>

LateRelease(w) ==
    /\ pc[w] = "late_release"
    /\ DropWaiter(w)
    /\ Goto(w, "late_read")
    /\ Idle
    /\ UNCHANGED <<status, inFlight, sentId, reply, polling, chat>>

(* Somebody else's reply is returned as well; consumed, it has no text. *)
LateRead(w) ==
    /\ pc[w] = "late_read"
    /\ Return(w, IF status[KeyOf[w]] = "replied" THEN reply[KeyOf[w]] ELSE 0)
    /\ UNCHANGED <<correlation, polling, chat, commands>>

(* The leases are given back on the way out. *)
Raise(a) ==
    /\ pc[a] \in InLoop \cup Recovering \cup {"read_cursor"}
    /\ Quit(a)
    /\ UNCHANGED <<correlation, polling, chat, known, answer, commands, misled>>

(* A call dies, with its run or of an exception.  A controller that does has failed to
   release its lease, if it has one. *)
Abandon(w) ==
    /\ pc[w] # "idle"
    /\ Leave(w)
    /\ waiter' = [k \in Keys |-> IF waiter[k] = w THEN Gone ELSE waiter[k]]
    /\ poller' = IF poller = w THEN Gone ELSE poller
    /\ UNCHANGED <<status, inFlight, sentId, reply, cursor, chat, commands, misled>>

-----------------------------------------------------------------------------
(* There is something to refer to once a prompt was delivered; before that a Text stands
   for all that is no command.  Bound: no two alike, for a press and a message are two
   answers. *)
Sendable ==
    ({Text, Command} \cup UNION {{k, Other} : k \in {j \in Keys : prompts[j] > 0}})
        \ {updates[i] : i \in DOMAIN updates}

(* The user sends a message or presses a button. *)
UserSends ==
    /\ Len(updates) < MaxUpdates
    /\ \E u \in Sendable : updates' = Append(updates, u)
    /\ Idle
    /\ UNCHANGED <<correlation, polling, prompts, promptAt, pc>>

CallerStep(w) ==
    \/ Reconcile(w) \/ Register(w) \/ Insert(w)
    \/ ClaimCached(w) \/ CachedConsume(w)
    \/ RecoverPoll(w) \/ RecoverSave(w) \/ RecoverConsume(w)
    \/ Claim(w) \/ ClaimForQuestion(w)
    \/ MarkPromptInFlight(w) \/ Send(w) \/ RecordPromptSent(w)
    \/ MarkPromptFailed(w) \/ MarkDeliveryUnknown(w)
    \/ Renew(w) \/ Record(w) \/ SaveReply(w) \/ Consume(w)
    \/ ReleaseWaiter(w) \/ TimeOutPoll(w) \/ MarkTimedOut(w)
    \/ LateRelease(w) \/ LateRead(w)

PollStep(a) == ReadCursor(a) \/ DispatchCommand(a) \/ Save(a) \/ ReleasePoll(a)

Next ==
    \/ \E w \in Callers : CallerStep(w) \/ Abandon(w)
    \/ PollControl
    \/ \E a \in Actors : PollStep(a) \/ Raise(a)
    \/ UserSends

Spec == Init /\ [][Next]_vars

-----------------------------------------------------------------------------
(* Properties *)

TypeOK ==
    /\ status \in [Keys -> Statuses]
    /\ inFlight \in [Keys -> BOOLEAN] /\ sentId \in [Keys -> BOOLEAN]
    /\ waiter \in [Keys -> Callers \cup {Nobody, Gone}]
    /\ reply \in [Keys -> 0..MaxUpdates]
    /\ cursor \in 0..MaxUpdates /\ poller \in Actors \cup {Nobody, Gone}
    /\ updates \in Seq(Keys \cup {Text, Other, Command}) /\ Len(updates) <= MaxUpdates
    /\ prompts \in [Keys -> Nat] /\ promptAt \in [Keys -> 0..MaxUpdates]
    /\ pc \in [Actors -> Points]
    /\ known \in [Callers -> BOOLEAN] /\ answer \in [Callers -> 0..MaxUpdates]
    /\ last \in [Callers -> 0..MaxUpdates] /\ at \in [Actors -> 0..MaxUpdates]
    /\ upto \in [Actors -> 0..MaxUpdates]
    /\ obeyed \subseteq 1..MaxUpdates /\ unheard \subseteq 1..MaxUpdates
    /\ misled \in [Keys -> SUBSET (1..MaxUpdates)]

(* A question is asked once: no second prompt is sent, whether the first one is
   known to have arrived, may have, or its sender died (send_and_wait_for_reply). *)
PromptSentOnce == \A k \in Keys : prompts[k] <= 1

(* A prompt said to be rejected was not delivered, and one that is recorded as
   sent, or has come to an end, was. *)
StatusIsTrue ==
    \A k \in Keys :
       /\ status[k] = "prompt_failed" => prompts[k] = 0
       /\ sentId[k] \/ status[k] \in {"replied", "consumed", "timed_out"} => prompts[k] = 1

(* What a caller gets as the answer to its question is one: not older than the
   prompt, not for another prompt, and a command only where a caller that asks has no
   handler to give it to. *)
AnswerIsForItsQuestion == \A k \in Keys : misled[k] = {}

(* The caller holds both leases and waits for the reply. *)
Waiting(w) ==
    /\ pc[w] \in InLoop /\ status[KeyOf[w]] = "pending"
    /\ waiter[KeyOf[w]] = w /\ poller = w

(* While somebody waits for an answer the cursor never passes one that is not
   recorded, so that a crash or a failed write loses no answer. *)
NoAnswerPassedOver ==
    [][cursor' > cursor =>
          \A w \in Callers, u \in (cursor + 1)..cursor' :
             Waiting(w) /\ Waiting(w)' => ~Answers(KeyOf[w], u)]_vars

(* A control command is dispatched before the cursor passes it, whether the controller
   polls or a call of its process: it is lost only to a process without a handler
   (telegram.py:895), such as a plain jobapply run beside the controller, which takes
   the command for an answer or passes it over. *)
CommandsAreObeyed ==
    \A u \in 1..Len(updates) : updates[u] = Command /\ u <= cursor => u \in obeyed \cup unheard

(* A prompt in flight whose lease runs out is reconciled to delivery unknown:
   there is a lease to run out. *)
InFlightHasLease ==
    \A k \in Keys : status[k] = "pending" /\ inFlight[k] => waiter[k] # Nobody
=============================================================================
