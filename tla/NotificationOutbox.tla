-------------------------- MODULE NotificationOutbox --------------------------
(***************************************************************************)
(* The durable notification outbox: NotificationOutboxRepository           *)
(* (utils/telegram_storage.py) and its only user, TelegramClient's         *)
(* enqueue_and_deliver and drain_outbox (utils/telegram.py).  Runs enqueue *)
(* under deterministic keys and each call drains whatever is due, its own  *)
(* record or another run's.  One action is one MongoDB operation or one    *)
(* Telegram request.  An exception the code does not handle leaves the     *)
(* call where it is, exactly as a crash of the process does (Abandon); it  *)
(* may hit before or after any operation took effect.                      *)
(***************************************************************************)
EXTENDS Naturals, Sequences, FiniteSets

CONSTANTS
    Keys,         \* idempotency keys
    Workers,      \* calls of enqueue_and_deliver, in any process
    NChunks,      \* chunks of a payload
    MaxAttempts,  \* outbox_max_attempts
    NoKey,
    NoClaim

ASSUME ChunksAssumption == NChunks \in Nat \ {0}
ASSUME AttemptsAssumption == MaxAttempts \in Nat \ {0}
ASSUME SentinelAssumption == NoKey \notin Keys

Chunks == 1..NChunks

VARIABLES
    \* notification_outbox, by key
    status,     \* "absent" before the insert
    lease,      \* lease_id, 0 for None
    expired,    \* lease_expires_at is in the past
    due,        \* next_attempt_at is not in the future
    tries,      \* attempts
    sent,       \* chunks with sent = True
    inFlight,   \* chunks with in_flight = True
    \* the locals of a call
    pc,
    key,        \* idempotency_key of the call
    todo,       \* candidates still to be claimed
    batch,      \* claimed records still to be sent
    cur,        \* the record being sent
    chunk,      \* the chunk being sent
    \* history
    issued,     \* lease ids handed out, by key
    delivered,  \* the chunks Telegram delivered, in order, by key
    told        \* keys a caller was told were delivered

queue == <<status, lease, expired, due, tries, sent, inFlight>>
locals == <<pc, key, todo, batch, cur, chunk>>
vars == <<queue, locals, issued, delivered, told>>

Statuses == {"absent", "pending", "sending", "sent", "delivery_unknown", "failed"}

Terminal == {"sent", "delivery_unknown", "failed"}

(* What claim_due_records returns of a record: a copy, used while the document
   may move on. *)
Claims == [key: Keys, lease: Nat, tries: Nat, sent: SUBSET Chunks]

Points == {"idle", "enqueue_read", "enqueue_insert", "enqueue_reread", "reconcile",
           "find", "claim", "next", "flight", "send", "chunk_sent", "record_sent",
           "reject", "unknown", "report"}

Goto(w, point) == pc' = [pc EXCEPT ![w] = point]

-----------------------------------------------------------------------------
Init ==
    /\ status = [k \in Keys |-> "absent"]
    /\ lease = [k \in Keys |-> 0]
    /\ expired = [k \in Keys |-> FALSE]
    /\ due = [k \in Keys |-> FALSE]
    /\ tries = [k \in Keys |-> 0]
    /\ sent = [k \in Keys |-> {}]
    /\ inFlight = [k \in Keys |-> {}]
    /\ pc = [w \in Workers |-> "idle"]
    /\ key = [w \in Workers |-> NoKey]
    /\ todo = [w \in Workers |-> {}]
    /\ batch = [w \in Workers |-> {}]
    /\ cur = [w \in Workers |-> NoClaim]
    /\ chunk = [w \in Workers |-> 0]
    /\ issued = [k \in Keys |-> 0]
    /\ delivered = [k \in Keys |-> <<>>]
    /\ told = {}

(* The call is over; its locals are gone. *)
Leave(w) ==
    /\ Goto(w, "idle")
    /\ key' = [key EXCEPT ![w] = NoKey]
    /\ todo' = [todo EXCEPT ![w] = {}]
    /\ batch' = [batch EXCEPT ![w] = {}]
    /\ cur' = [cur EXCEPT ![w] = NoClaim]
    /\ chunk' = [chunk EXCEPT ![w] = 0]

-----------------------------------------------------------------------------
(* enqueue_notification.  A payload that differs from the stored one changes
   only the reason it returns, which enqueue_and_deliver does not look at. *)

Call(w, k) ==
    /\ pc[w] = "idle"
    /\ key' = [key EXCEPT ![w] = k]
    /\ Goto(w, "enqueue_read")
    /\ UNCHANGED <<queue, todo, batch, cur, chunk, issued, delivered, told>>

EnqueueRead(w) ==
    /\ pc[w] = "enqueue_read"
    /\ Goto(w, IF status[key[w]] = "absent" THEN "enqueue_insert" ELSE "reconcile")
    /\ UNCHANGED <<queue, key, todo, batch, cur, chunk, issued, delivered, told>>

(* insert_one under the unique index; any exception, a duplicate key among
   them, is answered by reading the record again. *)
EnqueueInsert(w) ==
    /\ pc[w] = "enqueue_insert"
    /\ \/ /\ status[key[w]] = "absent"
          /\ status' = [status EXCEPT ![key[w]] = "pending"]
          /\ due' = [due EXCEPT ![key[w]] = TRUE]
          /\ \E next \in {"reconcile", "enqueue_reread"} : Goto(w, next)
       \/ /\ UNCHANGED <<status, due>>
          /\ Goto(w, "enqueue_reread")
    /\ UNCHANGED <<lease, expired, tries, sent, inFlight, key, todo, batch, cur, chunk,
                   issued, delivered, told>>

EnqueueReread(w) ==
    /\ pc[w] = "enqueue_reread"
    /\ IF status[key[w]] = "absent"
       THEN Leave(w)
       ELSE Goto(w, "reconcile") /\ UNCHANGED <<key, todo, batch, cur, chunk>>
    /\ UNCHANGED <<queue, issued, delivered, told>>

-----------------------------------------------------------------------------
(* claim_due_records *)

Lapsed(k) == status[k] = "sending" /\ expired[k]

(* Mutation: a record whose lease ran out goes back to the queue. *)
BugReconciled == "pending"

Reconciled == "delivery_unknown"

(* reconcile_expired_sending_records: update_many is atomic per record only, so
   it may stop after any of them. *)
Reconcile(w) ==
    /\ pc[w] = "reconcile"
    /\ \E done \in SUBSET {k \in Keys : Lapsed(k)} :
          /\ status' = [k \in Keys |-> IF k \in done THEN Reconciled ELSE status[k]]
          /\ lease' = [k \in Keys |-> IF k \in done THEN 0 ELSE lease[k]]
          /\ expired' = [k \in Keys |-> k \notin done /\ expired[k]]
          /\ IF \A k \in Keys : Lapsed(k) => k \in done
             THEN Goto(w, "find") /\ UNCHANGED <<key, todo, batch, cur, chunk>>
             ELSE Leave(w)
    /\ UNCHANGED <<due, tries, sent, inFlight, issued, delivered, told>>

MayClaim(k) == status[k] = "pending" /\ lease[k] = 0 /\ due[k]

FindDue(w) ==
    /\ pc[w] = "find"
    /\ todo' = [todo EXCEPT ![w] = {k \in Keys : MayClaim(k)}]
    /\ Goto(w, "claim")
    /\ UNCHANGED <<queue, key, batch, cur, chunk, issued, delivered, told>>

(* find_one_and_update, candidate by candidate; each claim has a new lease id. *)
Claim(w) ==
    /\ pc[w] = "claim"
    /\ \E k \in todo[w] :
          /\ todo' = [todo EXCEPT ![w] = @ \ {k}]
          /\ IF MayClaim(k)
             THEN /\ status' = [status EXCEPT ![k] = "sending"]
                  /\ lease' = [lease EXCEPT ![k] = issued[k] + 1]
                  /\ issued' = [issued EXCEPT ![k] = @ + 1]
                  /\ batch' = [batch EXCEPT ![w] = @ \cup
                         {[key |-> k, lease |-> issued[k] + 1,
                           tries |-> tries[k], sent |-> sent[k]]}]
             ELSE UNCHANGED <<status, lease, issued, batch>>
    /\ UNCHANGED <<expired, due, tries, sent, inFlight, pc, key, cur, chunk, delivered, told>>

Claimed(w) ==
    /\ pc[w] = "claim"
    /\ todo[w] = {}
    /\ Goto(w, "next")
    /\ UNCHANGED <<queue, key, todo, batch, cur, chunk, issued, delivered, told>>

-----------------------------------------------------------------------------
(* drain_outbox: the claimed records one after the other, chunk by chunk *)

(* The record of the claim is still this call's to change. *)
Holds(c) == status[c.key] = "sending" /\ lease[c.key] = c.lease

(* The record is not touched any further by this call. *)
Dismiss(w) ==
    /\ Goto(w, "next")
    /\ cur' = [cur EXCEPT ![w] = NoClaim]
    /\ chunk' = [chunk EXCEPT ![w] = 0]

(* The first chunk that the claim does not know to be sent, if any. *)
Advance(w, c) ==
    /\ cur' = [cur EXCEPT ![w] = c]
    /\ \/ /\ c.sent = Chunks
          /\ chunk' = [chunk EXCEPT ![w] = 0]
          /\ Goto(w, "record_sent")
       \/ \E i \in Chunks \ c.sent :
            /\ \A j \in Chunks \ c.sent : i <= j
            /\ chunk' = [chunk EXCEPT ![w] = i]
            /\ Goto(w, "flight")

NextRecord(w) ==
    /\ pc[w] = "next"
    /\ \/ \E c \in batch[w] :
            /\ batch' = [batch EXCEPT ![w] = @ \ {c}]
            /\ Advance(w, c)
       \/ /\ batch[w] = {}
          /\ Goto(w, "report")
          /\ UNCHANGED <<batch, cur, chunk>>
    /\ UNCHANGED <<queue, key, todo, issued, delivered, told>>

(* mark_chunk_in_flight, without which nothing is sent. *)
MarkInFlight(w) ==
    /\ pc[w] = "flight"
    /\ LET c == cur[w]
           k == c.key
           i == chunk[w]
       IN  IF Holds(c) /\ i \notin sent[k] \cup inFlight[k]
           THEN /\ inFlight' = [inFlight EXCEPT ![k] = @ \cup {i}]
                /\ Goto(w, "send")
                /\ UNCHANGED <<cur, chunk>>
           ELSE /\ Dismiss(w)
                /\ UNCHANGED inFlight
    /\ UNCHANGED <<status, lease, expired, due, tries, sent, key, todo, batch,
                   issued, delivered, told>>

Deliver(w) ==
    delivered' = [delivered EXCEPT ![cur[w].key] = Append(@, chunk[w])]

(* Mutation: a request without an answer passes for a rejected one. *)
BugAmbiguousRejects(w) ==
    /\ pc[w] = "send"
    /\ \/ Deliver(w) /\ Goto(w, "chunk_sent")
       \/ Deliver(w) /\ Goto(w, "reject")
       \/ UNCHANGED delivered /\ Goto(w, "reject")
    /\ UNCHANGED <<queue, key, todo, batch, cur, chunk, issued, told>>

(* Mutation: a request without an answer passes for a delivered one. *)
BugAmbiguousPasses(w) ==
    /\ pc[w] = "send"
    /\ Deliver(w) \/ UNCHANGED delivered
    /\ Goto(w, "chunk_sent")
    /\ UNCHANGED <<queue, key, todo, batch, cur, chunk, issued, told>>

(* _send_single_message: delivered and answered; answered by a 4xx error, so not
   delivered; or no usable answer, delivered or not. *)
Send(w) ==
    /\ pc[w] = "send"
    /\ \/ Deliver(w) /\ Goto(w, "chunk_sent")
       \/ UNCHANGED delivered /\ Goto(w, "reject")
       \/ Deliver(w) /\ Goto(w, "unknown")
       \/ UNCHANGED delivered /\ Goto(w, "unknown")
    /\ UNCHANGED <<queue, key, todo, batch, cur, chunk, issued, told>>

MarkChunkSent(w) ==
    /\ pc[w] = "chunk_sent"
    /\ LET c == cur[w]
           k == c.key
           i == chunk[w]
       IN  IF Holds(c) /\ i \in inFlight[k] \ sent[k]
           THEN /\ sent' = [sent EXCEPT ![k] = @ \cup {i}]
                /\ inFlight' = [inFlight EXCEPT ![k] = @ \ {i}]
                /\ Advance(w, [c EXCEPT !.sent = @ \cup {i}])
           ELSE /\ Goto(w, "unknown")
                /\ UNCHANGED <<sent, inFlight, cur, chunk>>
    /\ UNCHANGED <<status, lease, expired, due, tries, key, todo, batch,
                   issued, delivered, told>>

(* The record leaves the call's hands in the given status. *)
Close(k, s) ==
    /\ status' = [status EXCEPT ![k] = s]
    /\ lease' = [lease EXCEPT ![k] = 0]
    /\ expired' = [expired EXCEPT ![k] = FALSE]

MarkRecordSent(w) ==
    /\ pc[w] = "record_sent"
    /\ IF Holds(cur[w]) /\ sent[cur[w].key] = Chunks
       THEN Close(cur[w].key, "sent") /\ Dismiss(w)
       ELSE /\ Goto(w, "unknown")
            /\ UNCHANGED <<status, lease, expired, cur, chunk>>
    /\ UNCHANGED <<due, tries, sent, inFlight, key, todo, batch, issued, delivered, told>>

(* Mutation: the lease is not part of the filter. *)
BugMayReject(c, i) ==
    /\ tries[c.key] = c.tries
    /\ i \in inFlight[c.key] \ sent[c.key]

MayReject(c, i) ==
    /\ Holds(c)
    /\ tries[c.key] = c.tries
    /\ i \in inFlight[c.key] \ sent[c.key]

GiveUp(c) == c.tries + 1 >= MaxAttempts

(* mark_record_failed: back to the queue with a delay, or given up. *)
MarkRecordFailed(w) ==
    /\ pc[w] = "reject"
    /\ LET k == cur[w].key
       IN  IF MayReject(cur[w], chunk[w])
           THEN /\ Close(k, IF GiveUp(cur[w]) THEN "failed" ELSE "pending")
                /\ due' = [due EXCEPT ![k] = FALSE]
                /\ tries' = [tries EXCEPT ![k] = @ + 1]
                /\ inFlight' = [inFlight EXCEPT ![k] = @ \ {chunk[w]}]
           ELSE UNCHANGED <<status, lease, expired, due, tries, inFlight>>
    /\ Dismiss(w)
    /\ UNCHANGED <<sent, key, todo, batch, issued, delivered, told>>

MarkDeliveryUnknown(w) ==
    /\ pc[w] = "unknown"
    /\ IF Holds(cur[w])
       THEN Close(cur[w].key, "delivery_unknown")
       ELSE UNCHANGED <<status, lease, expired>>
    /\ Dismiss(w)
    /\ UNCHANGED <<due, tries, sent, inFlight, key, todo, batch, issued, delivered, told>>

(* The end of enqueue_and_deliver. *)
Report(w) ==
    /\ pc[w] = "report"
    /\ told' = IF status[key[w]] = "sent" THEN told \cup {key[w]} ELSE told
    /\ Leave(w)
    /\ UNCHANGED <<queue, issued, delivered>>

-----------------------------------------------------------------------------
(* The environment *)

Abandon(w) ==
    /\ pc[w] # "idle"
    /\ Leave(w)
    /\ UNCHANGED <<queue, issued, delivered, told>>

LeaseExpires(k) ==
    /\ lease[k] # 0
    /\ ~expired[k]
    /\ expired' = [expired EXCEPT ![k] = TRUE]
    /\ UNCHANGED <<status, lease, due, tries, sent, inFlight, locals, issued, delivered, told>>

BecomesDue(k) ==
    /\ status[k] = "pending"
    /\ ~due[k]
    /\ due' = [due EXCEPT ![k] = TRUE]
    /\ UNCHANGED <<status, lease, expired, tries, sent, inFlight, locals, issued, delivered, told>>

WorkerStep(w) ==
    \/ EnqueueRead(w) \/ EnqueueInsert(w) \/ EnqueueReread(w)
    \/ Reconcile(w) \/ FindDue(w) \/ Claim(w) \/ Claimed(w)
    \/ NextRecord(w) \/ MarkInFlight(w) \/ Send(w) \/ MarkChunkSent(w) \/ MarkRecordSent(w)
    \/ MarkRecordFailed(w) \/ MarkDeliveryUnknown(w) \/ Report(w)

Next ==
    \/ \E w \in Workers : (\E k \in Keys : Call(w, k)) \/ WorkerStep(w) \/ Abandon(w)
    \/ \E k \in Keys : LeaseExpires(k) \/ BecomesDue(k)

Spec == Init /\ [][Next]_vars

-----------------------------------------------------------------------------
(* Properties *)

QueueOK ==
    /\ status \in [Keys -> Statuses]
    /\ lease \in [Keys -> Nat]
    /\ expired \in [Keys -> BOOLEAN]
    /\ due \in [Keys -> BOOLEAN]
    /\ tries \in [Keys -> 0..MaxAttempts]
    /\ sent \in [Keys -> SUBSET Chunks]
    /\ inFlight \in [Keys -> SUBSET Chunks]

LocalsOK ==
    /\ pc \in [Workers -> Points]
    /\ key \in [Workers -> Keys \cup {NoKey}]
    /\ todo \in [Workers -> SUBSET Keys]
    /\ batch \in [Workers -> SUBSET Claims]
    /\ cur \in [Workers -> Claims \cup {NoClaim}]
    /\ chunk \in [Workers -> 0..NChunks]

HistoryOK ==
    /\ issued \in [Keys -> Nat]
    /\ delivered \in [Keys -> Seq(Chunks)]
    /\ told \subseteq Keys

TypeOK == QueueOK /\ LocalsOK /\ HistoryOK

(* A notification arrives chunk by chunk in order and no chunk arrives twice,
   over retries, lost answers, expired leases, crashes and concurrent drains. *)
DeliveredIsPrefix ==
    \A k \in Keys : \A n \in DOMAIN delivered[k] : delivered[k][n] = n

(* A record that can be sent again, or was given up as rejected, holds no
   chunk in doubt: exactly the chunks marked sent were delivered. *)
ResendIsSafe ==
    \A k \in Keys :
        status[k] \in {"pending", "failed"} =>
            /\ inFlight[k] = {}
            /\ sent[k] = 1..Len(delivered[k])

(* A record is sent, and a caller is told so, only when every chunk arrived. *)
SentIsDelivered ==
    \A k \in Keys :
        status[k] = "sent" \/ k \in told => Len(delivered[k]) = NChunks

(* What a record says of its chunks is so: nothing in doubt is sent again, and
   nothing is called sent that did not arrive. *)
RecordsAreTrue == ResendIsSafe /\ SentIsDelivered

(* A record that was sent, given up or left in doubt is never queued again, and
   nothing more of it is delivered except by a request under way when its lease
   ran out. *)
TerminalStays ==
    [][\A k \in Keys :
          /\ status[k] \in Terminal => status'[k] = status[k]
          /\ status[k] \in {"sent", "failed"} => delivered'[k] = delivered[k]
      ]_<<queue, delivered>>
=============================================================================
