---------------------------- MODULE TelegramChannel_proofs -------------------------
(***************************************************************************)
(* What TelegramChannel guarantees for any callers and keys and any number *)
(* of updates.  First, that a question is asked once and that the recorded *)
(* status of its prompt is true (AskInv).  Then the routing: what is in    *)
(* hand of the log, what was recorded and what the cursor passed (RouteInv), *)
(* from which it follows that answers reach their question and that neither *)
(* a command nor an awaited answer is passed over.  Last, the types.       *)
(***************************************************************************)
EXTENDS TelegramChannel, FiniteSetTheorems, TLAPS

(* What these properties need to know of the types. *)
AskTypes ==
    /\ status \in [Keys -> Statuses]
    /\ inFlight \in [Keys -> BOOLEAN] /\ sentId \in [Keys -> BOOLEAN]
    /\ prompts \in [Keys -> Nat]
    /\ pc \in [Actors -> Points]
    /\ known \in [Callers -> BOOLEAN]

(* mark_prompt_in_flight refuses every call on key k, now and for ever. *)
Asked(k) == status[k] \notin {"absent", "pending"} \/ inFlight[k] \/ sentId[k]

(* The prompt is about to be sent, or was rejected. *)
Unsent == {"send", "mark_failed"}

(* A caller that waits for the answer, or has waited for it. *)
Waits == InLoop \cup {"read_cursor", "time_out"}

(* The statuses a prompt gets only after it was recorded as sent. *)
Ended == {"replied", "consumed", "timed_out"}

PromptsOK == \A k \in Keys : prompts[k] \in {0, 1} /\ (prompts[k] = 1 => Asked(k))

SentOK == \A k \in Keys : sentId[k] \/ status[k] \in Ended => prompts[k] = 1

FailedOK ==
    \A k \in Keys : status[k] = "prompt_failed" =>
       prompts[k] = 0 /\ \A w \in Callers : KeyOf[w] = k => pc[w] # "send"

SenderOK ==
    \A w \in Callers :
       /\ pc[w] \in Unsent => prompts[KeyOf[w]] = 0 /\ Asked(KeyOf[w])
       /\ pc[w] = "record_sent" => prompts[KeyOf[w]] = 1

OneSender ==
    \A v, w \in Callers :
       KeyOf[v] = KeyOf[w] /\ pc[v] \in Unsent /\ pc[w] \in Unsent => v = w

WaiterOK ==
    \A w \in Callers : pc[w] \in Waits \/ known[w] => sentId[KeyOf[w]]

AskInv == AskTypes /\ PromptsOK /\ SentOK /\ FailedOK /\ SenderOK /\ OneSender /\ WaiterOK

-----------------------------------------------------------------------------
LEMMA CallersAct ==
    /\ Callers \subseteq Actors /\ Controller \in Actors /\ Controller \notin Callers
    /\ \A w \in Callers : KeyOf[w] \in Keys
BY ActorsAssumption, KeysAssumption DEF Actors

(* A step of actor a to point q that delivers no prompt and does not make a send
   possible. *)
LEMMA QuietStep ==
    ASSUME AskInv, AskTypes', prompts' = prompts,
           NEW a \in Actors, NEW q \in Points \ (Unsent \cup {"record_sent"}),
           pc' = [pc EXCEPT ![a] = q],
           \A k \in Keys :
              /\ Asked(k) => Asked(k)'
              /\ sentId[k] => sentId'[k]
              /\ sentId'[k] \/ status'[k] \in Ended => prompts[k] = 1
              /\ status'[k] = "prompt_failed" =>
                    prompts[k] = 0 /\ \A w \in Callers : KeyOf[w] = k => pc'[w] # "send",
           a \in Callers /\ q \in Waits => sentId'[KeyOf[a]],
           \A w \in Callers : known'[w] => sentId'[KeyOf[w]]
    PROVE  AskInv'
<1>. USE CallersAct
<1>1. \A w \in Callers : pc'[w] = IF w = a THEN q ELSE pc[w]
    BY DEF AskInv, AskTypes
<1>2. PromptsOK'
    BY DEF AskInv, PromptsOK
<1>3. SentOK'
    BY DEF SentOK
<1>4. FailedOK'
    BY DEF FailedOK
<1>5. SenderOK'
    BY <1>1 DEF AskInv, SenderOK
<1>6. OneSender'
    BY <1>1 DEF AskInv, OneSender
<1>7. WaiterOK'
    <2> SUFFICES ASSUME NEW w \in Callers, pc'[w] \in Waits \/ known'[w]
                 PROVE  sentId'[KeyOf[w]]
        BY DEF WaiterOK
    <2>1. CASE known'[w]
        BY <2>1
    <2>2. CASE ~known'[w] /\ w = a
        BY <2>2, <1>1
    <2>3. CASE ~known'[w] /\ w # a
        BY <2>3, <1>1 DEF AskInv, WaiterOK
    <2>. QED BY <2>1, <2>2, <2>3
<1>. QED BY <1>2, <1>3, <1>4, <1>5, <1>6, <1>7 DEF AskInv

(* The variables of AskInv that belong to no call. *)
SameAsk == status' = status /\ inFlight' = inFlight /\ sentId' = sentId /\ prompts' = prompts

(* A step of actor a that leaves the correlations alone. *)
LEMMA LocalStep ==
    ASSUME AskInv, SameAsk,
           NEW a \in Actors, NEW q \in Points \ (Unsent \cup {"record_sent"}),
           pc' = [pc EXCEPT ![a] = q],
           a \in Callers /\ q \in Waits => sentId[KeyOf[a]],
           known' \in [Callers -> BOOLEAN],
           \A w \in Callers : known'[w] => sentId[KeyOf[w]]
    PROVE  AskInv'
<1>1. AskTypes'
    BY DEF AskInv, AskTypes, SameAsk
<1>2. \A w \in Callers : pc'[w] = IF w = a THEN q ELSE pc[w]
    BY CallersAct DEF AskInv, AskTypes
<1>3. \A k \in Keys : Asked(k) => Asked(k)'
    BY DEF SameAsk, Asked
<1>4. \A k \in Keys : sentId'[k] \/ status'[k] \in Ended => prompts[k] = 1
    BY DEF AskInv, SentOK, SameAsk
<1>5. \A k \in Keys : status'[k] = "prompt_failed" =>
         prompts[k] = 0 /\ \A w \in Callers : KeyOf[w] = k => pc'[w] # "send"
    BY <1>2 DEF AskInv, FailedOK, SameAsk, Unsent
<1>6. sentId' = sentId /\ prompts' = prompts
    BY DEF SameAsk
<1>. QED BY <1>1, <1>3, <1>4, <1>5, <1>6, QuietStep

(* A step of caller w that changes the status of its correlation to s, which is not
   one that asks again, and the other fields no more than that s says. *)
LEMMA StatusStep ==
    ASSUME AskInv, NEW w \in Callers, NEW s \in Statuses \ {"absent", "pending"},
           status' = [status EXCEPT ![KeyOf[w]] = s],
           inFlight' \in [Keys -> BOOLEAN],
           \A k \in Keys \ {KeyOf[w]} : inFlight'[k] = inFlight[k],
           sentId' = sentId, prompts' = prompts, known' = known,
           NEW q \in Points \ (Unsent \cup {"record_sent"}),
           pc' = [pc EXCEPT ![w] = q],
           q \in Waits => sentId[KeyOf[w]],
           s \in Ended => prompts[KeyOf[w]] = 1,
           s = "prompt_failed" => pc[w] = "mark_failed"
    PROVE  AskInv'
<1>. USE CallersAct
<1>1. \A k \in Keys : status'[k] = IF k = KeyOf[w] THEN s ELSE status[k]
    BY DEF AskInv, AskTypes
<1>2. \A v \in Callers : pc'[v] = IF v = w THEN q ELSE pc[v]
    BY DEF AskInv, AskTypes
<1>3. AskTypes'
    BY DEF AskInv, AskTypes
<1>4. \A k \in Keys : Asked(k) => Asked(k)'
    BY <1>1 DEF Asked
<1>5. \A k \in Keys : sentId'[k] \/ status'[k] \in Ended => prompts[k] = 1
    BY <1>1 DEF AskInv, SentOK
<1>6. \A k \in Keys : status'[k] = "prompt_failed" =>
         prompts[k] = 0 /\ \A v \in Callers : KeyOf[v] = k => pc'[v] # "send"
    <2> SUFFICES ASSUME NEW k \in Keys, status'[k] = "prompt_failed"
                 PROVE  prompts[k] = 0 /\ \A v \in Callers : KeyOf[v] = k => pc'[v] # "send"
        OBVIOUS
    <2>1. CASE k = KeyOf[w]
        <3>1. pc[w] \in Unsent
            BY <2>1, <1>1 DEF Unsent
        <3>2. prompts[k] = 0
            BY <3>1, <2>1 DEF AskInv, SenderOK
        <3>3. \A v \in Callers : KeyOf[v] = k /\ pc[v] = "send" => v = w
            BY <3>1, <2>1 DEF AskInv, OneSender, Unsent
        <3>. QED BY <3>2, <3>3, <1>2 DEF Unsent
    <2>2. CASE k # KeyOf[w]
        BY <2>2, <1>1, <1>2 DEF AskInv, FailedOK, Unsent
    <2>. QED BY <2>1, <2>2
<1>7. \A v \in Callers : known'[v] => sentId'[KeyOf[v]]
    BY DEF AskInv, WaiterOK
<1>. QED BY <1>3, <1>4, <1>5, <1>6, <1>7, QuietStep

-----------------------------------------------------------------------------
(* register_intent *)

LEMMA ReconcileStep ==
    ASSUME AskInv, NEW w \in Callers, Reconcile(w)
    PROVE  AskInv'
<1>. USE CallersAct
<1>1. PICK stuck \in SUBSET {k \in Keys : MayBeStuck(k)} :
         /\ status' = [k \in Keys |-> IF k \in stuck THEN "delivery_unknown" ELSE status[k]]
         /\ inFlight' = [k \in Keys |-> inFlight[k] /\ k \notin stuck]
    BY DEF Reconcile
<1>2. /\ pc' = pc
      /\ sentId' = sentId /\ prompts' = prompts /\ known' = known
    BY DEF Reconcile, Idle, chat
<1>3. AskTypes'
    <2>1. status' \in [Keys -> Statuses]
        BY <1>1 DEF AskInv, AskTypes, Statuses
    <2>2. inFlight' \in [Keys -> BOOLEAN]
        BY <1>1 DEF AskInv, AskTypes
    <2>. QED BY <2>1, <2>2, <1>2 DEF AskInv, AskTypes
<1>4. \A k \in Keys : Asked(k) => Asked(k)'
    BY <1>1, <1>2 DEF Asked
<1>5. \A k \in Keys : sentId'[k] \/ status'[k] \in Ended => prompts[k] = 1
    BY <1>1, <1>2 DEF AskInv, SentOK, Ended
<1>6. \A k \in Keys : status'[k] = "prompt_failed" =>
         prompts[k] = 0 /\ \A v \in Callers : KeyOf[v] = k => pc'[v] # "send"
    BY <1>1, <1>2 DEF AskInv, AskTypes, FailedOK
<1>7. PromptsOK' /\ SentOK' /\ FailedOK'
    BY <1>2, <1>4, <1>5, <1>6 DEF AskInv, PromptsOK, SentOK, FailedOK
<1>8. SenderOK' /\ OneSender' /\ WaiterOK'
    BY <1>2, <1>4 DEF AskInv, SenderOK, OneSender, WaiterOK
<1>. QED BY <1>3, <1>7, <1>8 DEF AskInv

(* The way out of a call. *)
LEMMA LeaveStep ==
    ASSUME AskInv, NEW a \in Actors, Leave(a), SameAsk
    PROVE  AskInv'
<1>1. pc' = [pc EXCEPT ![a] = "idle"]
    BY DEF Leave, Goto
<1>2. "idle" \in Points \ (Unsent \cup {"record_sent"}) /\ "idle" \notin Waits
    BY DEF Points, Unsent, Waits, InLoop
<1>3. known' = [w \in Callers |-> IF w = a THEN FALSE ELSE known[w]]
    BY DEF Leave
<1>4. known' \in [Callers -> BOOLEAN]
    BY <1>3 DEF AskInv, AskTypes
<1>5. \A w \in Callers : known'[w] => sentId[KeyOf[w]]
    BY <1>3 DEF AskInv, WaiterOK
<1>. QED BY <1>1, <1>2, <1>4, <1>5, LocalStep

(* Nothing that these properties look at changes. *)
LEMMA UnmovedStep ==
    ASSUME AskInv, SameAsk, pc' = pc, known' = known
    PROVE  AskInv'
BY DEF SameAsk, AskInv, AskTypes, PromptsOK, Asked, SentOK, FailedOK, SenderOK, OneSender, WaiterOK

(* A step to a point at which nothing is known of the prompt. *)
LEMMA GotoStep ==
    ASSUME AskInv, NEW a \in Actors, SameAsk, known' = known,
           NEW q \in Points \ (Unsent \cup Waits \cup {"record_sent"}), Goto(a, q)
    PROVE  AskInv'
<1>1. pc' = [pc EXCEPT ![a] = q]
    BY DEF Goto
<1>2. known' \in [Callers -> BOOLEAN] /\ \A w \in Callers : known'[w] => sentId[KeyOf[w]]
    BY DEF AskInv, AskTypes, WaiterOK
<1>. QED BY <1>1, <1>2, LocalStep

(* A step within the polling loop or out of it. *)
LEMMA LoopStep ==
    ASSUME AskInv, NEW a \in Actors, SameAsk, known' = known, pc[a] \in Waits,
           NEW q \in Points \ (Unsent \cup {"record_sent"}), Goto(a, q)
    PROVE  AskInv'
<1>1. pc' = [pc EXCEPT ![a] = q]
    BY DEF Goto
<1>2. known' \in [Callers -> BOOLEAN] /\ \A w \in Callers : known'[w] => sentId[KeyOf[w]]
    BY DEF AskInv, AskTypes, WaiterOK
<1>3. a \in Callers => sentId[KeyOf[a]]
    BY DEF AskInv, WaiterOK
<1>. QED BY <1>1, <1>2, <1>3, LocalStep

LEMMA RegisteredStep ==
    ASSUME AskInv, NEW w \in Callers, Registered(w), SameAsk
    PROVE  AskInv'
<1>. USE CallersAct
<1>1. CASE status[KeyOf[w]] \in {"pending", "replied"} /\ known' = [known EXCEPT ![w] = sentId[KeyOf[w]]]
           /\ Goto(w, IF status[KeyOf[w]] = "pending" THEN "claim" ELSE "claim_cached")
    <2>1. PICK q \in {"claim", "claim_cached"} : pc' = [pc EXCEPT ![w] = q]
        BY <1>1 DEF Goto
    <2>2. q \in Points \ (Unsent \cup {"record_sent"}) /\ q \notin Waits
        BY <2>1 DEF Points, Unsent, Waits, InLoop
    <2>3. known' \in [Callers -> BOOLEAN]
        BY <1>1 DEF AskInv, AskTypes
    <2>4. \A v \in Callers : known'[v] => sentId[KeyOf[v]]
        BY <1>1 DEF AskInv, AskTypes, WaiterOK
    <2>. QED BY <2>1, <2>2, <2>3, <2>4, LocalStep
<1>2. CASE Return(w, 0)
    BY <1>2, LeaveStep DEF Return
<1>. QED BY <1>1, <1>2 DEF Registered

LEMMA RegisterStep ==
    ASSUME AskInv, NEW w \in Callers, Register(w)
    PROVE  AskInv'
<1>. USE CallersAct
<1>1. SameAsk
    BY DEF Register, SameAsk, correlation, chat
<1>2. CASE Goto(w, "insert") /\ known' = known
    <2>1. "insert" \in Points \ (Unsent \cup Waits \cup {"record_sent"})
        BY DEF Points, Unsent, Waits, InLoop
    <2>. QED BY <1>1, <1>2, <2>1, GotoStep
<1>3. CASE Registered(w)
    BY <1>1, <1>3, RegisteredStep
<1>4. CASE Return(w, 0)
    BY <1>1, <1>4, LeaveStep DEF Return
<1>. QED BY <1>2, <1>3, <1>4 DEF Register

LEMMA InsertStep ==
    ASSUME AskInv, NEW w \in Callers, Insert(w)
    PROVE  AskInv'
<1>. USE CallersAct
<1>1. CASE status[KeyOf[w]] = "absent" /\ status' = [status EXCEPT ![KeyOf[w]] = "pending"]
           /\ Goto(w, "claim") /\ known' = known
    <2>1. pc' = [pc EXCEPT ![w] = "claim"] /\ inFlight' = inFlight /\ sentId' = sentId
          /\ prompts' = prompts
        BY <1>1 DEF Insert, Goto, chat
    <2>2. "claim" \in Points \ (Unsent \cup {"record_sent"}) /\ "claim" \notin Waits
        BY DEF Points, Unsent, Waits, InLoop
    <2>3. AskTypes'
        BY <1>1, <2>1, <2>2 DEF AskInv, AskTypes, Statuses
    <2>4. \A k \in Keys : status'[k] = status[k] \/ (status[k] = "absent" /\ status'[k] = "pending")
        BY <1>1 DEF AskInv, AskTypes
    <2>5. \A k \in Keys : Asked(k) => Asked(k)'
        BY <2>1, <2>4 DEF Asked
    <2>6. \A k \in Keys : sentId'[k] \/ status'[k] \in Ended => prompts[k] = 1
        BY <2>1, <2>4 DEF AskInv, SentOK, Ended
    <2>7. \A k \in Keys : status'[k] = "prompt_failed" =>
             prompts[k] = 0 /\ \A v \in Callers : KeyOf[v] = k => pc'[v] # "send"
        BY <2>1, <2>4 DEF AskInv, AskTypes, FailedOK
    <2>8. \A v \in Callers : known'[v] => sentId'[KeyOf[v]]
        BY <1>1, <2>1 DEF AskInv, WaiterOK
    <2>. QED BY <2>1, <2>2, <2>3, <2>5, <2>6, <2>7, <2>8, QuietStep
<1>2. CASE Registered(w) /\ status' = status
    <2>1. SameAsk
        BY <1>2 DEF Insert, SameAsk, chat
    <2>. QED BY <1>2, <2>1, RegisteredStep
<1>. QED BY <1>1, <1>2 DEF Insert

-----------------------------------------------------------------------------
(* The points between a registration and the polling loop, and after it. *)
LEMMA QuietPoints ==
    /\ {"claim", "cached_consume", "recover_poll", "recover_save", "recover_consume",
        "claim_poll", "mark", "mark_unknown", "release_poll", "release_waiter",
        "late_release", "late_read"}
          \subseteq Points \ (Unsent \cup Waits \cup {"record_sent"})
    /\ Waits \subseteq Points \ (Unsent \cup {"record_sent"})
    /\ InLoop \subseteq Waits /\ {"read_cursor", "time_out"} \subseteq Waits
BY DEF Points, Unsent, Waits, InLoop, Recovering

(* consume_reply, which only a recorded reply admits. *)
LEMMA ConsumeStep ==
    ASSUME AskInv, NEW w \in Callers, MayConsume(w), MarkConsumed(w),
           inFlight' = inFlight, sentId' = sentId, prompts' = prompts, known' = known,
           NEW q \in Points \ (Unsent \cup Waits \cup {"record_sent"}), Goto(w, q)
    PROVE  AskInv'
<1>1. status' = [status EXCEPT ![KeyOf[w]] = "consumed"] /\ pc' = [pc EXCEPT ![w] = q]
    BY DEF MarkConsumed, Goto
<1>2. inFlight' \in [Keys -> BOOLEAN]
    BY DEF AskInv, AskTypes
<1>3. prompts[KeyOf[w]] = 1
    BY CallersAct DEF AskInv, SentOK, MayConsume, Ended
<1>4. "consumed" \in Statuses \ {"absent", "pending"}
    BY DEF Statuses
<1>5. \A k \in Keys \ {KeyOf[w]} : inFlight'[k] = inFlight[k]
    OBVIOUS
<1>. QED BY <1>1, <1>2, <1>3, <1>4, <1>5, StatusStep

LEMMA ClaimCachedStep ==
    ASSUME AskInv, NEW w \in Callers, ClaimCached(w)
    PROVE  AskInv'
<1>. USE CallersAct, QuietPoints
<1>1. SameAsk /\ known' = known
    BY DEF ClaimCached, SameAsk, Idle, chat
<1>2. PICK q \in {"recover_poll", "cached_consume", "claim"} : Goto(w, q)
    BY DEF ClaimCached
<1>. QED BY <1>1, <1>2, GotoStep

LEMMA CachedConsumeStep ==
    ASSUME AskInv, NEW w \in Callers, CachedConsume(w)
    PROVE  AskInv'
<1>. USE CallersAct, QuietPoints
<1>1. inFlight' = inFlight /\ sentId' = sentId /\ prompts' = prompts
    BY DEF CachedConsume, chat
<1>2. CASE MayConsume(w)
    <2>1. MarkConsumed(w) /\ Leave(w)
        BY <1>2 DEF CachedConsume, Return
    <2>2. status' = [status EXCEPT ![KeyOf[w]] = "consumed"]
          /\ pc' = [pc EXCEPT ![w] = "idle"]
          /\ known' = [v \in Callers |-> IF v = w THEN FALSE ELSE known[v]]
        BY <2>1 DEF MarkConsumed, Leave, Goto
    <2>3. \A k \in Keys : status'[k] = IF k = KeyOf[w] THEN "consumed" ELSE status[k]
        BY <2>2 DEF AskInv, AskTypes
    <2>4. prompts[KeyOf[w]] = 1
        BY <1>2 DEF AskInv, SentOK, MayConsume, Ended
    <2>5. "idle" \in Points \ (Unsent \cup {"record_sent"}) /\ "idle" \notin Waits
        BY DEF Points, Unsent, Waits, InLoop
    <2>6. AskTypes'
        BY <1>1, <2>2, <2>5 DEF AskInv, AskTypes, Statuses
    <2>7. \A k \in Keys : Asked(k) => Asked(k)'
        BY <1>1, <2>3 DEF Asked
    <2>8. \A k \in Keys : sentId'[k] \/ status'[k] \in Ended => prompts[k] = 1
        BY <1>1, <2>3, <2>4 DEF AskInv, SentOK
    <2>9. \A k \in Keys : status'[k] = "prompt_failed" =>
             prompts[k] = 0 /\ \A v \in Callers : KeyOf[v] = k => pc'[v] # "send"
        BY <2>2, <2>3 DEF AskInv, AskTypes, FailedOK
    <2>10. \A v \in Callers : known'[v] => sentId'[KeyOf[v]]
        BY <1>1, <2>2 DEF AskInv, WaiterOK
    <2>. QED BY <1>1, <2>2, <2>5, <2>6, <2>7, <2>8, <2>9, <2>10, QuietStep
<1>3. CASE ~MayConsume(w)
    <2>1. SameAsk /\ known' = known /\ Goto(w, "claim")
        BY <1>1, <1>3 DEF CachedConsume, SameAsk
    <2>. QED BY <2>1, GotoStep
<1>. QED BY <1>2, <1>3

LEMMA RecoverStep ==
    ASSUME AskInv, NEW w \in Callers, RecoverPoll(w) \/ RecoverSave(w) \/ RecoverConsume(w)
    PROVE  AskInv'
<1>. USE CallersAct, QuietPoints
<1>1. CASE RecoverPoll(w) \/ RecoverSave(w)
    <2>1. SameAsk /\ known' = known
        BY <1>1 DEF RecoverPoll, RecoverSave, SameAsk, Idle, chat, correlation
    <2>2. PICK q \in {"recover_save", "release_waiter", "recover_consume", "release_poll"} : Goto(w, q)
        BY <1>1 DEF RecoverPoll, RecoverSave
    <2>. QED BY <2>1, <2>2, GotoStep
<1>2. CASE RecoverConsume(w)
    <2>1. inFlight' = inFlight /\ sentId' = sentId /\ prompts' = prompts /\ known' = known
          /\ Goto(w, "release_poll")
        BY <1>2 DEF RecoverConsume, chat
    <2>2. CASE MayConsume(w) /\ MarkConsumed(w)
        BY <2>1, <2>2, ConsumeStep
    <2>3. CASE status' = status
        <3>1. SameAsk
            BY <2>1, <2>3 DEF SameAsk
        <3>. QED BY <2>1, <3>1, GotoStep
    <2>. QED BY <1>2, <2>2, <2>3 DEF RecoverConsume
<1>. QED BY <1>1, <1>2

-----------------------------------------------------------------------------
(* Asking *)

LEMMA ClaimStep ==
    ASSUME AskInv, NEW w \in Callers, Claim(w)
    PROVE  AskInv'
<1>. USE CallersAct, QuietPoints
<1>1. SameAsk
    BY DEF Claim, SameAsk, chat
<1>2. CASE Goto(w, "claim_poll") /\ known' = known
    BY <1>1, <1>2, GotoStep
<1>3. CASE Return(w, 0)
    BY <1>1, <1>3, LeaveStep DEF Return
<1>. QED BY <1>2, <1>3 DEF Claim

LEMMA ClaimForQuestionStep ==
    ASSUME AskInv, NEW w \in Callers, ClaimForQuestion(w)
    PROVE  AskInv'
<1>. USE CallersAct, QuietPoints
<1>1. SameAsk /\ known' = [known EXCEPT ![w] = FALSE]
    BY DEF ClaimForQuestion, SameAsk, correlation, chat
<1>2. PICK q \in {"read_cursor", "mark", "release_waiter"} :
         pc' = [pc EXCEPT ![w] = q] /\ (q = "read_cursor" => known[w])
    BY DEF ClaimForQuestion, Goto
<1>3. q \in Waits => sentId[KeyOf[w]]
    BY <1>2 DEF AskInv, WaiterOK
<1>4. known' \in [Callers -> BOOLEAN]
    BY <1>1 DEF AskInv, AskTypes
<1>5. \A v \in Callers : known'[v] => sentId[KeyOf[v]]
    BY <1>1 DEF AskInv, AskTypes, WaiterOK
<1>. QED BY <1>1, <1>2, <1>3, <1>4, <1>5, LocalStep

LEMMA MarkStep ==
    ASSUME AskInv, NEW w \in Callers, MarkPromptInFlight(w)
    PROVE  AskInv'
<1>. USE CallersAct, QuietPoints
<1>1. status' = status /\ sentId' = sentId /\ prompts' = prompts /\ known' = known
    BY DEF MarkPromptInFlight, Idle, chat
<1>2. CASE MayMark(w) /\ inFlight' = [inFlight EXCEPT ![KeyOf[w]] = TRUE] /\ Goto(w, "send")
    <2>. DEFINE k == KeyOf[w]
    <2>1. ~Asked(k) /\ status[k] = "pending"
        BY <1>2 DEF MayMark, Asked
    <2>2. prompts[k] = 0 /\ \A v \in Callers : KeyOf[v] = k => pc[v] \notin Unsent
        BY <2>1 DEF AskInv, PromptsOK, SenderOK
    <2>3. \A v \in Callers : pc'[v] = IF v = w THEN "send" ELSE pc[v]
        BY <1>2 DEF AskInv, AskTypes, Goto
    <2>4. \A j \in Keys : inFlight'[j] = (j = k \/ inFlight[j])
        BY <1>2 DEF AskInv, AskTypes
    <2>5. \A j \in Keys : Asked(j)' <=> j = k \/ Asked(j)
        BY <1>1, <2>4 DEF Asked
    <2>6. AskTypes'
        BY <1>1, <1>2 DEF AskInv, AskTypes, Goto, Points
    <2>7. PromptsOK'
        BY <1>1, <2>5 DEF AskInv, PromptsOK
    <2>8. SentOK' /\ FailedOK'
        BY <1>1, <2>1, <2>3 DEF AskInv, SentOK, FailedOK
    <2>9. SenderOK'
        BY <1>1, <2>2, <2>3, <2>5 DEF AskInv, SenderOK
    <2>10. OneSender'
        BY <2>2, <2>3 DEF AskInv, OneSender
    <2>11. WaiterOK'
        <3>1. "send" \notin Waits
            BY DEF Waits, InLoop
        <3>. QED BY <1>1, <2>3, <3>1 DEF AskInv, WaiterOK
    <2>. QED BY <2>6, <2>7, <2>8, <2>9, <2>10, <2>11 DEF AskInv
<1>3. CASE Goto(w, "release_poll") /\ inFlight' = inFlight
    <2>1. SameAsk
        BY <1>1, <1>3 DEF SameAsk
    <2>. QED BY <1>1, <1>3, <2>1, GotoStep
<1>. QED BY <1>2, <1>3 DEF MarkPromptInFlight

LEMMA SendStep ==
    ASSUME AskInv, NEW w \in Callers, Send(w)
    PROVE  AskInv'
<1>. USE CallersAct
<1>. DEFINE k == KeyOf[w]
<1>1. status' = status /\ inFlight' = inFlight /\ sentId' = sentId /\ known' = known
    BY DEF Send, Idle, correlation
<1>2. prompts[k] = 0 /\ Asked(k) /\ status[k] # "prompt_failed" /\ ~sentId[k] /\ status[k] \notin Ended
    BY DEF Send, AskInv, SenderOK, FailedOK, SentOK, Unsent
<1>3. \A v \in Callers : KeyOf[v] = k /\ pc[v] \in Unsent => v = w
    BY DEF Send, AskInv, OneSender, Unsent
<1>4. CASE prompts' = [prompts EXCEPT ![k] = @ + 1] /\ \E q \in {"record_sent", "mark_unknown"} : Goto(w, q)
    <2>1. PICK q \in {"record_sent", "mark_unknown"} : Goto(w, q)
        BY <1>4
    <2>2. \A v \in Callers : pc'[v] = IF v = w THEN q ELSE pc[v]
        BY <2>1 DEF AskInv, AskTypes, Goto
    <2>3. \A j \in Keys : prompts'[j] = IF j = k THEN 1 ELSE prompts[j]
        BY <1>2, <1>4 DEF AskInv, AskTypes
    <2>4. AskTypes'
        BY <1>1, <1>4, <2>1 DEF AskInv, AskTypes, Goto, Points
    <2>5. \A j \in Keys : Asked(j)' <=> Asked(j)
        BY <1>1 DEF Asked
    <2>6. PromptsOK'
        BY <1>2, <2>3, <2>5 DEF AskInv, PromptsOK
    <2>7. SentOK'
        BY <1>1, <2>3 DEF AskInv, SentOK
    <2>8. FailedOK'
        BY <1>1, <1>2, <2>2, <2>3 DEF AskInv, FailedOK
    <2>9. SenderOK'
        BY <1>3, <2>2, <2>3, <2>5 DEF AskInv, SenderOK, Unsent
    <2>10. OneSender'
        BY <2>2 DEF AskInv, OneSender, Unsent
    <2>11. WaiterOK'
        BY <1>1, <2>2 DEF AskInv, WaiterOK, Waits, InLoop
    <2>. QED BY <2>4, <2>6, <2>7, <2>8, <2>9, <2>10, <2>11 DEF AskInv
<1>5. CASE prompts' = prompts /\ \E q \in {"mark_failed", "mark_unknown"} : Goto(w, q)
    <2>1. PICK q \in {"mark_failed", "mark_unknown"} : Goto(w, q)
        BY <1>5
    <2>2. \A v \in Callers : pc'[v] = IF v = w THEN q ELSE pc[v]
        BY <2>1 DEF AskInv, AskTypes, Goto
    <2>3. AskTypes'
        BY <1>1, <1>5, <2>1 DEF AskInv, AskTypes, Goto, Points
    <2>4. \A j \in Keys : Asked(j)' <=> Asked(j)
        BY <1>1 DEF Asked
    <2>5. PromptsOK' /\ SentOK'
        BY <1>1, <1>5, <2>4 DEF AskInv, PromptsOK, SentOK
    <2>6. FailedOK'
        BY <1>1, <1>5, <2>2 DEF AskInv, FailedOK
    <2>7. SenderOK'
        BY <1>2, <1>5, <2>2, <2>4 DEF AskInv, SenderOK, Unsent
    <2>8. OneSender'
        BY <1>3, <2>2 DEF AskInv, OneSender, Unsent
    <2>9. WaiterOK'
        BY <1>1, <2>2 DEF AskInv, WaiterOK, Waits, InLoop
    <2>. QED BY <2>3, <2>5, <2>6, <2>7, <2>8, <2>9 DEF AskInv
<1>. QED BY <1>4, <1>5 DEF Send, Failures

LEMMA RecordSentStep ==
    ASSUME AskInv, NEW w \in Callers, RecordPromptSent(w)
    PROVE  AskInv'
<1>. USE CallersAct, QuietPoints
<1>. DEFINE k == KeyOf[w]
<1>1. status' = status /\ prompts' = prompts /\ known' = known
    BY DEF RecordPromptSent, Idle, chat
<1>2. CASE sentId' = [sentId EXCEPT ![k] = TRUE] /\ inFlight' = [inFlight EXCEPT ![k] = FALSE]
           /\ Goto(w, "read_cursor")
    <2>1. pc' = [pc EXCEPT ![w] = "read_cursor"]
        BY <1>2 DEF Goto
    <2>2. prompts[k] = 1
        BY DEF RecordPromptSent, AskInv, SenderOK
    <2>3. \A j \in Keys : sentId'[j] = (j = k \/ sentId[j]) /\ (j # k => inFlight'[j] = inFlight[j])
        BY <1>2 DEF AskInv, AskTypes
    <2>4. AskTypes'
        BY <1>1, <1>2, <2>1 DEF AskInv, AskTypes
    <2>5. \A j \in Keys : Asked(j) => Asked(j)'
        BY <1>1, <2>3 DEF Asked
    <2>6. \A j \in Keys : sentId'[j] \/ status'[j] \in Ended => prompts[j] = 1
        BY <1>1, <2>2, <2>3 DEF AskInv, SentOK
    <2>7. \A j \in Keys : status'[j] = "prompt_failed" =>
             prompts[j] = 0 /\ \A v \in Callers : KeyOf[v] = j => pc'[v] # "send"
        BY <1>1, <2>1 DEF AskInv, AskTypes, FailedOK
    <2>8. \A v \in Callers : known'[v] => sentId'[KeyOf[v]]
        BY <1>1, <2>3 DEF AskInv, WaiterOK
    <2>9. sentId'[k] /\ \A j \in Keys : sentId[j] => sentId'[j]
        BY <2>3
    <2>10. "read_cursor" \in Points \ (Unsent \cup {"record_sent"})
        OBVIOUS
    <2>. QED BY <1>1, <2>1, <2>4, <2>5, <2>6, <2>7, <2>8, <2>9, <2>10, QuietStep
<1>3. CASE sentId' = sentId /\ inFlight' = inFlight /\ Goto(w, "mark_unknown")
    <2>1. SameAsk
        BY <1>1, <1>3 DEF SameAsk
    <2>. QED BY <1>1, <1>3, <2>1, GotoStep
<1>. QED BY <1>2, <1>3 DEF RecordPromptSent

LEMMA SettleStep ==
    ASSUME AskInv, NEW w \in Callers, MarkPromptFailed(w) \/ MarkDeliveryUnknown(w)
    PROVE  AskInv'
<1>. USE CallersAct, QuietPoints
<1>1. PICK s \in {"prompt_failed", "delivery_unknown"} :
         Settle(w, s) /\ (s = "prompt_failed" => pc[w] = "mark_failed")
    BY DEF MarkPromptFailed, MarkDeliveryUnknown
<1>2. sentId' = sentId /\ prompts' = prompts /\ known' = known /\ Goto(w, "release_poll")
    BY <1>1 DEF Settle, Idle, chat
<1>3. CASE status' = [status EXCEPT ![KeyOf[w]] = s] /\ inFlight' = [inFlight EXCEPT ![KeyOf[w]] = FALSE]
    <2>1. inFlight' \in [Keys -> BOOLEAN] /\ \A k \in Keys \ {KeyOf[w]} : inFlight'[k] = inFlight[k]
        BY <1>3 DEF AskInv, AskTypes
    <2>2. s \in Statuses \ {"absent", "pending"} /\ s \notin Ended
        BY DEF Statuses, Ended
    <2>3. pc' = [pc EXCEPT ![w] = "release_poll"]
        BY <1>2 DEF Goto
    <2>4. "release_poll" \in Points \ (Unsent \cup {"record_sent"}) /\ "release_poll" \notin Waits
        OBVIOUS
    <2>. QED BY <1>1, <1>2, <1>3, <2>1, <2>2, <2>3, <2>4, StatusStep
<1>4. CASE status' = status /\ inFlight' = inFlight
    <2>1. SameAsk
        BY <1>2, <1>4 DEF SameAsk
    <2>. QED BY <1>2, <2>1, GotoStep
<1>. QED BY <1>1, <1>3, <1>4 DEF Settle

-----------------------------------------------------------------------------
(* Polling and ending *)

LEMMA ProceedStep ==
    ASSUME AskInv, SameAsk, known' = known, NEW a \in Actors, pc[a] \in Waits,
           NEW u, NEW hi, Proceed(a, u, hi)
    PROVE  AskInv'
<1>1. PICK q \in {"idle", "renew", "command", "record", "save"} : Goto(a, q)
    BY DEF Proceed
<1>2. q \in Points \ (Unsent \cup {"record_sent"})
    BY <1>1 DEF Points, Unsent, InLoop
<1>. QED BY <1>1, <1>2, LoopStep

(* The steps out of the loop by way of Quit. *)
LEMMA QuitStep ==
    ASSUME AskInv, SameAsk, known' = known, NEW a \in Actors, Quit(a)
    PROVE  AskInv'
<1>1. PICK q \in {"idle", "release_poll"} : Goto(a, q)
    BY DEF Quit
<1>2. q \in Points \ (Unsent \cup Waits \cup {"record_sent"})
    BY <1>1 DEF Points, Unsent, Waits, InLoop
<1>. QED BY <1>1, <1>2, GotoStep

LEMMA PollStepOK ==
    ASSUME AskInv, NEW a \in Actors, PollStep(a)
    PROVE  AskInv'
<1>. USE QuietPoints
<1>1. SameAsk
    BY DEF PollStep, ReadCursor, DispatchCommand, Save, ReleasePoll, SameAsk, correlation, chat
<1>2. CASE ReadCursor(a)
    <2>1. known' = known /\ pc[a] \in Waits
        BY <1>2 DEF ReadCursor
    <2>2. CASE Fetch(a, cursor)
        BY <1>1, <2>1, <2>2, ProceedStep DEF Fetch
    <2>3. CASE Goto(a, "renew")
        <3>1. "renew" \in Points \ (Unsent \cup {"record_sent"})
            BY DEF InLoop
        <3>. QED BY <1>1, <2>1, <2>3, <3>1, LoopStep
    <2>. QED BY <1>2, <2>2, <2>3 DEF ReadCursor
<1>3. CASE DispatchCommand(a)
    <2>1. known' = known /\ pc[a] \in Waits /\ Goto(a, "save")
          /\ "save" \in Points \ (Unsent \cup {"record_sent"})
        BY <1>3 DEF DispatchCommand, InLoop
    <2>. QED BY <1>1, <2>1, LoopStep
<1>4. CASE Save(a)
    <2>1. known' = known /\ pc[a] \in Waits
        BY <1>4 DEF Save, InLoop
    <2>2. CASE Proceed(a, at[a] + 1, upto[a])
        BY <1>1, <2>1, <2>2, ProceedStep
    <2>3. CASE Quit(a)
        BY <1>1, <2>1, <2>3, QuitStep
    <2>. QED BY <1>4, <2>2, <2>3 DEF Save
<1>5. CASE ReleasePoll(a)
    <2>1. known' = known
        BY <1>5 DEF ReleasePoll, Idle
    <2>2. CASE pc' = pc
        BY <1>1, <2>1, <2>2, UnmovedStep
    <2>3. CASE Goto(a, "release_waiter")
        BY <1>1, <2>1, <2>3, GotoStep
    <2>. QED BY <1>5, <2>2, <2>3 DEF ReleasePoll
<1>. QED BY <1>2, <1>3, <1>4, <1>5 DEF PollStep

LEMMA LoopStepOK ==
    ASSUME AskInv, NEW w \in Callers,
           Renew(w) \/ SaveReply(w) \/ TimeOutPoll(w)
    PROVE  AskInv'
<1>. USE CallersAct, QuietPoints
<1>1. SameAsk /\ known' = known
    BY DEF Renew, SaveReply, TimeOutPoll, SameAsk, Idle, correlation, chat
<1>2. pc[w] \in Waits
    BY DEF Renew, SaveReply, TimeOutPoll, InLoop
<1>3. CASE Fetch(w, last[w])
    BY <1>1, <1>2, <1>3, ProceedStep DEF Fetch
<1>4. CASE Quit(w)
    BY <1>1, <1>4, QuitStep
<1>5. CASE \E q \in {"consume", "time_out"} : Goto(w, q)
    <2>1. PICK q \in {"consume", "time_out"} : Goto(w, q)
        BY <1>5
    <2>2. q \in Points \ (Unsent \cup {"record_sent"})
        BY <2>1 DEF InLoop
    <2>. QED BY <1>1, <1>2, <2>1, <2>2, LoopStep
<1>. QED BY <1>3, <1>4, <1>5 DEF Renew, SaveReply, TimeOutPoll

LEMMA RecordStep ==
    ASSUME AskInv, NEW w \in Callers, Record(w)
    PROVE  AskInv'
<1>. USE CallersAct, QuietPoints
<1>1. inFlight' = inFlight /\ sentId' = sentId /\ prompts' = prompts /\ known' = known
    BY DEF Record, chat
<1>2. pc[w] \in Waits
    BY DEF Record, InLoop
<1>3. CASE MayRecord(w) /\ status' = [status EXCEPT ![KeyOf[w]] = "replied"] /\ Goto(w, "save_reply")
    <2>1. pc' = [pc EXCEPT ![w] = "save_reply"]
        BY <1>3 DEF Goto
    <2>2. sentId[KeyOf[w]] /\ prompts[KeyOf[w]] = 1
        BY <1>3 DEF MayRecord, AskInv, SentOK
    <2>3. "replied" \in Statuses \ {"absent", "pending"}
        BY DEF Statuses
    <2>4. "save_reply" \in Points \ (Unsent \cup {"record_sent"})
        BY DEF InLoop
    <2>5. inFlight' \in [Keys -> BOOLEAN] /\ \A k \in Keys \ {KeyOf[w]} : inFlight'[k] = inFlight[k]
        BY <1>1 DEF AskInv, AskTypes
    <2>. QED BY <1>1, <1>3, <2>1, <2>2, <2>3, <2>4, <2>5, StatusStep
<1>4. CASE status' = status
    <2>1. SameAsk
        BY <1>1, <1>4 DEF SameAsk
    <2>2. CASE Goto(w, "save")
        <3>1. "save" \in Points \ (Unsent \cup {"record_sent"})
            BY DEF InLoop
        <3>. QED BY <1>1, <1>2, <2>1, <2>2, <3>1, LoopStep
    <2>3. CASE Proceed(w, at[w] + 1, upto[w])
        BY <1>1, <1>2, <2>1, <2>3, ProceedStep
    <2>4. CASE MayRecord(w) /\ Goto(w, "save_reply")
        <3>1. "save_reply" \in Points \ (Unsent \cup {"record_sent"})
            BY DEF InLoop
        <3>. QED BY <1>1, <1>2, <2>1, <2>4, <3>1, LoopStep
    <2>. QED BY <2>2, <2>3, <2>4 DEF Record
<1>. QED BY <1>3, <1>4 DEF Record

LEMMA ConsumeStepOK ==
    ASSUME AskInv, NEW w \in Callers, Consume(w)
    PROVE  AskInv'
<1>. USE CallersAct, QuietPoints
<1>1. inFlight' = inFlight /\ sentId' = sentId /\ prompts' = prompts /\ known' = known
      /\ Goto(w, "release_poll")
    BY DEF Consume, chat
<1>2. CASE MayConsume(w) /\ MarkConsumed(w)
    BY <1>1, <1>2, ConsumeStep
<1>3. CASE status' = status
    <2>1. SameAsk
        BY <1>1, <1>3 DEF SameAsk
    <2>. QED BY <1>1, <2>1, GotoStep
<1>. QED BY <1>2, <1>3 DEF Consume

LEMMA MarkTimedOutStep ==
    ASSUME AskInv, NEW w \in Callers, MarkTimedOut(w)
    PROVE  AskInv'
<1>. USE CallersAct, QuietPoints
<1>1. inFlight' = inFlight /\ sentId' = sentId /\ prompts' = prompts /\ known' = known
    BY DEF MarkTimedOut, Idle, chat
<1>2. CASE status' = [status EXCEPT ![KeyOf[w]] = "timed_out"] /\ Goto(w, "release_waiter")
    <2>1. pc' = [pc EXCEPT ![w] = "release_waiter"]
        BY <1>2 DEF Goto
    <2>2. sentId[KeyOf[w]] /\ prompts[KeyOf[w]] = 1
        BY DEF MarkTimedOut, AskInv, WaiterOK, SentOK
    <2>3. "timed_out" \in Statuses \ {"absent", "pending"}
        BY DEF Statuses
    <2>4. inFlight' \in [Keys -> BOOLEAN] /\ \A k \in Keys \ {KeyOf[w]} : inFlight'[k] = inFlight[k]
        BY <1>1 DEF AskInv, AskTypes
    <2>5. "release_waiter" \in Points \ (Unsent \cup {"record_sent"})
        OBVIOUS
    <2>. QED BY <1>1, <1>2, <2>1, <2>2, <2>3, <2>4, <2>5, StatusStep
<1>3. CASE status' = status /\ Goto(w, "late_release")
    <2>1. SameAsk
        BY <1>1, <1>3 DEF SameAsk
    <2>. QED BY <1>1, <1>3, <2>1, GotoStep
<1>. QED BY <1>2, <1>3 DEF MarkTimedOut

LEMMA EndStep ==
    ASSUME AskInv, NEW w \in Callers, ReleaseWaiter(w) \/ LateRelease(w) \/ LateRead(w)
    PROVE  AskInv'
<1>. USE CallersAct, QuietPoints
<1>1. SameAsk
    BY DEF ReleaseWaiter, LateRelease, LateRead, SameAsk, Idle, correlation, chat
<1>2. CASE Leave(w)
    BY <1>1, <1>2, LeaveStep
<1>3. CASE Goto(w, "late_read") /\ known' = known
    BY <1>1, <1>3, GotoStep
<1>. QED BY <1>2, <1>3 DEF ReleaseWaiter, LateRelease, LateRead, Return, Idle

-----------------------------------------------------------------------------
LEMMA AskInit == Init => AskInv
<1>. SUFFICES ASSUME Init PROVE AskInv
    OBVIOUS
<1>. USE CallersAct
<1>1. AskTypes
    BY DEF Init, AskTypes, Statuses, Points
<1>2. PromptsOK /\ SentOK /\ FailedOK
    BY DEF Init, PromptsOK, SentOK, FailedOK, Ended
<1>3. \A w \in Callers : pc[w] = "idle" /\ ~known[w]
    BY DEF Init
<1>4. SenderOK /\ OneSender /\ WaiterOK
    BY <1>3 DEF SenderOK, OneSender, WaiterOK, Unsent, Waits, InLoop
<1>. QED BY <1>1, <1>2, <1>4 DEF AskInv

LEMMA AskNext == AskInv /\ [Next]_vars => AskInv'
<1>. SUFFICES ASSUME AskInv, [Next]_vars PROVE AskInv'
    OBVIOUS
<1>. USE CallersAct, QuietPoints
<1>1. ASSUME NEW w \in Callers, CallerStep(w)
      PROVE  AskInv'
    BY <1>1, ReconcileStep, RegisterStep, InsertStep, ClaimCachedStep, CachedConsumeStep,
       RecoverStep, ClaimStep, ClaimForQuestionStep, MarkStep, SendStep, RecordSentStep,
       SettleStep, LoopStepOK, RecordStep, ConsumeStepOK, MarkTimedOutStep, EndStep
       DEF CallerStep
<1>2. CASE PollControl
    <2>1. SameAsk /\ known' = known /\ pc' = [pc EXCEPT ![Controller] = "read_cursor"]
        BY <1>2 DEF PollControl, Goto, Idle, SameAsk, correlation, chat
    <2>2. "read_cursor" \in Points \ (Unsent \cup {"record_sent"})
        OBVIOUS
    <2>3. known' \in [Callers -> BOOLEAN] /\ \A w \in Callers : known'[w] => sentId[KeyOf[w]]
        BY <2>1 DEF AskInv, AskTypes, WaiterOK
    <2>. QED BY <2>1, <2>2, <2>3, LocalStep
<1>3. ASSUME NEW a \in Actors, PollStep(a)
      PROVE  AskInv'
    BY <1>3, PollStepOK
<1>4. ASSUME NEW a \in Actors, Raise(a)
      PROVE  AskInv'
    <2>1. SameAsk /\ known' = known /\ Quit(a)
        BY <1>4 DEF Raise, SameAsk, correlation, chat
    <2>. QED BY <2>1, QuitStep
<1>5. ASSUME NEW a \in Callers, Abandon(a)
      PROVE  AskInv'
    <2>1. SameAsk /\ Leave(a)
        BY <1>5 DEF Abandon, SameAsk, chat
    <2>. QED BY <2>1, LeaveStep
<1>6. CASE UserSends \/ UNCHANGED vars
    <2>1. SameAsk /\ pc' = pc /\ known' = known
        BY <1>6 DEF UserSends, vars, SameAsk, Idle, correlation, chat
    <2>. QED BY <2>1, UnmovedStep
<1>. QED BY <1>1, <1>2, <1>3, <1>4, <1>5, <1>6 DEF Next

LEMMA AskAlways == Spec => []AskInv
BY AskInit, AskNext, PTL DEF Spec

(* No question is asked twice, however many callers ask it, die asking it, or lose
   their lease to another: mark_prompt_in_flight refuses all that come after. *)
THEOREM AskedOnce == Spec => []PromptSentOnce
<1>1. AskInv => PromptSentOnce
    BY DEF AskInv, PromptsOK, PromptSentOnce
<1>. QED BY <1>1, AskAlways, PTL

(* A prompt recorded as rejected was never delivered, one recorded as sent, replied
   to, consumed or timed out was. *)
THEOREM StatusAlwaysTrue == Spec => []StatusIsTrue
<1>1. AskInv => StatusIsTrue
    BY DEF AskInv, PromptsOK, SentOK, FailedOK, StatusIsTrue, Ended
<1>. QED BY <1>1, AskAlways, PTL

-----------------------------------------------------------------------------
(* Routing: answers reach the question they answer, and no command is lost.  The
   log of updates only grows, so what is known of its first n updates stays true. *)

(* The commands that were dispatched, or taken up where nobody could hear them. *)
Dealt == obeyed \cup unheard

(* The commands among the first n updates of the log have been dealt with. *)
ClearTo(n, log, dealt) == \A u \in 1..n : log[u] = Command => u \in dealt

(* What the argument about the log needs to know of the types. *)
LogTypes ==
    /\ updates \in Seq(Keys \cup {Text, Other, Command})
    /\ waiter \in [Keys -> Callers \cup {Nobody, Gone}]
    /\ reply \in [Keys -> Nat] /\ promptAt \in [Keys -> Nat]
    /\ cursor \in Nat /\ cursor <= Len(updates)
    /\ last \in [Callers -> Nat] /\ at \in [Actors -> Nat] /\ upto \in [Actors -> Nat]
    /\ answer \in [Callers -> Nat] /\ misled \in [Keys -> SUBSET Nat]

(* The points at which an update is in hand. *)
InHand == {"command", "record", "save", "save_reply"}

(* What a caller may record: to one that hears no commands they are messages. *)
TakenFor(w, kind) == kind \in {KeyOf[w], Text} \/ (kind = Command /\ w \notin Supervised)

(* The update in hand is in the log, and what comes before it is clear; once it was
   dispatched, or found to be no command that could be, so is the update itself. *)
BatchOK(a) ==
    /\ pc[a] \in InHand =>
          /\ at[a] >= 1 /\ at[a] <= upto[a] /\ upto[a] <= Len(updates)
          /\ ClearTo(at[a] - 1, updates, Dealt)
    /\ pc[a] = "command" => updates[at[a]] = Command
    /\ pc[a] \in InHand \ {"command"} => ClearTo(at[a], updates, Dealt)
    /\ pc[a] \in {"record", "save_reply"} => a \in Callers /\ TakenFor(a, updates[at[a]])

Replied == {"replied", "consumed"}

(* A recorded reply answers its question, and the log is clear up to it; it stays
   what it is, and only it is handed on. *)
ReplyOK ==
    /\ \A k \in Keys :
          /\ reply[k] <= Len(updates) /\ ClearTo(reply[k], updates, Dealt)
          /\ reply[k] # 0 => status[k] \in Replied /\ MayReply(k, reply[k])
          /\ misled[k] = {}
    /\ \A w \in Callers : answer[w] \in {0, reply[KeyOf[w]]}

(* A call that got past its registration has a correlation; it never reads behind
   the cursor; and what a caller that waits has passed by is no answer. *)
PassedOK(w) ==
    /\ pc[w] \notin {"idle", "insert"} => status[KeyOf[w]] # "absent"
    /\ last[w] <= cursor
    /\ pc[w] = "save_reply" => status[KeyOf[w]] \in Replied
    /\ Waiting(w) /\ pc[w] \in InHand =>
          \A u \in (cursor + 1)..(at[w] - 1) : ~Answers(KeyOf[w], u)
    /\ Waiting(w) /\ pc[w] = "save" /\ at[w] > cursor => ~Answers(KeyOf[w], at[w])

RouteInv ==
    /\ LogTypes
    /\ ClearTo(cursor, updates, Dealt)
    /\ ReplyOK
    /\ \A a \in Actors : BatchOK(a)
    /\ \A w \in Callers : PassedOK(w)

-----------------------------------------------------------------------------
(* What a step of one actor does to what belongs to the others. *)

(* An answered question stays answered, and no correlation disappears or is
   asked anew. *)
StatusOn ==
    \A k \in Keys :
       /\ status[k] # "absent" => status'[k] # "absent"
       /\ status[k] \in Replied => status'[k] \in Replied
       /\ status'[k] = "pending" => status[k] \in {"absent", "pending"}

(* Leases are taken by the actor itself, or given up. *)
LeasesOf(a) ==
    /\ \A k \in Keys : waiter'[k] \in {waiter[k], Nobody, Gone, a}
    /\ poller' \in {poller, Nobody, Gone, a}

LocalsOf(a) ==
    \A b \in Actors \ {a} :
       /\ pc'[b] = pc[b] /\ at'[b] = at[b] /\ upto'[b] = upto[b]
       /\ b \in Callers => last'[b] = last[b] /\ answer'[b] = answer[b]

LogGrows ==
    /\ Len(updates') \in Nat /\ Len(updates) <= Len(updates')
    /\ \A u \in 1..Len(updates) : updates'[u] = updates[u]
    /\ Dealt \subseteq Dealt'

LEMMA ClearStays ==
    ASSUME LogTypes, LogGrows, NEW n \in Nat, n <= Len(updates), ClearTo(n, updates, Dealt)
    PROVE  ClearTo(n, updates', Dealt')
<1>1. \A u \in 1..n : u \in 1..Len(updates)
    BY DEF LogTypes
<1>2. \A u \in 1..n : updates'[u] = updates[u]
    BY <1>1 DEF LogGrows
<1>. QED BY <1>2 DEF LogGrows, ClearTo

(* A caller other than the actor that waits after the step has waited before. *)
LEMMA StillWaiting ==
    ASSUME AskInv, RouteInv, NEW a \in Actors \cup {Nobody}, StatusOn, LeasesOf(a), LocalsOf(a),
           NEW w \in Callers \ {a}, Waiting(w)'
    PROVE  Waiting(w)
<1>1. w \in Actors /\ KeyOf[w] \in Keys /\ w \notin {Nobody, Gone, a}
    BY CallersAct, ActorsAssumption
<1>2. pc[w] = pc'[w] /\ pc[w] \in InLoop
    BY <1>1 DEF Waiting, LocalsOf
<1>3. waiter[KeyOf[w]] = w /\ poller = w
    BY <1>1 DEF Waiting, LeasesOf
<1>4. status[KeyOf[w]] # "absent"
    BY <1>2 DEF RouteInv, PassedOK, InLoop
<1>5. status[KeyOf[w]] = "pending"
    BY <1>1, <1>4 DEF Waiting, StatusOn
<1>. QED BY <1>2, <1>3, <1>5 DEF Waiting

LEMMA Between ==
    ASSUME NEW m \in Nat, NEW n \in Nat, m <= n, NEW hi \in Nat, NEW u \in (n + 1)..(hi - 1)
    PROVE  u \in (m + 1)..(hi - 1) /\ u \in 1..hi
OBVIOUS

(* The prompt of a call in its loop is there, so it is not sent again. *)
PromptsStay ==
    \A w \in Callers : pc[w] \in InLoop => promptAt'[KeyOf[w]] = promptAt[KeyOf[w]]

LEMMA OthersKeep ==
    ASSUME AskInv, RouteInv, LogTypes', NEW a \in Actors \cup {Nobody}, StatusOn, LeasesOf(a),
           LocalsOf(a), LogGrows, PromptsStay, cursor <= cursor'
    PROVE  /\ \A b \in Actors \ {a} : BatchOK(b)'
           /\ \A w \in Callers \ {a} : PassedOK(w)'
<1>1. ASSUME NEW b \in Actors \ {a}
      PROVE  BatchOK(b)'
    <2>1. pc'[b] = pc[b] /\ at'[b] = at[b] /\ upto'[b] = upto[b] /\ BatchOK(b)
        BY DEF LocalsOf, RouteInv
    <2>2. at[b] \in Nat /\ upto[b] \in Nat /\ Len(updates) \in Nat
        BY DEF RouteInv, LogTypes
    <2>3. LogTypes
        BY DEF RouteInv
    <2>4. CASE pc[b] \in InHand
        <3>1. at[b] >= 1 /\ at[b] <= upto[b] /\ upto[b] <= Len(updates)
              /\ ClearTo(at[b] - 1, updates, Dealt)
            BY <2>1, <2>4 DEF BatchOK
        <3>2. at[b] - 1 \in Nat /\ at[b] - 1 <= Len(updates) /\ at[b] <= Len(updates)
              /\ at[b] \in 1..Len(updates)
            BY <2>2, <3>1
        <3>3. ClearTo(at[b] - 1, updates', Dealt')
            BY <2>3, <3>1, <3>2, ClearStays
        <3>4. pc[b] # "command" => ClearTo(at[b], updates', Dealt')
            <4>1. pc[b] # "command" => ClearTo(at[b], updates, Dealt)
                BY <2>1, <2>4 DEF BatchOK
            <4>. QED BY <2>2, <2>3, <3>2, <4>1, ClearStays
        <3>5. updates'[at[b]] = updates[at[b]] /\ upto[b] <= Len(updates')
            BY <2>2, <3>1, <3>2 DEF LogGrows
        <3>. QED BY <2>1, <3>1, <3>3, <3>4, <3>5 DEF BatchOK
    <2>5. CASE pc[b] \notin InHand
        BY <2>1, <2>5 DEF BatchOK, InHand
    <2>. QED BY <2>4, <2>5
<1>2. ASSUME NEW w \in Callers \ {a}
      PROVE  PassedOK(w)'
    <2>1. w \in Actors /\ KeyOf[w] \in Keys
        BY CallersAct
    <2>2. pc'[w] = pc[w] /\ at'[w] = at[w] /\ last'[w] = last[w] /\ PassedOK(w) /\ BatchOK(w)
        BY <2>1 DEF LocalsOf, RouteInv
    <2>3. last[w] \in Nat /\ at[w] \in Nat /\ upto[w] \in Nat /\ cursor \in Nat /\ cursor' \in Nat
          /\ Len(updates) \in Nat
        BY <2>1 DEF RouteInv, LogTypes
    <2>4. pc[w] \notin {"idle", "insert"} => status'[KeyOf[w]] # "absent"
        BY <2>1, <2>2 DEF PassedOK, StatusOn
    <2>5. last[w] <= cursor'
        BY <2>2, <2>3 DEF PassedOK
    <2>6. pc[w] = "save_reply" => status'[KeyOf[w]] \in Replied
        BY <2>1, <2>2 DEF PassedOK, StatusOn
    <2>7. ASSUME Waiting(w)', pc[w] \in InHand
          PROVE  /\ \A u \in (cursor' + 1)..(at[w] - 1) : ~Answers(KeyOf[w], u)'
                 /\ pc[w] = "save" /\ at[w] > cursor' => ~Answers(KeyOf[w], at[w])'
        <3>1. Waiting(w)
            BY <2>7, StillWaiting
        <3>2. promptAt'[KeyOf[w]] = promptAt[KeyOf[w]]
            BY <3>1 DEF PromptsStay, Waiting
        <3>3. at[w] >= 1 /\ at[w] <= Len(updates)
            BY <2>2, <2>3, <2>7 DEF BatchOK
        <3>4. \A u \in 1..at[w] : updates'[u] = updates[u]
            BY <2>3, <3>3 DEF LogGrows
        <3>5. \A u \in 1..at[w] : ~Answers(KeyOf[w], u) =>
                 ~(u > promptAt'[KeyOf[w]] /\ updates'[u] \in {KeyOf[w], Text})
            BY <3>2, <3>4 DEF Answers
        <3>6. \A u \in (cursor + 1)..(at[w] - 1) : ~Answers(KeyOf[w], u)
            BY <2>2, <2>7, <3>1 DEF PassedOK
        <3>7. pc[w] = "save" /\ at[w] > cursor => ~Answers(KeyOf[w], at[w])
            BY <2>2, <3>1 DEF PassedOK
        <3>8. \A u \in (cursor' + 1)..(at[w] - 1) :
                 ~(u > promptAt'[KeyOf[w]] /\ updates'[u] \in {KeyOf[w], Text})
            <4>1. ASSUME NEW u \in (cursor' + 1)..(at[w] - 1)
                  PROVE  u \in (cursor + 1)..(at[w] - 1) /\ u \in 1..at[w]
                BY <2>3, Between
            <4>. QED BY <3>5, <3>6, <4>1
        <3>9. pc[w] = "save" /\ at[w] > cursor' =>
                 ~(at[w] > promptAt'[KeyOf[w]] /\ updates'[at[w]] \in {KeyOf[w], Text})
            <4>1. at[w] > cursor' => at[w] > cursor /\ at[w] \in 1..at[w]
                BY <2>3, <3>3
            <4>. QED BY <3>5, <3>7, <4>1
        <3>. QED BY <2>2, <3>8, <3>9 DEF Answers
    <2>. QED BY <2>2, <2>4, <2>5, <2>6, <2>7 DEF PassedOK, InHand
<1>. QED BY <1>1, <1>2

-----------------------------------------------------------------------------
(* Every step is one of these. *)

ActorStep(a) ==
    \/ a \in Callers /\ CallerStep(a)
    \/ a = Controller /\ PollControl
    \/ PollStep(a) \/ Raise(a) \/ Abandon(a)

LEMMA LocalsFrame ==
    ASSUME AskInv, LogTypes, NEW a \in Actors, ActorStep(a)
    PROVE  LocalsOf(a)
<1>. USE CallersAct
<1>1. pc \in [Actors -> Points] /\ last \in [Callers -> Nat] /\ at \in [Actors -> Nat]
      /\ upto \in [Actors -> Nat] /\ answer \in [Callers -> Nat]
    BY DEF AskInv, AskTypes, LogTypes
<1>2. \A q : Goto(a, q) => \A b \in Actors \ {a} : pc'[b] = pc[b]
    BY <1>1 DEF Goto
<1>3. DropBatch(a) => \A b \in Actors \ {a} :
          at'[b] = at[b] /\ upto'[b] = upto[b] /\ (b \in Callers => last'[b] = last[b])
    BY <1>1 DEF DropBatch
<1>4. Leave(a) => LocalsOf(a)
    BY <1>1, <1>2, <1>3 DEF Leave, LocalsOf
<1>5. ASSUME pc' = pc \/ \E q : Goto(a, q), batch' = batch, answer' = answer
      PROVE  LocalsOf(a)
    BY <1>2, <1>5 DEF LocalsOf, batch
<1>6. ASSUME Quit(a), answer' = answer
      PROVE  LocalsOf(a)
    BY <1>2, <1>3, <1>6 DEF LocalsOf, Quit
<1>7. ASSUME NEW u, NEW hi, Proceed(a, u, hi), answer' = answer,
             \A b \in Callers \ {a} : last'[b] = last[b]
      PROVE  LocalsOf(a)
    <2>1. (\E q : Goto(a, q)) /\ \A b \in Actors \ {a} : at'[b] = at[b] /\ upto'[b] = upto[b]
        BY <1>1, <1>7 DEF Proceed
    <2>. QED BY <1>2, <1>7, <2>1 DEF LocalsOf
<1>8. CASE a \in Callers /\ (Register(a) \/ Insert(a) \/ CachedConsume(a) \/ Claim(a)
                             \/ ReleaseWaiter(a) \/ LateRead(a))
    <2>1. Return(a, 0) \/ Return(a, reply[KeyOf[a]]) \/ Return(a, answer[a]) => LocalsOf(a)
        BY <1>4 DEF Return
    <2>2. CASE LateRead(a)
        BY <2>2, <1>4 DEF LateRead, Return
    <2>. QED BY <1>5, <1>8, <2>1, <2>2 DEF Register, Insert, Registered, CachedConsume, Claim, ReleaseWaiter
<1>9. CASE a \in Callers /\ (Reconcile(a) \/ ClaimCached(a) \/ RecoverPoll(a) \/ RecoverSave(a)
                             \/ ClaimForQuestion(a) \/ MarkPromptInFlight(a) \/ RecordPromptSent(a)
                             \/ MarkPromptFailed(a) \/ MarkDeliveryUnknown(a)
                             \/ MarkTimedOut(a) \/ LateRelease(a))
    <2>1. batch' = batch /\ answer' = answer
        BY <1>9 DEF Reconcile, ClaimCached, RecoverPoll, RecoverSave, ClaimForQuestion,
           MarkPromptInFlight, RecordPromptSent, MarkPromptFailed, MarkDeliveryUnknown, Settle,
           MarkTimedOut, LateRelease, Idle
    <2>2. pc' = pc \/ \E q : Goto(a, q)
        BY <1>9 DEF Reconcile, ClaimCached, RecoverPoll, RecoverSave, ClaimForQuestion,
           MarkPromptInFlight, RecordPromptSent, MarkPromptFailed, MarkDeliveryUnknown, Settle,
           MarkTimedOut, LateRelease
    <2>. QED BY <1>5, <2>1, <2>2
<1>10. CASE a \in Callers /\ Send(a)
    <2>1. batch' = batch /\ answer' = answer /\ \E q : Goto(a, q)
        BY <1>10 DEF Send, Idle
    <2>. QED BY <1>5, <2>1
<1>11. CASE a \in Callers /\ (RecoverConsume(a) \/ Consume(a))
    <2>1. batch' = batch /\ (\E q : Goto(a, q)) /\ \A b \in Callers \ {a} : answer'[b] = answer[b]
        BY <1>1, <1>11 DEF RecoverConsume, Consume
    <2>. QED BY <1>2, <2>1 DEF LocalsOf, batch
<1>12. CASE a \in Callers /\ Renew(a)
    BY <1>6, <1>7, <1>12 DEF Renew, Fetch
<1>13. CASE a \in Callers /\ Record(a)
    <2>1. last' = last /\ answer' = answer
        BY <1>13 DEF Record
    <2>2. CASE at' = at /\ upto' = upto /\ \E q : Goto(a, q)
        BY <1>5, <2>1, <2>2 DEF batch
    <2>3. CASE Proceed(a, at[a] + 1, upto[a])
        BY <1>7, <2>1, <2>3
    <2>. QED BY <1>13, <2>2, <2>3 DEF Record
<1>14. CASE a \in Callers /\ (SaveReply(a) \/ TimeOutPoll(a))
    <2>1. answer' = answer /\ (((\E q : Goto(a, q)) /\ DropBatch(a)) \/ Quit(a))
        BY <1>14 DEF SaveReply, TimeOutPoll
    <2>. QED BY <1>2, <1>3, <1>6, <2>1 DEF LocalsOf
<1>15. CASE PollControl /\ a = Controller
    BY <1>5, <1>15 DEF PollControl, Idle
<1>16. CASE ReadCursor(a)
    <2>1. answer' = answer /\ \A b \in Callers \ {a} : last'[b] = last[b]
        BY <1>1, <1>16 DEF ReadCursor
    <2>2. CASE Fetch(a, cursor)
        BY <1>7, <2>1, <2>2 DEF Fetch
    <2>3. CASE Goto(a, "renew") /\ at' = at /\ upto' = upto
        BY <1>2, <2>1, <2>3 DEF LocalsOf
    <2>. QED BY <1>16, <2>2, <2>3 DEF ReadCursor
<1>17. CASE DispatchCommand(a)
    BY <1>5, <1>17 DEF DispatchCommand
<1>18. CASE Save(a)
    <2>1. answer' = answer
        BY <1>18 DEF Save
    <2>2. CASE Quit(a)
        BY <1>6, <2>1, <2>2
    <2>3. CASE last' = [w \in Callers |-> IF w = a THEN at[a] ELSE last[w]]
               /\ Proceed(a, at[a] + 1, upto[a])
        <3>1. \A b \in Callers \ {a} : last'[b] = last[b]
            BY <2>3
        <3>. QED BY <1>7, <2>1, <2>3, <3>1
    <2>. QED BY <1>18, <2>2, <2>3 DEF Save
<1>19. CASE ReleasePoll(a)
    BY <1>5, <1>19 DEF ReleasePoll, Idle
<1>20. CASE Raise(a)
    BY <1>6, <1>20 DEF Raise
<1>21. CASE Abandon(a)
    BY <1>4, <1>21 DEF Abandon
<1>. QED BY <1>8, <1>9, <1>10, <1>11, <1>12, <1>13, <1>14, <1>15, <1>16, <1>17, <1>18, <1>19,
           <1>20, <1>21 DEF ActorStep, CallerStep, PollStep

LEMMA LeasesFrame ==
    ASSUME AskInv, LogTypes, NEW a \in Actors, ActorStep(a)
    PROVE  LeasesOf(a) /\ waiter' \in [Keys -> Callers \cup {Nobody, Gone}]
<1>. USE CallersAct
<1>1. waiter \in [Keys -> Callers \cup {Nobody, Gone}]
    BY DEF LogTypes
<1>2. ASSUME waiter' = waiter, poller' = poller
      PROVE  LeasesOf(a) /\ waiter' \in [Keys -> Callers \cup {Nobody, Gone}]
    BY <1>1, <1>2 DEF LeasesOf
<1>3. ASSUME a \in Callers, waiter' = waiter \/ ClaimWaiter(a) \/ DropWaiter(a),
             poller' = poller \/ ClaimPoll(a) \/ DropPoll(a)
      PROVE  LeasesOf(a) /\ waiter' \in [Keys -> Callers \cup {Nobody, Gone}]
    <2>1. poller' \in {poller, Nobody, Gone, a}
        BY <1>3 DEF ClaimPoll, DropPoll
    <2>2. waiter' \in [Keys -> Callers \cup {Nobody, Gone}]
          /\ \A k \in Keys : waiter'[k] \in {waiter[k], Nobody, Gone, a}
        BY <1>1, <1>3 DEF ClaimWaiter, DropWaiter
    <2>. QED BY <2>1, <2>2 DEF LeasesOf
<1>4. CASE a \in Callers /\ Reconcile(a)
    <2>1. poller' = poller
        BY <1>4 DEF Reconcile, polling
    <2>2. PICK stuck : waiter' = [k \in Keys |-> IF k \in stuck THEN Nobody ELSE waiter[k]]
        BY <1>4 DEF Reconcile
    <2>. QED BY <1>1, <2>1, <2>2 DEF LeasesOf
<1>5. CASE a \in Callers /\ (Register(a) \/ Insert(a) \/ RecoverSave(a) \/ MarkPromptInFlight(a)
                             \/ Send(a) \/ RecordPromptSent(a) \/ Renew(a) \/ Record(a)
                             \/ SaveReply(a) \/ LateRead(a))
    <2>1. waiter' = waiter /\ poller' = poller
        BY <1>5 DEF Register, Insert, RecoverSave, MarkPromptInFlight, Send, RecordPromptSent, Renew,
           Record, SaveReply, LateRead, correlation, polling
    <2>. QED BY <1>2, <2>1
<1>6. CASE a \in Callers /\ (ClaimCached(a) \/ CachedConsume(a) \/ RecoverPoll(a)
                             \/ RecoverConsume(a) \/ Claim(a) \/ ClaimForQuestion(a)
                             \/ MarkPromptFailed(a) \/ MarkDeliveryUnknown(a) \/ Consume(a)
                             \/ ReleaseWaiter(a) \/ TimeOutPoll(a) \/ MarkTimedOut(a)
                             \/ LateRelease(a))
    <2>1. waiter' = waiter \/ ClaimWaiter(a) \/ DropWaiter(a)
        BY <1>6 DEF ClaimCached, CachedConsume, RecoverPoll, RecoverConsume, Claim,
           ClaimForQuestion, MarkPromptFailed, MarkDeliveryUnknown, Settle, Consume, MarkConsumed,
           ReleaseWaiter, TimeOutPoll, MarkTimedOut, LateRelease, correlation
    <2>2. poller' = poller \/ ClaimPoll(a) \/ DropPoll(a)
        BY <1>6 DEF ClaimCached, CachedConsume, RecoverPoll, RecoverConsume, Claim,
           ClaimForQuestion, MarkPromptFailed, MarkDeliveryUnknown, Settle, Consume,
           ReleaseWaiter, TimeOutPoll, MarkTimedOut, LateRelease, polling
    <2>. QED BY <1>3, <1>6, <2>1, <2>2
<1>7. CASE \/ a = Controller /\ PollControl
           \/ ReadCursor(a) \/ DispatchCommand(a) \/ Save(a) \/ ReleasePoll(a) \/ Raise(a)
    <2>1. waiter' = waiter
        BY <1>7 DEF PollControl, ReadCursor, DispatchCommand, Save, ReleasePoll, Raise, correlation
    <2>2. poller' \in {poller, Nobody, a}
        BY <1>7 DEF PollControl, ClaimPoll, ReadCursor, DispatchCommand, Save, ReleasePoll,
           DropPoll, Raise, polling
    <2>. QED BY <1>1, <2>1, <2>2 DEF LeasesOf
<1>8. CASE Abandon(a)
    BY <1>1, <1>8 DEF Abandon, LeasesOf
<1>. QED BY <1>4, <1>5, <1>6, <1>7, <1>8 DEF ActorStep, CallerStep, PollStep

LEMMA StatusFrame ==
    ASSUME AskInv, NEW a \in Actors, ActorStep(a)
    PROVE  StatusOn
<1>. USE CallersAct
<1>1. status \in [Keys -> Statuses]
    BY DEF AskInv, AskTypes
<1>2. ASSUME status' = status
      PROVE  StatusOn
    BY <1>2 DEF StatusOn
<1>3. ASSUME a \in Callers, NEW s, status' = [status EXCEPT ![KeyOf[a]] = s],
             \/ status[KeyOf[a]] = "absent" /\ s = "pending"
             \/ status[KeyOf[a]] = "pending" /\ s \in {"replied", "timed_out", "prompt_failed",
                                                      "delivery_unknown"}
             \/ status[KeyOf[a]] = "replied" /\ s = "consumed"
      PROVE  StatusOn
    BY <1>1, <1>3 DEF StatusOn, Replied
<1>4. CASE a \in Callers /\ Reconcile(a)
    <2>1. PICK stuck \in SUBSET {k \in Keys : MayBeStuck(k)} :
             status' = [k \in Keys |-> IF k \in stuck THEN "delivery_unknown" ELSE status[k]]
        BY <1>4 DEF Reconcile
    <2>2. \A k \in stuck : status[k] = "pending"
        BY <2>1 DEF MayBeStuck
    <2>. QED BY <1>1, <2>1, <2>2 DEF StatusOn, Replied
<1>5. CASE a \in Callers /\ Insert(a)
    BY <1>2, <1>3, <1>5 DEF Insert
<1>6. CASE a \in Callers /\ (CachedConsume(a) \/ RecoverConsume(a) \/ Consume(a))
    BY <1>2, <1>3, <1>6 DEF CachedConsume, RecoverConsume, Consume, MayConsume, MarkConsumed
<1>7. CASE a \in Callers /\ (MarkPromptFailed(a) \/ MarkDeliveryUnknown(a))
    BY <1>2, <1>3, <1>7 DEF MarkPromptFailed, MarkDeliveryUnknown, Settle, MaySettle
<1>8. CASE a \in Callers /\ Record(a)
    BY <1>2, <1>3, <1>8 DEF Record, MayRecord
<1>9. CASE a \in Callers /\ MarkTimedOut(a)
    BY <1>2, <1>3, <1>9 DEF MarkTimedOut
<1>10. CASE a \in Callers /\ (Register(a) \/ ClaimCached(a) \/ RecoverPoll(a) \/ RecoverSave(a)
                              \/ Claim(a) \/ ClaimForQuestion(a) \/ MarkPromptInFlight(a)
                              \/ Send(a) \/ RecordPromptSent(a) \/ Renew(a) \/ SaveReply(a)
                              \/ ReleaseWaiter(a) \/ TimeOutPoll(a)
                              \/ LateRelease(a) \/ LateRead(a))
    <2>1. status' = status
        BY <1>10 DEF Register, ClaimCached, RecoverPoll, RecoverSave, Claim, ClaimForQuestion,
           MarkPromptInFlight, Send, RecordPromptSent, Renew, SaveReply, ReleaseWaiter,
           TimeOutPoll, LateRelease, LateRead, correlation
    <2>. QED BY <1>2, <2>1
<1>11. CASE PollControl \/ PollStep(a) \/ Raise(a) \/ Abandon(a)
    <2>1. status' = status
        BY <1>11 DEF PollControl, PollStep, ReadCursor, DispatchCommand, Save, ReleasePoll, Raise,
           Abandon, correlation
    <2>. QED BY <1>2, <2>1
<1>. QED BY <1>4, <1>5, <1>6, <1>7, <1>8, <1>9, <1>10, <1>11 DEF ActorStep, CallerStep

(* One step of an actor, as the others see it. *)
LEMMA StepFrame ==
    ASSUME AskInv, LogTypes, NEW a \in Actors, ActorStep(a)
    PROVE  StatusOn /\ LeasesOf(a) /\ LocalsOf(a)
BY StatusFrame, LeasesFrame, LocalsFrame

-----------------------------------------------------------------------------
(* The types. *)

LEMMA SavedCursor ==
    ASSUME RouteInv, NEW a, NEW u \in Nat, u <= Len(updates), ClearTo(u, updates, Dealt),
           SaveCursor(a, u)
    PROVE  /\ cursor' \in Nat /\ cursor <= cursor' /\ u <= cursor' /\ cursor' <= Len(updates)
           /\ ClearTo(cursor', updates, Dealt)
           /\ cursor' \in {cursor, u}
<1>1. cursor \in Nat /\ cursor <= Len(updates) /\ ClearTo(cursor, updates, Dealt)
    BY DEF RouteInv, LogTypes
<1>. QED BY <1>1 DEF SaveCursor

(* An update in hand, as a position in the log. *)
LEMMA AtInHand ==
    ASSUME RouteInv, NEW a \in Actors, pc[a] \in InHand
    PROVE  /\ at[a] \in Nat /\ at[a] \in 1..Len(updates) /\ at[a] <= upto[a]
           /\ upto[a] \in Nat /\ upto[a] <= Len(updates) /\ Len(updates) \in Nat
           /\ ClearTo(at[a] - 1, updates, Dealt)
           /\ pc[a] # "command" => ClearTo(at[a], updates, Dealt)
<1>1. at[a] \in Nat /\ upto[a] \in Nat /\ Len(updates) \in Nat
    BY DEF RouteInv, LogTypes
<1>2. BatchOK(a)
    BY DEF RouteInv
<1>. QED BY <1>1, <1>2 DEF BatchOK

LEMMA CursorMoves ==
    ASSUME RouteInv, NEW a \in Actors, ActorStep(a)
    PROVE  /\ cursor' \in Nat /\ cursor <= cursor' /\ cursor' <= Len(updates)
           /\ ClearTo(cursor', updates, Dealt)
<1>. USE CallersAct
<1>1. ASSUME cursor' = cursor
      PROVE  /\ cursor' \in Nat /\ cursor <= cursor' /\ cursor' <= Len(updates)
             /\ ClearTo(cursor', updates, Dealt)
    BY <1>1 DEF RouteInv, LogTypes
<1>2. CASE a \in Callers /\ RecoverSave(a)
    <2>1. reply[KeyOf[a]] \in Nat /\ reply[KeyOf[a]] <= Len(updates)
          /\ ClearTo(reply[KeyOf[a]], updates, Dealt)
        BY <1>2 DEF RouteInv, LogTypes, ReplyOK
    <2>. QED BY <1>1, <1>2, <2>1, SavedCursor DEF RecoverSave
<1>3. CASE Save(a) \/ SaveReply(a)
    <2>1. pc[a] \in InHand /\ pc[a] # "command"
        BY <1>3 DEF Save, SaveReply, InHand
    <2>2. at[a] \in Nat /\ at[a] <= Len(updates) /\ ClearTo(at[a], updates, Dealt)
        BY <2>1, AtInHand
    <2>. QED BY <1>1, <1>3, <2>2, SavedCursor DEF Save, SaveReply
<1>4. CASE a \in Callers /\ CallerStep(a) /\ ~RecoverSave(a) /\ ~SaveReply(a)
    <2>1. cursor' = cursor
        BY <1>4 DEF CallerStep, Reconcile, Register, Insert, ClaimCached, CachedConsume, RecoverPoll,
           RecoverConsume, Claim, ClaimForQuestion, MarkPromptInFlight, Send, RecordPromptSent,
           MarkPromptFailed, MarkDeliveryUnknown, Settle, Renew, Record, Consume, ReleaseWaiter,
           TimeOutPoll, MarkTimedOut, LateRelease, LateRead, polling
    <2>. QED BY <1>1, <2>1
<1>5. CASE PollControl \/ ReadCursor(a) \/ DispatchCommand(a) \/ ReleasePoll(a) \/ Raise(a) \/ Abandon(a)
    <2>1. cursor' = cursor
        BY <1>5 DEF PollControl, ReadCursor, DispatchCommand, ReleasePoll, Raise, Abandon, polling
    <2>. QED BY <1>1, <2>1
<1>. QED BY <1>2, <1>3, <1>4, <1>5 DEF ActorStep, PollStep

(* What becomes of the log and of the replies in a step of an actor. *)
LEMMA LogFrame ==
    ASSUME NEW a \in Actors, ActorStep(a)
    PROVE  /\ updates' = updates
           /\ Dealt \subseteq Dealt'
           /\ reply' = reply \/ (a \in Callers /\ Record(a) /\ MayRecord(a)
                                 /\ reply' = [reply EXCEPT ![KeyOf[a]] = at[a]]
                                 /\ status' = [status EXCEPT ![KeyOf[a]] = "replied"])
           /\ promptAt' = promptAt \/ (a \in Callers /\ Send(a)
                                 /\ promptAt' = [promptAt EXCEPT ![KeyOf[a]] = Len(updates)])
<1>1. CASE a \in Callers /\ CallerStep(a)
    <2>1. updates' = updates /\ obeyed' = obeyed /\ unheard \subseteq unheard'
        BY <1>1 DEF CallerStep, Reconcile, Register, Insert, ClaimCached, CachedConsume, RecoverPoll,
           RecoverSave, RecoverConsume, Claim, ClaimForQuestion, MarkPromptInFlight, Send,
           RecordPromptSent, MarkPromptFailed, MarkDeliveryUnknown, Settle, Renew, Record, SaveReply,
           Consume, ReleaseWaiter, TimeOutPoll, MarkTimedOut, LateRelease, LateRead,
           chat, commands, Idle, Fetch, Proceed
    <2>2. reply' = reply \/ (Record(a) /\ MayRecord(a) /\ reply' = [reply EXCEPT ![KeyOf[a]] = at[a]]
                              /\ status' = [status EXCEPT ![KeyOf[a]] = "replied"])
        BY <1>1 DEF CallerStep, Reconcile, Register, Insert, ClaimCached, CachedConsume, RecoverPoll,
           RecoverSave, RecoverConsume, Claim, ClaimForQuestion, MarkPromptInFlight, Send,
           RecordPromptSent, MarkPromptFailed, MarkDeliveryUnknown, Settle, Renew, Record, SaveReply,
           Consume, ReleaseWaiter, TimeOutPoll, MarkTimedOut, LateRelease, LateRead,
           correlation
    <2>3. promptAt' = promptAt
              \/ (Send(a) /\ promptAt' = [promptAt EXCEPT ![KeyOf[a]] = Len(updates)])
        BY <1>1 DEF CallerStep, Reconcile, Register, Insert, ClaimCached, CachedConsume, RecoverPoll,
           RecoverSave, RecoverConsume, Claim, ClaimForQuestion, MarkPromptInFlight, Send,
           RecordPromptSent, MarkPromptFailed, MarkDeliveryUnknown, Settle, Renew, Record, SaveReply,
           Consume, ReleaseWaiter, TimeOutPoll, MarkTimedOut, LateRelease, LateRead, chat
    <2>. QED BY <1>1, <2>1, <2>2, <2>3 DEF Dealt
<1>2. CASE PollControl \/ PollStep(a) \/ Raise(a) \/ Abandon(a)
    <2>1. updates' = updates /\ reply' = reply /\ promptAt' = promptAt
        BY <1>2 DEF PollControl, PollStep, ReadCursor, Save, ReleasePoll, Raise, Abandon, Idle,
           correlation, chat, DispatchCommand
    <2>2. Dealt \subseteq Dealt'
        BY <1>2 DEF PollControl, PollStep, ReadCursor, Save, ReleasePoll, Raise, Abandon, Idle,
           commands, DispatchCommand, Fetch, Proceed, Dealt
    <2>. QED BY <2>1, <2>2
<1>. QED BY <1>1, <1>2 DEF ActorStep

LEMMA ProceedTypes ==
    ASSUME RouteInv, NEW a \in Actors, NEW u \in Nat, NEW hi \in Nat, Proceed(a, u, hi)
    PROVE  at' \in [Actors -> Nat] /\ upto' \in [Actors -> Nat]
<1>1. at \in [Actors -> Nat] /\ upto \in [Actors -> Nat]
    BY DEF RouteInv, LogTypes
<1>2. \E m \in Nat : at' = [at EXCEPT ![a] = m]
    BY DEF Proceed
<1>3. \E m \in Nat : upto' = [upto EXCEPT ![a] = m]
    BY DEF Proceed
<1>. QED BY <1>1, <1>2, <1>3

LEMMA DropTypes ==
    ASSUME RouteInv, NEW a \in Actors, DropBatch(a), cursor' \in Nat, cursor <= cursor'
    PROVE  /\ last' \in [Callers -> Nat] /\ at' \in [Actors -> Nat] /\ upto' \in [Actors -> Nat]
           /\ a \in Callers => last'[a] <= cursor'
BY DEF RouteInv, LogTypes, DropBatch

(* The locals of the polling loop keep their types, and no call reads behind the
   cursor. *)
LEMMA BatchTypes ==
    ASSUME RouteInv, NEW a \in Actors, ActorStep(a)
    PROVE  /\ last' \in [Callers -> Nat] /\ at' \in [Actors -> Nat] /\ upto' \in [Actors -> Nat]
           /\ a \in Callers => last'[a] <= cursor'
<1>. USE CallersAct
<1>. DEFINE Typed == /\ last' \in [Callers -> Nat] /\ at' \in [Actors -> Nat]
                     /\ upto' \in [Actors -> Nat] /\ (a \in Callers => last'[a] <= cursor')
<1>1. cursor' \in Nat /\ cursor <= cursor'
    BY CursorMoves
<1>2. /\ last \in [Callers -> Nat] /\ at \in [Actors -> Nat] /\ upto \in [Actors -> Nat]
      /\ cursor \in Nat /\ Len(updates) \in Nat
    BY DEF RouteInv, LogTypes
<1>3. \A w \in Callers : last[w] <= cursor
    BY DEF RouteInv, PassedOK
<1>4. a \in Callers /\ last' = last => last' \in [Callers -> Nat] /\ last'[a] <= cursor'
    BY <1>1, <1>2, <1>3
<1>5. ASSUME last' = last, at' = at, upto' = upto
      PROVE  Typed
    BY <1>2, <1>4, <1>5
<1>6. DropBatch(a) => Typed
    BY <1>1, DropTypes
<1>7. ASSUME last' = last, NEW u \in Nat, NEW hi \in Nat, Proceed(a, u, hi)
      PROVE  Typed
    BY <1>2, <1>4, <1>7, ProceedTypes
<1>8. CASE a \in Callers /\ (Reconcile(a) \/ ClaimCached(a) \/ RecoverPoll(a) \/ RecoverSave(a)
                             \/ RecoverConsume(a) \/ ClaimForQuestion(a) \/ MarkPromptInFlight(a)
                             \/ Send(a) \/ RecordPromptSent(a) \/ MarkPromptFailed(a)
                             \/ MarkDeliveryUnknown(a) \/ Consume(a)
                             \/ MarkTimedOut(a) \/ LateRelease(a))
    <2>1. last' = last /\ at' = at /\ upto' = upto
        BY <1>8 DEF Reconcile, ClaimCached, RecoverPoll, RecoverSave, RecoverConsume,
           ClaimForQuestion, MarkPromptInFlight, Send, RecordPromptSent, MarkPromptFailed,
           MarkDeliveryUnknown, Settle, Consume, MarkTimedOut, LateRelease, Idle, batch
    <2>. QED BY <1>5, <2>1
<1>9. CASE a \in Callers /\ (Register(a) \/ Insert(a) \/ CachedConsume(a) \/ Claim(a)
                             \/ ReleaseWaiter(a) \/ LateRead(a))
    <2>1. DropBatch(a) \/ (last' = last /\ at' = at /\ upto' = upto)
        BY <1>9 DEF Register, Insert, Registered, CachedConsume, Claim, ReleaseWaiter, LateRead,
           Return, Leave, batch
    <2>. QED BY <1>5, <1>6, <2>1
<1>10. CASE a \in Callers /\ Renew(a)
    <2>1. last[a] + 1 \in Nat
        BY <1>2, <1>10
    <2>2. (last' = last /\ Proceed(a, last[a] + 1, Len(updates))) \/ DropBatch(a)
        BY <1>10 DEF Renew, Fetch, Offset, Quit
    <2>. QED BY <1>2, <1>6, <1>7, <2>1, <2>2
<1>11. CASE a \in Callers /\ Record(a)
    <2>1. last' = last /\ at[a] + 1 \in Nat /\ upto[a] \in Nat
        BY <1>2, <1>11 DEF Record
    <2>2. (at' = at /\ upto' = upto) \/ Proceed(a, at[a] + 1, upto[a])
        BY <1>11 DEF Record
    <2>. QED BY <1>5, <1>7, <2>1, <2>2
<1>12. CASE a \in Callers /\ (SaveReply(a) \/ TimeOutPoll(a))
    BY <1>6, <1>12 DEF SaveReply, TimeOutPoll, Quit
<1>13. CASE PollControl \/ DispatchCommand(a)
    <2>1. last' = last /\ at' = at /\ upto' = upto
        BY <1>13 DEF PollControl, DispatchCommand, Idle, batch
    <2>. QED BY <1>5, <2>1
<1>14. CASE ReadCursor(a)
    <2>1. CASE Fetch(a, cursor) /\ last' = last
        <3>1. cursor + 1 \in Nat
            BY <1>2
        <3>. QED BY <1>2, <1>7, <2>1, <3>1 DEF Fetch, Offset
    <2>2. CASE last' = [last EXCEPT ![a] = cursor] /\ at' = at /\ upto' = upto
        BY <1>1, <1>2, <2>2
    <2>. QED BY <1>14, <2>1, <2>2 DEF ReadCursor
<1>15. CASE Save(a)
    <2>1. at[a] \in Nat /\ at[a] + 1 \in Nat /\ upto[a] \in Nat
        BY <1>2
    <2>2. CASE Quit(a)
        BY <1>6, <2>2 DEF Quit
    <2>3. CASE /\ SaveCursor(a, at[a]) /\ Proceed(a, at[a] + 1, upto[a])
               /\ last' = [w \in Callers |-> IF w = a THEN at[a] ELSE last[w]]
        <3>1. at[a] <= cursor'
            BY <1>2, <2>1, <2>3 DEF SaveCursor
        <3>2. at' \in [Actors -> Nat] /\ upto' \in [Actors -> Nat]
            BY <2>1, <2>3, ProceedTypes
        <3>. QED BY <1>2, <2>1, <2>3, <3>1, <3>2
    <2>. QED BY <1>15, <2>2, <2>3 DEF Save
<1>16. CASE ReleasePoll(a)
    <2>1. last' = last /\ at' = at /\ upto' = upto
        BY <1>16 DEF ReleasePoll, Idle, batch
    <2>. QED BY <1>5, <2>1
<1>17. CASE Raise(a) \/ Abandon(a)
    BY <1>6, <1>17 DEF Raise, Quit, Abandon, Leave
<1>. QED BY <1>8, <1>9, <1>10, <1>11, <1>12, <1>13, <1>14, <1>15, <1>16, <1>17
         DEF ActorStep, CallerStep, PollStep

(* What a call hands on is the reply that is recorded. *)
LEMMA ReplyFrame ==
    ASSUME RouteInv, NEW a \in Actors, ActorStep(a)
    PROVE  /\ answer' \in [Callers -> Nat] /\ misled' \in [Keys -> SUBSET Nat]
           /\ \A w \in Callers : answer'[w] \in {0, reply[KeyOf[w]]}
           /\ \A k \in Keys : misled'[k] = {}
           /\ (a \in Callers /\ Record(a)) => answer' = answer /\ misled' = misled
<1>. USE CallersAct
<1>1. answer \in [Callers -> Nat] /\ misled \in [Keys -> SUBSET Nat] /\ reply \in [Keys -> Nat]
    BY DEF RouteInv, LogTypes
<1>2. /\ \A w \in Callers : answer[w] \in {0, reply[KeyOf[w]]}
      /\ \A k \in Keys : misled[k] = {} /\ (reply[k] # 0 => MayReply(k, reply[k]))
    BY DEF RouteInv, ReplyOK
<1>. DEFINE Handed == /\ answer' \in [Callers -> Nat] /\ misled' \in [Keys -> SUBSET Nat]
                      /\ \A w \in Callers : answer'[w] \in {0, reply[KeyOf[w]]}
                      /\ \A k \in Keys : misled'[k] = {}
<1>3. answer' = answer /\ misled' = misled => Handed
    BY <1>1, <1>2
<1>4. ASSUME Leave(a), misled' = misled
      PROVE  Handed
    BY <1>1, <1>2, <1>4 DEF Leave
<1>5. ASSUME a \in Callers, NEW u \in {0, reply[KeyOf[a]]}, Return(a, u)
      PROVE  Handed
    <2>1. u = 0 \/ MayReply(KeyOf[a], u)
        BY <1>2, <1>5, KeysAssumption
    <2>2. misled' = misled
        BY <1>5, <2>1 DEF Return
    <2>3. answer' \in [Callers -> Nat] /\ \A w \in Callers : answer'[w] \in {0, reply[KeyOf[w]]}
        BY <1>1, <1>2, <1>5 DEF Return, Leave
    <2>. QED BY <1>1, <1>2, <2>2, <2>3
<1>. HIDE DEF Handed
<1>6. ASSUME a \in Callers /\ (Reconcile(a) \/ ClaimCached(a) \/ RecoverPoll(a) \/ RecoverSave(a)
                             \/ ClaimForQuestion(a) \/ MarkPromptInFlight(a)
                             \/ Send(a) \/ RecordPromptSent(a) \/ MarkPromptFailed(a)
                             \/ MarkDeliveryUnknown(a) \/ TimeOutPoll(a) \/ MarkTimedOut(a)
                             \/ LateRelease(a) \/ Renew(a) \/ Record(a) \/ SaveReply(a))
      PROVE  Handed
    <2>1. answer' = answer /\ misled' = misled
        BY <1>6 DEF Reconcile, ClaimCached, RecoverPoll, RecoverSave,
           ClaimForQuestion, MarkPromptInFlight, Send, RecordPromptSent, MarkPromptFailed,
           MarkDeliveryUnknown, Settle, TimeOutPoll, MarkTimedOut, LateRelease, Renew, Record,
           SaveReply, Idle
    <2>. QED BY <1>3, <2>1
<1>7. ASSUME a \in Callers /\ (Register(a) \/ Insert(a) \/ Claim(a))
      PROVE  Handed
    <2>1. (answer' = answer /\ misled' = misled) \/ Return(a, 0)
        BY <1>7 DEF Register, Insert, Registered, Claim
    <2>. QED BY <1>3, <1>5, <1>7, <2>1
<1>8. ASSUME a \in Callers /\ (CachedConsume(a) \/ ReleaseWaiter(a) \/ LateRead(a))
      PROVE  Handed
    <2>1. \/ answer' = answer /\ misled' = misled
          \/ Return(a, 0) \/ Return(a, reply[KeyOf[a]]) \/ Return(a, answer[a])
        BY <1>8 DEF CachedConsume, ReleaseWaiter, LateRead
    <2>2. answer[a] \in {0, reply[KeyOf[a]]}
        BY <1>2, <1>8
    <2>. QED BY <1>3, <1>5, <1>8, <2>1, <2>2
<1>9. ASSUME a \in Callers /\ (RecoverConsume(a) \/ Consume(a))
      PROVE  Handed
    <2>1. misled' = misled
        BY <1>9 DEF RecoverConsume, Consume
    <2>2. PICK u \in {answer[a], 0, reply[KeyOf[a]]} : answer' = [answer EXCEPT ![a] = u]
        <3>1. answer = [answer EXCEPT ![a] = answer[a]]
            BY <1>1, <1>9
        <3>. QED BY <1>9, <3>1 DEF RecoverConsume, Consume
    <2>3. answer' \in [Callers -> Nat] /\ \A w \in Callers : answer'[w] \in {0, reply[KeyOf[w]]}
        BY <1>1, <1>2, <1>9, <2>2
    <2>. QED BY <1>1, <1>2, <2>1, <2>3 DEF Handed
<1>10. ASSUME PollControl \/ ReadCursor(a) \/ DispatchCommand(a) \/ Save(a) \/ Raise(a)
      PROVE  Handed
    <2>1. answer' = answer /\ misled' = misled
        BY <1>10 DEF PollControl, ReadCursor, DispatchCommand, Save, Raise, Idle
    <2>. QED BY <1>3, <2>1
<1>11. ASSUME ReleasePoll(a) \/ Abandon(a)
      PROVE  Handed
    <2>1. misled' = misled /\ (Leave(a) \/ answer' = answer)
        BY <1>11 DEF ReleasePoll, Abandon, Idle
    <2>. QED BY <1>3, <1>4, <2>1
<1>12. (a \in Callers /\ Record(a)) => answer' = answer /\ misled' = misled
    BY DEF Record
<1>13. Handed
    BY <1>6, <1>7, <1>8, <1>9, <1>10, <1>11 DEF ActorStep, CallerStep, PollStep
<1>. QED BY <1>12, <1>13 DEF Handed

-----------------------------------------------------------------------------
(* The parts of the invariant after a step of an actor. *)

LEMMA LogTypesNext ==
    ASSUME AskInv, RouteInv, NEW a \in Actors, ActorStep(a)
    PROVE  LogTypes'
<1>. USE CallersAct
<1>1. LogTypes /\ Len(updates) \in Nat
    BY DEF RouteInv, LogTypes
<1>2. waiter' \in [Keys -> Callers \cup {Nobody, Gone}]
    BY <1>1, LeasesFrame
<1>3. updates' = updates
    BY LogFrame
<1>4. reply' \in [Keys -> Nat] /\ promptAt' \in [Keys -> Nat]
    <2>1. at[a] \in Nat /\ reply \in [Keys -> Nat] /\ promptAt \in [Keys -> Nat]
        BY <1>1 DEF LogTypes
    <2>2. reply' = reply \/ reply' = [reply EXCEPT ![KeyOf[a]] = at[a]]
        BY LogFrame
    <2>3. promptAt' = promptAt \/ promptAt' = [promptAt EXCEPT ![KeyOf[a]] = Len(updates)]
        BY LogFrame
    <2>. QED BY <1>1, <2>1, <2>2, <2>3
<1>5. cursor' \in Nat /\ cursor' <= Len(updates')
    BY <1>3, CursorMoves
<1>6. last' \in [Callers -> Nat] /\ at' \in [Actors -> Nat] /\ upto' \in [Actors -> Nat]
    BY BatchTypes
<1>7. answer' \in [Callers -> Nat] /\ misled' \in [Keys -> SUBSET Nat]
    BY ReplyFrame
<1>. QED BY <1>1, <1>2, <1>3, <1>4, <1>5, <1>6, <1>7 DEF LogTypes

LEMMA LogGrowsNext ==
    ASSUME RouteInv, NEW a \in Actors, ActorStep(a)
    PROVE  LogGrows
<1>1. updates' = updates /\ Len(updates) \in Nat
    BY LogFrame DEF RouteInv, LogTypes
<1>. QED BY <1>1, LogFrame DEF LogGrows

(* The prompt is dated by the only send there is, before anybody waits for the
   answer and before one is recorded. *)
LEMMA DatesStay ==
    ASSUME AskInv, RouteInv, NEW a \in Actors, ActorStep(a)
    PROVE  /\ PromptsStay
           /\ \A k \in Keys : reply[k] # 0 => promptAt'[k] = promptAt[k]
<1>. USE CallersAct
<1>1. CASE promptAt' = promptAt
    BY <1>1 DEF PromptsStay
<1>2. CASE a \in Callers /\ Send(a) /\ promptAt' = [promptAt EXCEPT ![KeyOf[a]] = Len(updates)]
    <2>1. prompts[KeyOf[a]] = 0
        BY <1>2 DEF AskInv, SenderOK, Send, Unsent
    <2>2. \A k \in Keys \ {KeyOf[a]} : promptAt'[k] = promptAt[k]
        BY <1>2 DEF RouteInv, LogTypes
    <2>3. \A w \in Callers : pc[w] \in InLoop => KeyOf[w] # KeyOf[a]
        BY <2>1 DEF AskInv, WaiterOK, SentOK, Waits
    <2>4. reply[KeyOf[a]] = 0
        BY <1>2, <2>1 DEF AskInv, SentOK, RouteInv, ReplyOK, Replied, Ended
    <2>. QED BY <2>2, <2>3, <2>4 DEF PromptsStay
<1>. QED BY <1>1, <1>2, LogFrame

LEMMA ReplyNext ==
    ASSUME AskInv, RouteInv, NEW a \in Actors, ActorStep(a)
    PROVE  ReplyOK'
<1>. USE CallersAct
<1>1. updates' = updates /\ LogGrows /\ StatusOn /\ LogTypes /\ LogTypes'
    BY LogFrame, LogGrowsNext, StatusFrame, LogTypesNext DEF RouteInv
<1>2. ASSUME NEW n \in Nat, n <= Len(updates), ClearTo(n, updates, Dealt)
      PROVE  ClearTo(n, updates', Dealt')
    BY <1>1, <1>2, ClearStays
<1>3. CASE reply' = reply
    <2>1. ASSUME NEW k \in Keys
          PROVE  /\ reply'[k] <= Len(updates') /\ ClearTo(reply'[k], updates', Dealt')
                 /\ reply'[k] # 0 => status'[k] \in Replied /\ MayReply(k, reply[k])'
                 /\ misled'[k] = {}
        <3>1. /\ reply[k] \in Nat /\ reply[k] <= Len(updates) /\ ClearTo(reply[k], updates, Dealt)
              /\ reply[k] # 0 => status[k] \in Replied /\ MayReply(k, reply[k])
            BY DEF RouteInv, LogTypes, ReplyOK
        <3>2. ClearTo(reply'[k], updates', Dealt') /\ reply'[k] <= Len(updates')
            BY <1>1, <1>2, <1>3, <3>1
        <3>3. reply[k] # 0 => status'[k] \in Replied
            BY <1>1, <3>1 DEF StatusOn
        <3>4. reply[k] # 0 => promptAt'[k] = promptAt[k]
            BY DatesStay
        <3>5. reply[k] # 0 => MayReply(k, reply[k])'
            BY <1>1, <1>3, <3>1, <3>4 DEF MayReply, Answers
        <3>6. misled'[k] = {}
            BY <1>3, ReplyFrame
        <3>. QED BY <1>3, <3>2, <3>3, <3>5, <3>6
    <2>2. \A w \in Callers : answer'[w] \in {0, reply'[KeyOf[w]]}
        BY <1>3, ReplyFrame
    <2>. QED BY <2>1, <2>2 DEF ReplyOK
<1>4. CASE a \in Callers /\ Record(a) /\ MayRecord(a) /\ reply' = [reply EXCEPT ![KeyOf[a]] = at[a]]
           /\ status' = [status EXCEPT ![KeyOf[a]] = "replied"]
    <2>2. pc[a] = "record" /\ pc[a] \in InHand
        BY <1>4 DEF Record, InHand
    <2>3. at[a] \in Nat /\ at[a] \in 1..Len(updates) /\ ClearTo(at[a], updates, Dealt)
        BY <2>2, AtInHand
    <2>4. TakenFor(a, updates[at[a]])
        BY <2>2 DEF RouteInv, BatchOK
    <2>5. at[a] > promptAt[KeyOf[a]] /\ status[KeyOf[a]] = "pending"
        BY <1>4 DEF MayRecord
    <2>6. promptAt' = promptAt /\ answer' = answer /\ misled' = misled
        BY <1>4, ReplyFrame DEF Record, chat
    <2>7. status'[KeyOf[a]] = "replied"
        BY <1>4 DEF AskInv, AskTypes
    <2>8. reply[KeyOf[a]] = 0
        BY <1>4, <2>5 DEF RouteInv, ReplyOK, Replied
    <2>9. reply \in [Keys -> Nat]
        BY DEF RouteInv, LogTypes
    <2>10. ASSUME NEW k \in Keys
           PROVE  /\ reply'[k] <= Len(updates') /\ ClearTo(reply'[k], updates', Dealt')
                  /\ reply'[k] # 0 => status'[k] \in Replied /\ MayReply(k, reply[k])'
                  /\ misled'[k] = {}
        <3>1. CASE k = KeyOf[a]
            <4>1. reply'[k] = at[a]
                BY <1>4, <2>9, <3>1
            <4>2. ClearTo(reply'[k], updates', Dealt') /\ reply'[k] <= Len(updates')
                BY <1>1, <1>2, <2>3, <4>1
            <4>3. MayReply(k, reply[k])'
                BY <1>1, <1>4, <2>4, <2>5, <2>6, <3>1, <4>1 DEF TakenFor, MayReply, Answers
            <4>4. misled'[k] = {}
                BY <2>6, <2>8, <3>1 DEF RouteInv, ReplyOK
            <4>. QED BY <2>7, <3>1, <4>2, <4>3, <4>4 DEF Replied
        <3>2. CASE k # KeyOf[a]
            <4>1. reply'[k] = reply[k]
                BY <1>4, <2>9, <3>2
            <4>2. /\ reply[k] \in Nat /\ reply[k] <= Len(updates) /\ ClearTo(reply[k], updates, Dealt)
                  /\ reply[k] # 0 => status[k] \in Replied /\ MayReply(k, reply[k])
                  /\ misled[k] = {}
                BY DEF RouteInv, LogTypes, ReplyOK
            <4>3. ClearTo(reply'[k], updates', Dealt') /\ reply'[k] <= Len(updates')
                BY <1>1, <1>2, <4>1, <4>2
            <4>4. reply[k] # 0 => status'[k] \in Replied
                BY <1>1, <4>2 DEF StatusOn
            <4>5. reply[k] # 0 => MayReply(k, reply[k])'
                BY <1>1, <2>6, <4>1, <4>2 DEF MayReply, Answers
            <4>. QED BY <2>6, <4>1, <4>2, <4>3, <4>4, <4>5
        <3>. QED BY <3>1, <3>2
    <2>11. \A w \in Callers : answer'[w] \in {0, reply'[KeyOf[w]]}
        BY <1>4, <2>6, <2>8, <2>9 DEF RouteInv, ReplyOK
    <2>. QED BY <2>10, <2>11 DEF ReplyOK
<1>. QED BY <1>3, <1>4, LogFrame

-----------------------------------------------------------------------------
(* The actor's own batch. *)

LEMMA KindsDiffer == Text # Command /\ Command \notin Keys /\ Text \notin Keys
<1>1. CASE Text = Command
    <2>1. {Text, Other, Command} = {Text} \cup {Other}
        BY <1>1
    <2>2. IsFiniteSet({Text}) /\ Cardinality({Text}) = 1
        BY FS_Singleton
    <2>3. Cardinality({Text} \cup {Other}) <= 2
        BY <2>2, FS_AddElement
    <2>. QED BY <2>1, <2>3, KindsAssumption
<1>. QED BY <1>1, KindsAssumption

(* A call that got past its registration has a correlation. *)
LEMMA KnownNext ==
    ASSUME AskInv, RouteInv, NEW a \in Callers, ActorStep(a)
    PROVE  pc'[a] \notin {"idle", "insert"} => status'[KeyOf[a]] # "absent"
<1>. USE CallersAct
<1>1. StatusOn /\ pc \in [Actors -> Points] /\ status \in [Keys -> Statuses] /\ KeyOf[a] \in Keys
    BY StatusFrame DEF AskInv, AskTypes
<1>2. CASE pc[a] \notin {"idle", "insert"}
    BY <1>1, <1>2 DEF RouteInv, PassedOK, StatusOn
<1>3. CASE pc[a] \in {"idle", "insert"}
    <2>1. Reconcile(a) \/ Register(a) \/ Insert(a) \/ Abandon(a)
        <3>1. pc[a] \notin InLoop \cup Recovering \cup {"read_cursor"}
            BY <1>3 DEF InLoop, Recovering
        <3>2. ~PollStep(a) /\ ~Raise(a)
            BY <1>3, <3>1 DEF PollStep, ReadCursor, DispatchCommand, Save, ReleasePoll, Raise
        <3>3. a # Controller
            OBVIOUS
        <3>4. CallerStep(a) \/ Abandon(a)
            BY <3>2, <3>3 DEF ActorStep
        <3>. QED BY <1>3, <3>4 DEF CallerStep, ClaimCached, CachedConsume, RecoverPoll, RecoverSave,
                RecoverConsume, Claim, ClaimForQuestion, MarkPromptInFlight, Send, RecordPromptSent,
                MarkPromptFailed, MarkDeliveryUnknown, Renew, Record, SaveReply, Consume,
                ReleaseWaiter, TimeOutPoll, MarkTimedOut, LateRelease, LateRead
    <2>2. CASE Reconcile(a) \/ Abandon(a)
        BY <1>1, <2>2 DEF Reconcile, Abandon, Leave, Goto
    <2>3. Registered(a) => status[KeyOf[a]] # "absent"
        BY DEF Registered
    <2>4. CASE Register(a)
        <3>1. status' = status
            BY <2>4 DEF Register, correlation
        <3>2. CASE Goto(a, "insert")
            BY <1>1, <3>2 DEF Goto
        <3>. QED BY <2>3, <2>4, <3>1, <3>2 DEF Register
    <2>5. CASE Insert(a)
        BY <1>1, <2>3, <2>5 DEF Insert
    <2>. QED BY <2>1, <2>2, <2>4, <2>5
<1>. QED BY <1>2, <1>3

(* The actor takes up an update. *)
TakesUp(a, u, hi) ==
    /\ u <= hi
    /\ at'[a] = u /\ upto'[a] = hi
    /\ \/ IsCommand(a, u) /\ pc'[a] = "command"
       \/ /\ ~IsCommand(a, u) /\ a # Controller /\ ReplyTo(KeyOf[a], u)
          /\ pc'[a] = "record"
       \/ /\ ~IsCommand(a, u) /\ (a = Controller \/ ~ReplyTo(KeyOf[a], u))
          /\ pc'[a] = "save"
    /\ updates[u] = Command /\ ~Hears(a) => u \in Dealt'

LEMMA ProceedHand ==
    ASSUME AskInv, RouteInv, NEW a \in Actors, NEW u, NEW hi, Proceed(a, u, hi), pc'[a] \in InHand,
           obeyed' = obeyed
    PROVE  TakesUp(a, u, hi)
<1>1. pc \in [Actors -> Points] /\ at \in [Actors -> Nat] /\ upto \in [Actors -> Nat]
    BY DEF AskInv, AskTypes, RouteInv, LogTypes
<1>2. u <= hi
    BY <1>1 DEF Proceed, Goto, InHand
<1>3. /\ at' = [at EXCEPT ![a] = u] /\ upto' = [upto EXCEPT ![a] = hi]
      /\ unheard' = unheard \cup (IF updates[u] = Command /\ ~Hears(a) THEN {u} \ obeyed ELSE {})
      /\ Goto(a, IF IsCommand(a, u) THEN "command"
                 ELSE IF a # Controller /\ ReplyTo(KeyOf[a], u) THEN "record" ELSE "save")
    <2>1. ~(u > hi /\ Goto(a, IF a = Controller THEN "idle" ELSE "renew"))
        BY <1>1 DEF Goto, InHand
    <2>. QED BY <2>1 DEF Proceed
<1>4. at'[a] = u /\ upto'[a] = hi
    BY <1>1, <1>3
<1>5. pc'[a] = IF IsCommand(a, u) THEN "command"
               ELSE IF a # Controller /\ ReplyTo(KeyOf[a], u) THEN "record" ELSE "save"
    BY <1>1, <1>3 DEF Goto
<1>6. updates[u] = Command /\ ~Hears(a) => u \in Dealt'
    BY <1>3 DEF Dealt
<1>. QED BY <1>2, <1>4, <1>5, <1>6 DEF TakesUp

(* The steps after which an actor has an update in hand. *)
LEMMA ToHand ==
    ASSUME AskInv, RouteInv, NEW a \in Actors, ActorStep(a), pc'[a] \in InHand
    PROVE  \/ ReadCursor(a) /\ a = Controller /\ TakesUp(a, cursor + 1, Len(updates))
           \/ a \in Callers /\ Renew(a) /\ TakesUp(a, last[a] + 1, Len(updates))
           \/ Save(a) /\ SaveCursor(a, at[a]) /\ TakesUp(a, at[a] + 1, upto[a])
           \/ a \in Callers /\ Record(a) /\ ~MayRecord(a) /\ updates[at[a]] # KeyOf[a]
                 /\ TakesUp(a, at[a] + 1, upto[a])
           \/ a \in Callers /\ Record(a) /\ (MayRecord(a) \/ updates[at[a]] = KeyOf[a])
           \/ DispatchCommand(a)
<1>. USE CallersAct
<1>1. pc \in [Actors -> Points]
    BY DEF AskInv, AskTypes
<1>2. \A q : Goto(a, q) => pc'[a] = q
    BY <1>1 DEF Goto
<1>4. ~Leave(a) /\ ~Quit(a)
    BY <1>2 DEF Leave, Quit, InHand
<1>5. CASE a \in Callers /\ CallerStep(a)
    <2>1. Renew(a) \/ Record(a)
        <3>1. ~Reconcile(a) /\ ~ClaimCached(a) /\ ~RecoverPoll(a) /\ ~RecoverSave(a)
              /\ ~RecoverConsume(a) /\ ~ClaimForQuestion(a) /\ ~MarkPromptInFlight(a)
            BY <1>2 DEF Reconcile, ClaimCached, RecoverPoll, RecoverSave, RecoverConsume,
               ClaimForQuestion, MarkPromptInFlight, InHand
        <3>2. ~Send(a) /\ ~RecordPromptSent(a) /\ ~MarkPromptFailed(a) /\ ~MarkDeliveryUnknown(a)
              /\ ~Consume(a) /\ ~TimeOutPoll(a) /\ ~MarkTimedOut(a) /\ ~LateRelease(a)
            BY <1>2 DEF Send, Failures, RecordPromptSent, MarkPromptFailed, MarkDeliveryUnknown, Settle,
               Consume, TimeOutPoll, MarkTimedOut, LateRelease, InHand
        <3>3. ~Registered(a)
            BY <1>2, <1>4 DEF Registered, Return, InHand
        <3>4. ~Register(a) /\ ~Insert(a) /\ ~CachedConsume(a) /\ ~Claim(a) /\ ~ReleaseWaiter(a)
              /\ ~LateRead(a) /\ ~SaveReply(a)
            BY <1>2, <1>4, <3>3 DEF Register, Insert, CachedConsume, Claim, ReleaseWaiter, LateRead,
               SaveReply, Return, InHand
        <3>. QED BY <1>5, <3>1, <3>2, <3>3, <3>4 DEF CallerStep
    <2>2. CASE Renew(a)
        BY <1>4, <1>5, <2>2, ProceedHand DEF Renew, Fetch, Offset
    <2>3. CASE Record(a)
        <3>1. \/ MayRecord(a) \/ updates[at[a]] = KeyOf[a]
              \/ ~MayRecord(a) /\ updates[at[a]] # KeyOf[a] /\ Proceed(a, at[a] + 1, upto[a])
            BY <2>3 DEF Record
        <3>2. obeyed' = obeyed
            BY <2>3 DEF Record
        <3>. QED BY <1>5, <2>3, <3>1, <3>2, ProceedHand
    <2>. QED BY <2>1, <2>2, <2>3
<1>6. CASE a = Controller /\ PollControl
    BY <1>2, <1>6 DEF PollControl, InHand
<1>7. CASE ReadCursor(a)
    <2>1. a = Controller /\ Proceed(a, cursor + 1, Len(updates)) /\ obeyed' = obeyed
        BY <1>2, <1>7 DEF ReadCursor, Fetch, Offset, InHand
    <2>. QED BY <1>7, <2>1, ProceedHand
<1>8. CASE Save(a)
    <2>1. SaveCursor(a, at[a]) /\ Proceed(a, at[a] + 1, upto[a]) /\ obeyed' = obeyed
        BY <1>4, <1>8 DEF Save
    <2>. QED BY <1>8, <2>1, ProceedHand
<1>9. ~ReleasePoll(a) /\ ~Raise(a) /\ ~Abandon(a)
    BY <1>2, <1>4 DEF ReleasePoll, Raise, Abandon, InHand
<1>. QED BY <1>5, <1>6, <1>7, <1>8, <1>9 DEF ActorStep, PollStep

(* A caller that waits after a step from within its loop has waited before. *)
LEMMA OwnWaiting ==
    ASSUME NEW a \in Callers, pc[a] \in InLoop, status' = status, waiter' = waiter,
           poller' = poller, Waiting(a)'
    PROVE  Waiting(a)
BY DEF Waiting

(* An update newly in hand: what comes before it is clear and, for a caller that
   waits, no answer. *)
LEMMA OwnTakesUp ==
    ASSUME AskInv, RouteInv, NEW a \in Actors, ActorStep(a), promptAt' = promptAt,
           NEW u \in Nat, NEW hi \in Nat, u >= 1, hi <= Len(updates), TakesUp(a, u, hi),
           ClearTo(u - 1, updates, Dealt),
           a \in Callers /\ Waiting(a)' =>
              \A v \in (cursor' + 1)..(u - 1) : ~Answers(KeyOf[a], v)
    PROVE  BatchOK(a)' /\ (a \in Callers => PassedOK(a)')
<1>. USE CallersAct
<1>1. updates' = updates /\ ClearTo(u - 1, updates, Dealt')
    BY LogFrame DEF ClearTo
<1>2. IsCommand(a, u) <=> updates[u] = Command /\ Hears(a)
    BY DEF IsCommand
<1>3. ~IsCommand(a, u) => ClearTo(u, updates, Dealt')
    <2>1. \A v \in 1..u : v = u \/ v \in 1..(u - 1)
        OBVIOUS
    <2>2. ~IsCommand(a, u) /\ updates[u] = Command => u \in Dealt'
        BY <1>2 DEF TakesUp
    <2>. QED BY <1>1, <2>1, <2>2 DEF ClearTo
<1>4. pc'[a] = "record" => a \in Callers /\ TakenFor(a, updates[u])
    BY <1>2 DEF TakesUp, ReplyTo, Hears, TakenFor, Actors
<1>5. BatchOK(a)'
    <2>1. at'[a] = u /\ upto'[a] = hi /\ u <= hi /\ pc'[a] \in {"command", "record", "save"}
          /\ (pc'[a] = "command" <=> IsCommand(a, u))
        BY DEF TakesUp
    <2>2. at'[a] >= 1 /\ at'[a] <= upto'[a] /\ upto'[a] <= Len(updates')
          /\ ClearTo(at'[a] - 1, updates', Dealt')
        BY <1>1, <2>1
    <2>3. pc'[a] = "command" => updates'[at'[a]] = Command
        BY <1>1, <1>2, <2>1
    <2>4. pc'[a] # "command" => ClearTo(at'[a], updates', Dealt')
        BY <1>1, <1>3, <2>1
    <2>5. pc'[a] = "record" => a \in Callers /\ TakenFor(a, updates'[at'[a]])
        BY <1>1, <1>4, <2>1
    <2>6. pc'[a] # "save_reply"
        BY <2>1
    <2>. QED BY <2>2, <2>3, <2>4, <2>5, <2>6 DEF BatchOK
<1>6. ASSUME a \in Callers
      PROVE  PassedOK(a)'
    <2>1. at'[a] = u /\ pc'[a] # "save_reply"
        BY DEF TakesUp
    <2>2. last'[a] <= cursor'
        BY <1>6, BatchTypes
    <2>3. pc'[a] \notin {"idle", "insert"} => status'[KeyOf[a]] # "absent"
        BY <1>6, KnownNext
    <2>4. Waiting(a)' => \A v \in (cursor' + 1)..(u - 1) : ~Answers(KeyOf[a], v)'
        BY <1>1, <1>6 DEF Answers
    <2>5. pc'[a] = "save" => ~Answers(KeyOf[a], u)'
        <3>1. a # Controller
            BY <1>6
        <3>2. pc'[a] = "save" => ~ReplyTo(KeyOf[a], u)
            BY <3>1 DEF TakesUp
        <3>. QED BY <1>1, <3>2 DEF ReplyTo, Answers
    <2>6. Waiting(a)' /\ pc'[a] \in InHand =>
             \A v \in (cursor' + 1)..(at'[a] - 1) : ~Answers(KeyOf[a], v)'
        BY <2>1, <2>4
    <2>7. pc'[a] = "save" => ~(at'[a] > promptAt'[KeyOf[a]] /\ updates'[at'[a]] \in {KeyOf[a], Text})
        BY <2>1, <2>5 DEF Answers
    <2>. QED BY <2>1, <2>2, <2>3, <2>6, <2>7 DEF PassedOK, Answers
<1>. QED BY <1>5, <1>6

(* The update in hand is passed by: for a caller that waits it is no answer. *)
LEMMA NoAnswerInHand ==
    ASSUME AskInv, RouteInv, NEW a \in Callers, pc[a] = "record", ~MayRecord(a), Waiting(a)
    PROVE  \A v \in (cursor + 1)..at[a] : ~Answers(KeyOf[a], v)
<1>. USE CallersAct
<1>1. pc[a] \in InHand
    BY DEF InHand
<1>2. at[a] \in Nat /\ at[a] \in 1..Len(updates) /\ cursor \in Nat
    BY <1>1, AtInHand DEF RouteInv, LogTypes
<1>3. sentId[KeyOf[a]]
    BY DEF AskInv, WaiterOK, Waits, InLoop
<1>4. ~(at[a] > promptAt[KeyOf[a]])
    BY <1>3 DEF MayRecord, Waiting, Holds
<1>5. ~Answers(KeyOf[a], at[a])
    BY <1>4 DEF Answers
<1>6. \A v \in (cursor + 1)..(at[a] - 1) : ~Answers(KeyOf[a], v)
    BY <1>1 DEF RouteInv, PassedOK
<1>7. \A v \in (cursor + 1)..at[a] : v = at[a] \/ v \in (cursor + 1)..(at[a] - 1)
    BY <1>2
<1>. QED BY <1>5, <1>6, <1>7

(* The actor goes on with the update in hand. *)
LEMMA OwnStays ==
    ASSUME AskInv, RouteInv, NEW a \in Actors, ActorStep(a), pc[a] \in {"command", "record"},
           pc'[a] \in {"save", "save_reply"}, at' = at, upto' = upto, promptAt' = promptAt,
           cursor' = cursor, ClearTo(at[a], updates, Dealt'),
           pc'[a] = "save_reply" => /\ a \in Callers /\ TakenFor(a, updates[at[a]])
                                    /\ status'[KeyOf[a]] \in Replied,
           a \in Callers /\ Waiting(a)' /\ pc'[a] = "save" =>
              Waiting(a) /\ ~Answers(KeyOf[a], at[a])
    PROVE  BatchOK(a)' /\ (a \in Callers => PassedOK(a)')
<1>. USE CallersAct
<1>1. updates' = updates /\ LogGrows /\ LogTypes
    BY LogFrame, LogGrowsNext DEF RouteInv
<1>2. pc[a] \in InHand /\ pc'[a] \in InHand \ {"command", "record"}
    BY DEF InHand
<1>3. at[a] \in Nat /\ at[a] \in 1..Len(updates) /\ at[a] <= upto[a] /\ upto[a] <= Len(updates)
      /\ ClearTo(at[a] - 1, updates, Dealt) /\ Len(updates) \in Nat
    BY <1>2, AtInHand
<1>4. ClearTo(at[a] - 1, updates', Dealt')
    <2>1. at[a] - 1 \in Nat /\ at[a] - 1 <= Len(updates)
        BY <1>3
    <2>. QED BY <1>1, <1>3, <2>1, ClearStays
<1>5. BatchOK(a)'
    <2>1. at[a] >= 1 /\ at[a] <= upto[a] /\ upto[a] <= Len(updates')
        BY <1>1, <1>3
    <2>2. ClearTo(at[a], updates', Dealt')
        BY <1>1
    <2>3. pc'[a] # "command" /\ pc'[a] # "record"
        OBVIOUS
    <2>4. pc'[a] = "save_reply" => a \in Callers /\ TakenFor(a, updates'[at[a]])
        BY <1>1
    <2>. QED BY <1>4, <2>1, <2>2, <2>3, <2>4 DEF BatchOK
<1>6. ASSUME a \in Callers
      PROVE  PassedOK(a)'
    <2>1. last'[a] <= cursor'
        BY <1>6, BatchTypes
    <2>2. pc'[a] \notin {"idle", "insert"} => status'[KeyOf[a]] # "absent"
        BY <1>6, KnownNext
    <2>3. Waiting(a)' => pc'[a] = "save"
        BY DEF Waiting, Replied
    <2>4. ASSUME Waiting(a)'
          PROVE  /\ \A u \in (cursor + 1)..(at[a] - 1) : ~Answers(KeyOf[a], u)'
                 /\ ~Answers(KeyOf[a], at[a])'
        <3>1. Waiting(a) /\ ~Answers(KeyOf[a], at[a])
            BY <1>6, <2>3, <2>4
        <3>2. \A u \in (cursor + 1)..(at[a] - 1) : ~Answers(KeyOf[a], u)
            BY <1>2, <1>6, <3>1 DEF RouteInv, PassedOK
        <3>. QED BY <1>1, <3>1, <3>2 DEF Answers
    <2>5. pc'[a] = "save_reply" => status'[KeyOf[a]] \in Replied
        OBVIOUS
    <2>. QED BY <2>1, <2>2, <2>4, <2>5 DEF PassedOK, Answers
<1>. QED BY <1>5, <1>6

LEMMA OwnNext ==
    ASSUME AskInv, RouteInv, NEW a \in Actors, ActorStep(a)
    PROVE  BatchOK(a)' /\ (a \in Callers => PassedOK(a)')
<1>. USE CallersAct
<1>1. CASE pc'[a] \notin InHand
    <2>1. BatchOK(a)'
        BY <1>1 DEF BatchOK, InHand
    <2>2. ASSUME a \in Callers
          PROVE  PassedOK(a)'
        <3>1. last'[a] <= cursor'
            BY <2>2, BatchTypes
        <3>2. pc'[a] \notin {"idle", "insert"} => status'[KeyOf[a]] # "absent"
            BY <2>2, KnownNext
        <3>. QED BY <1>1, <3>1, <3>2 DEF PassedOK, InHand
    <2>. QED BY <2>1, <2>2
<1>2. CASE pc'[a] \in InHand
    <2>1. /\ Len(updates) \in Nat /\ cursor \in Nat /\ cursor <= Len(updates) /\ at \in [Actors -> Nat]
          /\ upto \in [Actors -> Nat] /\ last \in [Callers -> Nat]
          /\ ClearTo(cursor, updates, Dealt)
        BY DEF RouteInv, LogTypes
    <2>2. cursor' \in Nat /\ cursor <= cursor'
        BY CursorMoves
    <2>3. pc \in [Actors -> Points]
        BY DEF AskInv, AskTypes
    <2>4. CASE ReadCursor(a) /\ a = Controller /\ TakesUp(a, cursor + 1, Len(updates))
        <3>1. promptAt' = promptAt
            BY <2>4 DEF ReadCursor, chat
        <3>2. cursor + 1 \in Nat /\ cursor + 1 >= 1 /\ (cursor + 1) - 1 = cursor
            BY <2>1
        <3>. QED BY <2>1, <2>4, <3>1, <3>2, OwnTakesUp
    <2>5. CASE a \in Callers /\ Renew(a) /\ TakesUp(a, last[a] + 1, Len(updates))
        <3>1. promptAt' = promptAt /\ cursor' = cursor
            BY <2>5 DEF Renew, chat, polling
        <3>2. last[a] \in Nat /\ last[a] <= cursor
            BY <2>1, <2>5 DEF RouteInv, PassedOK
        <3>3. last[a] + 1 \in Nat /\ last[a] + 1 >= 1 /\ (last[a] + 1) - 1 = last[a]
            BY <3>2
        <3>4. ClearTo(last[a], updates, Dealt)
            BY <2>1, <3>2 DEF ClearTo
        <3>5. \A v \in (cursor' + 1)..last[a] : FALSE
            BY <2>1, <3>1, <3>2
        <3>. QED BY <2>1, <2>5, <3>1, <3>3, <3>4, <3>5, OwnTakesUp
    <2>6. CASE Save(a) /\ SaveCursor(a, at[a]) /\ TakesUp(a, at[a] + 1, upto[a])
        <3>1. promptAt' = promptAt /\ pc[a] = "save"
            BY <2>6 DEF Save, chat
        <3>2. pc[a] \in InHand /\ pc[a] # "command"
            BY <3>1 DEF InHand
        <3>3. at[a] \in Nat /\ ClearTo(at[a], updates, Dealt) /\ upto[a] \in Nat /\ upto[a] <= Len(updates)
            BY <3>2, AtInHand
        <3>4. at[a] + 1 \in Nat /\ at[a] + 1 >= 1 /\ (at[a] + 1) - 1 = at[a]
            BY <3>3
        <3>5. at[a] <= cursor'
            BY <2>1, <2>6, <3>3 DEF SaveCursor
        <3>6. \A v \in (cursor' + 1)..at[a] : FALSE
            BY <2>2, <3>3, <3>5
        <3>. QED BY <2>6, <3>1, <3>3, <3>4, <3>6, OwnTakesUp
    <2>7. CASE a \in Callers /\ Record(a) /\ ~MayRecord(a) /\ updates[at[a]] # KeyOf[a]
               /\ TakesUp(a, at[a] + 1, upto[a])
        <3>1. promptAt' = promptAt /\ pc[a] = "record" /\ cursor' = cursor
              /\ waiter' = waiter /\ poller' = poller
            BY <2>7 DEF Record, chat, polling
        <3>2. status' = status
            BY <2>7 DEF Record
        <3>3. pc[a] \in InHand /\ pc[a] # "command" /\ pc[a] \in InLoop
            BY <3>1 DEF InHand, InLoop
        <3>4. at[a] \in Nat /\ ClearTo(at[a], updates, Dealt) /\ upto[a] \in Nat /\ upto[a] <= Len(updates)
            BY <3>3, AtInHand
        <3>5. at[a] + 1 \in Nat /\ at[a] + 1 >= 1 /\ (at[a] + 1) - 1 = at[a]
            BY <3>4
        <3>6. Waiting(a)' => \A v \in (cursor' + 1)..at[a] : ~Answers(KeyOf[a], v)
            BY <2>7, <3>1, <3>2, <3>3, OwnWaiting, NoAnswerInHand
        <3>. QED BY <2>7, <3>1, <3>4, <3>5, <3>6, OwnTakesUp
    <2>8. CASE a \in Callers /\ Record(a) /\ MayRecord(a)
        <3>1. /\ status' = [status EXCEPT ![KeyOf[a]] = "replied"] /\ Goto(a, "save_reply")
              /\ at' = at /\ upto' = upto /\ pc[a] = "record"
              /\ promptAt' = promptAt /\ cursor' = cursor
            BY <2>8 DEF Record, chat, polling
        <3>2. pc'[a] = "save_reply"
            BY <2>3, <3>1 DEF Goto
        <3>3. status \in [Keys -> Statuses] /\ KeyOf[a] \in Keys
            BY <2>8 DEF AskInv, AskTypes
        <3>4. status'[KeyOf[a]] \in Replied
            BY <3>1, <3>3 DEF Replied
        <3>5. pc[a] \in InHand /\ pc[a] # "command"
            BY <3>1 DEF InHand
        <3>6. ClearTo(at[a], updates, Dealt')
            BY <3>5, AtInHand, LogFrame DEF ClearTo
        <3>7. TakenFor(a, updates[at[a]])
            BY <3>1 DEF RouteInv, BatchOK
        <3>. QED BY <2>8, <3>1, <3>2, <3>4, <3>6, <3>7, OwnStays
    <2>9. CASE a \in Callers /\ Record(a) /\ ~MayRecord(a) /\ updates[at[a]] = KeyOf[a]
        <3>1. /\ status' = status /\ Goto(a, "save") /\ waiter' = waiter /\ poller' = poller
              /\ at' = at /\ upto' = upto /\ pc[a] = "record"
              /\ promptAt' = promptAt /\ cursor' = cursor
            BY <2>9 DEF Record, chat, polling
        <3>2. pc'[a] = "save"
            BY <2>3, <3>1 DEF Goto
        <3>3. pc[a] \in InHand /\ pc[a] # "command" /\ pc[a] \in InLoop
            BY <3>1 DEF InHand, InLoop
        <3>4. ClearTo(at[a], updates, Dealt')
            BY <3>3, AtInHand, LogFrame DEF ClearTo
        <3>5. Waiting(a)' => Waiting(a)
            BY <2>9, <3>1, <3>3, OwnWaiting
        <3>6. Waiting(a) => ~Answers(KeyOf[a], at[a])
            <4>1. ASSUME Waiting(a)
                  PROVE  ~(at[a] > promptAt[KeyOf[a]])
                <5>1. sentId[KeyOf[a]]
                    BY <2>9, <3>3 DEF AskInv, WaiterOK, Waits
                <5>. QED BY <2>9, <4>1, <5>1 DEF MayRecord, Waiting, Holds
            <4>. QED BY <4>1 DEF Answers
        <3>. QED BY <2>9, <3>1, <3>2, <3>4, <3>5, <3>6, OwnStays
    <2>10. CASE DispatchCommand(a)
        <3>1. /\ status' = status /\ Goto(a, "save") /\ waiter' = waiter /\ poller' = poller
              /\ at' = at /\ upto' = upto /\ pc[a] = "command" /\ Dealt' = Dealt \cup {at[a]}
              /\ promptAt' = promptAt /\ cursor' = cursor
            BY <2>10 DEF DispatchCommand, chat, polling, batch, correlation, Dealt
        <3>2. pc'[a] = "save"
            BY <2>3, <3>1 DEF Goto
        <3>3. pc[a] \in InHand /\ pc[a] \in InLoop
            BY <3>1 DEF InHand, InLoop
        <3>4. at[a] \in Nat /\ at[a] \in 1..Len(updates) /\ ClearTo(at[a] - 1, updates, Dealt)
            BY <3>3, AtInHand
        <3>5. ClearTo(at[a], updates, Dealt')
            <4>1. \A v \in 1..at[a] : v = at[a] \/ v \in 1..(at[a] - 1)
                BY <3>4
            <4>. QED BY <3>1, <3>4, <4>1 DEF ClearTo
        <3>6. a \in Callers /\ Waiting(a)' => Waiting(a)
            BY <3>1, <3>3, OwnWaiting
        <3>7. updates[at[a]] = Command
            BY <3>1 DEF RouteInv, BatchOK
        <3>8. a \in Callers => ~Answers(KeyOf[a], at[a])
            BY <3>7, KindsDiffer DEF Answers
        <3>. QED BY <3>1, <3>2, <3>5, <3>6, <3>8, OwnStays
    <2>. QED BY <1>2, <2>4, <2>5, <2>6, <2>7, <2>8, <2>9, <2>10, ToHand
<1>. QED BY <1>1, <1>2

-----------------------------------------------------------------------------
LEMMA NobodyActs == Nobody \notin Actors
<1>1. CASE Nobody = Controller
    <2>1. {Controller, Nobody, Gone} = {Controller} \cup {Gone}
        BY <1>1
    <2>2. IsFiniteSet({Controller}) /\ Cardinality({Controller}) = 1
        BY FS_Singleton
    <2>3. Cardinality({Controller} \cup {Gone}) <= 2
        BY <2>2, FS_AddElement
    <2>. QED BY <2>1, <2>3, ActorsAssumption
<1>. QED BY <1>1, ActorsAssumption DEF Actors

LEMMA RouteInit == Init => RouteInv
<1>. SUFFICES ASSUME Init PROVE RouteInv
    OBVIOUS
<1>. USE CallersAct
<1>1. /\ updates = <<>> /\ Len(updates) = 0 /\ cursor = 0
      /\ reply = [k \in Keys |-> 0] /\ promptAt = [k \in Keys |-> 0]
      /\ waiter = [k \in Keys |-> Nobody] /\ misled = [k \in Keys |-> {}]
      /\ last = [w \in Callers |-> 0] /\ answer = [w \in Callers |-> 0]
      /\ at = [a \in Actors |-> 0] /\ upto = [a \in Actors |-> 0]
      /\ pc = [a \in Actors |-> "idle"]
    BY DEF Init
<1>2. LogTypes
    BY <1>1 DEF LogTypes
<1>3. ClearTo(0, updates, Dealt)
    BY DEF ClearTo
<1>4. ReplyOK
    BY <1>1, <1>3 DEF ReplyOK
<1>5. \A a \in Actors : BatchOK(a)
    BY <1>1 DEF BatchOK, InHand
<1>6. \A w \in Callers : PassedOK(w)
    BY <1>1 DEF PassedOK, Waiting, InLoop
<1>. QED BY <1>1, <1>2, <1>3, <1>4, <1>5, <1>6 DEF RouteInv

(* The user sends something: the log grows, and nobody has seen it yet. *)
LEMMA UserSendsRoute ==
    ASSUME AskInv, RouteInv, UserSends
    PROVE  RouteInv'
<1>. USE CallersAct
<1>1. /\ status' = status /\ waiter' = waiter /\ reply' = reply /\ cursor' = cursor
      /\ poller' = poller /\ promptAt' = promptAt /\ pc' = pc /\ last' = last /\ at' = at
      /\ upto' = upto /\ answer' = answer /\ Dealt' = Dealt /\ misled' = misled
    BY DEF UserSends, Idle, correlation, polling, batch, commands, Dealt
<1>2. PICK u \in Keys \cup {Text, Other, Command} : updates' = Append(updates, u)
    BY DEF UserSends, Sendable
<1>3. LogTypes /\ updates \in Seq(Keys \cup {Text, Other, Command}) /\ Len(updates) \in Nat
    BY DEF RouteInv, LogTypes
<1>4. updates' \in Seq(Keys \cup {Text, Other, Command}) /\ Len(updates') = Len(updates) + 1
      /\ \A v \in 1..Len(updates) : updates'[v] = updates[v]
    BY <1>2, <1>3
<1>5. LogGrows
    BY <1>1, <1>3, <1>4 DEF LogGrows
<1>6. LogTypes'
    BY <1>1, <1>3, <1>4 DEF LogTypes
<1>7. StatusOn /\ LeasesOf(Nobody) /\ LocalsOf(Nobody) /\ PromptsStay
    BY <1>1 DEF StatusOn, LeasesOf, LocalsOf, PromptsStay
<1>8. Nobody \notin Actors /\ cursor <= cursor'
    <2>1. cursor \in Nat
        BY <1>3 DEF LogTypes
    <2>. QED BY <1>1, <2>1, NobodyActs
<1>9. (\A a \in Actors : BatchOK(a)') /\ \A w \in Callers : PassedOK(w)'
    <2>1. /\ \A b \in Actors \ {Nobody} : BatchOK(b)'
          /\ \A w \in Callers \ {Nobody} : PassedOK(w)'
        BY <1>5, <1>6, <1>7, <1>8, OthersKeep
    <2>. QED BY <1>8, <2>1
<1>10. ASSUME NEW n \in Nat, n <= Len(updates), ClearTo(n, updates, Dealt)
       PROVE  ClearTo(n, updates', Dealt')
    BY <1>3, <1>5, <1>10, ClearStays
<1>11. ClearTo(cursor, updates', Dealt')
    BY <1>3, <1>10 DEF RouteInv, LogTypes
<1>12. ASSUME NEW k \in Keys
       PROVE  /\ reply[k] <= Len(updates') /\ ClearTo(reply[k], updates', Dealt')
              /\ reply[k] # 0 => status[k] \in Replied /\ MayReply(k, reply[k])'
              /\ misled[k] = {}
    <2>1. /\ reply[k] \in Nat /\ reply[k] <= Len(updates) /\ ClearTo(reply[k], updates, Dealt)
          /\ reply[k] # 0 => status[k] \in Replied /\ MayReply(k, reply[k])
          /\ misled[k] = {}
        BY DEF RouteInv, LogTypes, ReplyOK
    <2>2. reply[k] # 0 => reply[k] \in 1..Len(updates)
        BY <1>3, <2>1
    <2>3. reply[k] # 0 => MayReply(k, reply[k])'
        BY <1>1, <1>4, <2>1, <2>2 DEF MayReply, Answers
    <2>. QED BY <1>3, <1>4, <1>10, <2>1, <2>3
<1>13. ReplyOK'
    BY <1>1, <1>12 DEF ReplyOK, RouteInv, MayReply, Answers
<1>. QED BY <1>1, <1>6, <1>9, <1>11, <1>13 DEF RouteInv

LEMMA NextIs ==
    ASSUME Next
    PROVE  UserSends \/ \E a \in Actors : ActorStep(a)
BY CallersAct DEF Next, ActorStep

LEMMA RouteNext == AskInv /\ RouteInv /\ [Next]_vars => RouteInv'
<1>. SUFFICES ASSUME AskInv, RouteInv, [Next]_vars PROVE RouteInv'
    OBVIOUS
<1>. USE CallersAct
<1>1. ASSUME NEW a \in Actors, ActorStep(a)
      PROVE  RouteInv'
    <2>1. LogTypes' /\ LogGrows /\ PromptsStay /\ StatusOn /\ LeasesOf(a) /\ LocalsOf(a)
        BY <1>1, LogTypesNext, LogGrowsNext, DatesStay, StepFrame DEF RouteInv
    <2>2. cursor \in Nat /\ cursor' \in Nat /\ cursor <= cursor' /\ cursor' <= Len(updates)
          /\ ClearTo(cursor', updates, Dealt) /\ LogTypes
        BY <1>1, CursorMoves DEF RouteInv, LogTypes
    <2>3. ClearTo(cursor', updates', Dealt')
        BY <2>1, <2>2, ClearStays
    <2>4. /\ \A b \in Actors \ {a} : BatchOK(b)'
          /\ \A w \in Callers \ {a} : PassedOK(w)'
        BY <2>1, <2>2, OthersKeep
    <2>5. BatchOK(a)' /\ (a \in Callers => PassedOK(a)')
        BY <1>1, OwnNext
    <2>6. (\A b \in Actors : BatchOK(b)') /\ \A w \in Callers : PassedOK(w)'
        BY <2>4, <2>5
    <2>7. ReplyOK'
        BY <1>1, ReplyNext
    <2>. QED BY <2>1, <2>3, <2>6, <2>7 DEF RouteInv
<1>2. CASE UserSends
    BY <1>2, UserSendsRoute
<1>3. CASE UNCHANGED vars
    BY <1>3 DEF vars, correlation, polling, chat, batch, RouteInv, LogTypes, ReplyOK, BatchOK,
       PassedOK, MayReply, Answers, Waiting, commands, Dealt
<1>. QED BY <1>1, <1>2, <1>3, NextIs

LEMMA RouteAlways == Spec => [](AskInv /\ RouteInv)
<1>1. Init => AskInv /\ RouteInv
    BY AskInit, RouteInit
<1>2. AskInv /\ RouteInv /\ [Next]_vars => AskInv' /\ RouteInv'
    BY AskNext, RouteNext
<1>. QED BY <1>1, <1>2, PTL DEF Spec

(* Whatever competes for the cursor, dies or is answered late: the reply a caller
   gets was sent after its prompt, as a message of its own or to that prompt. *)
THEOREM AnswersReachTheirQuestion == Spec => []AnswerIsForItsQuestion
<1>1. RouteInv => AnswerIsForItsQuestion
    BY DEF RouteInv, ReplyOK, AnswerIsForItsQuestion
<1>. QED BY <1>1, RouteAlways, PTL

(* The cursor, which every caller and the controller move, passes no control command
   that was neither dispatched nor taken up by a call of a process without a handler. *)
THEOREM CommandsObeyed == Spec => []CommandsAreObeyed
<1>1. RouteInv => CommandsAreObeyed
    <2>. SUFFICES ASSUME RouteInv, NEW u \in 1..Len(updates), updates[u] = Command, u <= cursor
                  PROVE  u \in obeyed \cup unheard
        BY DEF CommandsAreObeyed
    <2>1. cursor \in Nat /\ ClearTo(cursor, updates, Dealt)
        BY DEF RouteInv, LogTypes
    <2>2. u \in 1..cursor
        BY <2>1
    <2>. QED BY <2>1, <2>2 DEF ClearTo, Dealt
<1>. QED BY <1>1, RouteAlways, PTL

(* One that hears commands leaves none unheard. *)
LEMMA HeardStep ==
    ASSUME NEW a \in Actors, ActorStep(a), Hears(a)
    PROVE  unheard' \subseteq unheard
<1>1. CASE a \in Callers /\ CallerStep(a)
    BY <1>1 DEF CallerStep, Reconcile, Register, Insert, ClaimCached, CachedConsume, RecoverPoll,
       RecoverSave, RecoverConsume, Claim, ClaimForQuestion, MarkPromptInFlight, Send,
       RecordPromptSent, MarkPromptFailed, MarkDeliveryUnknown, Settle, Renew, Record, SaveReply,
       Consume, ReleaseWaiter, TimeOutPoll, MarkTimedOut, LateRelease, LateRead, commands, Idle,
       Fetch, Proceed
<1>2. CASE PollControl \/ PollStep(a) \/ Raise(a) \/ Abandon(a)
    BY <1>2 DEF PollControl, PollStep, ReadCursor, Save, ReleasePoll, Raise, Abandon, Idle,
       commands, DispatchCommand, Fetch, Proceed
<1>. QED BY <1>1, <1>2 DEF ActorStep

(* Where every process that asks questions runs the controller, so that each call finds
   its handler, the cursor passes no command that was not dispatched. *)
THEOREM NoCommandLost ==
    Spec => [](Callers \subseteq Supervised =>
                  \A u \in 1..Len(updates) : updates[u] = Command /\ u <= cursor => u \in obeyed)
<1>. DEFINE AllHeard == Callers \subseteq Supervised => unheard = {}
<1>1. Init => AllHeard
    BY DEF Init
<1>2. AllHeard /\ [Next]_vars => AllHeard'
    <2>. SUFFICES ASSUME Callers \subseteq Supervised, unheard = {}, [Next]_vars
                  PROVE  unheard' = {}
        OBVIOUS
    <2>1. ASSUME NEW a \in Actors, ActorStep(a)
          PROVE  unheard' = {}
        <3>1. Hears(a)
            BY DEF Hears, Actors
        <3>. QED BY <2>1, <3>1, HeardStep
    <2>2. CASE UserSends \/ UNCHANGED vars
        BY <2>2 DEF UserSends, Idle, vars, commands
    <2>. QED BY <2>1, <2>2, NextIs
<1>3. AllHeard /\ CommandsAreObeyed =>
         (Callers \subseteq Supervised =>
             \A u \in 1..Len(updates) : updates[u] = Command /\ u <= cursor => u \in obeyed)
    BY DEF CommandsAreObeyed
<1>. QED BY <1>1, <1>2, <1>3, CommandsObeyed, PTL DEF Spec

(* While a caller holds both leases and waits, the cursor is its own to move, and it
   moves over nothing that answers the question. *)
THEOREM AnswersNotPassedOver == Spec => NoAnswerPassedOver
<1>1. ASSUME AskInv, RouteInv, [Next]_vars, cursor' > cursor,
             NEW w \in Callers, NEW u \in (cursor + 1)..cursor', Waiting(w)
      PROVE  ~Answers(KeyOf[w], u)
    <2>. USE CallersAct
    <2>1. cursor \in Nat
        BY <1>1 DEF RouteInv, LogTypes
    <2>2. PICK a \in Actors : ActorStep(a)
        <3>1. cursor' # cursor
            BY <1>1, <2>1
        <3>2. ~UserSends /\ ~UNCHANGED vars
            BY <3>1 DEF UserSends, vars, polling
        <3>. QED BY <1>1, <3>2, NextIs
    <2>3. (a \in Callers /\ RecoverSave(a)) \/ Save(a) \/ (a \in Callers /\ SaveReply(a))
        <3>1. cursor' # cursor
            BY <1>1, <2>1
        <3>2. ~PollControl /\ ~ReadCursor(a) /\ ~DispatchCommand(a) /\ ~ReleasePoll(a) /\ ~Raise(a)
              /\ ~Abandon(a)
            BY <3>1 DEF PollControl, ReadCursor, DispatchCommand, ReleasePoll, Raise, Abandon, polling
        <3>3. a \in Callers /\ CallerStep(a) => RecoverSave(a) \/ SaveReply(a)
            BY <3>1 DEF CallerStep, Reconcile, Register, Insert, ClaimCached, CachedConsume,
               RecoverPoll, RecoverConsume, Claim, ClaimForQuestion, MarkPromptInFlight, Send,
               RecordPromptSent, MarkPromptFailed, MarkDeliveryUnknown, Settle, Renew, Record,
               Consume, ReleaseWaiter, TimeOutPoll, MarkTimedOut, LateRelease, LateRead,
               polling
        <3>. QED BY <2>2, <3>2, <3>3 DEF ActorStep, PollStep
    <2>4. poller = a
        <3>1. cursor' # cursor
            BY <1>1, <2>1
        <3>. QED BY <2>3, <3>1 DEF RecoverSave, Save, SaveReply, SaveCursor
    <2>5. w = a
        BY <1>1, <2>4 DEF Waiting
    <2>6. pc[a] = "save"
        <3>1. ~RecoverSave(a)
            BY <1>1, <2>5 DEF Waiting, InLoop, RecoverSave
        <3>2. ~SaveReply(a)
            BY <1>1, <2>5 DEF Waiting, SaveReply, RouteInv, PassedOK, Replied
        <3>. QED BY <2>3, <3>1, <3>2 DEF Save
    <2>7. at[a] \in Nat /\ cursor' = at[a] /\ at[a] > cursor
        <3>1. pc[a] \in InHand
            BY <2>6 DEF InHand
        <3>2. at[a] \in Nat
            BY <1>1, <3>1, AtInHand
        <3>3. cursor' = IF at[a] > cursor THEN at[a] ELSE cursor
            BY <1>1, <2>1, <2>3, <2>6 DEF RecoverSave, Save, SaveReply, SaveCursor
        <3>. QED BY <1>1, <2>1, <3>2, <3>3
    <2>8. PassedOK(w)
        BY <1>1 DEF RouteInv
    <2>9. ~Answers(KeyOf[w], at[a]) /\ \A v \in (cursor + 1)..(at[a] - 1) : ~Answers(KeyOf[w], v)
        BY <1>1, <2>5, <2>6, <2>7, <2>8 DEF PassedOK, InHand
    <2>10. u = at[a] \/ u \in (cursor + 1)..(at[a] - 1)
        BY <1>1, <2>1, <2>7
    <2>. QED BY <2>9, <2>10
<1>2. AskInv /\ RouteInv /\ [Next]_vars =>
         (cursor' > cursor =>
            \A w \in Callers, u \in (cursor + 1)..cursor' :
               Waiting(w) /\ Waiting(w)' => ~Answers(KeyOf[w], u))
    BY <1>1
<1>3. AskInv /\ RouteInv /\ [Next]_vars =>
         [cursor' > cursor =>
            \A w \in Callers, u \in (cursor + 1)..cursor' :
               Waiting(w) /\ Waiting(w)' => ~Answers(KeyOf[w], u)]_vars
    BY <1>2
<1>. QED BY <1>3, RouteAlways, PTL DEF Spec, NoAnswerPassedOver

-----------------------------------------------------------------------------
(* What is left of the types: the locals and the dates are positions in the log,
   and a lease has one holder. *)
Positions ==
    /\ Len(updates) <= MaxUpdates
    /\ poller \in Actors \cup {Nobody, Gone}
    /\ \A k \in Keys : promptAt[k] <= Len(updates)
    /\ \A a \in Actors : at[a] <= Len(updates) /\ upto[a] <= Len(updates)
    /\ Dealt \subseteq 1..Len(updates)

LEMMA ProceedWithin ==
    ASSUME RouteInv, Positions, NEW a \in Actors, NEW u \in Nat, NEW hi \in Nat,
           Proceed(a, u, hi), hi <= Len(updates)
    PROVE  \A b \in Actors : at'[b] <= Len(updates) /\ upto'[b] <= Len(updates)
<1>1. at \in [Actors -> Nat] /\ upto \in [Actors -> Nat] /\ Len(updates) \in Nat
    BY DEF RouteInv, LogTypes
<1>2. \E m \in Nat : m <= Len(updates) /\ at' = [at EXCEPT ![a] = m]
    BY <1>1 DEF Proceed
<1>3. \E m \in Nat : m <= Len(updates) /\ upto' = [upto EXCEPT ![a] = m]
    BY <1>1 DEF Proceed
<1>4. \A b \in Actors : at'[b] <= Len(updates)
    BY <1>1, <1>2 DEF Positions
<1>5. \A b \in Actors : upto'[b] <= Len(updates)
    BY <1>1, <1>3 DEF Positions
<1>. QED BY <1>4, <1>5

LEMMA BatchWithin ==
    ASSUME RouteInv, Positions, NEW a \in Actors, ActorStep(a)
    PROVE  \A b \in Actors : at'[b] <= Len(updates) /\ upto'[b] <= Len(updates)
<1>. USE CallersAct
<1>. DEFINE Within == \A b \in Actors : at'[b] <= Len(updates) /\ upto'[b] <= Len(updates)
<1>1. /\ last \in [Callers -> Nat] /\ at \in [Actors -> Nat] /\ upto \in [Actors -> Nat]
      /\ cursor \in Nat /\ Len(updates) \in Nat
    BY DEF RouteInv, LogTypes
<1>2. \A b \in Actors : at[b] <= Len(updates) /\ upto[b] <= Len(updates)
    BY DEF Positions
<1>3. at' = at /\ upto' = upto => Within
    BY <1>2
<1>4. DropBatch(a) => Within
    BY <1>1, <1>2 DEF DropBatch
<1>5. ASSUME NEW u \in Nat, NEW hi \in Nat, Proceed(a, u, hi), hi <= Len(updates)
      PROVE  Within
    BY <1>5, ProceedWithin
<1>. HIDE DEF Within
<1>6. CASE a \in Callers /\ (Reconcile(a) \/ ClaimCached(a) \/ RecoverPoll(a) \/ RecoverSave(a)
                             \/ RecoverConsume(a) \/ ClaimForQuestion(a) \/ MarkPromptInFlight(a)
                             \/ Send(a) \/ RecordPromptSent(a) \/ MarkPromptFailed(a)
                             \/ MarkDeliveryUnknown(a) \/ Consume(a)
                             \/ MarkTimedOut(a) \/ LateRelease(a))
    <2>1. at' = at /\ upto' = upto
        BY <1>6 DEF Reconcile, ClaimCached, RecoverPoll, RecoverSave, RecoverConsume,
           ClaimForQuestion, MarkPromptInFlight, Send, RecordPromptSent, MarkPromptFailed,
           MarkDeliveryUnknown, Settle, Consume, MarkTimedOut, LateRelease, Idle, batch
    <2>. QED BY <1>3, <2>1 DEF Within
<1>7. CASE a \in Callers /\ (Register(a) \/ Insert(a) \/ CachedConsume(a) \/ Claim(a)
                             \/ ReleaseWaiter(a) \/ LateRead(a))
    <2>1. DropBatch(a) \/ (at' = at /\ upto' = upto)
        BY <1>7 DEF Register, Insert, Registered, CachedConsume, Claim, ReleaseWaiter, LateRead,
           Return, Leave, batch
    <2>. QED BY <1>3, <1>4, <2>1 DEF Within
<1>8. CASE a \in Callers /\ Renew(a)
    <2>1. last[a] + 1 \in Nat /\ Len(updates) <= Len(updates)
        BY <1>1, <1>8
    <2>2. Proceed(a, last[a] + 1, Len(updates)) \/ DropBatch(a)
        BY <1>8 DEF Renew, Fetch, Offset, Quit
    <2>. QED BY <1>1, <1>4, <1>5, <2>1, <2>2 DEF Within
<1>9. CASE (a \in Callers /\ Record(a)) \/ Save(a)
    <2>1. at[a] + 1 \in Nat /\ upto[a] \in Nat /\ upto[a] <= Len(updates)
        BY <1>1, <1>2
    <2>2. (at' = at /\ upto' = upto) \/ Proceed(a, at[a] + 1, upto[a]) \/ DropBatch(a)
        BY <1>9 DEF Record, Save, Quit
    <2>. QED BY <1>3, <1>4, <1>5, <2>1, <2>2 DEF Within
<1>10. CASE a \in Callers /\ (SaveReply(a) \/ TimeOutPoll(a))
    BY <1>4, <1>10 DEF SaveReply, TimeOutPoll, Quit, Within
<1>11. CASE PollControl \/ DispatchCommand(a)
    <2>1. at' = at /\ upto' = upto
        BY <1>11 DEF PollControl, DispatchCommand, Idle, batch
    <2>. QED BY <1>3, <2>1 DEF Within
<1>12. CASE ReadCursor(a)
    <2>1. cursor + 1 \in Nat /\ Len(updates) <= Len(updates)
        BY <1>1
    <2>2. Proceed(a, cursor + 1, Len(updates)) \/ (at' = at /\ upto' = upto)
        BY <1>12 DEF ReadCursor, Fetch, Offset
    <2>. QED BY <1>1, <1>3, <1>5, <2>1, <2>2 DEF Within
<1>13. CASE ReleasePoll(a)
    <2>1. at' = at /\ upto' = upto
        BY <1>13 DEF ReleasePoll, Idle, batch
    <2>. QED BY <1>3, <2>1 DEF Within
<1>14. CASE Raise(a) \/ Abandon(a)
    BY <1>4, <1>14 DEF Raise, Quit, Abandon, Leave, Within
<1>. QED BY <1>6, <1>7, <1>8, <1>9, <1>10, <1>11, <1>12, <1>13, <1>14
         DEF ActorStep, CallerStep, PollStep

(* The lease goes to the one that takes it, or to nobody. *)
LEMMA OnePoller ==
    ASSUME Positions, NEW a \in Actors, ActorStep(a)
    PROVE  poller' \in Actors \cup {Nobody, Gone}
<1>1. poller \in Actors \cup {Nobody, Gone}
    BY DEF Positions
<1>2. CASE a \in Callers /\ CallerStep(a)
    <2>1. poller' \in {poller, a, Nobody}
        BY <1>2 DEF CallerStep, Reconcile, Register, Insert, ClaimCached, CachedConsume, RecoverPoll,
           RecoverSave, RecoverConsume, Claim, ClaimForQuestion, MarkPromptInFlight, Send,
           RecordPromptSent, MarkPromptFailed, MarkDeliveryUnknown, Settle, Renew, Record, SaveReply,
           Consume, ReleaseWaiter, TimeOutPoll, MarkTimedOut, LateRelease, LateRead,
           polling, ClaimPoll, DropPoll
    <2>. QED BY <1>1, <2>1
<1>3. CASE (a = Controller /\ PollControl) \/ PollStep(a) \/ Raise(a) \/ Abandon(a)
    <2>1. poller' \in {poller, a, Nobody, Gone}
        BY <1>3 DEF PollControl, PollStep, ReadCursor, DispatchCommand, Save, ReleasePoll, Raise,
           Abandon, polling, ClaimPoll, DropPoll
    <2>. QED BY <1>1, <2>1
<1>. QED BY <1>2, <1>3 DEF ActorStep

(* The commands dealt with are in the log. *)
LEMMA DealtWithin ==
    ASSUME RouteInv, Positions, NEW a \in Actors, ActorStep(a)
    PROVE  Dealt' \subseteq 1..Len(updates)
<1>. USE CallersAct
<1>. DEFINE Within == Dealt' \subseteq 1..Len(updates)
<1>1. /\ last \in [Callers -> Nat] /\ at \in [Actors -> Nat] /\ upto \in [Actors -> Nat]
      /\ cursor \in Nat /\ Len(updates) \in Nat
    BY DEF RouteInv, LogTypes
<1>2. Dealt \subseteq 1..Len(updates)
    BY DEF Positions
<1>3. obeyed' = obeyed /\ unheard' = unheard => Within
    BY <1>2 DEF Dealt
<1>4. ASSUME NEW u \in Nat, u >= 1, NEW hi \in Nat, hi <= Len(updates), Proceed(a, u, hi),
             obeyed' = obeyed
      PROVE  Within
    <2>1. unheard' = unheard \/ (u <= hi /\ unheard' \subseteq unheard \cup {u})
        BY <1>4 DEF Proceed
    <2>2. u <= hi => u \in 1..Len(updates)
        BY <1>1, <1>4
    <2>. QED BY <1>2, <1>4, <2>1, <2>2 DEF Dealt
<1>. HIDE DEF Within
<1>5. CASE a \in Callers /\ CallerStep(a) /\ ~Renew(a) /\ ~Record(a)
    <2>1. obeyed' = obeyed /\ unheard' = unheard
        BY <1>5 DEF CallerStep, Reconcile, Register, Insert, ClaimCached, CachedConsume, RecoverPoll,
           RecoverSave, RecoverConsume, Claim, ClaimForQuestion, MarkPromptInFlight, Send,
           RecordPromptSent, MarkPromptFailed, MarkDeliveryUnknown, Settle, SaveReply,
           Consume, ReleaseWaiter, TimeOutPoll, MarkTimedOut, LateRelease, LateRead, commands, Idle
    <2>. QED BY <1>3, <2>1 DEF Within
<1>6. CASE a \in Callers /\ Renew(a)
    <2>1. last[a] + 1 \in Nat /\ last[a] + 1 >= 1 /\ Len(updates) <= Len(updates)
        BY <1>1, <1>6
    <2>2. obeyed' = obeyed /\ (Proceed(a, last[a] + 1, Len(updates)) \/ unheard' = unheard)
        BY <1>6 DEF Renew, Fetch, Offset
    <2>. QED BY <1>1, <1>3, <1>4, <2>1, <2>2 DEF Within
<1>7. CASE (a \in Callers /\ Record(a)) \/ Save(a)
    <2>1. at[a] + 1 \in Nat /\ at[a] + 1 >= 1 /\ upto[a] \in Nat /\ upto[a] <= Len(updates)
        BY <1>1 DEF Positions
    <2>2. obeyed' = obeyed /\ (Proceed(a, at[a] + 1, upto[a]) \/ unheard' = unheard)
        BY <1>7 DEF Record, Save
    <2>. QED BY <1>3, <1>4, <2>1, <2>2 DEF Within
<1>8. CASE ReadCursor(a)
    <2>1. cursor + 1 \in Nat /\ cursor + 1 >= 1 /\ Len(updates) <= Len(updates)
        BY <1>1
    <2>2. obeyed' = obeyed /\ (Proceed(a, cursor + 1, Len(updates)) \/ unheard' = unheard)
        BY <1>8 DEF ReadCursor, Fetch, Offset
    <2>. QED BY <1>1, <1>3, <1>4, <2>1, <2>2 DEF Within
<1>9. CASE DispatchCommand(a)
    <2>1. at[a] \in 1..Len(updates)
        BY <1>9, AtInHand DEF DispatchCommand, InHand
    <2>. QED BY <1>2, <1>9, <2>1 DEF DispatchCommand, Dealt, Within
<1>10. CASE PollControl \/ ReleasePoll(a) \/ Raise(a) \/ Abandon(a)
    <2>1. obeyed' = obeyed /\ unheard' = unheard
        BY <1>10 DEF PollControl, ReleasePoll, Raise, Abandon, Idle, commands
    <2>. QED BY <1>3, <2>1 DEF Within
<1>. QED BY <1>5, <1>6, <1>7, <1>8, <1>9, <1>10 DEF ActorStep, PollStep, Within

LEMMA PositionsNext == AskInv /\ RouteInv /\ Positions /\ [Next]_vars => Positions'
<1>. SUFFICES ASSUME AskInv, RouteInv, Positions, [Next]_vars PROVE Positions'
    OBVIOUS
<1>. USE CallersAct
<1>1. /\ updates \in Seq(Keys \cup {Text, Other, Command}) /\ Len(updates) \in Nat
      /\ promptAt \in [Keys -> Nat] /\ at \in [Actors -> Nat] /\ upto \in [Actors -> Nat]
    BY DEF RouteInv, LogTypes
<1>2. ASSUME NEW a \in Actors, ActorStep(a)
      PROVE  Positions'
    <2>1. updates' = updates
        BY <1>2, LogFrame
    <2>2. \A k \in Keys : promptAt'[k] <= Len(updates)
        <3>1. promptAt' = promptAt \/ promptAt' = [promptAt EXCEPT ![KeyOf[a]] = Len(updates)]
            BY <1>2, LogFrame
        <3>. QED BY <1>1, <3>1 DEF Positions
    <2>. QED BY <1>2, <2>1, <2>2, DealtWithin, BatchWithin, OnePoller DEF Positions
<1>3. CASE UserSends
    <2>1. /\ poller' = poller /\ promptAt' = promptAt /\ at' = at /\ upto' = upto
          /\ Dealt' = Dealt
        BY <1>3 DEF UserSends, Idle, polling, batch, commands, Dealt
    <2>2. Len(updates') = Len(updates) + 1 /\ Len(updates) < MaxUpdates
        BY <1>1, <1>3 DEF UserSends
    <2>3. Len(updates') <= MaxUpdates /\ Len(updates) <= Len(updates') /\ Len(updates') \in Nat
        BY <1>1, <2>2, UpdatesAssumption
    <2>4. \A n \in Nat : n <= Len(updates) => n <= Len(updates')
        BY <1>1, <2>3
    <2>5. Dealt' \subseteq 1..Len(updates')
        BY <1>1, <2>1, <2>3 DEF Positions
    <2>. QED BY <1>1, <2>1, <2>3, <2>4, <2>5 DEF Positions
<1>4. CASE UNCHANGED vars
    BY <1>4 DEF vars, polling, chat, batch, commands, Dealt, Positions
<1>. QED BY <1>2, <1>3, <1>4, NextIs

(* Every position is one of the log, every lease and every command somebody's. *)
THEOREM ChannelTypeCorrect == Spec => []TypeOK
<1>1. Init => Positions
    <2>. SUFFICES ASSUME Init PROVE Positions
        OBVIOUS
    <2>1. /\ updates = <<>> /\ Len(updates) = 0 /\ poller = Nobody /\ Dealt = {}
          /\ promptAt = [k \in Keys |-> 0] /\ at = [a \in Actors |-> 0]
          /\ upto = [a \in Actors |-> 0]
        BY DEF Init, Dealt
    <2>2. 0 <= MaxUpdates
        BY UpdatesAssumption
    <2>. QED BY <2>1, <2>2 DEF Positions
<1>2. ASSUME AskInv, RouteInv, Positions
      PROVE  TypeOK
    <2>. USE CallersAct
    <2>1. /\ Len(updates) \in Nat /\ Len(updates) <= MaxUpdates /\ MaxUpdates \in Nat
          /\ reply \in [Keys -> Nat] /\ promptAt \in [Keys -> Nat] /\ cursor \in Nat
          /\ cursor <= Len(updates) /\ last \in [Callers -> Nat] /\ at \in [Actors -> Nat]
          /\ upto \in [Actors -> Nat] /\ answer \in [Callers -> Nat]
        BY <1>2, UpdatesAssumption DEF RouteInv, LogTypes, Positions
    <2>2. \A n \in Nat : n <= Len(updates) => n \in 0..MaxUpdates
        BY <2>1
    <2>3. reply \in [Keys -> 0..MaxUpdates] /\ promptAt \in [Keys -> 0..MaxUpdates]
        BY <1>2, <2>1, <2>2 DEF RouteInv, ReplyOK, Positions
    <2>4. at \in [Actors -> 0..MaxUpdates] /\ upto \in [Actors -> 0..MaxUpdates]
        BY <1>2, <2>1, <2>2 DEF Positions
    <2>5. last \in [Callers -> 0..MaxUpdates] /\ cursor \in 0..MaxUpdates
        <3>1. \A w \in Callers : last[w] <= cursor
            BY <1>2 DEF RouteInv, PassedOK
        <3>2. \A w \in Callers : last[w] \in Nat /\ last[w] <= Len(updates)
            BY <2>1, <3>1
        <3>. QED BY <2>1, <2>2, <3>2
    <2>6. answer \in [Callers -> 0..MaxUpdates]
        <3>1. \A w \in Callers : answer[w] \in {0, reply[KeyOf[w]]}
            BY <1>2 DEF RouteInv, ReplyOK
        <3>2. 0 \in 0..MaxUpdates /\ \A w \in Callers : reply[KeyOf[w]] \in 0..MaxUpdates
            BY <2>1, <2>3
        <3>3. \A w \in Callers : answer[w] \in 0..MaxUpdates
            BY <3>1, <3>2
        <3>. QED BY <2>1, <3>3
    <2>7. misled \in [Keys -> SUBSET (1..MaxUpdates)]
        <3>1. \A k \in Keys : misled[k] = {}
            BY <1>2 DEF RouteInv, ReplyOK
        <3>2. \A k \in Keys : misled[k] \subseteq 1..MaxUpdates
            BY <2>3, <3>1
        <3>. QED BY <1>2, <3>2 DEF RouteInv, LogTypes
    <2>8. obeyed \subseteq 1..MaxUpdates /\ unheard \subseteq 1..MaxUpdates
        BY <1>2, <2>1 DEF Positions, Dealt
    <2>. QED BY <1>2, <2>3, <2>4, <2>5, <2>6, <2>7, <2>8
             DEF TypeOK, AskInv, AskTypes, RouteInv, LogTypes, Positions
<1>. QED BY <1>1, <1>2, PositionsNext, RouteAlways, PTL DEF Spec
=============================================================================
