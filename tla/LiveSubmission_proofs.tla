------------------------ MODULE LiveSubmission_proofs ------------------------
(***************************************************************************)
(* What LiveSubmission guarantees for any jobs, runs, attempt ids, caps and *)
(* number of midnights.  The invariants are those of LiveInvariant.  In    *)
(* order:                                                                  *)
(*   - the types;                                                          *)
(*   - the attempt: an id belongs to one run at a time, every claim takes  *)
(*     a fresh one, and only its holder moves the document, so no second   *)
(*     run gets as far as the click (ClickInv);                            *)
(*   - the quota: one slot is written by a step, by its own run, so the    *)
(*     counters stay exact and the caps kept (CountersInv), and the slot   *)
(*     of the attempt in hand is on the day the run works on (SlotInv);    *)
(*   - the node: what a return reports, and that the job that was clicked  *)
(*     is accounted for (FlowInv);                                         *)
(*   - what is left behind: slots that clicked are kept, no claim is       *)
(*     orphaned and slots match attempts (SettleInv);                      *)
(*   - the refinement of SubmitOnce, step by step;                         *)
(*   - the confirmation (ConfirmInv), and the results.                     *)
(***************************************************************************)
EXTENDS LiveInvariant, FiniteSetTheorems, TLAPS

USE SentinelAssumption, BoundsAssumption

-----------------------------------------------------------------------------
(* How the locals of a run move. *)

OutcomesOK == outcomes \in [Runs -> [Jobs -> Outcomes]]

(* execution_node returns. *)
LEMMA ReturnTyped ==
    ASSUME LocalsOK, OutcomesOK, NEW r \in Runs, job[r] \in Jobs,
           NEW o \in Outcomes, NEW point \in {"idle", "stopped"}, Return(r, o, point)
    PROVE  LocalsOK' /\ OutcomesOK'
<1>1. OutcomesOK'
    BY DEF OutcomesOK, Return
<1>2. /\ pc' \in [Runs -> Points]
      /\ job' \in [Runs -> Jobs \cup {NoJob}]
      /\ token' \in [Runs -> Tokens \cup {NoToken}]
      /\ day' \in [Runs -> Days]
      /\ ending' \in [Runs -> Outcomes]
      /\ quotaReserved' \in [Runs -> BOOLEAN]
      /\ exitRaised' \in [Runs -> BOOLEAN]
    BY DEF LocalsOK, Return, Goto, Points, RestPoints, Days, Outcomes
<1>3. \A s \in Runs : pc'[s] \notin {"off", "idle", "stopped"} => job'[s] \in Jobs
    BY DEF LocalsOK, Return, Goto
<1>4. \A s \in Runs : pc'[s] \in HoldingPoints <=> token'[s] # NoToken
    BY DEF LocalsOK, Return, Goto, HoldingPoints, PreClickPoints, CleanupPoints, ClickedPoints
<1> QED
    BY <1>1, <1>2, <1>3, <1>4 DEF LocalsOK

(* A node that moves on keeps its job; it keeps its attempt id, and has one at
   the new point exactly if it had one at the old. *)
LEMMA GotoTyped ==
    ASSUME LocalsOK, NEW r \in Runs, NEW point \in Points \ RestPoints,
           pc[r] \notin {"off", "idle", "stopped"}, Goto(r, point),
           point \in HoldingPoints <=> pc[r] \in HoldingPoints,
           UNCHANGED <<job, token>>,
           day' \in [Runs -> Days], ending' \in [Runs -> Outcomes],
           quotaReserved' \in [Runs -> BOOLEAN], exitRaised' \in [Runs -> BOOLEAN]
    PROVE  LocalsOK'
<1>1. pc' \in [Runs -> Points]
    BY DEF LocalsOK, Goto
<1>2. \A s \in Runs : pc'[s] \in HoldingPoints <=> token'[s] # NoToken
    BY DEF LocalsOK, Goto
<1> QED
    BY <1>1, <1>2 DEF LocalsOK, Goto

(* A claimed run: it takes its attempt id and goes on to the quota. *)
LEMMA ClaimedTyped ==
    ASSUME LocalsOK, OutcomesOK, NEW r \in Runs, NEW t \in Tokens, pc[r] \in ClaimPoints,
           Claimed(r, t)
    PROVE  LocalsOK' /\ OutcomesOK'
<1>1. /\ pc' \in [Runs -> Points]
      /\ token' \in [Runs -> Tokens \cup {NoToken}]
    BY DEF LocalsOK, Claimed, Goto, Points, HoldingPoints, PreClickPoints
<1>2. \A s \in Runs : pc'[s] \in HoldingPoints <=> token'[s] # NoToken
    BY DEF LocalsOK, Claimed, Goto, HoldingPoints, PreClickPoints
<1>3. \A s \in Runs : pc'[s] \notin {"off", "idle", "stopped"} => job'[s] \in Jobs
    BY DEF LocalsOK, Claimed, Goto, ClaimPoints
<1> QED
    BY <1>1, <1>2, <1>3 DEF LocalsOK, Claimed, OutcomesOK

(* A run of the node that needs nothing but its outcome and its next point. *)
LEMMA ReturnsTyped ==
    ASSUME LocalsOK, OutcomesOK, NEW r \in Runs, job[r] \in Jobs,
           \/ \E o \in Outcomes : Finish(r, o)
           \/ Pause(r)
           \/ FailOrPause(r)
           \/ NotPersisted(r)
           \/ \E status : NotClaimed(r, status)
    PROVE  LocalsOK' /\ OutcomesOK'
<1>1. {"failed", "needs_manual_review", "skipped", "submitted"} \subseteq Outcomes
    BY DEF Outcomes
<1>2. \E o \in Outcomes, point \in {"idle", "stopped"} : Return(r, o, point)
    BY <1>1 DEF Finish, Pause, FailOrPause, NotPersisted, NotClaimed
<1> QED
    BY <1>2, ReturnTyped

(* The stored documents keep their types under every update. *)
LEMMA DocTyped ==
    ASSUME NEW doc \in A!AttemptDoc, NEW t \in Tokens, NEW r \in Runs
    PROVE  /\ A!FreshClaim(t, r) \in A!AttemptDoc
           /\ A!MayReserve(doc, t) => A!MoveTo(doc, "quota_reserved") \in A!AttemptDoc
           /\ A!MayMarkUnknown(doc, t) => A!MoveTo(doc, "submission_unknown") \in A!AttemptDoc
           /\ A!MaySubmit(doc, t) => A!MoveTo(doc, "submitted") \in A!AttemptDoc
           /\ A!MayRelease(doc, t) => A!MoveTo(doc, "released") \in A!AttemptDoc
BY DEF A!AttemptDoc, A!Attempt, A!AttemptStatus, A!AbsentAttempt, A!FreshClaim, A!MoveTo,
       A!MayReserve, A!MayMarkUnknown, A!MaySubmit, A!MayRelease, A!Matches

(* An update that took effect matched its filter. *)
LEMMA AppliedMatched ==
    ASSUME NEW m \in BOOLEAN, NEW res \in UpdateResults(m)
    PROVE  /\ res.applied \in BOOLEAN
           /\ res.applied => m
           /\ Acknowledged(res) => res.applied
<1>1. \/ res = [applied |-> m, raised |-> FALSE]
      \/ \E a \in {m, FALSE} : res = [applied |-> a, raised |-> TRUE]
    BY DEF UpdateResults
<1>2. res.applied = m \/ res.applied = FALSE
    BY <1>1
<1> QED
    BY <1>2 DEF Acknowledged

LEMMA DayTyped ==
    ASSUME NEW d \in Q!DayDoc, NEW t \in Tokens, NEW r \in Runs
    PROVE  /\ Q!Charge(d, t, r) \in Q!DayDoc
           /\ Q!MayRefund(d, t, r) => Q!Refund(d, t, r) \in Q!DayDoc
           /\ Q!Commit(d, t, r) \in Q!DayDoc
<1>1. \A s \in {"reserved", "released", "committed"} : [status |-> s, run |-> r] \in Q!Slot
    BY DEF Q!Slot
<1>2. Q!Charge(d, t, r) \in Q!DayDoc
    <2> DEFINE d1 == [d EXCEPT !.reserved = @ + 1]
               d2 == [d1 EXCEPT !.sessions[r] = @ + 1]
               d3 == [d2 EXCEPT !.slots[t] = [status |-> "reserved", run |-> r]]
    <2>1. d1 \in Q!DayDoc
        BY DEF Q!DayDoc
    <2>2. d2 \in Q!DayDoc
        <3> HIDE DEF d1
        <3> QED BY <2>1 DEF Q!DayDoc
    <2>3. d3 \in Q!DayDoc
        <3> HIDE DEF d2
        <3> QED BY <1>1, <2>2 DEF Q!DayDoc
    <2>4. Q!Charge(d, t, r) = d3
        BY DEF Q!Charge
    <2> QED
        BY <2>3, <2>4
<1>3. ASSUME Q!MayRefund(d, t, r) PROVE Q!Refund(d, t, r) \in Q!DayDoc
    <2> DEFINE d1 == [d EXCEPT !.reserved = @ - 1]
               d2 == [d1 EXCEPT !.sessions[r] = @ - 1]
               d3 == [d2 EXCEPT !.slots[t] = [status |-> "released", run |-> r]]
    <2>1. d1 \in Q!DayDoc /\ d1.sessions[r] > 0
        BY <1>3 DEF Q!DayDoc, Q!MayRefund
    <2>2. d2 \in Q!DayDoc
        <3> HIDE DEF d1
        <3> QED BY <2>1 DEF Q!DayDoc
    <2>3. d3 \in Q!DayDoc
        <3> HIDE DEF d2
        <3> QED BY <1>1, <2>2 DEF Q!DayDoc
    <2>4. Q!Refund(d, t, r) = d3
        BY DEF Q!Refund
    <2> QED
        BY <2>3, <2>4
<1>4. Q!Commit(d, t, r) \in Q!DayDoc
    <2> DEFINE d1 == [d EXCEPT !.submitted = @ + 1]
               d2 == [d1 EXCEPT !.slots[t] = [status |-> "committed", run |-> r]]
    <2>1. d1 \in Q!DayDoc
        BY DEF Q!DayDoc
    <2>2. d2 \in Q!DayDoc
        <3> HIDE DEF d1
        <3> QED BY <1>1, <2>1 DEF Q!DayDoc
    <2>3. Q!Commit(d, t, r) = d2
        BY DEF Q!Commit
    <2> QED
        BY <2>2, <2>3
<1> QED
    BY <1>2, <1>3, <1>4

LEMMA InitTyped == Init => TypeOK
<1> SUFFICES ASSUME Init PROVE TypeOK
    OBVIOUS
<1>1. StoreOK
    <2>1. A!AbsentAttempt \in A!AttemptDoc
        BY DEF A!AttemptDoc
    <2>2. Q!EmptyDay \in Q!DayDoc
        BY DEF Q!EmptyDay, Q!DayDoc, Q!Slot
    <2> QED
        BY <2>1, <2>2 DEF Init, StoreOK, SeenStatus, Days
<1>2. LocalsOK
    BY DEF Init, LocalsOK, Days, Outcomes, Points, RestPoints, HoldingPoints,
           PreClickPoints, CleanupPoints, ClickedPoints
<1>3. RunsOK
    BY DEF Init, RunsOK, Outcomes
<1>4. HistoryOK
    BY DEF Init, HistoryOK
<1> QED
    BY <1>1, <1>2, <1>3, <1>4 DEF TypeOK

-----------------------------------------------------------------------------
(* Every step keeps the types: the actions by what they do to the stores. *)

(* The node moves or returns; only its locals and its outcome change. *)
LEMMA QuietTyped ==
    ASSUME TypeOK, NEW r \in Runs,
           \/ Preflight(r) \/ FormEnds(r) \/ SubmittedTextSeen(r) \/ ReachSubmit(r)
           \/ ClaimRead(r) \/ ClaimReread(r) \/ SubmittedRead(r)
    PROVE  TypeOK'
<1>1. UNCHANGED <<store, today, appCount, dailyCount, history>>
    BY DEF Preflight, FormEnds, SubmittedTextSeen, ReachSubmit, ClaimRead, ClaimReread,
           SubmittedRead, runs
<1>2. StoreOK' /\ HistoryOK' /\ (OutcomesOK' => RunsOK')
    BY <1>1 DEF TypeOK, StoreOK, HistoryOK, RunsOK, OutcomesOK, store, history
<1>3. OutcomesOK
    BY DEF TypeOK, RunsOK, OutcomesOK
<1>4. job[r] \in Jobs
    BY DEF TypeOK, LocalsOK, Preflight, FormEnds, SubmittedTextSeen, ReachSubmit, ClaimRead,
           ClaimReread, SubmittedRead
<1>5. CASE \/ \E o \in Outcomes : Finish(r, o)
           \/ Pause(r)
           \/ FailOrPause(r)
           \/ NotPersisted(r)
           \/ \E status : NotClaimed(r, status)
    BY <1>2, <1>3, <1>4, <1>5, ReturnsTyped DEF TypeOK
<1>6. CASE /\ UNCHANGED <<locals, outcomes>>
           /\ \/ pc[r] \in {"preflight", "form", "claim_read"}
                 /\ \E point \in {"form", "claim_read", "claim_insert", "claim_reclaim"} :
                        Goto(r, point)
              \/ pc[r] = "submitted_read" /\ Goto(r, "submitted_write")
    <2>1. LocalsOK'
        BY <1>6, GotoTyped
           DEF TypeOK, LocalsOK, locals, Points, UnclaimedPoints, ClaimPoints, HoldingPoints,
               PreClickPoints, CleanupPoints, ClickedPoints, RestPoints
    <2> QED
        BY <1>2, <1>3, <1>6, <2>1 DEF TypeOK, OutcomesOK
<1>7. {"failed", "needs_manual_review", "skipped", "submitted"} \subseteq Outcomes
    BY DEF Outcomes
<1> QED
    BY <1>5, <1>6, <1>7
       DEF Preflight, FormEnds, SubmittedTextSeen, ReachSubmit, ClaimRead, ClaimReread,
           SubmittedRead, FoundSubmitted, runs

(* The graph and the environment. *)
LEMMA EnvironmentTyped ==
    ASSUME TypeOK, NEW r \in Runs,
           \/ StartRun(r) \/ (\E j \in Jobs : SelectJob(r, j)) \/ Crash(r) \/ Resume(r) \/ Midnight
    PROVE  TypeOK'
<1>1. CASE StartRun(r)
    <2>1. SubmittedToday \in Nat
        BY FiniteAssumption, FS_Subset, FS_CardinalityType DEF SubmittedToday
    <2>2. Q!Consumed(quota[today]) \in Nat
        BY DEF TypeOK, StoreOK, Q!DayDoc, Q!Consumed
    <2>3. RunsOK'
        BY <1>1, <2>1, <2>2 DEF TypeOK, RunsOK, StartRun
    <2>4. LocalsOK'
        BY <1>1 DEF TypeOK, LocalsOK, StartRun, Goto, locals, Points, RestPoints,
                    HoldingPoints, PreClickPoints, CleanupPoints, ClickedPoints
    <2> QED
        BY <1>1, <2>3, <2>4 DEF TypeOK, StoreOK, HistoryOK, StartRun, store, history
<1>2. ASSUME NEW j \in Jobs, SelectJob(r, j) PROVE TypeOK'
    <2>1. LocalsOK'
        BY <1>2 DEF TypeOK, LocalsOK, SelectJob, Goto, Points, UnclaimedPoints,
                    HoldingPoints, PreClickPoints, CleanupPoints, ClickedPoints
    <2> QED
        BY <1>2, <2>1 DEF TypeOK, StoreOK, RunsOK, HistoryOK, SelectJob, store, runs, history
<1>3. CASE Crash(r)
    <2>1. LocalsOK'
        BY <1>3 DEF TypeOK, LocalsOK, Crash, Goto, Days, Outcomes, Points, RestPoints,
                    HoldingPoints, PreClickPoints, CleanupPoints, ClickedPoints
    <2>2. HistoryOK'
        BY <1>3 DEF TypeOK, LocalsOK, HistoryOK, Crash, Stranded
    <2> QED
        BY <1>3, <2>1, <2>2 DEF TypeOK, StoreOK, RunsOK, Crash, store, runs
<1>4. CASE Resume(r)
    <2>1. LocalsOK'
        BY <1>4 DEF TypeOK, LocalsOK, Resume, Goto, locals, Points, UnclaimedPoints,
                    HoldingPoints, PreClickPoints, CleanupPoints, ClickedPoints
    <2> QED
        BY <1>4, <2>1 DEF TypeOK, StoreOK, RunsOK, HistoryOK, Resume, store, runs, history
<1>5. CASE Midnight
    BY <1>5 DEF Midnight, TypeOK, StoreOK, LocalsOK, RunsOK, HistoryOK, store, locals, runs,
                history, Days
<1> QED
    BY <1>1, <1>2, <1>3, <1>4, <1>5

(* begin_attempt's writes. *)
LEMMA ClaimTyped ==
    ASSUME TypeOK, NEW r \in Runs, ClaimInsert(r) \/ ClaimReclaim(r)
    PROVE  TypeOK'
<1>1. pc[r] \in ClaimPoints /\ job[r] \in Jobs
    BY DEF TypeOK, LocalsOK, ClaimInsert, ClaimReclaim, ClaimPoints
<1>2. UNCHANGED <<quota, seen, today, appCount, dailyCount>>
    BY DEF ClaimInsert, ClaimReclaim
<1>3. PICK t \in Tokens : (\E res : ClaimWrite(r, res, t))
        /\ \/ Claimed(r, t)
           \/ FailOrPause(r)
           \/ Goto(r, "claim_reread") /\ UNCHANGED <<locals, outcomes>>
    BY DEF ClaimInsert, ClaimReclaim
<1>4. A!FreshClaim(t, r) \in A!AttemptDoc
    BY DEF A!FreshClaim, A!AttemptDoc, A!Attempt, A!AttemptStatus
<1>5. StoreOK' /\ HistoryOK'
    BY <1>1, <1>2, <1>3, <1>4 DEF TypeOK, StoreOK, HistoryOK, ClaimWrite
<1>6. LocalsOK' /\ OutcomesOK'
    <2>1. LocalsOK /\ OutcomesOK
        BY DEF TypeOK, RunsOK, OutcomesOK
    <2>2. CASE Claimed(r, t)
        BY <1>1, <2>1, <2>2, ClaimedTyped
    <2>3. CASE FailOrPause(r)
        BY <1>1, <2>1, <2>3, ReturnsTyped
    <2>4. CASE Goto(r, "claim_reread") /\ UNCHANGED <<locals, outcomes>>
        <3>1. LocalsOK'
            BY <1>1, <2>1, <2>4, GotoTyped
               DEF LocalsOK, locals, Points, UnclaimedPoints, ClaimPoints, HoldingPoints,
                   PreClickPoints, CleanupPoints, ClickedPoints, RestPoints
        <3> QED
            BY <2>1, <2>4, <3>1 DEF OutcomesOK
    <2> QED
        BY <1>3, <2>2, <2>3, <2>4
<1> QED
    BY <1>2, <1>5, <1>6 DEF TypeOK, RunsOK, OutcomesOK

(* A run that holds an attempt and goes on holding it. *)
LEMMA HoldTyped ==
    ASSUME TypeOK, NEW r \in Runs, pc[r] \in HoldingPoints,
           NEW point \in HoldingPoints, Goto(r, point), UNCHANGED <<job, token, outcomes>>,
           day' \in [Runs -> Days], ending' \in [Runs -> Outcomes],
           quotaReserved' \in [Runs -> BOOLEAN], exitRaised' \in [Runs -> BOOLEAN]
    PROVE  LocalsOK' /\ OutcomesOK'
<1>1. /\ point \in Points \ RestPoints
      /\ pc[r] \notin {"off", "idle", "stopped"}
    BY DEF Points, HoldingPoints, PreClickPoints, CleanupPoints, ClickedPoints, RestPoints
<1> QED
    BY <1>1, GotoTyped DEF TypeOK, RunsOK, OutcomesOK

(* reserve_quota *)
LEMMA ReserveTyped ==
    ASSUME TypeOK, NEW r \in Runs,
           ReserveRead(r) \/ ReserveWrite(r) \/ ReserveReread(r) \/ ReserveFinal(r)
    PROVE  TypeOK'
<1>1. /\ pc[r] \in HoldingPoints
      /\ UNCHANGED <<attempts, seen, today, runs, used, clicks, clicked, confirmed>>
    BY DEF ReserveRead, ReserveWrite, ReserveReread, ReserveFinal, ReserveCheck, HoldingPoints,
           PreClickPoints, store, history
<1>2. job[r] \in Jobs /\ token[r] \in Tokens /\ day[r] \in Days
    BY <1>1 DEF TypeOK, LocalsOK, HoldingPoints, PreClickPoints, CleanupPoints, ClickedPoints
<1>3. LocalsOK' /\ OutcomesOK'
    <2>1. \/ \E o \in {"skipped", "needs_manual_review"} : NotReserved(r, o)
          \/ Reserved(r)
          \/ /\ \E point \in {"reserve_write", "reserve_reread", "reserve_final"} : Goto(r, point)
             /\ UNCHANGED <<job, token, ending, quotaReserved, exitRaised>>
        BY DEF ReserveRead, ReserveWrite, ReserveReread, ReserveFinal, ReserveCheck, locals
    <2>2. day' \in [Runs -> Days]
        BY DEF ReserveRead, ReserveWrite, ReserveReread, ReserveFinal, ReserveCheck, Reserved,
               TypeOK, StoreOK, LocalsOK, locals
    <2>3. /\ {"quota_state", "withdraw_read", "reserve_write", "reserve_reread", "reserve_final"}
                 \subseteq HoldingPoints
          /\ {"skipped", "needs_manual_review"} \subseteq Outcomes
        BY DEF HoldingPoints, PreClickPoints, CleanupPoints, Outcomes
    <2>4. CASE \E o \in {"skipped", "needs_manual_review"} : NotReserved(r, o)
        BY <1>1, <2>2, <2>3, <2>4, HoldTyped DEF NotReserved, CleanUp, runs, TypeOK, LocalsOK
    <2>5. CASE Reserved(r)
        BY <1>1, <2>2, <2>3, <2>5, HoldTyped DEF Reserved, runs, TypeOK, LocalsOK
    <2>6. CASE /\ \E point \in {"reserve_write", "reserve_reread", "reserve_final"} : Goto(r, point)
               /\ UNCHANGED <<job, token, ending, quotaReserved, exitRaised>>
        BY <1>1, <2>2, <2>3, <2>6, HoldTyped DEF runs, TypeOK, LocalsOK
    <2> QED
        BY <2>1, <2>4, <2>5, <2>6
<1>4. quota' \in [Days -> Q!DayDoc]
    <2>1. quota' = quota \/ quota' = [quota EXCEPT ![day[r]] = Q!Charge(@, token[r], r)]
        BY DEF ReserveRead, ReserveWrite, ReserveReread, ReserveFinal, ReserveCheck, store
    <2>2. quota[day[r]] \in Q!DayDoc
        BY <1>2 DEF TypeOK, StoreOK
    <2> QED
        BY <1>2, <2>1, <2>2, DayTyped DEF TypeOK, StoreOK
<1>5. stranded' \subseteq Tokens
    BY <1>2 DEF ReserveRead, ReserveWrite, ReserveReread, ReserveFinal, ReserveCheck, Stranded,
                history, TypeOK, HistoryOK
<1> QED
    BY <1>1, <1>3, <1>4, <1>5 DEF TypeOK, StoreOK, RunsOK, HistoryOK, runs

(* reserve_quota_state and mark_unknown *)
LEMMA PreClickTyped ==
    ASSUME TypeOK, NEW r \in Runs, ReserveQuotaState(r) \/ MarkUnknown(r)
    PROVE  TypeOK'
<1>1. pc[r] \in HoldingPoints
    BY DEF ReserveQuotaState, MarkUnknown, HoldingPoints, PreClickPoints
<1>2. job[r] \in Jobs /\ token[r] \in Tokens /\ Doc(r) \in A!AttemptDoc
    BY <1>1 DEF TypeOK, LocalsOK, StoreOK, Doc, HoldingPoints, PreClickPoints, CleanupPoints,
                ClickedPoints
<1>3. /\ UNCHANGED <<quota, seen, today, job, token, day, quotaReserved, exitRaised, runs, history>>
      /\ \E point \in {"mark_unknown", "click", "refund_read"} : Goto(r, point)
      /\ ending' = ending \/ ending' = [ending EXCEPT ![r] = "needs_manual_review"]
    BY DEF ReserveQuotaState, MarkUnknown, PreClickUpdate, CleanUp
<1>4. LocalsOK' /\ OutcomesOK'
    <2>1. {"mark_unknown", "click", "refund_read"} \subseteq HoldingPoints
        BY DEF HoldingPoints, PreClickPoints, CleanupPoints
    <2>2. ending' \in [Runs -> Outcomes]
        BY <1>3 DEF TypeOK, LocalsOK, Outcomes
    <2> QED
        BY <1>1, <1>3, <2>1, <2>2, HoldTyped DEF runs, TypeOK, LocalsOK
<1>5. attempts' \in [Jobs -> A!AttemptDoc]
    <2>1. \A may \in BOOLEAN : \A status, point : PreClickUpdate(r, may, status, point) =>
             \/ attempts' = attempts
             \/ may /\ attempts' = [attempts EXCEPT ![job[r]] = A!MoveTo(Doc(r), status)]
        BY AppliedMatched DEF PreClickUpdate, Doc
    <2>2. /\ A!MayReserve(Doc(r), token[r]) \in BOOLEAN
          /\ A!MayMarkUnknown(Doc(r), token[r]) \in BOOLEAN
        BY DEF A!MayReserve, A!MayMarkUnknown, A!Matches
    <2>3. \/ attempts' = attempts
          \/ /\ A!MayReserve(Doc(r), token[r])
             /\ attempts' = [attempts EXCEPT ![job[r]] = A!MoveTo(Doc(r), "quota_reserved")]
          \/ /\ A!MayMarkUnknown(Doc(r), token[r])
             /\ attempts' = [attempts EXCEPT ![job[r]] = A!MoveTo(Doc(r), "submission_unknown")]
        BY <2>1, <2>2 DEF ReserveQuotaState, MarkUnknown
    <2> QED
        BY <1>2, <2>3, DocTyped DEF TypeOK, StoreOK
<1> QED
    BY <1>3, <1>4, <1>5 DEF TypeOK, StoreOK, RunsOK, HistoryOK, runs, history

(* From the click to the last write. *)
LEMMA ClickTyped ==
    ASSUME TypeOK, NEW r \in Runs, Click(r) \/ AwaitConfirmation(r)
    PROVE  TypeOK'
<1>1. /\ pc[r] \in HoldingPoints
      /\ UNCHANGED <<store, today, appCount, dailyCount, used, stranded>>
    BY DEF Click, AwaitConfirmation, HoldingPoints, ClickedPoints
<1>2. job[r] \in Jobs /\ token[r] \in Tokens /\ today \in Days
    BY <1>1 DEF TypeOK, LocalsOK, StoreOK, HoldingPoints, PreClickPoints, CleanupPoints,
                ClickedPoints
<1>3. LocalsOK' /\ OutcomesOK'
    <2>1. CASE Pause(r)
        BY <1>2, <2>1, ReturnsTyped DEF TypeOK, RunsOK, OutcomesOK
    <2>2. CASE /\ Goto(r, "confirm") \/ Goto(r, "submitted_read")
               /\ UNCHANGED <<locals, outcomes>>
        <3>1. {"confirm", "submitted_read"} \subseteq HoldingPoints
            BY DEF HoldingPoints, ClickedPoints
        <3> QED
            BY <1>1, <2>2, <3>1, HoldTyped DEF locals, TypeOK, LocalsOK
    <2> QED
        BY <2>1, <2>2 DEF Click, AwaitConfirmation
<1>4. HistoryOK'
    <2>1. [token |-> token[r], job |-> job[r], run |-> r, day |-> today]
              \in [token: Tokens, job: Jobs, run: Runs, day: Days]
        BY <1>2
    <2> QED
        BY <1>1, <1>2, <2>1 DEF Click, AwaitConfirmation, TypeOK, HistoryOK
<1> QED
    BY <1>1, <1>3, <1>4 DEF TypeOK, StoreOK, RunsOK, OutcomesOK, store

(* mark_submitted's write *)
LEMMA SubmittedTyped ==
    ASSUME TypeOK, NEW r \in Runs, SubmittedWrite(r)
    PROVE  TypeOK'
<1>1. /\ pc[r] \in HoldingPoints
      /\ UNCHANGED <<quota, seen, today, appCount, dailyCount, history>>
    BY DEF SubmittedWrite, HoldingPoints, ClickedPoints
<1>2. job[r] \in Jobs /\ token[r] \in Tokens /\ Doc(r) \in A!AttemptDoc
    BY <1>1 DEF TypeOK, LocalsOK, StoreOK, Doc, HoldingPoints, PreClickPoints, CleanupPoints,
                ClickedPoints
<1>3. LocalsOK' /\ OutcomesOK'
    <2>1. CASE NotPersisted(r)
        BY <1>2, <2>1, ReturnsTyped DEF TypeOK, RunsOK, OutcomesOK
    <2>2. CASE FoundSubmitted(r)
        <3>1. Finish(r, "skipped") \/ NotPersisted(r)
            BY <2>2 DEF FoundSubmitted
        <3>2. CASE Finish(r, "skipped")
            BY <1>2, <3>2, ReturnsTyped DEF Outcomes, TypeOK, RunsOK, OutcomesOK
        <3>3. CASE NotPersisted(r)
            BY <1>2, <3>3, ReturnsTyped DEF TypeOK, RunsOK, OutcomesOK
        <3> QED
            BY <3>1, <3>2, <3>3
    <2>3. CASE Goto(r, "commit_read") /\ UNCHANGED <<locals, outcomes>>
        <3>1. {"commit_read"} \subseteq HoldingPoints
            BY DEF HoldingPoints, ClickedPoints
        <3> QED
            BY <1>1, <2>3, <3>1, HoldTyped DEF locals, TypeOK, LocalsOK
    <2> QED
        BY <2>1, <2>2, <2>3 DEF SubmittedWrite
<1>4. attempts' \in [Jobs -> A!AttemptDoc]
    <2>1. PICK res \in UpdateResults(A!MaySubmit(Doc(r), token[r])) :
              attempts' = IF res.applied
                          THEN [attempts EXCEPT ![job[r]] = A!MoveTo(Doc(r), "submitted")]
                          ELSE attempts
        BY DEF SubmittedWrite, Doc
    <2>2. A!MaySubmit(Doc(r), token[r]) \in BOOLEAN
        BY DEF A!MaySubmit, A!Matches
    <2> QED
        BY <1>2, <2>1, <2>2, AppliedMatched, DocTyped DEF TypeOK, StoreOK
<1> QED
    BY <1>1, <1>3, <1>4 DEF TypeOK, StoreOK, RunsOK, OutcomesOK, HistoryOK, history

(* The secondary writes, and the write of an already-applied job. *)
LEMMA SecondaryTyped ==
    ASSUME TypeOK, NEW r \in Runs,
           CommitRead(r) \/ CommitWrite(r) \/ MarkSeen(r) \/ AlreadyApplied(r)
    PROVE  TypeOK'
<1>1. /\ UNCHANGED <<attempts, today, history>>
      /\ job[r] \in Jobs /\ day[r] \in Days /\ today \in Days
    BY DEF CommitRead, CommitWrite, MarkSeen, AlreadyApplied, store, TypeOK, StoreOK, LocalsOK
<1>2. CASE CommitRead(r)
    <2>1. {"commit_read", "commit_write", "mark_seen"} \subseteq HoldingPoints
        BY DEF HoldingPoints, ClickedPoints
    <2>2. day' \in [Runs -> Days]
        BY <1>1, <1>2 DEF CommitRead, TypeOK, LocalsOK
    <2>3. LocalsOK' /\ OutcomesOK'
        BY <1>2, <2>1, <2>2, HoldTyped DEF CommitRead, runs, TypeOK, LocalsOK
    <2> QED
        BY <1>1, <1>2, <2>3 DEF CommitRead, TypeOK, StoreOK, RunsOK, HistoryOK, store, runs, history
<1>3. CASE CommitWrite(r)
    <2>1. {"commit_write", "mark_seen"} \subseteq HoldingPoints
        BY DEF HoldingPoints, ClickedPoints
    <2>2. LocalsOK' /\ OutcomesOK'
        BY <1>3, <2>1, HoldTyped DEF CommitWrite, locals, runs, TypeOK, LocalsOK
    <2>3. token[r] \in Tokens
        BY <1>3, <2>1 DEF CommitWrite, TypeOK, LocalsOK
    <2>4. quota' = quota \/ quota' = [quota EXCEPT ![day[r]] = Q!Commit(@, token[r], r)]
        BY <1>3 DEF CommitWrite
    <2>5. quota' \in [Days -> Q!DayDoc]
        BY <1>1, <2>3, <2>4, DayTyped DEF TypeOK, StoreOK
    <2> QED
        BY <1>1, <1>3, <2>2, <2>5 DEF CommitWrite, TypeOK, StoreOK, RunsOK, HistoryOK, runs, history
<1>4. CASE MarkSeen(r)
    <2>1. LocalsOK' /\ OutcomesOK'
        BY <1>1, <1>4, ReturnsTyped DEF MarkSeen, Outcomes, TypeOK, RunsOK, OutcomesOK
    <2>2. seen' \in [Jobs -> [status: SeenStatus, applied: Days]]
        BY <1>1, <1>4 DEF MarkSeen, SeenStatus, TypeOK, StoreOK
    <2>3. /\ appCount' \in [Runs -> Nat]
          /\ dailyCount' \in [Runs -> Nat]
        BY <1>4 DEF MarkSeen, TypeOK, RunsOK
    <2> QED
        BY <1>1, <1>4, <2>1, <2>2, <2>3
           DEF MarkSeen, TypeOK, StoreOK, RunsOK, OutcomesOK, HistoryOK, history
<1>5. CASE AlreadyApplied(r)
    <2>1. LocalsOK' /\ OutcomesOK'
        BY <1>1, <1>5, ReturnsTyped DEF AlreadyApplied, Outcomes, TypeOK, RunsOK, OutcomesOK
    <2>2. seen' \in [Jobs -> [status: SeenStatus, applied: Days]]
        BY <1>1, <1>5 DEF AlreadyApplied, SeenStatus, TypeOK, StoreOK
    <2> QED
        BY <1>1, <1>5, <2>1, <2>2
           DEF AlreadyApplied, TypeOK, StoreOK, RunsOK, OutcomesOK, HistoryOK, history
<1> QED
    BY <1>2, <1>3, <1>4, <1>5

(* _cleanup_pre_click *)
LEMMA CleanupTyped ==
    ASSUME TypeOK, NEW r \in Runs,
           RefundRead(r) \/ RefundWrite(r) \/ WithdrawRead(r) \/ WithdrawWrite(r)
    PROVE  TypeOK'
<1>1. /\ pc[r] \in HoldingPoints
      /\ UNCHANGED <<seen, today, appCount, dailyCount, used, clicks, clicked, confirmed>>
    BY DEF RefundRead, RefundWrite, WithdrawRead, WithdrawWrite, HoldingPoints, CleanupPoints,
           store, runs
<1>2. /\ job[r] \in Jobs /\ token[r] \in Tokens /\ day[r] \in Days /\ today \in Days
      /\ Doc(r) \in A!AttemptDoc
    BY <1>1 DEF TypeOK, LocalsOK, StoreOK, Doc, HoldingPoints, PreClickPoints, CleanupPoints,
                ClickedPoints
<1>3. stranded' \subseteq Tokens
    BY <1>2 DEF RefundRead, RefundWrite, WithdrawRead, WithdrawWrite, Stranded, TypeOK, HistoryOK
<1>4. /\ CleanupPoints \subseteq HoldingPoints
      /\ {"refund_read", "refund_write", "withdraw_read", "withdraw_write"} = CleanupPoints
      /\ "needs_manual_review" \in Outcomes
    BY DEF HoldingPoints, CleanupPoints, Outcomes
<1>5. ASSUME NEW ok \in BOOLEAN, CleanupDone(r, ok)
      PROVE  LocalsOK' /\ OutcomesOK'
    <2>1. CASE Finish(r, IF ok THEN ending[r] ELSE "needs_manual_review")
        <3>1. (IF ok THEN ending[r] ELSE "needs_manual_review") \in Outcomes
            BY <1>4 DEF TypeOK, LocalsOK
        <3> QED
            BY <1>2, <2>1, <3>1, ReturnsTyped DEF TypeOK, RunsOK, OutcomesOK
    <2>2. CASE /\ exitRaised' = [exitRaised EXCEPT ![r] = TRUE]
               /\ CleanUp(r, "needs_manual_review", quotaReserved[r])
               /\ UNCHANGED <<job, token, day, quotaReserved, outcomes>>
        BY <1>1, <1>4, <2>2, HoldTyped DEF CleanUp, TypeOK, LocalsOK
    <2> QED
        BY <1>5, <2>1, <2>2 DEF CleanupDone
<1>6. CASE RefundRead(r)
    <2>1. /\ day' \in [Runs -> Days]
          /\ ending' \in [Runs -> Outcomes]
          /\ \E point \in CleanupPoints : Goto(r, point)
          /\ UNCHANGED <<job, token, quotaReserved, exitRaised, outcomes>>
        BY <1>2, <1>4, <1>6 DEF RefundRead, CleanupStep, runs, TypeOK, LocalsOK
    <2>2. LocalsOK' /\ OutcomesOK'
        BY <1>1, <1>4, <2>1, HoldTyped DEF TypeOK, LocalsOK
    <2> QED
        BY <1>1, <1>3, <1>6, <2>2 DEF RefundRead, TypeOK, StoreOK, RunsOK, HistoryOK, store, runs
<1>7. CASE RefundWrite(r)
    <2>1. LocalsOK' /\ OutcomesOK'
        BY <1>1, <1>4, <1>7, HoldTyped DEF RefundWrite, CleanupStep, runs, TypeOK, LocalsOK
    <2>2. PICK res \in UpdateResults(Q!MayRefund(DayDoc(r), token[r], r)) :
              quota' = IF res.applied
                       THEN [quota EXCEPT ![day[r]] = Q!Refund(DayDoc(r), token[r], r)]
                       ELSE quota
        BY <1>7 DEF RefundWrite, DayDoc
    <2>3. Q!MayRefund(DayDoc(r), token[r], r) \in BOOLEAN
        BY DEF Q!MayRefund
    <2>4. DayDoc(r) \in Q!DayDoc
        BY <1>2 DEF DayDoc, TypeOK, StoreOK
    <2>5. quota' \in [Days -> Q!DayDoc]
        BY <1>2, <2>2, <2>3, <2>4, AppliedMatched, DayTyped DEF TypeOK, StoreOK
    <2> QED
        BY <1>1, <1>3, <1>7, <2>1, <2>5 DEF RefundWrite, TypeOK, StoreOK, RunsOK, HistoryOK, runs
<1>8. CASE WithdrawRead(r)
    <2>1. CASE CleanupDone(r, FALSE) \/ CleanupDone(r, Doc(r).token = token[r])
        BY <1>1, <1>3, <1>5, <1>8, <2>1
           DEF WithdrawRead, TypeOK, StoreOK, RunsOK, OutcomesOK, HistoryOK, store
    <2>2. CASE Goto(r, "withdraw_write") /\ UNCHANGED <<locals, outcomes, stranded>>
        <3>1. LocalsOK' /\ OutcomesOK'
            BY <1>1, <1>4, <2>2, HoldTyped DEF locals, TypeOK, LocalsOK
        <3> QED
            BY <1>1, <1>3, <1>8, <3>1
               DEF WithdrawRead, TypeOK, StoreOK, RunsOK, OutcomesOK, HistoryOK, store
    <2> QED
        BY <1>8, <2>1, <2>2 DEF WithdrawRead
<1>9. CASE WithdrawWrite(r)
    <2>1. PICK res \in UpdateResults(A!MayRelease(Doc(r), token[r])) :
              /\ attempts' = IF res.applied
                             THEN [attempts EXCEPT ![job[r]] = A!MoveTo(Doc(r), "released")]
                             ELSE attempts
              /\ CleanupDone(r, Acknowledged(res))
        BY <1>9 DEF WithdrawWrite, Doc
    <2>2. A!MayRelease(Doc(r), token[r]) \in BOOLEAN
        BY DEF A!MayRelease, A!Matches
    <2>3. attempts' \in [Jobs -> A!AttemptDoc]
        BY <1>2, <2>1, <2>2, AppliedMatched, DocTyped DEF TypeOK, StoreOK
    <2>4. Acknowledged(res) \in BOOLEAN
        BY DEF Acknowledged
    <2> QED
        BY <1>1, <1>3, <1>5, <1>9, <2>1, <2>3, <2>4
           DEF WithdrawWrite, TypeOK, StoreOK, RunsOK, OutcomesOK, HistoryOK
<1> QED
    BY <1>6, <1>7, <1>8, <1>9

LEMMA NextTyped == TypeOK /\ [Next]_vars => TypeOK'
<1> SUFFICES ASSUME TypeOK, [Next]_vars PROVE TypeOK'
    OBVIOUS
<1>1. CASE UNCHANGED vars
    BY <1>1 DEF vars, store, locals, runs, history, TypeOK, StoreOK, LocalsOK, RunsOK, HistoryOK
<1>2. ASSUME NEW r \in Runs, NodeStep(r) PROVE TypeOK'
    BY <1>2, QuietTyped, ClaimTyped, ReserveTyped, PreClickTyped, ClickTyped, SubmittedTyped,
       SecondaryTyped, CleanupTyped DEF NodeStep
<1>3. ASSUME NEW r \in Runs,
             StartRun(r) \/ (\E j \in Jobs : SelectJob(r, j)) \/ Crash(r) \/ Resume(r)
      PROVE  TypeOK'
    BY <1>3, EnvironmentTyped
<1>4. CASE Midnight
    BY <1>4 DEF Midnight, TypeOK, StoreOK, LocalsOK, RunsOK, HistoryOK, store, locals, runs,
                history, Days
<1> QED
    BY <1>1, <1>2, <1>3, <1>4 DEF Next

(* The documents, the locals and the checkpoint have their types in every state,
   and a run holds an attempt id exactly while it is between its claim and its
   return. *)
THEOREM TypeCorrect == Spec => []TypeOK
<1>1. Init => TypeOK
    BY InitTyped
<1>2. TypeOK /\ [Next]_vars => TypeOK'
    BY NextTyped
<1> QED
    BY <1>1, <1>2, PTL DEF Spec

HIDE BoundsAssumption

-----------------------------------------------------------------------------
(* How the documents change. *)

(* The holder of the id on record moves the document from one status to another. *)
Moved(r, from, to) ==
    /\ A!Matches(Doc(r), token[r], {from})
    /\ attempts' = [attempts EXCEPT ![job[r]] = A!MoveTo(@, to)]

(* A free job's document is written under a fresh id. *)
ClaimedAfresh(r, t) ==
    /\ A!CanProceed(Doc(r))
    /\ t \in Tokens \ used
    /\ attempts' = [attempts EXCEPT ![job[r]] = A!FreshClaim(t, r)]

LEMMA MovedDoc ==
    ASSUME TypeOK, NEW r \in Runs, job[r] \in Jobs, token[r] \in Tokens,
           NEW from \in A!AttemptStatus, NEW to \in A!AttemptStatus, Moved(r, from, to)
    PROVE  /\ attempts[job[r]] \in A!Attempt
           /\ attempts[job[r]].status = from
           /\ attempts[job[r]].token = token[r]
           /\ attempts'[job[r]] = [status |-> to, token |-> token[r], run |-> attempts[job[r]].run]
           /\ \A j \in Jobs : j # job[r] => attempts'[j] = attempts[j]
<1>1. attempts \in [Jobs -> A!AttemptDoc]
    BY DEF TypeOK, StoreOK
<1>2. attempts[job[r]] \in A!Attempt /\ attempts[job[r]].status = from
        /\ attempts[job[r]].token = token[r]
    BY <1>1 DEF Moved, Doc, A!Matches, A!AttemptDoc, A!AbsentAttempt, A!Attempt, A!AttemptStatus
<1>3. A!MoveTo(attempts[job[r]], to)
        = [status |-> to, token |-> token[r], run |-> attempts[job[r]].run]
    BY <1>2 DEF A!MoveTo, A!Attempt
<1> QED
    BY <1>1, <1>2, <1>3 DEF Moved

LEMMA DocChange ==
    ASSUME TypeOK, NEW r \in Runs, NodeStep(r)
    PROVE  \/ attempts' = attempts
           \/ job[r] \in Jobs /\ pc[r] \in ClaimPoints /\ \E t \in Tokens : ClaimedAfresh(r, t) /\ t \in used'
           \/ job[r] \in Jobs /\ token[r] \in Tokens
              /\ \/ pc[r] = "quota_state" /\ Moved(r, "created", "quota_reserved")
                 \/ pc[r] = "mark_unknown" /\ Moved(r, "quota_reserved", "submission_unknown")
                 \/ pc[r] = "submitted_write" /\ Moved(r, "submission_unknown", "submitted")
                 \/ pc[r] = "withdraw_write" /\ \E from \in {"created", "quota_reserved"} : Moved(r, from, "released")
<1>1. pc[r] \in HoldingPoints => job[r] \in Jobs /\ token[r] \in Tokens
    BY DEF TypeOK, LocalsOK, HoldingPoints, PreClickPoints, CleanupPoints, ClickedPoints
<1>2. pc[r] \in ClaimPoints => job[r] \in Jobs
    BY DEF TypeOK, LocalsOK, ClaimPoints
<1>3. CASE ClaimInsert(r) \/ ClaimReclaim(r)
    <2>1. \E t \in Tokens \ used : \E res :
              ClaimWrite(r, res, t) /\ (res.applied => A!CanProceed(Doc(r)))
        BY <1>3, AppliedMatched DEF ClaimInsert, ClaimReclaim, A!MayReclaim, A!CanProceed
    <2> QED
        BY <1>2, <1>3, <2>1 DEF ClaimWrite, ClaimedAfresh, ClaimInsert, ClaimReclaim, ClaimPoints
<1>4. CASE ReserveQuotaState(r)
    <2>1. PICK res \in UpdateResults(A!MayReserve(Doc(r), token[r])) :
              attempts' = IF res.applied
                          THEN [attempts EXCEPT ![job[r]] = A!MoveTo(@, "quota_reserved")]
                          ELSE attempts
        BY <1>4 DEF ReserveQuotaState, PreClickUpdate
    <2> QED
        BY <1>1, <1>4, <2>1, AppliedMatched
           DEF Moved, A!MayReserve, A!Matches, ReserveQuotaState, HoldingPoints, PreClickPoints
<1>5. CASE MarkUnknown(r)
    <2>1. PICK res \in UpdateResults(A!MayMarkUnknown(Doc(r), token[r])) :
              attempts' = IF res.applied
                          THEN [attempts EXCEPT ![job[r]] = A!MoveTo(@, "submission_unknown")]
                          ELSE attempts
        BY <1>5 DEF MarkUnknown, PreClickUpdate
    <2> QED
        BY <1>1, <1>5, <2>1, AppliedMatched
           DEF Moved, A!MayMarkUnknown, A!Matches, MarkUnknown, HoldingPoints, PreClickPoints
<1>6. CASE SubmittedWrite(r)
    <2>1. PICK res \in UpdateResults(A!MaySubmit(Doc(r), token[r])) :
              attempts' = IF res.applied
                          THEN [attempts EXCEPT ![job[r]] = A!MoveTo(@, "submitted")]
                          ELSE attempts
        BY <1>6 DEF SubmittedWrite
    <2> QED
        BY <1>1, <1>6, <2>1, AppliedMatched
           DEF Moved, A!MaySubmit, A!Matches, SubmittedWrite, HoldingPoints, ClickedPoints
<1>7. CASE WithdrawWrite(r)
    <2>1. PICK res \in UpdateResults(A!MayRelease(Doc(r), token[r])) :
              attempts' = IF res.applied
                          THEN [attempts EXCEPT ![job[r]] = A!MoveTo(@, "released")]
                          ELSE attempts
        BY <1>7 DEF WithdrawWrite
    <2> QED
        BY <1>1, <1>7, <2>1, AppliedMatched
           DEF Moved, A!MayRelease, A!Matches, WithdrawWrite, HoldingPoints, CleanupPoints
<1> QED
    BY <1>3, <1>4, <1>5, <1>6, <1>7
       DEF NodeStep, Preflight, FormEnds, AlreadyApplied, SubmittedTextSeen, ReachSubmit,
           ClaimRead, ClaimReread, ReserveRead, ReserveWrite, ReserveReread, ReserveFinal,
           ReserveCheck, Click, AwaitConfirmation, SubmittedRead, CommitRead,
           CommitWrite, MarkSeen, RefundRead, RefundWrite, WithdrawRead, store

-----------------------------------------------------------------------------
(* How the locals change: but for a claim, a run keeps its attempt id and job or
   drops the id; but for mark_unknown, it does not come to the click. *)

Kept == \A s \in Runs : token'[s] # NoToken => token'[s] = token[s] /\ job'[s] = job[s]

NoneArrives == \A s \in Runs : pc'[s] = "click" => pc[s] = "click"

LEMMA ReturnKept ==
    ASSUME LocalsOK, NEW r \in Runs, NEW o, NEW point \in {"idle", "stopped"},
           Return(r, o, point)
    PROVE  Kept /\ NoneArrives
BY DEF LocalsOK, Return, Goto, Kept, NoneArrives

LEMMA GotoKept ==
    ASSUME LocalsOK, NEW r \in Runs, NEW point, point # "click", Goto(r, point),
           UNCHANGED <<job, token>>
    PROVE  Kept /\ NoneArrives
BY DEF LocalsOK, Goto, Kept, NoneArrives

LEMMA MarkUnknownKept ==
    ASSUME LocalsOK, NEW r \in Runs, MarkUnknown(r)
    PROVE  /\ Kept
           /\ UNCHANGED <<job, token>>
           /\ NoneArrives \/ (Moved(r, "quota_reserved", "submission_unknown") /\ Goto(r, "click"))
<1>1. PICK res \in UpdateResults(A!MayMarkUnknown(Doc(r), token[r])) :
          /\ attempts' = IF res.applied
                         THEN [attempts EXCEPT ![job[r]] = A!MoveTo(@, "submission_unknown")]
                         ELSE attempts
          /\ IF Acknowledged(res) THEN Goto(r, "click") ELSE Goto(r, "refund_read")
    BY DEF MarkUnknown, PreClickUpdate, CleanUp
<1>2. UNCHANGED <<job, token>>
    BY DEF MarkUnknown, PreClickUpdate
<1>3. CASE Acknowledged(res)
    BY <1>1, <1>2, <1>3, AppliedMatched DEF Moved, A!MayMarkUnknown, A!Matches, Kept
<1>4. CASE ~Acknowledged(res)
    BY <1>1, <1>2, <1>4, GotoKept
<1> QED
    BY <1>2, <1>3, <1>4

LEMMA NodeKept ==
    ASSUME LocalsOK, NEW r \in Runs, NodeStep(r)
    PROVE  \/ Kept /\ NoneArrives
           \/ MarkUnknown(r)
           \/ /\ pc[r] \in ClaimPoints /\ job[r] \in Jobs
              /\ \E t \in Tokens : ClaimedAfresh(r, t) /\ Claimed(r, t) /\ t \in used'
<1>1. CASE ClaimInsert(r) \/ ClaimReclaim(r)
    <2>1. CASE FailOrPause(r)
        BY <2>1, ReturnKept DEF FailOrPause, Finish, Pause
    <2>2. CASE Goto(r, "claim_reread") /\ UNCHANGED <<locals, outcomes>>
        BY <2>2, GotoKept DEF locals
    <2>3. CASE \E t \in Tokens \ used : \E res :
                 /\ ClaimWrite(r, res, t) /\ res.applied /\ A!CanProceed(Doc(r))
                 /\ Claimed(r, t)
        BY <1>1, <2>3
           DEF ClaimWrite, ClaimedAfresh, ClaimInsert, ClaimReclaim, ClaimPoints, LocalsOK
    <2> QED
        BY <1>1, <2>1, <2>2, <2>3, AppliedMatched
           DEF ClaimInsert, ClaimReclaim, A!MayReclaim, A!CanProceed
<1>2. CASE \E o : \E point \in {"idle", "stopped"} : Return(r, o, point)
    BY <1>2, ReturnKept
<1>3. CASE UNCHANGED <<job, token>> /\ \E point : point # "click" /\ Goto(r, point)
    BY <1>3, GotoKept
<1>4. CASE Preflight(r) \/ FormEnds(r) \/ AlreadyApplied(r) \/ SubmittedTextSeen(r) \/ ReachSubmit(r)
           \/ ClaimRead(r) \/ ClaimReread(r)
    BY <1>2, <1>3, <1>4
       DEF Preflight, FormEnds, AlreadyApplied, SubmittedTextSeen, ReachSubmit, ClaimRead,
           ClaimReread, NotClaimed, FailOrPause, Finish, Pause, locals
<1>5. CASE ReserveRead(r) \/ ReserveWrite(r) \/ ReserveReread(r) \/ ReserveFinal(r)
           \/ ReserveQuotaState(r)
    BY <1>3, <1>5
       DEF ReserveRead, ReserveWrite, ReserveReread, ReserveFinal, ReserveCheck, NotReserved,
           Reserved, CleanUp, ReserveQuotaState, PreClickUpdate, locals
<1>6. CASE Click(r) \/ AwaitConfirmation(r) \/ SubmittedRead(r) \/ SubmittedWrite(r)
           \/ CommitRead(r) \/ CommitWrite(r) \/ MarkSeen(r)
    BY <1>2, <1>3, <1>6
       DEF Click, AwaitConfirmation, SubmittedRead, SubmittedWrite,
           FoundSubmitted, NotPersisted, CommitRead, CommitWrite, MarkSeen, Finish, Pause, locals
<1>7. CASE RefundRead(r) \/ RefundWrite(r) \/ WithdrawRead(r) \/ WithdrawWrite(r)
    <2>1. \A ok : CleanupDone(r, ok) => Kept /\ NoneArrives
        BY <1>2, <1>3, GotoKept, ReturnKept DEF CleanupDone, CleanUp, Finish
    <2> QED
        BY <1>3, <1>7, <2>1
           DEF RefundRead, RefundWrite, WithdrawRead, WithdrawWrite, CleanupStep, locals
<1> QED
    BY <1>1, <1>4, <1>5, <1>6, <1>7 DEF NodeStep

LEMMA HistoryKept ==
    ASSUME NEW r \in Runs, NodeStep(r)
    PROVE  used \subseteq used' /\ (Click(r) \/ UNCHANGED <<clicks, clicked>>)
<1>1. CASE ClaimInsert(r) \/ ClaimReclaim(r)
    BY <1>1 DEF ClaimInsert, ClaimReclaim, ClaimWrite
<1> QED
    BY <1>1
       DEF NodeStep, Preflight, FormEnds, AlreadyApplied, SubmittedTextSeen, ReachSubmit,
           ClaimRead, ClaimReread, ReserveRead, ReserveWrite, ReserveReread, ReserveFinal,
           ReserveCheck, ReserveQuotaState, MarkUnknown, PreClickUpdate, Click, AwaitConfirmation,
           SubmittedRead, SubmittedWrite, CommitRead, CommitWrite, MarkSeen,
           RefundRead, RefundWrite, WithdrawRead, WithdrawWrite, history

-----------------------------------------------------------------------------
(* The invariant is kept, by what a step does to the documents. *)

LEMMA QuietStep ==
    ASSUME TypeOK, TypeOK', ClickInv, Kept, NoneArrives, used \subseteq used',
           UNCHANGED <<attempts, clicks, clicked>>
    PROVE  ClickInv'
<1>1. \A s \in Runs : pc'[s] = "click" => token'[s] # NoToken
    BY DEF TypeOK, LocalsOK, HoldingPoints
<1>2. FreshTokens' /\ OneHolder' /\ HolderOnRecord'
    BY DEF ClickInv, FreshTokens, OneHolder, HolderOnRecord, OnRecord, Kept
<1>3. RecordedBeforeClick'
    BY <1>1 DEF ClickInv, RecordedBeforeClick, Kept, NoneArrives
<1>4. ClicksCounted' /\ SubmitAtMostOnce' /\ ClickIsOnRecord'
    BY DEF ClickInv, ClicksCounted, SubmitAtMostOnce, ClickIsOnRecord
<1> QED
    BY <1>2, <1>3, <1>4 DEF ClickInv

LEMMA ClickStep ==
    ASSUME TypeOK, TypeOK', ClickInv, NEW r \in Runs, Click(r)
    PROVE  ClickInv'
<1>1. /\ job[r] \in Jobs /\ token[r] \in Tokens /\ pc[r] = "click"
      /\ UNCHANGED <<attempts, used>>
    BY DEF Click, TypeOK, LocalsOK, HoldingPoints, store
<1>2. Kept /\ NoneArrives /\ pc'[r] # "click"
    <2>1. CASE Pause(r)
        BY <2>1, ReturnKept DEF Pause, Return, Goto, TypeOK, LocalsOK
    <2>2. CASE Goto(r, "confirm") /\ UNCHANGED <<locals, outcomes>>
        BY <2>2, GotoKept DEF locals, Goto, TypeOK, LocalsOK
    <2> QED
        BY <2>1, <2>2 DEF Click
<1>3. /\ attempts[job[r]].status = "submission_unknown"
      /\ attempts[job[r]].token = token[r]
      /\ attempts[job[r]].run = r
      /\ clicks[job[r]] = 0
    <2>1. A!Matches(attempts[job[r]], token[r], {"submission_unknown"}) /\ clicks[job[r]] = 0
        BY <1>1 DEF ClickInv, RecordedBeforeClick
    <2>2. OnRecord(job[r], token[r]) /\ token[r] # NoToken
        BY <1>1, <2>1 DEF OnRecord, A!Matches, A!AttemptStatus
    <2> QED
        BY <1>1, <2>1, <2>2 DEF ClickInv, HolderOnRecord, A!Matches
<1>4. CASE UNCHANGED <<clicks, clicked>>
    BY <1>1, <1>2, <1>4, QuietStep
<1>5. CASE /\ clicks' = [clicks EXCEPT ![job[r]] = @ + 1]
           /\ clicked' = clicked \cup
                 {[token |-> token[r], job |-> job[r], run |-> r, day |-> today]}
    <2>1. FreshTokens' /\ OneHolder' /\ HolderOnRecord'
        BY <1>1, <1>2 DEF ClickInv, FreshTokens, OneHolder, HolderOnRecord, OnRecord, Kept
    <2>2. RecordedBeforeClick'
        <3> SUFFICES ASSUME NEW s \in Runs, pc'[s] = "click"
                     PROVE  /\ A!Matches(attempts'[job'[s]], token'[s], {"submission_unknown"})
                            /\ clicks'[job'[s]] = 0
            BY DEF RecordedBeforeClick
        <3>1. pc[s] = "click" /\ s # r /\ token'[s] = token[s] /\ job'[s] = job[s]
              /\ token[s] # NoToken
            BY <1>2 DEF Kept, NoneArrives, TypeOK, LocalsOK, HoldingPoints
        <3>2. A!Matches(attempts[job[s]], token[s], {"submission_unknown"}) /\ clicks[job[s]] = 0
            BY <3>1 DEF ClickInv, RecordedBeforeClick
        <3>3. job[s] # job[r]
            BY <1>3, <3>1, <3>2 DEF A!Matches, ClickInv, OneHolder
        <3> QED
            BY <1>1, <1>5, <3>1, <3>2, <3>3 DEF TypeOK, HistoryOK
    <2>3. ClicksCounted'
        BY <1>1, <1>5 DEF ClickInv, ClicksCounted, TypeOK, HistoryOK
    <2>4. SubmitAtMostOnce'
        BY <1>1, <1>3, <1>5 DEF ClickInv, SubmitAtMostOnce, TypeOK, HistoryOK
    <2>5. ClickIsOnRecord'
        BY <1>1, <1>3, <1>5 DEF ClickInv, ClickIsOnRecord
    <2> QED
        BY <2>1, <2>2, <2>3, <2>4, <2>5 DEF ClickInv
<1> QED
    BY <1>4, <1>5 DEF Click

(* The holder moves its document: the id and the run on it stay. *)
LEMMA MovedStep ==
    ASSUME TypeOK, TypeOK', ClickInv, Kept, used \subseteq used', UNCHANGED <<clicks, clicked>>,
           NEW r \in Runs, job[r] \in Jobs, token[r] \in Tokens,
           NEW from \in A!AttemptStatus, NEW to \in A!AttemptStatus, Moved(r, from, to), from # "submitted",
           from = "submission_unknown" => to = "submitted" /\ pc[r] # "click",
           \/ NoneArrives
           \/ Goto(r, "click") /\ from = "quota_reserved" /\ to = "submission_unknown"
                               /\ UNCHANGED <<job, token>>
    PROVE  ClickInv'
<1>1. /\ attempts[job[r]].status = from
      /\ attempts[job[r]].token = token[r]
      /\ attempts'[job[r]] = [status |-> to, token |-> token[r], run |-> attempts[job[r]].run]
      /\ \A j \in Jobs : j # job[r] => attempts'[j] = attempts[j]
    BY MovedDoc
<1>2. \A j \in Jobs, t \in Tokens : OnRecord(j, t)' => OnRecord(j, t) /\ attempts'[j].run = attempts[j].run
    BY <1>1 DEF OnRecord, A!Matches
<1>3. FreshTokens' /\ OneHolder' /\ HolderOnRecord'
    <2>1. FreshTokens'
        BY <1>2 DEF ClickInv, FreshTokens, Kept
    <2>2. OneHolder'
        BY DEF ClickInv, OneHolder, Kept
    <2>3. HolderOnRecord'
        BY <1>2 DEF ClickInv, HolderOnRecord, Kept, TypeOK, LocalsOK
    <2> QED
        BY <2>1, <2>2, <2>3
<1>4. \A c \in clicked : c.job = job[r] => from = "submission_unknown"
    BY <1>1 DEF ClickInv, ClickIsOnRecord
<1>5. RecordedBeforeClick'
    <2> SUFFICES ASSUME NEW s \in Runs, pc'[s] = "click"
                 PROVE  /\ A!Matches(attempts'[job'[s]], token'[s], {"submission_unknown"})
                        /\ clicks[job'[s]] = 0
        BY DEF RecordedBeforeClick
    <2>1. token'[s] # NoToken /\ token'[s] = token[s] /\ job'[s] = job[s] /\ job[s] \in Jobs
        BY DEF Kept, TypeOK, LocalsOK, HoldingPoints
    <2>2. CASE pc[s] = "click"
        <3>1. A!Matches(attempts[job[s]], token[s], {"submission_unknown"}) /\ clicks[job[s]] = 0
            BY <2>2 DEF ClickInv, RecordedBeforeClick
        <3>2. job[s] # job[r]
            BY <1>1, <2>1, <2>2, <3>1 DEF A!Matches, ClickInv, OneHolder
        <3> QED
            BY <1>1, <2>1, <3>1, <3>2
    <2>3. CASE pc[s] # "click"
        <3>1. s = r /\ from = "quota_reserved" /\ to = "submission_unknown"
            BY <2>3 DEF NoneArrives, Goto, TypeOK, LocalsOK
        <3>2. clicks[job[r]] = 0
            BY <1>4, <3>1 DEF ClickInv, ClicksCounted, TypeOK, HistoryOK
        <3> QED
            BY <1>1, <2>1, <3>1, <3>2 DEF A!Matches
    <2> QED
        BY <2>2, <2>3
<1>6. ClicksCounted' /\ SubmitAtMostOnce'
    BY DEF ClickInv, ClicksCounted, SubmitAtMostOnce
<1>7. ClickIsOnRecord'
    <2> SUFFICES ASSUME NEW c \in clicked
                 PROVE  /\ attempts'[c.job].status \in {"submission_unknown", "submitted"}
                        /\ attempts'[c.job].token = c.token
                        /\ attempts'[c.job].run = c.run
        BY DEF ClickIsOnRecord
    <2>1. c.job \in Jobs
        BY DEF TypeOK, HistoryOK
    <2>2. /\ attempts[c.job].status \in {"submission_unknown", "submitted"}
          /\ attempts[c.job].token = c.token
          /\ attempts[c.job].run = c.run
        BY DEF ClickInv, ClickIsOnRecord
    <2> QED
        BY <1>1, <1>4, <2>1, <2>2
<1> QED
    BY <1>3, <1>5, <1>6, <1>7 DEF ClickInv

(* A free job is claimed; the id is handed to the run only if the write was
   acknowledged. *)
LEMMA ClaimStep ==
    ASSUME TypeOK, TypeOK', ClickInv, used \subseteq used', UNCHANGED <<clicks, clicked>>,
           NEW r \in Runs, job[r] \in Jobs, pc[r] \in ClaimPoints,
           NEW t \in Tokens, ClaimedAfresh(r, t), t \in used',
           (Kept /\ NoneArrives) \/ Claimed(r, t)
    PROVE  ClickInv'
<1>1. /\ attempts[job[r]].status \in {"absent", "released"}
      /\ attempts'[job[r]] = [status |-> "created", token |-> t, run |-> r]
      /\ \A j \in Jobs : j # job[r] => attempts'[j] = attempts[j]
      /\ t \notin used
    BY DEF ClaimedAfresh, A!CanProceed, A!FreshClaim, Doc, TypeOK, StoreOK
<1>2. \A j \in Jobs, u \in Tokens :
          OnRecord(j, u)' => (j = job[r] /\ u = t) \/ (j # job[r] /\ OnRecord(j, u))
    BY <1>1 DEF OnRecord, A!Matches
<1>3. /\ NoneArrives
      /\ \A s \in Runs : token'[s] # NoToken =>
            /\ job'[s] = job[s]
            /\ token'[s] = token[s] \/ (s = r /\ token'[s] = t)
    BY DEF Claimed, Goto, Kept, NoneArrives, TypeOK, LocalsOK
<1>4. FreshTokens'
    BY <1>2, <1>3 DEF ClickInv, FreshTokens
<1>5. OneHolder'
    BY <1>1, <1>3 DEF ClickInv, FreshTokens, OneHolder
<1>6. HolderOnRecord'
    <2> SUFFICES ASSUME NEW s \in Runs, NEW j \in Jobs, token'[s] # NoToken,
                        OnRecord(j, token[s])'
                 PROVE  j = job'[s] /\ attempts'[j].run = s
        BY DEF HolderOnRecord
    <2>1. token'[s] \in Tokens
        BY DEF TypeOK, LocalsOK
    <2>2. CASE j = job[r] /\ token'[s] = t
        <3>1. s = r /\ job'[s] = job[s]
            BY <1>1, <1>3, <2>2 DEF ClickInv, FreshTokens
        <3> QED
            BY <1>1, <2>2, <3>1
    <2>3. CASE j # job[r] /\ OnRecord(j, token'[s])
        <3>1. token'[s] = token[s] /\ job'[s] = job[s]
            BY <1>1, <1>3, <2>1, <2>3 DEF ClickInv, FreshTokens
        <3> QED
            BY <1>1, <2>3, <3>1 DEF ClickInv, HolderOnRecord
    <2> QED
        BY <1>2, <2>1, <2>2, <2>3 DEF OnRecord
<1>7. RecordedBeforeClick'
    <2> SUFFICES ASSUME NEW s \in Runs, pc'[s] = "click"
                 PROVE  /\ A!Matches(attempts'[job'[s]], token'[s], {"submission_unknown"})
                        /\ clicks[job'[s]] = 0
        BY DEF RecordedBeforeClick
    <2>1. pc[s] = "click" /\ token'[s] # NoToken /\ job[s] \in Jobs
        BY <1>3 DEF NoneArrives, TypeOK, LocalsOK, HoldingPoints
    <2>2. A!Matches(attempts[job[s]], token[s], {"submission_unknown"}) /\ clicks[job[s]] = 0
        BY <2>1 DEF ClickInv, RecordedBeforeClick
    <2>3. s # r /\ job[s] # job[r]
        BY <1>1, <2>1, <2>2 DEF A!Matches, ClaimPoints
    <2> QED
        BY <1>1, <1>3, <2>1, <2>2, <2>3
<1>8. ClicksCounted' /\ SubmitAtMostOnce'
    BY DEF ClickInv, ClicksCounted, SubmitAtMostOnce
<1>9. ClickIsOnRecord'
    <2> SUFFICES ASSUME NEW c \in clicked
                 PROVE  /\ attempts'[c.job].status \in {"submission_unknown", "submitted"}
                        /\ attempts'[c.job].token = c.token
                        /\ attempts'[c.job].run = c.run
        BY DEF ClickIsOnRecord
    <2>1. c.job \in Jobs
        BY DEF TypeOK, HistoryOK
    <2>2. /\ attempts[c.job].status \in {"submission_unknown", "submitted"}
          /\ attempts[c.job].token = c.token
          /\ attempts[c.job].run = c.run
        BY DEF ClickInv, ClickIsOnRecord
    <2> QED
        BY <1>1, <2>1, <2>2
<1> QED
    BY <1>4, <1>5, <1>6, <1>7, <1>8, <1>9 DEF ClickInv

LEMMA ClickInvInit == Init => ClickInv
BY DEF Init, ClickInv, FreshTokens, OneHolder, HolderOnRecord, OnRecord, RecordedBeforeClick,
       ClicksCounted, SubmitAtMostOnce, ClickIsOnRecord, A!Matches, A!AbsentAttempt,
       A!AttemptStatus

LEMMA ClickInvNext == TypeOK /\ TypeOK' /\ ClickInv /\ [Next]_vars => ClickInv'
<1> SUFFICES ASSUME TypeOK, TypeOK', ClickInv, [Next]_vars PROVE ClickInv'
    OBVIOUS
<1>1. CASE UNCHANGED vars
    BY <1>1, QuietStep DEF vars, store, locals, history, Kept, NoneArrives
<1>2. ASSUME NEW r \in Runs, NodeStep(r) PROVE ClickInv'
    <2>1. CASE Click(r)
        BY <2>1, ClickStep
    <2>2. CASE ~Click(r)
        <3>1. used \subseteq used' /\ UNCHANGED <<clicks, clicked>>
            BY <1>2, <2>2, HistoryKept
        <3>2. CASE Kept /\ NoneArrives
            <4>1. CASE attempts' = attempts
                BY <3>1, <3>2, <4>1, QuietStep
            <4>2. CASE /\ job[r] \in Jobs /\ pc[r] \in ClaimPoints
                       /\ \E t \in Tokens : ClaimedAfresh(r, t) /\ t \in used'
                BY <3>1, <3>2, <4>2, ClaimStep
            <4>3. CASE /\ job[r] \in Jobs /\ token[r] \in Tokens
                       /\ \E from, to \in A!AttemptStatus :
                             /\ Moved(r, from, to) /\ from # "submitted"
                             /\ from = "submission_unknown" => to = "submitted" /\ pc[r] # "click"
                BY <3>1, <3>2, <4>3, MovedStep
            <4>4. {"created", "quota_reserved", "submission_unknown", "submitted", "released"}
                      = A!AttemptStatus
                BY DEF A!AttemptStatus
            <4> QED
                BY <1>2, <4>1, <4>2, <4>3, <4>4, DocChange
        <3>3. CASE MarkUnknown(r)
            <4>1. job[r] \in Jobs /\ token[r] \in Tokens
                BY <3>3 DEF MarkUnknown, TypeOK, LocalsOK, HoldingPoints, PreClickPoints
            <4>2. {"quota_reserved", "submission_unknown"} \subseteq A!AttemptStatus
                BY DEF A!AttemptStatus
            <4>3. \/ Kept /\ NoneArrives
                  \/ /\ Kept /\ UNCHANGED <<job, token>> /\ Goto(r, "click")
                     /\ Moved(r, "quota_reserved", "submission_unknown")
                BY <3>3, MarkUnknownKept DEF TypeOK
            <4> QED
                BY <3>1, <3>2, <4>1, <4>2, <4>3, MovedStep
        <3>4. CASE /\ pc[r] \in ClaimPoints /\ job[r] \in Jobs
                   /\ \E t \in Tokens : ClaimedAfresh(r, t) /\ Claimed(r, t) /\ t \in used'
            BY <3>1, <3>4, ClaimStep
        <3> QED
            BY <1>2, <3>2, <3>3, <3>4, NodeKept DEF TypeOK
    <2> QED
        BY <2>1, <2>2
<1>3. ASSUME NEW r \in Runs,
             StartRun(r) \/ (\E j \in Jobs : SelectJob(r, j)) \/ Crash(r) \/ Resume(r)
      PROVE  ClickInv'
    <2>1. ASSUME NEW j \in Jobs, SelectJob(r, j) PROVE Kept /\ NoneArrives
        <3>1. token[r] = NoToken
            BY <2>1 DEF SelectJob, TypeOK, LocalsOK, HoldingPoints, PreClickPoints,
                        CleanupPoints, ClickedPoints
        <3> QED
            BY <2>1, <3>1 DEF SelectJob, Goto, Kept, NoneArrives, TypeOK, LocalsOK
    <2>2. ASSUME StartRun(r) PROVE Kept /\ NoneArrives
        BY <2>2 DEF StartRun, Goto, Kept, NoneArrives, locals, TypeOK, LocalsOK
    <2>3. ASSUME Crash(r) PROVE Kept /\ NoneArrives
        BY <2>3 DEF Crash, Goto, Kept, NoneArrives, TypeOK, LocalsOK
    <2>4. ASSUME Resume(r) PROVE Kept /\ NoneArrives
        BY <2>4 DEF Resume, Goto, Kept, NoneArrives, locals, TypeOK, LocalsOK
    <2>5. Kept /\ NoneArrives
        BY <1>3, <2>1, <2>2, <2>3, <2>4
    <2> QED
        BY <1>3, <2>5, QuietStep DEF StartRun, SelectJob, Crash, Resume, store, history
<1>4. CASE Midnight
    BY <1>4, QuietStep DEF Midnight, store, locals, history, Kept, NoneArrives
<1> QED
    BY <1>1, <1>2, <1>3, <1>4 DEF Next

LEMMA ClickInvariant == Spec => [](TypeOK /\ ClickInv)
<1>1. Init => TypeOK /\ ClickInv
    BY InitTyped, ClickInvInit
<1>2. TypeOK /\ ClickInv /\ [Next]_vars => (TypeOK /\ ClickInv)'
    BY NextTyped, ClickInvNext
<1> QED
    BY <1>1, <1>2, PTL DEF Spec

-----------------------------------------------------------------------------
(* Over all runs, crashes, resumes, races and failed calls, Submit is clicked
   at most once for a job. *)
THEOREM SubmitsOnce == Spec => []SubmitAtMostOnce
<1>1. ClickInv => SubmitAtMostOnce
    BY DEF ClickInv
<1> QED
    BY <1>1, ClickInvariant, PTL

(* Whatever was clicked stays on record, as submission_unknown or submitted,
   under the attempt and the run that clicked it. *)
THEOREM ClicksOnRecord == Spec => []ClickIsOnRecord
<1>1. ClickInv => ClickIsOnRecord
    BY DEF ClickInv
<1> QED
    BY <1>1, ClickInvariant, PTL

(* Every change of an attempt document is a step of LEGAL_ATTEMPT_TRANSITIONS,
   and a document changes hands only when a released job is claimed afresh. *)
THEOREM TransitionsLegal == Spec => LegalTransitions
<1> DEFINE Legal(j) ==
        /\ A!LegalStep(attempts[j].status, attempts'[j].status)
        /\ attempts[j].status # "absent" =>
              \/ attempts'[j].token = attempts[j].token
              \/ attempts[j].status = "released" /\ attempts'[j].status = "created"
<1>1. ASSUME TypeOK, [Next]_vars PROVE [\A j \in Jobs : Legal(j)]_attempts
    <2>1. CASE attempts' = attempts
        BY <2>1
    <2>2. ASSUME NEW r \in Runs, NodeStep(r), NEW j \in Jobs PROVE Legal(j)
        <3>1. CASE attempts' = attempts
            BY <3>1 DEF A!LegalStep
        <3>2. CASE job[r] \in Jobs /\ \E t \in Tokens : ClaimedAfresh(r, t)
            BY <1>1, <3>2 DEF ClaimedAfresh, A!CanProceed, A!FreshClaim, A!LegalStep,
                              A!LegalAttemptTransitions, Doc, TypeOK, StoreOK
        <3>3. ASSUME job[r] \in Jobs, token[r] \in Tokens,
                     NEW from \in A!AttemptStatus, NEW to \in A!AttemptStatus,
                     Moved(r, from, to), to \in A!LegalAttemptTransitions[from]
              PROVE  Legal(j)
            <4>1. /\ attempts[job[r]].status = from
                  /\ attempts[job[r]].token = token[r]
                  /\ attempts'[job[r]] = [status |-> to, token |-> token[r],
                                          run |-> attempts[job[r]].run]
                  /\ \A i \in Jobs : i # job[r] => attempts'[i] = attempts[i]
                BY <1>1, <3>3, MovedDoc
            <4>2. CASE j = job[r]
                BY <3>3, <4>1, <4>2 DEF A!LegalStep
            <4>3. CASE j # job[r]
                BY <4>1, <4>3 DEF A!LegalStep
            <4> QED
                BY <4>2, <4>3
        <3>4. /\ {"created", "quota_reserved", "submission_unknown", "submitted", "released"}
                      = A!AttemptStatus
              /\ A!LegalAttemptTransitions["created"] = {"quota_reserved", "released"}
              /\ A!LegalAttemptTransitions["quota_reserved"] = {"submission_unknown", "released"}
              /\ A!LegalAttemptTransitions["submission_unknown"] = {"submitted"}
            BY DEF A!AttemptStatus, A!LegalAttemptTransitions
        <3> QED
            BY <1>1, <2>2, <3>1, <3>2, <3>3, <3>4, DocChange
    <2> QED
        BY <1>1, <2>1, <2>2
           DEF Next, StartRun, SelectJob, Crash, Resume, Midnight, store, vars
<1> QED
    BY <1>1, TypeCorrect, PTL DEF Spec, LegalTransitions

-----------------------------------------------------------------------------
(* The quota's documents. *)

(* How a step changes a day's document: one slot is written by its run. *)

Charges(r) ==
    /\ Q!MayCharge(DayDoc(r), token[r], r)
    /\ quota' = [quota EXCEPT ![day[r]] = Q!Charge(@, token[r], r)]

Refunds(r) ==
    /\ Q!MayRefund(DayDoc(r), token[r], r)
    /\ quota' = [quota EXCEPT ![day[r]] = Q!Refund(@, token[r], r)]

Commits(r) ==
    /\ Q!MayCommit(DayDoc(r), token[r], r)
    /\ quota' = [quota EXCEPT ![day[r]] = Q!Commit(@, token[r], r)]

(* Only the day's document of the run changes, and in it only the run's slot. *)
SlotWritten(r, status) ==
    /\ \A d \in Days : d # day[r] => quota'[d] = quota[d]
    /\ quota'[day[r]].slots =
           [quota[day[r]].slots EXCEPT ![token[r]] = [status |-> status, run |-> r]]

LEMMA QuotaChange ==
    ASSUME TypeOK, NEW r \in Runs, NodeStep(r)
    PROVE  \/ quota' = quota
           \/ /\ token[r] \in Tokens /\ day[r] \in Days
              /\ \/ pc[r] = "reserve_write" /\ Charges(r)
                 \/ pc[r] = "refund_write" /\ Refunds(r)
                 \/ pc[r] = "commit_write" /\ Commits(r)
<1>1. pc[r] \in HoldingPoints => token[r] \in Tokens /\ day[r] \in Days
    BY DEF TypeOK, LocalsOK
<1>2. {"reserve_write", "refund_write", "commit_write"} \subseteq HoldingPoints
    BY DEF HoldingPoints, PreClickPoints, CleanupPoints, ClickedPoints
<1>3. CASE ReserveWrite(r)
    <2>1. PICK res \in UpdateResults(Q!MayCharge(DayDoc(r), token[r], r)) :
              quota' = IF res.applied
                       THEN [quota EXCEPT ![day[r]] = Q!Charge(@, token[r], r)] ELSE quota
        BY <1>3 DEF ReserveWrite
    <2>2. Q!MayCharge(DayDoc(r), token[r], r) \in BOOLEAN
        BY DEF Q!MayCharge
    <2> QED
        BY <1>1, <1>2, <1>3, <2>1, <2>2, AppliedMatched DEF ReserveWrite, Charges
<1>4. CASE RefundWrite(r)
    <2>1. PICK res \in UpdateResults(Q!MayRefund(DayDoc(r), token[r], r)) :
              quota' = IF res.applied
                       THEN [quota EXCEPT ![day[r]] = Q!Refund(@, token[r], r)] ELSE quota
        BY <1>4 DEF RefundWrite
    <2>2. Q!MayRefund(DayDoc(r), token[r], r) \in BOOLEAN
        BY DEF Q!MayRefund
    <2> QED
        BY <1>1, <1>2, <1>4, <2>1, <2>2, AppliedMatched DEF RefundWrite, Refunds
<1>5. CASE CommitWrite(r)
    <2>1. PICK res \in UpdateResults(Q!MayCommit(DayDoc(r), token[r], r)) :
              quota' = IF res.applied
                       THEN [quota EXCEPT ![day[r]] = Q!Commit(@, token[r], r)] ELSE quota
        BY <1>5 DEF CommitWrite
    <2>2. Q!MayCommit(DayDoc(r), token[r], r) \in BOOLEAN
        BY DEF Q!MayCommit
    <2> QED
        BY <1>1, <1>2, <1>5, <2>1, <2>2, AppliedMatched DEF CommitWrite, Commits
<1> QED
    BY <1>3, <1>4, <1>5
       DEF NodeStep, Preflight, FormEnds, AlreadyApplied, SubmittedTextSeen, ReachSubmit,
           ClaimRead, ClaimInsert, ClaimReclaim, ClaimReread, ReserveRead, ReserveReread,
           ReserveFinal, ReserveCheck, ReserveQuotaState, MarkUnknown, PreClickUpdate, Click,
           AwaitConfirmation, SubmittedRead, SubmittedWrite, CommitRead, MarkSeen,
           RefundRead, WithdrawRead, WithdrawWrite, store

(* What the three updates write, field by field. *)
LEMMA ChargeFields ==
    ASSUME NEW d \in Q!DayDoc, NEW t \in Tokens, NEW r \in Runs
    PROVE  /\ Q!Charge(d, t, r).reserved = d.reserved + 1
           /\ Q!Charge(d, t, r).submitted = d.submitted
           /\ \A s \in Runs : Q!Charge(d, t, r).sessions[s] =
                  IF s = r THEN d.sessions[s] + 1 ELSE d.sessions[s]
           /\ Q!Charge(d, t, r).slots = [d.slots EXCEPT ![t] = [status |-> "reserved", run |-> r]]
<1> DEFINE d1 == [d EXCEPT !.reserved = @ + 1]
           d2 == [d1 EXCEPT !.sessions[r] = @ + 1]
           d3 == [d2 EXCEPT !.slots[t] = [status |-> "reserved", run |-> r]]
<1>1. /\ d1 \in Q!DayDoc
      /\ d1.reserved = d.reserved + 1 /\ d1.submitted = d.submitted
      /\ d1.sessions = d.sessions /\ d1.slots = d.slots
    BY DEF Q!DayDoc
<1>2. /\ d2 \in Q!DayDoc
      /\ d2.reserved = d1.reserved /\ d2.submitted = d1.submitted
      /\ \A s \in Runs :
             d2.sessions[s] = IF s = r THEN d1.sessions[s] + 1 ELSE d1.sessions[s]
      /\ d2.slots = d1.slots
    <2> HIDE DEF d1
    <2> QED BY <1>1 DEF Q!DayDoc
<1>3. /\ d3.reserved = d2.reserved /\ d3.submitted = d2.submitted
      /\ d3.sessions = d2.sessions
      /\ d3.slots = [d2.slots EXCEPT ![t] = [status |-> "reserved", run |-> r]]
    <2> HIDE DEF d2
    <2> QED BY <1>2 DEF Q!DayDoc
<1>4. Q!Charge(d, t, r) = d3
    BY DEF Q!Charge
<1> HIDE DEF d1, d2, d3
<1> QED
    BY <1>1, <1>2, <1>3, <1>4

LEMMA RefundFields ==
    ASSUME NEW d \in Q!DayDoc, NEW t \in Tokens, NEW r \in Runs, Q!MayRefund(d, t, r)
    PROVE  /\ Q!Refund(d, t, r).reserved = d.reserved - 1
           /\ Q!Refund(d, t, r).submitted = d.submitted
           /\ \A s \in Runs : Q!Refund(d, t, r).sessions[s] =
                  IF s = r THEN d.sessions[s] - 1 ELSE d.sessions[s]
           /\ Q!Refund(d, t, r).slots = [d.slots EXCEPT ![t] = [status |-> "released", run |-> r]]
<1> DEFINE d1 == [d EXCEPT !.reserved = @ - 1]
           d2 == [d1 EXCEPT !.sessions[r] = @ - 1]
           d3 == [d2 EXCEPT !.slots[t] = [status |-> "released", run |-> r]]
<1>1. /\ d1 \in Q!DayDoc
      /\ d1.reserved = d.reserved - 1 /\ d1.submitted = d.submitted
      /\ d1.sessions = d.sessions /\ d1.slots = d.slots
    BY DEF Q!DayDoc, Q!MayRefund
<1>2. /\ d2 \in Q!DayDoc
      /\ d2.reserved = d1.reserved /\ d2.submitted = d1.submitted
      /\ \A s \in Runs :
             d2.sessions[s] = IF s = r THEN d1.sessions[s] - 1 ELSE d1.sessions[s]
      /\ d2.slots = d1.slots
    <2>1. d1.sessions[r] > 0
        BY <1>1 DEF Q!MayRefund
    <2> HIDE DEF d1
    <2> QED BY <1>1, <2>1 DEF Q!DayDoc
<1>3. /\ d3.reserved = d2.reserved /\ d3.submitted = d2.submitted
      /\ d3.sessions = d2.sessions
      /\ d3.slots = [d2.slots EXCEPT ![t] = [status |-> "released", run |-> r]]
    <2> HIDE DEF d2
    <2> QED BY <1>2 DEF Q!DayDoc
<1>4. Q!Refund(d, t, r) = d3
    BY DEF Q!Refund
<1> HIDE DEF d1, d2, d3
<1> QED
    BY <1>1, <1>2, <1>3, <1>4

LEMMA CommitFields ==
    ASSUME NEW d \in Q!DayDoc, NEW t \in Tokens, NEW r \in Runs
    PROVE  /\ Q!Commit(d, t, r).reserved = d.reserved
           /\ Q!Commit(d, t, r).submitted = d.submitted + 1
           /\ Q!Commit(d, t, r).sessions = d.sessions
           /\ Q!Commit(d, t, r).slots = [d.slots EXCEPT ![t] = [status |-> "committed", run |-> r]]
<1> DEFINE d1 == [d EXCEPT !.submitted = @ + 1]
           d2 == [d1 EXCEPT !.slots[t] = [status |-> "committed", run |-> r]]
<1>1. /\ d1 \in Q!DayDoc
      /\ d1.reserved = d.reserved /\ d1.submitted = d.submitted + 1
      /\ d1.sessions = d.sessions /\ d1.slots = d.slots
    BY DEF Q!DayDoc
<1>2. /\ d2.reserved = d1.reserved /\ d2.submitted = d1.submitted
      /\ d2.sessions = d1.sessions
      /\ d2.slots = [d1.slots EXCEPT ![t] = [status |-> "committed", run |-> r]]
    <2> HIDE DEF d1
    <2> QED BY <1>1 DEF Q!DayDoc
<1>3. Q!Commit(d, t, r) = d2
    BY DEF Q!Commit
<1> HIDE DEF d1, d2
<1> QED
    BY <1>1, <1>2, <1>3

(* The run's slot before and after, for all three: no other slot changes. *)
LEMMA SlotChange ==
    ASSUME TypeOK, NEW r \in Runs, token[r] \in Tokens, day[r] \in Days
    PROVE  /\ Charges(r) => SlotWritten(r, "reserved")
           /\ Refunds(r) => SlotWritten(r, "released")
           /\ Commits(r) => SlotWritten(r, "committed")
<1>1. quota \in [Days -> Q!DayDoc] /\ quota[day[r]] \in Q!DayDoc
    BY DEF TypeOK, StoreOK
<1>2. ASSUME Charges(r) PROVE SlotWritten(r, "reserved")
    <2>1. Q!Charge(quota[day[r]], token[r], r).slots
              = [quota[day[r]].slots EXCEPT ![token[r]] = [status |-> "reserved", run |-> r]]
        BY <1>1, ChargeFields
    <2>2. quota' = [quota EXCEPT ![day[r]] = Q!Charge(quota[day[r]], token[r], r)]
        BY <1>2 DEF Charges
    <2> QED
        BY <1>1, <2>1, <2>2 DEF SlotWritten
<1>3. ASSUME Refunds(r) PROVE SlotWritten(r, "released")
    <2>1. Q!MayRefund(quota[day[r]], token[r], r)
        BY <1>3 DEF Refunds, DayDoc
    <2>2. Q!Refund(quota[day[r]], token[r], r).slots
              = [quota[day[r]].slots EXCEPT ![token[r]] = [status |-> "released", run |-> r]]
        BY <1>1, <2>1, RefundFields
    <2>3. quota' = [quota EXCEPT ![day[r]] = Q!Refund(quota[day[r]], token[r], r)]
        BY <1>3 DEF Refunds
    <2> QED
        BY <1>1, <2>2, <2>3 DEF SlotWritten
<1>4. Commits(r) => SlotWritten(r, "committed")
    BY <1>1, CommitFields DEF Commits, SlotWritten
<1> QED
    BY <1>2, <1>3, <1>4

LEMMA SlotsAfter ==
    ASSUME TypeOK, NEW r \in Runs, token[r] \in Tokens, day[r] \in Days,
           NEW status, SlotWritten(r, status)
    PROVE  \A d \in Days, t \in Tokens :
               SlotOf(d, t)' = IF d = day[r] /\ t = token[r]
                               THEN [status |-> status, run |-> r] ELSE SlotOf(d, t)
BY DEF TypeOK, StoreOK, SlotWritten, SlotOf, Q!DayDoc

-----------------------------------------------------------------------------
(* The counters are exact and the caps kept.  A slot is written only under an
   attempt id that was handed out, so the reservations of a day are finitely
   many whatever the supply of ids. *)

ChargedOn(d) == {t \in Tokens : Q!Charged(quota[d], t)}
CommittedOn(d) == {t \in Tokens : quota[d].slots[t].status = "committed"}
SessionOn(d, r) == {t \in Tokens : Q!OwnsCharged(quota[d], t, r)}

LEMMA AddOne ==
    ASSUME NEW S, IsFiniteSet(S), NEW x, x \notin S
    PROVE  Cardinality(S) \in Nat /\ Cardinality(S \cup {x}) = Cardinality(S) + 1
BY FS_AddElement, FS_CardinalityType

LEMMA DropOne ==
    ASSUME NEW S, IsFiniteSet(S), NEW x \in S
    PROVE  Cardinality(S) \in Nat /\ Cardinality(S \ {x}) = Cardinality(S) - 1
BY FS_RemoveElement, FS_CardinalityType

LEMMA FiniteDays ==
    ASSUME IsFiniteSet(used), FreshSlots, NEW d \in Days
    PROVE  /\ IsFiniteSet(ChargedOn(d)) /\ IsFiniteSet(CommittedOn(d))
           /\ \A r \in Runs : IsFiniteSet(SessionOn(d, r))
<1>1. /\ ChargedOn(d) \subseteq used /\ CommittedOn(d) \subseteq used
      /\ \A r \in Runs : SessionOn(d, r) \subseteq used
    BY DEF FreshSlots, SlotOf, ChargedOn, CommittedOn, SessionOn, Q!Charged, Q!OwnsCharged,
           Q!NoSlot
<1> QED
    BY <1>1, FS_Subset

(* What one day's document must satisfy. *)
DayExact(d) ==
    /\ quota[d].reserved = Cardinality(ChargedOn(d))
    /\ quota[d].submitted = Cardinality(CommittedOn(d))
    /\ \A r \in Runs : quota[d].sessions[r] = Cardinality(SessionOn(d, r))
    /\ Cardinality(ChargedOn(d)) <= DailyCap
    /\ \A r \in Runs : Cardinality(SessionOn(d, r)) <= SessionCap

LEMMA CapsByDay == CapsAreKept <=> \A d \in Days : DayExact(d)
BY DEF CapsAreKept, CountersExact, WithinCaps, DayExact, ChargedOn, CommittedOn, SessionOn

LEMMA CapsByDayNext == CapsAreKept' <=> \A d \in Days : DayExact(d)'
BY DEF CapsAreKept, CountersExact, WithinCaps, DayExact, ChargedOn, CommittedOn, SessionOn

(* A day whose document does not change. *)
LEMMA DayStays ==
    ASSUME NEW d \in Days, quota'[d] = quota[d], DayExact(d)
    PROVE  DayExact(d)'
BY DEF DayExact, ChargedOn, CommittedOn, SessionOn

LEMMA ChargedDay ==
    ASSUME TypeOK, IsFiniteSet(used), FreshSlots, NEW r \in Runs, NEW t \in Tokens,
           NEW d \in Days, DayExact(d),
           Q!MayCharge(quota[d], t, r), quota'[d] = Q!Charge(quota[d], t, r)
    PROVE  DayExact(d)'
<1>1. /\ IsFiniteSet(ChargedOn(d))
      /\ \A s \in Runs : IsFiniteSet(SessionOn(d, s))
    BY FiniteDays
<1>0. quota[d] \in Q!DayDoc
    BY DEF TypeOK, StoreOK
<1>2. /\ quota[d] \in Q!DayDoc
      /\ ~(quota[d].reserved >= DailyCap) /\ ~(quota[d].sessions[r] >= SessionCap)
      /\ ~Q!Charged(quota[d], t)
    BY DEF TypeOK, StoreOK, Q!MayCharge, Q!CapReached
<1>3. /\ quota'[d].reserved = quota[d].reserved + 1
      /\ quota'[d].submitted = quota[d].submitted
      /\ \A s \in Runs : quota'[d].sessions[s] =
             IF s = r THEN quota[d].sessions[s] + 1 ELSE quota[d].sessions[s]
      /\ quota'[d].slots = [quota[d].slots EXCEPT ![t] = [status |-> "reserved", run |-> r]]
    BY <1>0, ChargeFields
<1>4. quota'[d].slots[t] = [status |-> "reserved", run |-> r]
      /\ \A u \in Tokens : u # t => quota'[d].slots[u] = quota[d].slots[u]
    BY <1>2, <1>3 DEF Q!DayDoc
<1>5. /\ t \notin ChargedOn(d) /\ ChargedOn(d)' = ChargedOn(d) \cup {t}
      /\ CommittedOn(d)' = CommittedOn(d)
      /\ t \notin SessionOn(d, r) /\ SessionOn(d, r)' = SessionOn(d, r) \cup {t}
      /\ \A s \in Runs : s # r => SessionOn(d, s)' = SessionOn(d, s)
    BY <1>2, <1>4 DEF ChargedOn, CommittedOn, SessionOn, Q!Charged, Q!OwnsCharged
<1>6. /\ Cardinality(ChargedOn(d)) \in Nat
      /\ Cardinality(ChargedOn(d)') = Cardinality(ChargedOn(d)) + 1
      /\ Cardinality(SessionOn(d, r)) \in Nat
      /\ Cardinality(SessionOn(d, r)') = Cardinality(SessionOn(d, r)) + 1
    BY <1>1, <1>5, AddOne
<1>7. /\ quota'[d].reserved = Cardinality(ChargedOn(d)')
      /\ quota'[d].submitted = Cardinality(CommittedOn(d)')
      /\ Cardinality(ChargedOn(d)') <= DailyCap
    BY <1>2, <1>3, <1>5, <1>6, BoundsAssumption DEF DayExact
<1>8. ASSUME NEW s \in Runs
      PROVE  /\ quota'[d].sessions[s] = Cardinality(SessionOn(d, s)')
             /\ Cardinality(SessionOn(d, s)') <= SessionCap
    <2>1. CASE s = r
        BY <1>2, <1>3, <1>6, <2>1, BoundsAssumption DEF DayExact
    <2>2. CASE s # r
        BY <1>3, <1>5, <2>2 DEF DayExact
    <2> QED
        BY <2>1, <2>2
<1> QED
    BY <1>7, <1>8 DEF DayExact

LEMMA RefundedDay ==
    ASSUME TypeOK, IsFiniteSet(used), FreshSlots, NEW r \in Runs, NEW t \in Tokens,
           NEW d \in Days, DayExact(d),
           Q!MayRefund(quota[d], t, r), quota'[d] = Q!Refund(quota[d], t, r)
    PROVE  DayExact(d)'
<1>1. /\ IsFiniteSet(ChargedOn(d))
      /\ \A s \in Runs : IsFiniteSet(SessionOn(d, s))
    BY FiniteDays
<1>2. /\ quota[d] \in Q!DayDoc
      /\ quota[d].slots[t] = [status |-> "reserved", run |-> r]
    BY DEF TypeOK, StoreOK, Q!MayRefund
<1>3. /\ quota'[d].reserved = quota[d].reserved - 1
      /\ quota'[d].submitted = quota[d].submitted
      /\ \A s \in Runs : quota'[d].sessions[s] =
             IF s = r THEN quota[d].sessions[s] - 1 ELSE quota[d].sessions[s]
      /\ quota'[d].slots = [quota[d].slots EXCEPT ![t] = [status |-> "released", run |-> r]]
    BY <1>2, RefundFields
<1>4. quota'[d].slots[t] = [status |-> "released", run |-> r]
      /\ \A u \in Tokens : u # t => quota'[d].slots[u] = quota[d].slots[u]
    BY <1>2, <1>3 DEF Q!DayDoc
<1>5. /\ t \in ChargedOn(d) /\ ChargedOn(d)' = ChargedOn(d) \ {t}
      /\ CommittedOn(d)' = CommittedOn(d)
      /\ t \in SessionOn(d, r) /\ SessionOn(d, r)' = SessionOn(d, r) \ {t}
      /\ \A s \in Runs : s # r => SessionOn(d, s)' = SessionOn(d, s)
    BY <1>2, <1>4 DEF ChargedOn, CommittedOn, SessionOn, Q!Charged, Q!OwnsCharged
<1>6. /\ Cardinality(ChargedOn(d)) \in Nat
      /\ Cardinality(ChargedOn(d)') = Cardinality(ChargedOn(d)) - 1
      /\ Cardinality(SessionOn(d, r)) \in Nat
      /\ Cardinality(SessionOn(d, r)') = Cardinality(SessionOn(d, r)) - 1
    BY <1>1, <1>5, DropOne
<1>7. /\ quota'[d].reserved = Cardinality(ChargedOn(d)')
      /\ quota'[d].submitted = Cardinality(CommittedOn(d)')
      /\ Cardinality(ChargedOn(d)') <= DailyCap
    BY <1>2, <1>3, <1>5, <1>6, BoundsAssumption DEF DayExact
<1>8. ASSUME NEW s \in Runs
      PROVE  /\ quota'[d].sessions[s] = Cardinality(SessionOn(d, s)')
             /\ Cardinality(SessionOn(d, s)') <= SessionCap
    <2>1. CASE s = r
        BY <1>2, <1>3, <1>6, <2>1, BoundsAssumption DEF DayExact
    <2>2. CASE s # r
        BY <1>3, <1>5, <2>2 DEF DayExact
    <2> QED
        BY <2>1, <2>2
<1> QED
    BY <1>7, <1>8 DEF DayExact

LEMMA CommittedDay ==
    ASSUME TypeOK, IsFiniteSet(used), FreshSlots, NEW r \in Runs, NEW t \in Tokens,
           NEW d \in Days, DayExact(d),
           Q!MayCommit(quota[d], t, r), quota'[d] = Q!Commit(quota[d], t, r)
    PROVE  DayExact(d)'
<1>1. IsFiniteSet(CommittedOn(d))
    BY FiniteDays
<1>2. /\ quota[d] \in Q!DayDoc
      /\ quota[d].slots[t] = [status |-> "reserved", run |-> r]
    BY DEF TypeOK, StoreOK, Q!MayCommit
<1>3. /\ quota'[d].reserved = quota[d].reserved
      /\ quota'[d].submitted = quota[d].submitted + 1
      /\ quota'[d].sessions = quota[d].sessions
      /\ quota'[d].slots = [quota[d].slots EXCEPT ![t] = [status |-> "committed", run |-> r]]
    BY <1>2, CommitFields
<1>4. quota'[d].slots[t] = [status |-> "committed", run |-> r]
      /\ \A u \in Tokens : u # t => quota'[d].slots[u] = quota[d].slots[u]
    BY <1>2, <1>3 DEF Q!DayDoc
<1>5. /\ ChargedOn(d)' = ChargedOn(d)
      /\ t \notin CommittedOn(d) /\ CommittedOn(d)' = CommittedOn(d) \cup {t}
      /\ \A s \in Runs : SessionOn(d, s)' = SessionOn(d, s)
    BY <1>2, <1>4 DEF ChargedOn, CommittedOn, SessionOn, Q!Charged, Q!OwnsCharged
<1>6. Cardinality(CommittedOn(d)') = Cardinality(CommittedOn(d)) + 1
    BY <1>1, <1>5, AddOne
<1> QED
    BY <1>2, <1>3, <1>5, <1>6 DEF DayExact

LEMMA CountersInit == Init => CountersInv
<1> SUFFICES ASSUME Init PROVE CountersInv
    OBVIOUS
<1>1. FreshSlots /\ IsFiniteSet(used)
    BY FS_EmptySet DEF Init, FreshSlots, SlotOf, Q!EmptyDay
<1>2. ASSUME NEW d \in Days PROVE DayExact(d)
    <2>1. /\ ChargedOn(d) = {} /\ CommittedOn(d) = {}
          /\ \A r \in Runs : SessionOn(d, r) = {}
        BY DEF Init, ChargedOn, CommittedOn, SessionOn, Q!EmptyDay, Q!NoSlot, Q!Charged,
               Q!OwnsCharged
    <2>2. Cardinality({}) = 0
        BY FS_EmptySet
    <2>3. /\ quota[d].reserved = 0 /\ quota[d].submitted = 0
          /\ \A r \in Runs : quota[d].sessions[r] = 0
        BY DEF Init, Q!EmptyDay
    <2> QED
        BY <2>1, <2>2, <2>3, BoundsAssumption DEF DayExact
<1> QED
    BY <1>1, <1>2, CapsByDay DEF CountersInv

(* The attempt ids handed out: one more, at most, with every step. *)
LEMMA UsedChange ==
    ASSUME [Next]_vars
    PROVE  used' = used \/ \E t \in Tokens : used' = used \cup {t}
<1>1. ASSUME NEW r \in Runs, ClaimInsert(r) \/ ClaimReclaim(r)
      PROVE  \E t \in Tokens : used' = used \cup {t}
    BY <1>1 DEF ClaimInsert, ClaimReclaim, ClaimWrite
<1>2. ASSUME NEW r \in Runs, NodeStep(r), ~ClaimInsert(r), ~ClaimReclaim(r)
      PROVE  used' = used
    BY <1>2
       DEF NodeStep, Preflight, FormEnds, AlreadyApplied, SubmittedTextSeen, ReachSubmit,
           ClaimRead, ClaimReread, ReserveRead, ReserveWrite, ReserveReread, ReserveFinal,
           ReserveCheck, ReserveQuotaState, MarkUnknown, PreClickUpdate, Click, AwaitConfirmation,
           SubmittedRead, SubmittedWrite, CommitRead, CommitWrite, MarkSeen,
           RefundRead, RefundWrite, WithdrawRead, WithdrawWrite, history
<1> QED
    BY <1>1, <1>2 DEF Next, StartRun, SelectJob, Crash, Resume, Midnight, vars, history

(* Beside the node, nothing touches the two collections or the clicks. *)
LEMMA OutsideKeeps ==
    ASSUME [Next]_vars, \A r \in Runs : ~NodeStep(r)
    PROVE  UNCHANGED <<attempts, quota, used, clicks, clicked>>
BY DEF Next, StartRun, SelectJob, Crash, Resume, Midnight, vars, store, history

LEMMA CountersNext ==
    TypeOK /\ ClickInv /\ CountersInv /\ [Next]_vars => CountersInv'
<1> SUFFICES ASSUME TypeOK, ClickInv, CountersInv, [Next]_vars PROVE CountersInv'
    OBVIOUS
<1>1. IsFiniteSet(used')
    BY UsedChange, FS_AddElement DEF CountersInv
<1>2. used \subseteq used'
    BY UsedChange
<1>3. CASE quota' = quota
    <2>1. FreshSlots'
        BY <1>2, <1>3 DEF CountersInv, FreshSlots, SlotOf
    <2>2. \A d \in Days : DayExact(d)'
        BY <1>3, CapsByDay, DayStays DEF CountersInv
    <2> QED
        BY <1>1, <2>1, <2>2, CapsByDayNext DEF CountersInv
<1>4. ASSUME NEW r \in Runs, token[r] \in Tokens, day[r] \in Days,
             Charges(r) \/ Refunds(r) \/ Commits(r)
      PROVE  CountersInv'
    <2>1. token[r] \in used
        BY <1>4 DEF ClickInv, FreshTokens
    <2>2. FreshSlots'
        <3>1. \E status : SlotWritten(r, status)
            BY <1>4, SlotChange
        <3>2. \A d \in Days, t \in Tokens : SlotOf(d, t)' = SlotOf(d, t) \/ t = token[r]
            BY <1>4, <3>1, SlotsAfter
        <3> QED
            BY <1>2, <2>1, <3>2 DEF CountersInv, FreshSlots
    <2>3. quota \in [Days -> Q!DayDoc]
        BY DEF TypeOK, StoreOK
    <2>4. IsFiniteSet(used) /\ FreshSlots /\ \A d \in Days : DayExact(d)
        BY CapsByDay DEF CountersInv
    <2>5. ASSUME NEW d \in Days PROVE DayExact(d)'
        <3>1. CASE d # day[r]
            <4>1. quota'[d] = quota[d]
                BY <1>4, <2>3, <3>1 DEF Charges, Refunds, Commits
            <4> QED
                BY <2>4, <4>1, DayStays
        <3>2. CASE d = day[r]
            <4>1. CASE Charges(r)
                BY <1>4, <2>3, <2>4, <3>2, <4>1, ChargedDay DEF Charges, DayDoc
            <4>2. CASE Refunds(r)
                BY <1>4, <2>3, <2>4, <3>2, <4>2, RefundedDay DEF Refunds, DayDoc
            <4>3. CASE Commits(r)
                BY <1>4, <2>3, <2>4, <3>2, <4>3, CommittedDay DEF Commits, DayDoc
            <4> QED
                BY <1>4, <4>1, <4>2, <4>3
        <3> QED
            BY <3>1, <3>2
    <2> QED
        BY <1>1, <2>2, <2>5, CapsByDayNext DEF CountersInv
<1> QED
    BY <1>3, <1>4, QuotaChange, OutsideKeeps

-----------------------------------------------------------------------------
(* What a step of one run leaves alone. *)

(* Only run r moves. *)
OnlyMoves(r) ==
    \A s \in Runs : s # r =>
        /\ pc'[s] = pc[s] /\ job'[s] = job[s] /\ token'[s] = token[s] /\ day'[s] = day[s]
        /\ outcomes'[s] = outcomes[s]

LEMMA ReturnMoves ==
    ASSUME TypeOK, NEW r \in Runs, NEW o, NEW point, Return(r, o, point)
    PROVE  /\ OnlyMoves(r)
           /\ pc'[r] = point /\ job'[r] = NoJob /\ token'[r] = NoToken /\ day'[r] = 0
           /\ outcomes'[r] = [outcomes[r] EXCEPT ![job[r]] = o]
BY DEF TypeOK, LocalsOK, RunsOK, Return, Goto, OnlyMoves

(* The ways a step of the node can move its run: it returns, it claims, or it
   goes on with the attempt it has. *)
Returns(r) == \E o \in Outcomes, point \in {"idle", "stopped"} : Return(r, o, point)

GoesOn(r, points) ==
    /\ \E point \in points : Goto(r, point)
    /\ UNCHANGED <<job, token, outcomes>>
    /\ day' = day \/ day' = [day EXCEPT ![r] = today]

LEMMA GoesOnMoves ==
    ASSUME TypeOK, NEW r \in Runs, NEW points, GoesOn(r, points)
    PROVE  /\ OnlyMoves(r)
           /\ pc'[r] \in points /\ job'[r] = job[r] /\ token'[r] = token[r]
           /\ day'[r] \in {day[r], today} /\ outcomes'[r] = outcomes[r]
BY DEF TypeOK, LocalsOK, GoesOn, Goto, OnlyMoves

LEMMA CleanupDoneShape ==
    ASSUME TypeOK, NEW r \in Runs, NEW ok \in BOOLEAN, CleanupDone(r, ok)
    PROVE  Returns(r) \/ GoesOn(r, {"refund_read", "withdraw_read"})
<1>1. ASSUME Finish(r, IF ok THEN ending[r] ELSE "needs_manual_review")
      PROVE  Returns(r)
    <2>1. (IF ok THEN ending[r] ELSE "needs_manual_review") \in Outcomes
        BY DEF TypeOK, LocalsOK, Outcomes
    <2> QED
        BY <1>1, <2>1 DEF Finish, Returns
<1> QED
    BY <1>1 DEF CleanupDone, CleanUp, GoesOn

(* Where every step of the node can lead. *)
LEMMA NodeMoves ==
    ASSUME TypeOK, NEW r \in Runs, NodeStep(r)
    PROVE  \/ Returns(r)
           \/ \E t \in Tokens \ used : Claimed(r, t) /\ pc[r] \in {"claim_insert", "claim_reclaim"}
           \/ pc[r] = "preflight"       /\ GoesOn(r, {"form"}) /\ A!CanProceed(Doc(r))
           \/ pc[r] = "form"            /\ GoesOn(r, {"claim_read"})
           \/ pc[r] \in ClaimPoints     /\ GoesOn(r, ClaimPoints)
           \/ ReserveRead(r)            /\ GoesOn(r, {"reserve_write", "withdraw_read"})
           \/ ReserveWrite(r)           /\ GoesOn(r, {"quota_state", "reserve_reread", "reserve_final"})
           \/ (ReserveReread(r) \/ ReserveFinal(r)) /\ GoesOn(r, {"quota_state", "withdraw_read"})
           \/ ReserveQuotaState(r)      /\ GoesOn(r, {"mark_unknown", "refund_read"})
           \/ MarkUnknown(r)            /\ GoesOn(r, {"click", "refund_read"})
           \/ Click(r)                  /\ GoesOn(r, {"confirm"})
           \/ pc[r] \in ClickedPoints   /\ GoesOn(r, ClickedPoints)
           \/ RefundRead(r)             /\ GoesOn(r, {"refund_write", "withdraw_read"})
           \/ RefundWrite(r)            /\ GoesOn(r, {"withdraw_read"})
           \/ (WithdrawRead(r) \/ WithdrawWrite(r)) /\ GoesOn(r, {"refund_read", "withdraw_read", "withdraw_write"})
<1>1. {"failed", "needs_manual_review", "skipped", "submitted"} \subseteq Outcomes
    BY DEF Outcomes
<1>2. CASE Preflight(r) \/ FormEnds(r) \/ AlreadyApplied(r) \/ SubmittedTextSeen(r) \/ ReachSubmit(r)
           \/ ClaimRead(r) \/ ClaimReread(r)
    BY <1>1, <1>2
       DEF Preflight, FormEnds, AlreadyApplied, SubmittedTextSeen, ReachSubmit, ClaimRead,
           ClaimReread, NotClaimed, FailOrPause, Finish, Pause, locals, runs, Returns, GoesOn,
           ClaimPoints
<1>3. CASE ClaimInsert(r) \/ ClaimReclaim(r)
    BY <1>1, <1>3
       DEF ClaimInsert, ClaimReclaim, FailOrPause, Finish, Pause, locals, Returns, GoesOn,
           ClaimPoints
<1>4. CASE ReserveRead(r)
    BY <1>4 DEF ReserveRead, NotReserved, CleanUp, runs, GoesOn
<1>5. CASE ReserveWrite(r)
    BY <1>5 DEF ReserveWrite, Reserved, locals, runs, GoesOn
<1>6. CASE ReserveReread(r) \/ ReserveFinal(r)
    BY <1>6 DEF ReserveReread, ReserveFinal, ReserveCheck, Reserved, NotReserved, CleanUp, runs, GoesOn
<1>7. CASE ReserveQuotaState(r)
    BY <1>7 DEF ReserveQuotaState, PreClickUpdate, CleanUp, runs, GoesOn
<1>8. CASE MarkUnknown(r)
    BY <1>8 DEF MarkUnknown, PreClickUpdate, CleanUp, runs, GoesOn
<1>9. CASE Click(r)
    BY <1>1, <1>9 DEF Click, Pause, locals, Returns, GoesOn
<1>10. CASE AwaitConfirmation(r) \/ SubmittedRead(r) \/ SubmittedWrite(r)
    BY <1>1, <1>10
       DEF AwaitConfirmation, SubmittedRead, SubmittedWrite, FoundSubmitted, NotPersisted,
           Finish, Pause, locals, runs, Returns, GoesOn, ClickedPoints
<1>11. CASE CommitRead(r) \/ CommitWrite(r) \/ MarkSeen(r)
    BY <1>1, <1>11
       DEF CommitRead, CommitWrite, MarkSeen, Finish, locals, runs, Returns, GoesOn, ClickedPoints
<1>12. CASE RefundRead(r)
    BY <1>12 DEF RefundRead, CleanupStep, runs, GoesOn
<1>13. CASE RefundWrite(r)
    BY <1>13 DEF RefundWrite, CleanupStep, runs, GoesOn
<1>14. CASE WithdrawRead(r)
    BY <1>14, CleanupDoneShape DEF WithdrawRead, GoesOn, locals
<1>15. CASE WithdrawWrite(r)
    <2>1. PICK res \in UpdateResults(A!MayRelease(Doc(r), token[r])) : CleanupDone(r, Acknowledged(res))
        BY <1>15 DEF WithdrawWrite
    <2>2. Acknowledged(res) \in BOOLEAN
        BY DEF Acknowledged
    <2> QED
        BY <1>15, <2>1, <2>2, CleanupDoneShape DEF GoesOn
<1> QED
    BY <1>2, <1>3, <1>4, <1>5, <1>6, <1>7, <1>8, <1>9, <1>10, <1>11, <1>12, <1>13, <1>14, <1>15
       DEF NodeStep

LEMMA ClaimedMoves ==
    ASSUME TypeOK, NEW r \in Runs, NEW t \in Tokens, Claimed(r, t)
    PROVE  /\ OnlyMoves(r)
           /\ pc'[r] = "reserve_read" /\ job'[r] = job[r] /\ token'[r] = t
           /\ day'[r] = day[r] /\ outcomes'[r] = outcomes[r]
BY DEF TypeOK, LocalsOK, Claimed, Goto, OnlyMoves

LEMMA NodeFrame ==
    ASSUME TypeOK, NEW r \in Runs, NodeStep(r)
    PROVE  OnlyMoves(r)
<1>1. Returns(r) \/ (\E points : GoesOn(r, points)) \/ (\E t \in Tokens : Claimed(r, t))
    BY NodeMoves
<1>2. CASE Returns(r)
    BY <1>2, ReturnMoves DEF Returns
<1>3. CASE \E points : GoesOn(r, points)
    BY <1>3, GoesOnMoves
<1>4. CASE \E t \in Tokens : Claimed(r, t)
    BY <1>4, ClaimedMoves
<1> QED
    BY <1>1, <1>2, <1>3, <1>4

(* A crashed or lost attempt is remembered as such. *)
LEMMA StrandedGrows ==
    ASSUME [Next]_vars PROVE stranded \subseteq stranded'
<1>1. ASSUME NEW r \in Runs, NodeStep(r) PROVE stranded \subseteq stranded'
    <2>1. CASE ClaimInsert(r) \/ ClaimReclaim(r)
        BY <2>1 DEF ClaimInsert, ClaimReclaim, ClaimWrite
    <2> QED
        BY <1>1, <2>1
           DEF NodeStep, Preflight, FormEnds, AlreadyApplied, SubmittedTextSeen, ReachSubmit,
               ClaimRead, ClaimReread, ReserveRead, ReserveWrite, ReserveReread, ReserveFinal,
               ReserveCheck, ReserveQuotaState, MarkUnknown, PreClickUpdate, Click,
               AwaitConfirmation, SubmittedRead, SubmittedWrite, CommitRead, CommitWrite,
               MarkSeen, RefundRead, RefundWrite, WithdrawRead, WithdrawWrite, Stranded, history
<1> QED
    BY <1>1 DEF Next, StartRun, SelectJob, Crash, Resume, Midnight, Stranded, vars, history

-----------------------------------------------------------------------------
(* The slot of the attempt a run holds. *)

SlotPoints ==
    {"reserve_read", "reserve_write", "reserve_reread", "reserve_final", "quota_state",
     "mark_unknown", "click", "refund_write", "withdraw_read", "withdraw_write"}

(* What may happen to the slots: nothing, or one is written by its run. *)
SlotsBy(r) ==
    \/ quota' = quota
    \/ /\ token[r] \in Tokens /\ day[r] \in Days
       /\ \E status : SlotWritten(r, status)

LEMMA NodeSlots ==
    ASSUME TypeOK, NEW r \in Runs, NodeStep(r)
    PROVE  SlotsBy(r)
BY QuotaChange, SlotChange DEF SlotsBy

(* Another run's attempt is not affected. *)
LEMMA OtherSlot ==
    ASSUME TypeOK, OneHolder, NEW r \in Runs, NEW s \in Runs, s # r, OnlyMoves(r),
           SlotsBy(r), today' = today, stranded \subseteq stranded', SlotOK(s)
    PROVE  SlotOK(s)'
<1>1. pc'[s] = pc[s] /\ token'[s] = token[s] /\ day'[s] = day[s]
    BY DEF OnlyMoves
<1>2. token[s] # NoToken => \A d \in Days : SlotOf(d, token[s])' = SlotOf(d, token[s])
    <2>1. CASE quota' = quota
        BY <1>1, <2>1 DEF SlotOf
    <2>2. ASSUME token[r] \in Tokens, day[r] \in Days, NEW status, SlotWritten(r, status),
                 token[s] # NoToken, NEW d \in Days
          PROVE  SlotOf(d, token[s])' = SlotOf(d, token[s])
        <3>1. token[s] \in Tokens /\ token[s] # token[r]
            BY <2>2 DEF OneHolder, TypeOK, LocalsOK
        <3>2. \A u \in Tokens : u # token[r] => SlotOf(d, u)' = SlotOf(d, u)
            BY <2>2, SlotsAfter
        <3> QED
            BY <1>1, <3>1, <3>2 DEF SlotOf
    <2> QED
        BY <2>1, <2>2 DEF SlotsBy
<1>3. pc[s] \in SlotPoints => token[s] # NoToken
    BY DEF SlotPoints, TypeOK, LocalsOK, HoldingPoints, PreClickPoints, CleanupPoints
<1>4. today \in Days
    BY DEF TypeOK, StoreOK
<1>5. \A d \in Days : token[s] # NoToken =>
          (Q!OwnsCharged(quota[d], token[s], s) <=> Q!OwnsCharged(quota'[d], token[s], s))
    BY <1>1, <1>2 DEF Q!OwnsCharged, Q!Charged, SlotOf
<1> QED
    BY <1>1, <1>2, <1>3, <1>4, <1>5 DEF SlotOK, SlotPoints, SlotOf

(* A run that holds no attempt has no slot to answer for. *)
LEMMA NoSlotToKeep ==
    ASSUME NEW r \in Runs, token'[r] = NoToken, pc'[r] \notin SlotPoints
    PROVE  SlotOK(r)'
BY DEF SlotOK, SlotPoints

(* The run's own attempt, in a step that writes no slot. *)
LEMMA OwnSlotQuiet ==
    ASSUME TypeOK, NEW r \in Runs, SlotOK(r), NEW points, GoesOn(r, points), quota' = quota,
           today' = today, stranded \subseteq stranded'
    PROVE  /\ token'[r] = token[r] /\ pc'[r] \in points
           /\ \A d \in Days : SlotOf(d, token[r])' = SlotOf(d, token[r])
           /\ (\E d \in Days : Q!OwnsCharged(quota[d], token[r], r))
                  => \E d \in Days : Q!OwnsCharged(quota'[d], token'[r], r)
           /\ token'[r] # NoToken =>
                  \A d \in Days : SlotOf(d, token[r])' # Q!NoSlot => SlotOf(d, token[r])'.run = r
<1>1. token'[r] = token[r] /\ pc'[r] \in points
    BY GoesOnMoves
<1> QED
    BY <1>1 DEF SlotOK, SlotOf

LEMMA OwnSlotReserveRead ==
    ASSUME TypeOK, NEW r \in Runs, SlotOK(r), ReserveRead(r),
           GoesOn(r, {"reserve_write", "withdraw_read"}), stranded \subseteq stranded'
    PROVE  SlotOK(r)'
<1>1. /\ quota' = quota /\ today' = today /\ today \in Days /\ pc[r] = "reserve_read"
    BY DEF ReserveRead, store, TypeOK, StoreOK
<1>2. /\ token'[r] = token[r] /\ pc'[r] \in {"reserve_write", "withdraw_read"}
      /\ \A d \in Days : SlotOf(d, token[r])' = SlotOf(d, token[r])
    BY <1>1, OwnSlotQuiet
<1>3. \A d \in Days : SlotOf(d, token[r]) = Q!NoSlot
    BY <1>1 DEF SlotOK
<1> QED
    BY <1>1, <1>2, <1>3 DEF SlotOK, Q!NoSlot

(* The conditional increment of the counters: the slot of the day in use is the
   only one the attempt gets. *)
LEMMA OwnSlotReserveWrite ==
    ASSUME TypeOK, NEW r \in Runs, SlotOK(r), ReserveWrite(r)
    PROVE  SlotOK(r)'
<1>1. /\ pc[r] = "reserve_write" /\ token[r] \in Tokens /\ day[r] \in Days
      /\ UNCHANGED <<job, token, day>>
    BY DEF ReserveWrite, Reserved, locals, TypeOK, LocalsOK, HoldingPoints, PreClickPoints
<1>2. \A d \in Days : SlotOf(d, token[r]) = Q!NoSlot
    BY <1>1 DEF SlotOK
<1>3. PICK res \in UpdateResults(Q!MayCharge(DayDoc(r), token[r], r)) :
          /\ quota' = IF res.applied
                      THEN [quota EXCEPT ![day[r]] = Q!Charge(@, token[r], r)] ELSE quota
          /\ IF Acknowledged(res) THEN Reserved(r)
             ELSE Goto(r, IF res.raised THEN "reserve_reread" ELSE "reserve_final")
    BY DEF ReserveWrite
<1>4. Q!MayCharge(DayDoc(r), token[r], r) \in BOOLEAN
    BY DEF Q!MayCharge
<1>5. CASE quota' = quota /\ ~res.applied
    <2>1. pc'[r] \in {"reserve_reread", "reserve_final"}
        BY <1>3, <1>5 DEF Acknowledged, Goto, TypeOK, LocalsOK
    <2>2. \A d \in Days : SlotOf(d, token[r])' = Q!NoSlot
        BY <1>1, <1>2, <1>5 DEF SlotOf
    <2> QED
        BY <1>1, <2>1, <2>2 DEF SlotOK
<1>6. CASE Charges(r)
    <2>1. pc'[r] \in {"quota_state", "reserve_reread", "reserve_final"}
        BY <1>3 DEF Reserved, Goto, TypeOK, LocalsOK
    <2>2. SlotWritten(r, "reserved")
        BY <1>1, <1>6, SlotChange
    <2>3. \A d \in Days, t \in Tokens :
              SlotOf(d, t)' = IF d = day[r] /\ t = token[r]
                              THEN [status |-> "reserved", run |-> r] ELSE SlotOf(d, t)
        BY <1>1, <2>2, SlotsAfter
    <2>4. /\ token'[r] = token[r] /\ day'[r] = day[r]
          /\ \A d \in Days : d # day[r] => SlotOf(d, token[r])' = Q!NoSlot
          /\ quota'[day[r]].slots[token[r]] = [status |-> "reserved", run |-> r]
        BY <1>1, <1>2, <2>3 DEF SlotOf
    <2>5. Q!OwnsCharged(quota'[day[r]], token'[r], r)
        BY <2>4 DEF Q!OwnsCharged, Q!Charged
    <2>6. token'[r] # NoToken =>
              \A d \in Days : SlotOf(d, token[r])' # Q!NoSlot => SlotOf(d, token[r])'.run = r
        BY <1>1, <2>4 DEF SlotOf
    <2> QED
        BY <1>1, <2>1, <2>4, <2>5, <2>6 DEF SlotOK
<1> QED
    BY <1>3, <1>4, <1>5, <1>6, AppliedMatched DEF Charges

LEMMA OwnSlotReserveCheck ==
    ASSUME TypeOK, NEW r \in Runs, SlotOK(r), ReserveReread(r) \/ ReserveFinal(r),
           GoesOn(r, {"quota_state", "withdraw_read"}), stranded \subseteq stranded'
    PROVE  SlotOK(r)'
<1>1. /\ quota' = quota /\ today' = today /\ today \in Days /\ day' = day
      /\ pc[r] \in {"reserve_reread", "reserve_final"}
    BY DEF ReserveReread, ReserveFinal, ReserveCheck, Reserved, store, TypeOK, StoreOK
<1>2. /\ token[r] \in Tokens /\ day[r] \in Days
    BY <1>1 DEF TypeOK, LocalsOK, HoldingPoints, PreClickPoints
<1>3. /\ token'[r] = token[r] /\ pc'[r] \in {"quota_state", "withdraw_read"}
      /\ \A d \in Days : SlotOf(d, token[r])' = SlotOf(d, token[r])
      /\ token'[r] # NoToken =>
             \A d \in Days : SlotOf(d, token[r])' # Q!NoSlot => SlotOf(d, token[r])'.run = r
    BY <1>1, OwnSlotQuiet
<1>4. /\ \A d \in Days : d # day[r] => SlotOf(d, token[r]) = Q!NoSlot
      /\ \A d \in Days : SlotOf(d, token[r]) # Q!NoSlot => SlotOf(d, token[r]).run = r
    BY <1>1, <1>2 DEF SlotOK
<1>5. CASE Reserved(r) /\ Q!OwnsCharged(DayDoc(r), token[r], r)
    <2>1. pc'[r] = "quota_state" /\ Q!OwnsCharged(quota'[day[r]], token'[r], r)
        BY <1>1, <1>3, <1>5 DEF Reserved, Goto, DayDoc, TypeOK, LocalsOK
    <2> QED
        BY <1>2, <1>3, <2>1 DEF SlotOK
<1>6. CASE ~Reserved(r) /\ pc'[r] = "withdraw_read" /\ token[r] \in stranded'
    BY <1>1, <1>3, <1>6 DEF SlotOK
<1>7. CASE pc'[r] = "withdraw_read" /\ ~Q!OwnsCharged(DayDoc(r), token[r], r)
    <2>1. SlotOf(today, token[r]).status # "reserved"
        <3>1. CASE day[r] = today
            BY <1>1, <1>4, <1>7, <3>1 DEF Q!OwnsCharged, Q!Charged, DayDoc, SlotOf, Q!NoSlot
        <3>2. CASE day[r] # today
            BY <1>1, <1>4, <3>2 DEF Q!NoSlot
        <3> QED
            BY <3>1, <3>2
    <2>2. SlotOf(today, token[r])'.status # "reserved"
        BY <1>1, <1>3, <2>1 DEF SlotOf
    <2> QED
        BY <1>3, <1>7, <2>2 DEF SlotOK
<1>8. NotReserved(r, "needs_manual_review") \/ NotReserved(r, "skipped") => pc'[r] = "withdraw_read"
    BY DEF NotReserved, CleanUp, Goto, TypeOK, LocalsOK
<1> QED
    BY <1>3, <1>5, <1>6, <1>7, <1>8
       DEF ReserveReread, ReserveFinal, ReserveCheck, Stranded, Reserved, Goto, TypeOK, LocalsOK

(* reserve_quota_state and mark_unknown leave the slot alone. *)
LEMMA OwnSlotPreClick ==
    ASSUME TypeOK, NEW r \in Runs, SlotOK(r), ReserveQuotaState(r) \/ MarkUnknown(r),
           GoesOn(r, {"mark_unknown", "click", "refund_read"}), stranded \subseteq stranded'
    PROVE  SlotOK(r)'
<1>1. /\ quota' = quota /\ today' = today
      /\ pc[r] \in {"quota_state", "mark_unknown"}
    BY DEF ReserveQuotaState, MarkUnknown, PreClickUpdate
<1>2. /\ token'[r] = token[r] /\ pc'[r] \in {"mark_unknown", "click", "refund_read"}
      /\ (\E d \in Days : Q!OwnsCharged(quota[d], token[r], r))
             => \E d \in Days : Q!OwnsCharged(quota'[d], token'[r], r)
      /\ token'[r] # NoToken =>
             \A d \in Days : SlotOf(d, token[r])' # Q!NoSlot => SlotOf(d, token[r])'.run = r
    BY <1>1, OwnSlotQuiet
<1> QED
    BY <1>1, <1>2 DEF SlotOK

(* From the click on, only commit_quota writes the slot, as the run's own. *)
LEMMA OwnSlotClicked ==
    ASSUME TypeOK, NEW r \in Runs, SlotOK(r), SlotsBy(r), GoesOn(r, ClickedPoints)
    PROVE  SlotOK(r)'
<1>1. token'[r] = token[r] /\ pc'[r] \in ClickedPoints
    BY GoesOnMoves
<1>2. token[r] # NoToken =>
          \A d \in Days : SlotOf(d, token[r])' # Q!NoSlot => SlotOf(d, token[r])'.run = r
    <2>1. CASE quota' = quota
        BY <1>1, <2>1 DEF SlotOK, SlotOf
    <2>2. ASSUME token[r] \in Tokens, day[r] \in Days, NEW status, SlotWritten(r, status)
          PROVE  \A d \in Days : SlotOf(d, token[r])' # Q!NoSlot => SlotOf(d, token[r])'.run = r
        <3>1. \A d \in Days, t \in Tokens :
                  SlotOf(d, t)' = IF d = day[r] /\ t = token[r]
                                  THEN [status |-> status, run |-> r] ELSE SlotOf(d, t)
            BY <2>2, SlotsAfter
        <3>2. \A d \in Days : \/ SlotOf(d, token[r])' = [status |-> status, run |-> r]
                              \/ SlotOf(d, token[r])' = SlotOf(d, token[r])
            BY <1>1, <2>2, <3>1 DEF SlotOf
        <3>3. token[r] # NoToken
            BY <2>2
        <3> QED
            BY <3>2, <3>3 DEF SlotOK
    <2> QED
        BY <2>1, <2>2 DEF SlotsBy
<1> QED
    BY <1>1, <1>2 DEF SlotOK, ClickedPoints

LEMMA OwnSlotRefundRead ==
    ASSUME TypeOK, NEW r \in Runs, SlotOK(r), RefundRead(r),
           GoesOn(r, {"refund_write", "withdraw_read"}), stranded \subseteq stranded'
    PROVE  SlotOK(r)'
<1>1. /\ quota' = quota /\ today' = today /\ today \in Days
      /\ token[r] \in Tokens
      /\ day'[r] = today
    BY DEF RefundRead, store, TypeOK, StoreOK, LocalsOK, HoldingPoints, CleanupPoints
<1>2. /\ token'[r] = token[r] /\ pc'[r] \in {"refund_write", "withdraw_read"}
      /\ \A d \in Days : SlotOf(d, token[r])' = SlotOf(d, token[r])
      /\ token'[r] # NoToken =>
             \A d \in Days : SlotOf(d, token[r])' # Q!NoSlot => SlotOf(d, token[r])'.run = r
    BY <1>1, OwnSlotQuiet
<1>3. \/ pc'[r] = "withdraw_read" /\ SlotOf(today, token[r]).status = "released"
      \/ pc'[r] = "refund_write"
      \/ token[r] \in stranded'
    BY DEF RefundRead, CleanupStep, Stranded, SlotOf, Goto, TypeOK, LocalsOK
<1>4. SlotOf(today, token[r])' = SlotOf(today, token[r])
    BY <1>1, <1>2 DEF SlotOf
<1> QED
    BY <1>1, <1>2, <1>3, <1>4 DEF SlotOK

(* A refund that matched nothing and raised nothing found no slot of the run
   reserved: the counters it also tests are positive while it has one. *)
LEMMA NoMatchNoSlot ==
    ASSUME TypeOK, CountersInv, NEW r \in Runs, NEW t \in Tokens, NEW d \in Days,
           quota[d].slots[t].status = "reserved", quota[d].slots[t].run = r
    PROVE  Q!MayRefund(quota[d], t, r)
<1>1. quota[d] \in Q!DayDoc /\ quota[d].slots[t] \in Q!Slot
    BY DEF TypeOK, StoreOK, Q!DayDoc
<1>2. quota[d].slots[t] = [status |-> "reserved", run |-> r]
    BY <1>1 DEF Q!Slot, Q!NoSlot
<1>3. /\ IsFiniteSet(ChargedOn(d)) /\ IsFiniteSet(SessionOn(d, r))
      /\ t \in ChargedOn(d) /\ t \in SessionOn(d, r)
    BY FiniteDays DEF CountersInv, ChargedOn, SessionOn, Q!Charged, Q!OwnsCharged
<1>4. /\ Cardinality(ChargedOn(d)) \in Nat /\ Cardinality(ChargedOn(d)) # 0
      /\ Cardinality(SessionOn(d, r)) \in Nat /\ Cardinality(SessionOn(d, r)) # 0
    BY <1>3, FS_CardinalityType, FS_EmptySet
<1>5. /\ quota[d].reserved = Cardinality(ChargedOn(d))
      /\ quota[d].sessions[r] = Cardinality(SessionOn(d, r))
    BY CapsByDay DEF CountersInv, DayExact
<1> QED
    BY <1>2, <1>4, <1>5 DEF Q!MayRefund

LEMMA OwnSlotRefundWrite ==
    ASSUME TypeOK, CountersInv, NEW r \in Runs, SlotOK(r), RefundWrite(r),
           GoesOn(r, {"withdraw_read"}), stranded \subseteq stranded'
    PROVE  SlotOK(r)'
<1>1. /\ today' = today /\ today \in Days /\ pc[r] = "refund_write" /\ UNCHANGED day
    BY DEF RefundWrite, TypeOK, StoreOK
<1>2. token[r] \in Tokens /\ day[r] \in Days
    BY <1>1 DEF TypeOK, LocalsOK, HoldingPoints, CleanupPoints
<1>3. token'[r] = token[r] /\ pc'[r] = "withdraw_read"
    BY GoesOnMoves
<1>4. PICK res \in UpdateResults(Q!MayRefund(DayDoc(r), token[r], r)) :
          /\ quota' = IF res.applied
                      THEN [quota EXCEPT ![day[r]] = Q!Refund(@, token[r], r)] ELSE quota
          /\ stranded' = Stranded(r, res.raised)
    BY DEF RefundWrite
<1>5. Q!MayRefund(DayDoc(r), token[r], r) \in BOOLEAN
    BY DEF Q!MayRefund
<1>6. CASE quota' = quota /\ ~res.applied
    <2>1. \A d \in Days : SlotOf(d, token[r])' = SlotOf(d, token[r])
        BY <1>3, <1>6 DEF SlotOf
    <2>2. \A d \in Days : SlotOf(d, token[r]) # Q!NoSlot => SlotOf(d, token[r]).run = r
        BY <1>2 DEF SlotOK
    <2>3. SlotOf(today, token[r]).status = "reserved" => res.raised
        <3> SUFFICES ASSUME SlotOf(today, token[r]).status = "reserved"
                     PROVE  res.raised
            OBVIOUS
        <3>1. day[r] = today
            BY <1>1 DEF SlotOK
        <3>2. SlotOf(today, token[r]).run = r
            BY <1>1, <2>2 DEF Q!NoSlot
        <3>3. Q!MayRefund(DayDoc(r), token[r], r)
            BY <1>1, <1>2, <3>1, <3>2, NoMatchNoSlot DEF SlotOf, DayDoc
        <3> QED
            BY <1>6, <3>3 DEF UpdateResults
    <2>4. SlotOf(today, token[r])'.status = "reserved" => token'[r] \in stranded'
        BY <1>1, <1>3, <1>4, <2>1, <2>3 DEF Stranded, SlotOf
    <2>5. \A d \in Days : SlotOf(d, token[r])' # Q!NoSlot => SlotOf(d, token[r])'.run = r
        BY <1>3, <2>1, <2>2 DEF SlotOf
    <2> QED
        BY <1>3, <2>4, <2>5 DEF SlotOK
<1>7. CASE Refunds(r)
    <2>1. SlotWritten(r, "released")
        BY <1>2, <1>7, SlotChange
    <2>2. \A d \in Days, t \in Tokens :
              SlotOf(d, t)' = IF d = day[r] /\ t = token[r]
                              THEN [status |-> "released", run |-> r] ELSE SlotOf(d, t)
        BY <1>2, <2>1, SlotsAfter
    <2>3. \A d \in Days : SlotOf(d, token[r])' =
              IF d = day[r] THEN [status |-> "released", run |-> r] ELSE SlotOf(d, token[r])
        BY <1>2, <1>3, <2>2 DEF SlotOf
    <2>4. SlotOf(today, token[r])'.status # "reserved"
        <3>1. CASE day[r] = today
            BY <1>1, <1>3, <2>3, <3>1 DEF SlotOf
        <3>2. CASE day[r] # today
            <4>1. SlotOf(today, token[r]).status # "reserved"
                BY <1>1, <3>2 DEF SlotOK
            <4> QED
                BY <1>1, <1>3, <2>3, <3>2, <4>1 DEF SlotOf
        <3> QED
            BY <3>1, <3>2
    <2>5. \A d \in Days : SlotOf(d, token[r])' # Q!NoSlot => SlotOf(d, token[r])'.run = r
        BY <1>2, <2>3 DEF SlotOK
    <2> QED
        BY <1>3, <2>4, <2>5 DEF SlotOK
<1> QED
    BY <1>4, <1>5, <1>6, <1>7, AppliedMatched DEF Refunds

LEMMA OwnSlotWithdraw ==
    ASSUME TypeOK, NEW r \in Runs, SlotOK(r), WithdrawRead(r) \/ WithdrawWrite(r),
           GoesOn(r, {"refund_read", "withdraw_read", "withdraw_write"}),
           stranded \subseteq stranded'
    PROVE  SlotOK(r)'
<1>1. /\ quota' = quota /\ today' = today /\ today \in Days
      /\ pc[r] \in {"withdraw_read", "withdraw_write"}
    BY DEF WithdrawRead, WithdrawWrite, store, TypeOK, StoreOK
<1>2. /\ token'[r] = token[r] /\ pc'[r] \in {"refund_read", "withdraw_read", "withdraw_write"}
      /\ \A d \in Days : SlotOf(d, token[r])' = SlotOf(d, token[r])
      /\ token'[r] # NoToken =>
             \A d \in Days : SlotOf(d, token[r])' # Q!NoSlot => SlotOf(d, token[r])'.run = r
    BY <1>1, OwnSlotQuiet
<1>3. SlotOf(today, token[r])' = SlotOf(today, token[r])
    BY <1>1, <1>2 DEF SlotOf
<1> QED
    BY <1>1, <1>2, <1>3 DEF SlotOK

(* A new attempt id is in no slot. *)
LEMMA OwnSlotClaimed ==
    ASSUME TypeOK, FreshSlots, NEW r \in Runs, NEW t \in Tokens \ used, Claimed(r, t),
           quota' = quota
    PROVE  SlotOK(r)'
<1>1. pc'[r] = "reserve_read" /\ token'[r] = t
    BY ClaimedMoves
<1>2. \A d \in Days : SlotOf(d, token[r])' = Q!NoSlot
    BY <1>1 DEF FreshSlots, SlotOf
<1> QED
    BY <1>1, <1>2 DEF SlotOK

LEMMA OwnSlot ==
    ASSUME TypeOK, TypeOK', CountersInv, NEW r \in Runs, SlotOK(r), NodeStep(r),
           stranded \subseteq stranded'
    PROVE  SlotOK(r)'
<1>1. SlotsBy(r)
    BY NodeSlots
<1>2. CASE Returns(r)
    <2>1. token'[r] = NoToken /\ pc'[r] \in {"idle", "stopped"}
        BY <1>2, ReturnMoves DEF Returns
    <2> QED
        BY <2>1, NoSlotToKeep DEF SlotPoints
<1>3. ASSUME NEW t \in Tokens \ used, Claimed(r, t), pc[r] \in {"claim_insert", "claim_reclaim"}
      PROVE  SlotOK(r)'
    <2>1. quota' = quota
        BY <1>3, QuotaChange
    <2> QED
        BY <1>3, <2>1, OwnSlotClaimed DEF CountersInv
<1>4. CASE \/ pc[r] = "preflight" /\ GoesOn(r, {"form"})
           \/ pc[r] = "form" /\ GoesOn(r, {"claim_read"})
           \/ pc[r] \in ClaimPoints /\ GoesOn(r, ClaimPoints)
    <2>1. pc'[r] \in {"form"} \cup ClaimPoints
        BY <1>4, GoesOnMoves DEF ClaimPoints
    <2>2. token'[r] = NoToken
        BY <2>1 DEF TypeOK, LocalsOK, ClaimPoints, HoldingPoints, PreClickPoints, CleanupPoints,
                    ClickedPoints
    <2> QED
        BY <2>1, <2>2, NoSlotToKeep DEF SlotPoints, ClaimPoints
<1>5. CASE ReserveRead(r) /\ GoesOn(r, {"reserve_write", "withdraw_read"})
    BY <1>5, OwnSlotReserveRead
<1>6. CASE ReserveWrite(r)
    BY <1>6, OwnSlotReserveWrite
<1>7. CASE (ReserveReread(r) \/ ReserveFinal(r)) /\ GoesOn(r, {"quota_state", "withdraw_read"})
    BY <1>7, OwnSlotReserveCheck
<1>8. CASE \/ ReserveQuotaState(r) /\ GoesOn(r, {"mark_unknown", "refund_read"})
           \/ MarkUnknown(r) /\ GoesOn(r, {"click", "refund_read"})
    <2>1. GoesOn(r, {"mark_unknown", "click", "refund_read"})
        BY <1>8 DEF GoesOn
    <2> QED
        BY <1>8, <2>1, OwnSlotPreClick
<1>9. CASE \/ Click(r) /\ GoesOn(r, {"confirm"})
           \/ pc[r] \in ClickedPoints /\ GoesOn(r, ClickedPoints)
    <2>1. GoesOn(r, ClickedPoints)
        BY <1>9 DEF GoesOn, ClickedPoints
    <2> QED
        BY <1>1, <2>1, OwnSlotClicked
<1>10. CASE RefundRead(r) /\ GoesOn(r, {"refund_write", "withdraw_read"})
    BY <1>10, OwnSlotRefundRead
<1>11. CASE RefundWrite(r) /\ GoesOn(r, {"withdraw_read"})
    BY <1>11, OwnSlotRefundWrite
<1>12. CASE /\ WithdrawRead(r) \/ WithdrawWrite(r)
            /\ GoesOn(r, {"refund_read", "withdraw_read", "withdraw_write"})
    BY <1>12, OwnSlotWithdraw
<1> QED
    BY <1>2, <1>3, <1>4, <1>5, <1>6, <1>7, <1>8, <1>9, <1>10, <1>11, <1>12, NodeMoves

LEMMA NodeToday ==
    ASSUME NEW r \in Runs, NodeStep(r)
    PROVE  today' = today
BY DEF NodeStep, Preflight, FormEnds, AlreadyApplied, SubmittedTextSeen, ReachSubmit, ClaimRead,
       ClaimInsert, ClaimReclaim, ClaimReread, ReserveRead, ReserveWrite, ReserveReread,
       ReserveFinal, ReserveCheck, ReserveQuotaState, MarkUnknown, PreClickUpdate, Click,
       AwaitConfirmation, SubmittedRead, SubmittedWrite, CommitRead, CommitWrite, MarkSeen,
       RefundRead, RefundWrite, WithdrawRead, WithdrawWrite

LEMMA AheadNext ==
    ASSUME TypeOK, TypeOK', NotAhead, NEW r \in Runs, NodeStep(r)
    PROVE  NotAhead'
<1>1. /\ today' = today /\ today \in Days /\ 0 <= today
    BY NodeToday DEF TypeOK, StoreOK, Days
<1>2. \A s \in Runs : day'[s] <= today
    <2>1. CASE Returns(r)
        <3>1. OnlyMoves(r) /\ day'[r] = 0
            BY <2>1, ReturnMoves DEF Returns
        <3> QED
            BY <1>1, <3>1 DEF NotAhead, OnlyMoves
    <2>2. CASE (\E points : GoesOn(r, points)) \/ (\E t \in Tokens : Claimed(r, t))
        <3>1. OnlyMoves(r) /\ day'[r] \in {day[r], today}
            BY <2>2, GoesOnMoves, ClaimedMoves
        <3> QED
            BY <1>1, <3>1 DEF NotAhead, OnlyMoves, Days
    <2> QED
        BY <2>1, <2>2, NodeMoves
<1>3. \A d \in Days, t \in Tokens : d > today => SlotOf(d, t)' = Q!NoSlot
    <2>1. CASE quota' = quota
        BY <2>1 DEF NotAhead, SlotOf
    <2>2. ASSUME token[r] \in Tokens, day[r] \in Days, NEW status, SlotWritten(r, status)
          PROVE  \A d \in Days, t \in Tokens : d > today => SlotOf(d, t)' = Q!NoSlot
        <3>1. \A d \in Days, t \in Tokens : d # day[r] => SlotOf(d, t)' = SlotOf(d, t)
            BY <2>2, SlotsAfter
        <3>2. day[r] <= today
            BY DEF NotAhead
        <3>3. \A d \in Days : d > today => d # day[r]
            BY <1>1, <2>2, <3>2 DEF Days
        <3> QED
            BY <3>1, <3>3 DEF NotAhead
    <2> QED
        BY <2>1, <2>2, NodeSlots DEF SlotsBy
<1> QED
    BY <1>1, <1>2, <1>3 DEF NotAhead, SlotOf

LEMMA SlotInit == Init => SlotInv
BY DEF Init, SlotInv, NotAhead, SlotOK, SlotOf, Q!EmptyDay, Days

(* The graph and the environment: a run takes up no attempt, a crash drops it,
   and a new day has no slots yet. *)
LEMMA SlotOutside ==
    ASSUME TypeOK, TypeOK', SlotInv, NEW r \in Runs,
           StartRun(r) \/ (\E j \in Jobs : SelectJob(r, j)) \/ Crash(r) \/ Resume(r)
    PROVE  SlotInv'
<1>1. /\ quota' = quota /\ today' = today /\ today \in Days /\ 0 <= today
      /\ stranded \subseteq stranded'
    BY DEF StartRun, SelectJob, Crash, Resume, Stranded, store, history, TypeOK, StoreOK, Days
<1>2. /\ pc'[r] \in {"idle", "preflight", "down"}
      /\ day'[r] \in {day[r], 0}
      /\ \A s \in Runs : s # r => pc'[s] = pc[s] /\ token'[s] = token[s] /\ day'[s] = day[s]
    BY DEF StartRun, SelectJob, Crash, Resume, Goto, locals, TypeOK, LocalsOK
<1>3. token'[r] = NoToken
    BY <1>2 DEF TypeOK, LocalsOK, HoldingPoints, PreClickPoints, CleanupPoints, ClickedPoints
<1>4. NotAhead'
    BY <1>1, <1>2 DEF SlotInv, NotAhead, SlotOf, Days
<1>5. SlotOK(r)'
    BY <1>2, <1>3, NoSlotToKeep DEF SlotPoints
<1>6. ASSUME NEW s \in Runs, s # r PROVE SlotOK(s)'
    <2>1. SlotOK(s)
        BY DEF SlotInv
    <2> QED
        BY <1>1, <1>2, <1>6, <2>1 DEF SlotOK, SlotOf
<1> QED
    BY <1>4, <1>5, <1>6 DEF SlotInv

LEMMA SlotMidnight ==
    ASSUME TypeOK, SlotInv, Midnight
    PROVE  SlotInv'
<1>1. /\ today' = today + 1 /\ today \in Days /\ today' \in Days
      /\ UNCHANGED <<quota, pc, token, day, stranded>>
    BY BoundsAssumption DEF Midnight, store, locals, history, TypeOK, StoreOK, Days
<1>2. NotAhead'
    BY <1>1 DEF SlotInv, NotAhead, SlotOf, Days, TypeOK, LocalsOK
<1>3. ASSUME NEW s \in Runs PROVE SlotOK(s)'
    <2>1. SlotOK(s)
        BY DEF SlotInv
    <2>2. token[s] # NoToken => SlotOf(today', token[s]) = Q!NoSlot
        BY <1>1 DEF SlotInv, NotAhead, TypeOK, LocalsOK, Days
    <2>3. pc[s] \in SlotPoints => token[s] # NoToken
        BY DEF SlotPoints, TypeOK, LocalsOK, HoldingPoints, PreClickPoints, CleanupPoints
    <2>4. Q!NoSlot.status # "reserved"
        BY DEF Q!NoSlot
    <2> QED
        BY <1>1, <2>1, <2>2, <2>3, <2>4 DEF SlotOK, SlotOf, SlotPoints
<1> QED
    BY <1>2, <1>3 DEF SlotInv

LEMMA SlotNext ==
    TypeOK /\ TypeOK' /\ ClickInv /\ CountersInv /\ SlotInv /\ [Next]_vars => SlotInv'
<1> SUFFICES ASSUME TypeOK, TypeOK', ClickInv, CountersInv, SlotInv, [Next]_vars PROVE SlotInv'
    OBVIOUS
<1>1. stranded \subseteq stranded'
    BY StrandedGrows
<1>2. ASSUME NEW r \in Runs, NodeStep(r) PROVE SlotInv'
    <2>1. /\ NotAhead /\ (\A s \in Runs : SlotOK(s)) /\ OneHolder
          /\ OnlyMoves(r) /\ SlotsBy(r)
        BY <1>2, NodeFrame, NodeSlots DEF SlotInv, ClickInv
    <2>2. NotAhead'
        BY <1>2, <2>1, AheadNext
    <2>3. SlotOK(r)'
        BY <1>1, <1>2, <2>1, OwnSlot
    <2>4. today' = today
        BY <1>2, NodeToday
    <2>5. ASSUME NEW s \in Runs, s # r PROVE SlotOK(s)'
        BY <1>1, <2>1, <2>4, <2>5, OtherSlot
    <2> QED
        BY <2>2, <2>3, <2>5 DEF SlotInv
<1>3. CASE UNCHANGED vars
    BY <1>3 DEF vars, store, locals, history, SlotInv, NotAhead, SlotOK, SlotOf
<1> QED
    BY <1>2, <1>3, SlotOutside, SlotMidnight DEF Next

LEMMA SlotInvariant == Spec => [](TypeOK /\ ClickInv /\ CountersInv /\ SlotInv)
<1>1. Init => TypeOK /\ ClickInv /\ CountersInv /\ SlotInv
    BY InitTyped, ClickInvInit, CountersInit, SlotInit
<1>2. /\ TypeOK /\ ClickInv /\ CountersInv /\ SlotInv
      /\ [Next]_vars
      => (TypeOK /\ ClickInv /\ CountersInv /\ SlotInv)'
    BY NextTyped, ClickInvNext, CountersNext, SlotNext
<1> QED
    BY <1>1, <1>2, PTL DEF Spec

-----------------------------------------------------------------------------
(* What execution_node reports, and when. *)

LEMMA EndingInit == Init => EndingKnown
BY DEF Init, EndingKnown, CleanupPoints

LEMMA CleanUpEnding ==
    ASSUME TypeOK, EndingKnown, NEW r \in Runs, NEW o \in Reports, NEW reserved,
           CleanUp(r, o, reserved)
    PROVE  EndingKnown'
BY DEF CleanUp, Goto, TypeOK, LocalsOK, EndingKnown

LEMMA MovedEnding ==
    ASSUME TypeOK, EndingKnown, NEW r \in Runs, NEW point, Goto(r, point),
           \/ ending' = ending /\ (point \in CleanupPoints => pc[r] \in CleanupPoints)
           \/ ending' = ending /\ point \notin CleanupPoints
           \/ ending' = [ending EXCEPT ![r] = "needs_manual_review"]
           \/ ending' = [ending EXCEPT ![r] = "none"] /\ point \notin CleanupPoints
    PROVE  EndingKnown'
BY DEF Goto, TypeOK, LocalsOK, EndingKnown, Reports, Outcomes

LEMMA ReturnEnding ==
    ASSUME TypeOK, EndingKnown, NEW r \in Runs, NEW o, NEW point \in {"idle", "stopped"},
           Return(r, o, point)
    PROVE  EndingKnown'
BY MovedEnding DEF Return, CleanupPoints

LEMMA CleanupDoneEnding ==
    ASSUME TypeOK, EndingKnown, NEW r \in Runs, NEW ok, CleanupDone(r, ok)
    PROVE  EndingKnown'
<1>1. "needs_manual_review" \in Reports
    BY DEF Reports, Outcomes
<1> QED
    BY <1>1, ReturnEnding, CleanUpEnding DEF CleanupDone, Finish

LEMMA NodeEnding ==
    ASSUME TypeOK, EndingKnown, NEW r \in Runs, NodeStep(r)
    PROVE  EndingKnown'
<1>1. {"failed", "needs_manual_review", "skipped", "submitted"} = Reports
    BY DEF Reports, Outcomes
<1>2. CASE Preflight(r) \/ FormEnds(r) \/ AlreadyApplied(r) \/ SubmittedTextSeen(r) \/ ReachSubmit(r)
           \/ ClaimRead(r) \/ ClaimReread(r)
    BY <1>2, ReturnEnding, MovedEnding
       DEF Preflight, FormEnds, AlreadyApplied, SubmittedTextSeen, ReachSubmit, ClaimRead,
           ClaimReread, NotClaimed, FailOrPause, Finish, Pause, locals, CleanupPoints
<1>3. CASE ClaimInsert(r) \/ ClaimReclaim(r)
    BY <1>3, ReturnEnding, MovedEnding
       DEF ClaimInsert, ClaimReclaim, Claimed, FailOrPause, Finish, Pause, locals, CleanupPoints
<1>4. CASE ReserveRead(r) \/ ReserveReread(r) \/ ReserveFinal(r)
    <2>1. CASE \E o \in Reports : NotReserved(r, o)
        BY <2>1, CleanUpEnding DEF NotReserved
    <2>2. CASE Reserved(r) \/ (Goto(r, "reserve_write") /\ UNCHANGED ending)
        BY <2>2, MovedEnding DEF Reserved, CleanupPoints
    <2> QED
        BY <1>1, <1>4, <2>1, <2>2 DEF ReserveRead, ReserveReread, ReserveFinal, ReserveCheck
<1>5. CASE ReserveWrite(r)
    BY <1>5, MovedEnding DEF ReserveWrite, Reserved, locals, CleanupPoints
<1>6. CASE ReserveQuotaState(r) \/ MarkUnknown(r)
    <2>1. CASE CleanUp(r, "needs_manual_review", TRUE)
        BY <1>1, <2>1, CleanUpEnding
    <2>2. CASE (Goto(r, "mark_unknown") \/ Goto(r, "click")) /\ UNCHANGED ending
        BY <2>2, MovedEnding DEF CleanupPoints
    <2> QED
        BY <1>6, <2>1, <2>2 DEF ReserveQuotaState, MarkUnknown, PreClickUpdate
<1>7. CASE Click(r) \/ AwaitConfirmation(r) \/ SubmittedRead(r) \/ SubmittedWrite(r)
           \/ CommitRead(r) \/ CommitWrite(r) \/ MarkSeen(r)
    BY <1>7, ReturnEnding, MovedEnding
       DEF Click, AwaitConfirmation, SubmittedRead, SubmittedWrite, FoundSubmitted, NotPersisted,
           CommitRead, CommitWrite, MarkSeen, Finish, Pause, locals, CleanupPoints
<1>8. CASE RefundRead(r) \/ RefundWrite(r)
    BY <1>8, MovedEnding DEF RefundRead, RefundWrite, CleanupStep, CleanupPoints
<1>9. CASE WithdrawRead(r) \/ WithdrawWrite(r)
    <2>1. CASE \E ok : CleanupDone(r, ok)
        BY <2>1, CleanupDoneEnding
    <2>2. CASE pc[r] \in CleanupPoints /\ Goto(r, "withdraw_write") /\ UNCHANGED ending
        BY <2>2, MovedEnding
    <2> QED
        BY <1>9, <2>1, <2>2 DEF WithdrawRead, WithdrawWrite, locals, CleanupPoints
<1> QED
    BY <1>2, <1>3, <1>4, <1>5, <1>6, <1>7, <1>8, <1>9 DEF NodeStep

LEMMA EndingNext == TypeOK /\ EndingKnown /\ [Next]_vars => EndingKnown'
<1> SUFFICES ASSUME TypeOK, EndingKnown, [Next]_vars PROVE EndingKnown'
    OBVIOUS
<1>1. ASSUME NEW r \in Runs,
             StartRun(r) \/ (\E j \in Jobs : SelectJob(r, j)) \/ Crash(r) \/ Resume(r)
      PROVE  EndingKnown'
    BY <1>1, MovedEnding DEF StartRun, SelectJob, Crash, Resume, locals, CleanupPoints
<1>2. CASE Midnight \/ UNCHANGED vars
    BY <1>2 DEF Midnight, vars, locals, EndingKnown
<1> QED
    BY <1>1, <1>2, NodeEnding DEF Next

(* What a return says: submitted text and the secondary writes aside, skipped is
   for a job nobody may touch or a record that says submitted, failed is for a
   run that has not come to the click, and a click that raised is reviewed. *)
Reporting(r, o) ==
    /\ o \in Reports
    /\ pc[r] = "preflight" /\ o = "skipped" =>
           Doc(r).status \in {"submitted", "created", "quota_reserved"}
    /\ pc[r] = "click" => o = "needs_manual_review"
    /\ pc[r] \in ClickedPoints => o # "failed"
    /\ pc[r] \in ClickedPoints /\ o = "skipped" => attempts'[job[r]].status = "submitted"

LEMMA ReturnReason ==
    ASSUME TypeOK, EndingKnown, NEW r \in Runs, NodeStep(r), Returns(r)
    PROVE  \E o, point : Return(r, o, point) /\ Reporting(r, o) /\ point \in {"idle", "stopped"}
<1>1. {"failed", "needs_manual_review", "skipped", "submitted"} = Reports
    BY DEF Reports, Outcomes
<1>2. pc'[r] \in {"idle", "stopped"}
    BY ReturnMoves DEF Returns
<1>3. CASE Preflight(r)
    BY <1>1, <1>2, <1>3 DEF Preflight, Finish, Goto, Reporting, ClickedPoints, TypeOK, LocalsOK
<1>4. CASE FormEnds(r) \/ AlreadyApplied(r) \/ SubmittedTextSeen(r) \/ ReachSubmit(r)
           \/ ClaimRead(r) \/ ClaimReread(r) \/ ClaimInsert(r) \/ ClaimReclaim(r)
    <2>1. pc[r] \in {"form", "claim_read", "claim_insert", "claim_reclaim", "claim_reread"}
        BY <1>4 DEF FormEnds, AlreadyApplied, SubmittedTextSeen, ReachSubmit, ClaimRead,
                    ClaimReread, ClaimInsert, ClaimReclaim
    <2>2. \E o \in Reports, point \in {"idle", "stopped"} : Return(r, o, point)
        BY <1>1, <1>2, <1>4
           DEF FormEnds, AlreadyApplied, SubmittedTextSeen, ReachSubmit, ClaimRead,
               ClaimReread, ClaimInsert, ClaimReclaim, NotClaimed, FailOrPause, Finish, Pause,
               Claimed, Goto, TypeOK, LocalsOK
    <2> QED
        BY <2>1, <2>2 DEF Reporting, ClickedPoints
<1>5. CASE Click(r)
    BY <1>1, <1>2, <1>5 DEF Click, Pause, Goto, Reporting, ClickedPoints, TypeOK, LocalsOK
<1>6. CASE AwaitConfirmation(r) \/ SubmittedRead(r) \/ SubmittedWrite(r)
           \/ CommitRead(r) \/ CommitWrite(r) \/ MarkSeen(r)
    <2>1. pc[r] \in ClickedPoints
        BY <1>6 DEF AwaitConfirmation, SubmittedRead, SubmittedWrite, CommitRead, CommitWrite,
                    MarkSeen, ClickedPoints
    <2>2. \/ \E o \in {"needs_manual_review", "submitted"}, point \in {"idle", "stopped"} :
                 Return(r, o, point)
          \/ Return(r, "skipped", "idle") /\ attempts'[job[r]].status = "submitted"
        <3>1. CASE AwaitConfirmation(r) \/ CommitRead(r) \/ CommitWrite(r) \/ MarkSeen(r)
            BY <1>2, <3>1 DEF AwaitConfirmation, CommitRead, CommitWrite, MarkSeen, Finish, Pause,
                              Goto, TypeOK, LocalsOK
        <3>2. CASE SubmittedRead(r)
            BY <1>2, <3>2 DEF SubmittedRead, FoundSubmitted, NotPersisted, Finish, Pause, Goto,
                              Doc, store, TypeOK, LocalsOK
        <3>3. CASE SubmittedWrite(r)
            <4>1. PICK res \in UpdateResults(A!MaySubmit(Doc(r), token[r])) :
                      /\ attempts' = IF res.applied
                                     THEN [attempts EXCEPT ![job[r]] = A!MoveTo(@, "submitted")]
                                     ELSE attempts
                      /\ IF Acknowledged(res)
                         THEN Goto(r, "commit_read")
                         ELSE IF ~res.raised /\ Doc(r).status = "submitted"
                         THEN FoundSubmitted(r)
                         ELSE NotPersisted(r)
                BY <3>3 DEF SubmittedWrite
            <4>2. A!MaySubmit(Doc(r), token[r]) \in BOOLEAN
                BY DEF A!MaySubmit, A!Matches
            <4>3. Doc(r).status = "submitted" => attempts' = attempts
                BY <4>1, <4>2, AppliedMatched DEF A!MaySubmit, A!Matches
            <4> QED
                BY <1>2, <4>1, <4>3
                   DEF FoundSubmitted, NotPersisted, Finish, Pause, Goto, Doc, TypeOK, LocalsOK
        <3> QED
            BY <1>6, <3>1, <3>2, <3>3
    <2> QED
        BY <1>1, <2>1, <2>2 DEF Reporting, ClickedPoints
<1>7. CASE ReserveRead(r) \/ ReserveWrite(r) \/ ReserveReread(r) \/ ReserveFinal(r)
           \/ ReserveQuotaState(r) \/ MarkUnknown(r) \/ RefundRead(r) \/ RefundWrite(r)
    BY <1>2, <1>7
       DEF ReserveRead, ReserveWrite, ReserveReread, ReserveFinal, ReserveCheck, Reserved,
           NotReserved, CleanUp, ReserveQuotaState, MarkUnknown, PreClickUpdate, RefundRead,
           RefundWrite, CleanupStep, Goto, TypeOK, LocalsOK
<1>8. CASE WithdrawRead(r) \/ WithdrawWrite(r)
    <2>1. pc[r] \in CleanupPoints /\ pc[r] \notin ClickedPoints \cup {"preflight", "click"}
        BY <1>8 DEF WithdrawRead, WithdrawWrite, CleanupPoints, ClickedPoints
    <2>2. ending[r] \in Reports
        BY <2>1 DEF EndingKnown
    <2>3. \E ok : Finish(r, IF ok THEN ending[r] ELSE "needs_manual_review")
        BY <1>2, <1>8 DEF WithdrawRead, WithdrawWrite, CleanupDone, CleanUp, Goto, TypeOK, LocalsOK
    <2>4. \E o \in Reports : Return(r, o, "idle")
        BY <1>1, <2>2, <2>3 DEF Finish
    <2> QED
        BY <2>1, <2>4 DEF Reporting
<1> QED
    BY <1>3, <1>4, <1>5, <1>6, <1>7, <1>8 DEF NodeStep

-----------------------------------------------------------------------------
(* What a step can do to another attempt's document, and to a settled one. *)
LEMMA DocsKept ==
    ASSUME TypeOK, NEW r \in Runs, NodeStep(r), NEW j \in Jobs
    PROVE  /\ attempts[j].status = "submitted" => attempts'[j] = attempts[j]
           /\ \A t \in Tokens : A!Matches(attempts[j], t, {"submission_unknown", "submitted"})
                  => A!Matches(attempts'[j], t, {"submission_unknown", "submitted"})
           /\ \A t \in Tokens : A!Matches(attempts[j], t, {"created", "quota_reserved"}) /\ t # token[r]
                  => attempts'[j] = attempts[j]
<1>1. CASE attempts' = attempts
    BY <1>1
<1>2. CASE job[r] \in Jobs /\ \E t \in Tokens : ClaimedAfresh(r, t)
    BY <1>2 DEF ClaimedAfresh, A!CanProceed, A!Matches, Doc, TypeOK, StoreOK
<1>3. ASSUME job[r] \in Jobs, token[r] \in Tokens,
             NEW from \in A!AttemptStatus \ {"submitted"}, NEW to \in A!AttemptStatus,
             Moved(r, from, to), from = "submission_unknown" => to = "submitted"
      PROVE  /\ attempts[j].status = "submitted" => attempts'[j] = attempts[j]
             /\ \A t \in Tokens : A!Matches(attempts[j], t, {"submission_unknown", "submitted"})
                    => A!Matches(attempts'[j], t, {"submission_unknown", "submitted"})
             /\ \A t \in Tokens : A!Matches(attempts[j], t, {"created", "quota_reserved"}) /\ t # token[r]
                    => attempts'[j] = attempts[j]
    <2>1. /\ attempts[job[r]].status = from
          /\ attempts[job[r]].token = token[r]
          /\ attempts'[job[r]] = [status |-> to, token |-> token[r], run |-> attempts[job[r]].run]
          /\ \A i \in Jobs : i # job[r] => attempts'[i] = attempts[i]
        BY <1>3, MovedDoc
    <2>2. CASE j # job[r]
        BY <2>1, <2>2
    <2>3. CASE j = job[r]
        <3>1. /\ attempts[j].status = from /\ attempts[j].token = token[r]
              /\ attempts'[j].status = to /\ attempts'[j].token = token[r]
            BY <2>1, <2>3
        <3> QED
            BY <1>3, <3>1 DEF A!Matches
    <2> QED
        BY <2>2, <2>3
<1>4. {"created", "quota_reserved", "submission_unknown", "submitted", "released"} = A!AttemptStatus
    BY DEF A!AttemptStatus
<1>5. \/ attempts' = attempts
      \/ job[r] \in Jobs /\ \E t \in Tokens : ClaimedAfresh(r, t)
      \/ /\ job[r] \in Jobs /\ token[r] \in Tokens
         /\ \E from \in A!AttemptStatus \ {"submitted"}, to \in A!AttemptStatus :
                Moved(r, from, to) /\ (from = "submission_unknown" => to = "submitted")
    BY <1>4, DocChange
<1> QED
    BY <1>1, <1>2, <1>3, <1>5

(* The clicks a step adds are the run's own. *)
ClickNow(r) == [token |-> token[r], job |-> job[r], run |-> r, day |-> today]

LEMMA ClicksAdded ==
    ASSUME NEW r \in Runs, NodeStep(r)
    PROVE  \/ clicked' = clicked /\ clicks' = clicks
           \/ /\ Click(r) /\ clicked' = clicked \cup {ClickNow(r)}
              /\ clicks' = [clicks EXCEPT ![job[r]] = @ + 1]
BY HistoryKept DEF Click, ClickNow

-----------------------------------------------------------------------------
(* How far a run has got with its job. *)

LEMMA OtherFlow ==
    ASSUME TypeOK, OneHolder, NEW r \in Runs, NEW s \in Runs, s # r, NodeStep(r), OnlyMoves(r),
           stranded \subseteq stranded', FlowOK(s)
    PROVE  FlowOK(s)'
<1>1. /\ pc'[s] = pc[s] /\ token'[s] = token[s] /\ job'[s] = job[s]
      /\ outcomes'[s] = outcomes[s]
    BY DEF OnlyMoves
<1>2. \A c \in clicked' : c.run = s => c \in clicked
    BY ClicksAdded DEF ClickNow
<1>3. clicked \subseteq clicked'
    BY ClicksAdded
<1>4. pc[s] \in {"commit_read", "commit_write", "mark_seen", "reserve_read", "reserve_write"} =>
          job[s] \in Jobs /\ token[s] \in Tokens /\ token[s] # token[r]
    BY DEF OneHolder, TypeOK, LocalsOK, HoldingPoints, PreClickPoints, ClickedPoints
<1>5. /\ pc[s] \in {"commit_read", "commit_write", "mark_seen"} =>
             A!Matches(attempts'[job[s]], token[s], {"submitted"})
      /\ pc[s] \in {"reserve_read", "reserve_write"} =>
             A!Matches(attempts'[job[s]], token[s], {"created"})
    BY <1>4, DocsKept DEF FlowOK, A!Matches
<1> QED
    BY <1>1, <1>2, <1>3, <1>5 DEF FlowOK

LEMMA OwnFlowReturn ==
    ASSUME TypeOK, NEW r \in Runs, FlowOK(r), NEW o \in Reports, NEW point \in {"idle", "stopped"},
           Return(r, o, point), clicked' \subseteq clicked \cup {ClickNow(r)},
           \A c \in clicked' : c.job \in Jobs
    PROVE  FlowOK(r)'
<1>1. /\ pc'[r] = point /\ job'[r] = NoJob
      /\ outcomes'[r] = [outcomes[r] EXCEPT ![job[r]] = o]
    BY ReturnMoves
<1>2. outcomes[r] \in [Jobs -> Outcomes] /\ o # "none"
    BY DEF TypeOK, RunsOK, Reports
<1>3. \A c \in clicked' : c.run = r /\ outcomes'[r][c.job] = "none" => FALSE
    <2> SUFFICES ASSUME NEW c \in clicked', c.run = r, outcomes'[r][c.job] = "none" PROVE FALSE
        OBVIOUS
    <2>1. c.job \in Jobs /\ c.job # job[r] /\ outcomes[r][c.job] = "none"
        BY <1>1, <1>2
    <2>2. c \in clicked
        BY <2>1 DEF ClickNow
    <2> QED
        BY <2>1, <2>2 DEF FlowOK
<1>4. pc'[r] \notin UnclickedPoints \cup ClickedPoints
    BY <1>1 DEF UnclickedPoints, ClickedPoints, ClaimPoints, PreClickPoints, CleanupPoints
<1> QED
    BY <1>1, <1>3, <1>4 DEF FlowOK, ClickedPoints, UnclickedPoints, PreClickPoints

(* The run goes on without a click, and its claims are where they were. *)
LEMMA OwnFlowGoesOn ==
    ASSUME TypeOK, NEW r \in Runs, FlowOK(r), NEW points, GoesOn(r, points),
           clicked' = clicked, stranded \subseteq stranded',
           points \cap {"off", "idle", "stopped"} = {},
           \/ pc[r] \in UnclickedPoints /\ points \subseteq UnclickedPoints
           \/ pc[r] \in ClickedPoints /\ points \subseteq ClickedPoints,
           pc'[r] \in {"commit_read", "commit_write", "mark_seen"} =>
               A!Matches(attempts'[job[r]], token[r], {"submitted"}),
           pc'[r] \in {"reserve_read", "reserve_write"} =>
               A!Matches(attempts'[job[r]], token[r], {"created"})
    PROVE  FlowOK(r)'
<1>1. /\ pc'[r] \in points /\ job'[r] = job[r] /\ token'[r] = token[r]
      /\ outcomes'[r] = outcomes[r]
    BY GoesOnMoves
<1>2. UnclickedPoints \cap ClickedPoints = {}
    BY DEF UnclickedPoints, ClickedPoints, ClaimPoints, PreClickPoints, CleanupPoints
<1> QED
    BY <1>1, <1>2 DEF FlowOK

(* A claim handed to the run is on record. *)
LEMMA ClaimedOnRecord ==
    ASSUME TypeOK, NEW r \in Runs, NodeStep(r), NEW t \in Tokens, Claimed(r, t),
           pc[r] \in {"claim_insert", "claim_reclaim"}
    PROVE  A!Matches(attempts'[job[r]], t, {"created"})
<1>1. /\ token'[r] = t /\ t # NoToken
    BY ClaimedMoves
<1>2. token[r] = NoToken /\ job[r] \in Jobs
    BY DEF TypeOK, LocalsOK, HoldingPoints, PreClickPoints, CleanupPoints, ClickedPoints
<1>3. ~Kept /\ ~MarkUnknown(r)
    BY <1>1, <1>2 DEF Kept, MarkUnknown
<1>4. PICK u \in Tokens : ClaimedAfresh(r, u) /\ Claimed(r, u)
    BY <1>3, NodeKept DEF TypeOK
<1>5. u = t
    BY <1>1, <1>4, ClaimedMoves
<1> QED
    BY <1>2, <1>4, <1>5 DEF ClaimedAfresh, A!FreshClaim, A!Matches, TypeOK, StoreOK

(* The secondary writes begin once mark_submitted was acknowledged. *)
LEMMA SubmittedOnRecord ==
    ASSUME TypeOK, NEW r \in Runs, FlowOK(r), NodeStep(r), pc[r] \in ClickedPoints,
           pc'[r] \in {"commit_read", "commit_write", "mark_seen"}
    PROVE  A!Matches(attempts'[job[r]], token[r], {"submitted"})
<1>1. job[r] \in Jobs /\ token[r] \in Tokens
    BY DEF TypeOK, LocalsOK, HoldingPoints, ClickedPoints
<1>2. CASE pc[r] \in {"commit_read", "commit_write", "mark_seen"}
    BY <1>1, <1>2, DocsKept DEF FlowOK, A!Matches
<1>3. CASE SubmittedWrite(r)
    <2>1. PICK res \in UpdateResults(A!MaySubmit(Doc(r), token[r])) :
              /\ attempts' = IF res.applied
                             THEN [attempts EXCEPT ![job[r]] = A!MoveTo(@, "submitted")]
                             ELSE attempts
              /\ IF Acknowledged(res) THEN Goto(r, "commit_read")
                 ELSE Returns(r)
        BY <1>3 DEF SubmittedWrite, FoundSubmitted, NotPersisted, Finish, Pause, Returns, Outcomes
    <2>2. A!MaySubmit(Doc(r), token[r]) \in BOOLEAN
        BY DEF A!MaySubmit, A!Matches
    <2>3. Acknowledged(res)
        <3>1. ~Returns(r)
            BY ReturnMoves DEF Returns
        <3> QED
            BY <2>1, <3>1
    <2>4. Moved(r, "submission_unknown", "submitted")
        BY <2>1, <2>2, <2>3, AppliedMatched DEF Moved, A!MaySubmit, A!Matches
    <2>5. {"submission_unknown", "submitted"} \subseteq A!AttemptStatus
        BY DEF A!AttemptStatus
    <2>6. attempts'[job[r]] = [status |-> "submitted", token |-> token[r], run |-> attempts[job[r]].run]
        BY <1>1, <2>4, <2>5, MovedDoc
    <2> QED
        BY <2>6 DEF A!Matches
<1>4. CASE AwaitConfirmation(r) \/ SubmittedRead(r)
    <2>1. Returns(r) \/ Goto(r, "submitted_read") \/ Goto(r, "submitted_write")
        BY <1>4 DEF AwaitConfirmation, SubmittedRead, FoundSubmitted, NotPersisted, Finish, Pause,
                    Returns, Outcomes
    <2>2. pc'[r] \in {"idle", "stopped", "submitted_read", "submitted_write"}
        BY <2>1, ReturnMoves DEF Returns, Goto, TypeOK, LocalsOK
    <2> QED
        BY <2>2
<1> QED
    BY <1>2, <1>3, <1>4
       DEF NodeStep, ClickedPoints, Preflight, FormEnds, AlreadyApplied, SubmittedTextSeen,
           ReachSubmit, ClaimRead, ClaimInsert, ClaimReclaim, ClaimReread, ReserveRead,
           ReserveWrite, ReserveReread, ReserveFinal, ReserveQuotaState, MarkUnknown, Click,
           RefundRead, RefundWrite, WithdrawRead, WithdrawWrite, CommitRead, CommitWrite, MarkSeen

LEMMA OwnFlow ==
    ASSUME TypeOK, TypeOK', ClickIsOnRecord, EndingKnown, NEW r \in Runs, FlowOK(r), NodeStep(r),
           stranded \subseteq stranded'
    PROVE  FlowOK(r)'
<1>1. /\ clicked' = clicked \/ (Click(r) /\ clicked' = clicked \cup {ClickNow(r)})
      /\ \A c \in clicked' : c.job \in Jobs
    BY ClicksAdded DEF TypeOK, HistoryOK
<1>2. CASE Returns(r)
    <2>1. PICK o \in Reports, point \in {"idle", "stopped"} : Return(r, o, point)
        BY <1>2, ReturnReason DEF Reporting
    <2> QED
        BY <1>1, <2>1, OwnFlowReturn
<1>3. ASSUME NEW t \in Tokens \ used, Claimed(r, t), pc[r] \in {"claim_insert", "claim_reclaim"}
      PROVE  FlowOK(r)'
    <2>1. /\ pc'[r] = "reserve_read" /\ job'[r] = job[r] /\ token'[r] = t
          /\ outcomes'[r] = outcomes[r]
        BY <1>3, ClaimedMoves
    <2>2. A!Matches(attempts'[job[r]], t, {"created"})
        BY <1>3, ClaimedOnRecord
    <2>3. clicked' = clicked /\ pc[r] \in UnclickedPoints
        BY <1>1, <1>3 DEF Click, UnclickedPoints, ClaimPoints
    <2> QED
        BY <2>1, <2>2, <2>3 DEF FlowOK, ClickedPoints
<1>4. CASE pc[r] = "preflight" /\ GoesOn(r, {"form"}) /\ A!CanProceed(Doc(r))
    <2>1. /\ pc'[r] = "form" /\ job'[r] = job[r] /\ token'[r] = token[r]
          /\ outcomes'[r] = outcomes[r] /\ clicked' = clicked
        BY <1>1, <1>4, GoesOnMoves DEF Click
    <2>2. \A c \in clicked : c.job # job[r]
        BY <1>4 DEF ClickIsOnRecord, A!CanProceed, Doc
    <2> QED
        BY <2>1, <2>2 DEF FlowOK, ClickedPoints
<1>5. CASE \/ pc[r] = "form" /\ GoesOn(r, {"claim_read"})
           \/ pc[r] \in ClaimPoints /\ GoesOn(r, ClaimPoints)
    <2>1. /\ GoesOn(r, ClaimPoints) /\ clicked' = clicked /\ pc[r] \in UnclickedPoints
          /\ ClaimPoints \subseteq UnclickedPoints
          /\ ClaimPoints \cap {"off", "idle", "stopped"} = {}
        BY <1>1, <1>5 DEF GoesOn, ClaimPoints, UnclickedPoints, Click
    <2>2. pc'[r] \in ClaimPoints
        BY <2>1, GoesOnMoves
    <2>3. pc'[r] \notin {"commit_read", "commit_write", "mark_seen", "reserve_read", "reserve_write"}
        BY <2>2 DEF ClaimPoints
    <2> QED
        BY <2>1, <2>3, OwnFlowGoesOn
<1>6. CASE ReserveRead(r) /\ GoesOn(r, {"reserve_write", "withdraw_read"})
    <2>1. /\ clicked' = clicked /\ attempts' = attempts /\ pc[r] = "reserve_read"
          /\ pc[r] \in UnclickedPoints
          /\ {"reserve_write", "withdraw_read"} \subseteq UnclickedPoints
          /\ {"reserve_write", "withdraw_read"} \cap {"off", "idle", "stopped"} = {}
        BY <1>1, <1>6 DEF ReserveRead, Click, store, UnclickedPoints, PreClickPoints, CleanupPoints
    <2>2. A!Matches(attempts'[job[r]], token[r], {"created"})
        BY <2>1 DEF FlowOK
    <2>3. pc'[r] \in {"reserve_write", "withdraw_read"}
        BY <1>6, GoesOnMoves
    <2>4. pc'[r] \notin {"commit_read", "commit_write", "mark_seen"}
        BY <2>3
    <2> QED
        BY <1>6, <2>1, <2>2, <2>4, OwnFlowGoesOn
<1>7. CASE \/ ReserveWrite(r) /\ GoesOn(r, {"quota_state", "reserve_reread", "reserve_final"})
           \/ (ReserveReread(r) \/ ReserveFinal(r)) /\ GoesOn(r, {"quota_state", "withdraw_read"})
           \/ ReserveQuotaState(r) /\ GoesOn(r, {"mark_unknown", "refund_read"})
           \/ MarkUnknown(r) /\ GoesOn(r, {"click", "refund_read"})
           \/ RefundRead(r) /\ GoesOn(r, {"refund_write", "withdraw_read"})
           \/ RefundWrite(r) /\ GoesOn(r, {"withdraw_read"})
           \/ /\ WithdrawRead(r) \/ WithdrawWrite(r)
              /\ GoesOn(r, {"refund_read", "withdraw_read", "withdraw_write"})
    <2> DEFINE next == {"quota_state", "reserve_reread", "reserve_final", "mark_unknown", "click"}
                           \cup CleanupPoints
    <2>1. GoesOn(r, next)
        BY <1>7 DEF GoesOn, CleanupPoints
    <2>2. /\ clicked' = clicked /\ pc[r] \in UnclickedPoints
          /\ next \subseteq UnclickedPoints
          /\ next \cap {"off", "idle", "stopped"} = {}
          /\ next \cap {"commit_read", "commit_write", "mark_seen", "reserve_read", "reserve_write"} = {}
        BY <1>1, <1>7
           DEF ReserveWrite, ReserveReread, ReserveFinal, ReserveQuotaState, MarkUnknown,
               RefundRead, RefundWrite, WithdrawRead, WithdrawWrite, Click,
               UnclickedPoints, PreClickPoints, CleanupPoints
    <2> HIDE DEF next
    <2>3. pc'[r] \in next
        BY <2>1, GoesOnMoves
    <2> QED
        BY <2>1, <2>2, <2>3, OwnFlowGoesOn
<1>8. CASE Click(r) /\ GoesOn(r, {"confirm"})
    <2>1. /\ pc'[r] = "confirm" /\ job'[r] = job[r] /\ token'[r] = token[r]
          /\ outcomes'[r] = outcomes[r]
        BY <1>8, GoesOnMoves
    <2>2. clicked' = clicked \cup {ClickNow(r)}
        <3>1. ~Pause(r)
            BY <2>1 DEF Pause, Return, Goto, TypeOK, LocalsOK
        <3> QED
            BY <1>8, <3>1 DEF Click, ClickNow
    <2>3. pc[r] = "click" /\ pc[r] \in UnclickedPoints /\ job[r] \in Jobs
        BY <1>8 DEF Click, UnclickedPoints, TypeOK, LocalsOK
    <2>4. \A c \in clicked : ~(c.run = r /\ c.job = job[r])
        BY <2>3 DEF FlowOK
    <2>5. /\ ClickNow(r).token = token[r] /\ ClickNow(r).job = job[r] /\ ClickNow(r).run = r
          /\ ClickNow(r) \in clicked'
        BY <2>2 DEF ClickNow
    <2>6. pc'[r] \in ClickedPoints /\ pc'[r] \notin UnclickedPoints
        BY <2>1 DEF ClickedPoints, UnclickedPoints, ClaimPoints, PreClickPoints, CleanupPoints
    <2>7. \A c \in clicked' : c.run = r /\ c.job = job[r] => c.token = token[r]
        BY <2>2, <2>4, <2>5
    <2>8. \A c \in clicked' : c.run = r /\ outcomes[r][c.job] = "none" => job[r] = c.job
        BY <2>2, <2>5 DEF FlowOK
    <2> QED
        BY <2>1, <2>3, <2>5, <2>6, <2>7, <2>8 DEF FlowOK
<1>9. CASE pc[r] \in ClickedPoints /\ GoesOn(r, ClickedPoints)
    <2>1. /\ clicked' = clicked
          /\ ClickedPoints \cap {"off", "idle", "stopped"} = {}
        BY <1>1, <1>9 DEF Click, ClickedPoints
    <2>2. pc'[r] \in ClickedPoints
        BY <1>9, GoesOnMoves
    <2>3. pc'[r] \notin {"reserve_read", "reserve_write"}
        BY <2>2 DEF ClickedPoints
    <2>4. pc'[r] \in {"commit_read", "commit_write", "mark_seen"} =>
              A!Matches(attempts'[job[r]], token[r], {"submitted"})
        BY <1>9, SubmittedOnRecord
    <2> QED
        BY <1>9, <2>1, <2>3, <2>4, OwnFlowGoesOn
<1> QED
    BY <1>2, <1>3, <1>4, <1>5, <1>6, <1>7, <1>8, <1>9, NodeMoves

(* Where a step of the node can start. *)
LEMMA NodePoint ==
    ASSUME NEW r \in Runs, NodeStep(r)
    PROVE  pc[r] \in {"preflight"} \cup UnclickedPoints \cup ClickedPoints
BY DEF NodeStep, Preflight, FormEnds, AlreadyApplied, SubmittedTextSeen, ReachSubmit, ClaimRead,
       ClaimInsert, ClaimReclaim, ClaimReread, ReserveRead, ReserveWrite, ReserveReread,
       ReserveFinal, ReserveQuotaState, MarkUnknown, Click, AwaitConfirmation, SubmittedRead,
       SubmittedWrite, CommitRead, CommitWrite, MarkSeen, RefundRead, RefundWrite, WithdrawRead,
       WithdrawWrite, UnclickedPoints, ClaimPoints, PreClickPoints, CleanupPoints, ClickedPoints

(* A step of the node leaves an outcome alone, or reports the job in hand. *)
LEMMA OutcomeStep ==
    ASSUME TypeOK, EndingKnown, NEW r \in Runs, NodeStep(r), NEW s \in Runs, NEW j \in Jobs
    PROVE  \/ outcomes'[s][j] = outcomes[s][j]
           \/ /\ s = r /\ j = job[r] /\ Returns(r)
              /\ \E o : outcomes'[r][j] = o /\ Reporting(r, o)
<1>1. CASE Returns(r)
    <2>1. PICK o, point : Return(r, o, point) /\ Reporting(r, o)
        BY <1>1, ReturnReason
    <2>2. /\ OnlyMoves(r)
          /\ outcomes'[r] = [outcomes[r] EXCEPT ![job[r]] = o]
        BY <2>1, ReturnMoves
    <2>3. outcomes[r] \in [Jobs -> Outcomes]
        BY DEF TypeOK, RunsOK
    <2> QED
        BY <1>1, <2>1, <2>2, <2>3 DEF OnlyMoves
<1>2. CASE \E points : GoesOn(r, points)
    BY <1>2, GoesOnMoves DEF OnlyMoves
<1>3. CASE \E t \in Tokens : Claimed(r, t)
    BY <1>3, ClaimedMoves DEF OnlyMoves
<1> QED
    BY <1>1, <1>2, <1>3, NodeMoves

LEMMA AccountedNode ==
    ASSUME TypeOK, ClickIsOnRecord, EndingKnown, ClickIsAccountedFor, NEW r \in Runs,
           FlowOK(r), NodeStep(r), stranded \subseteq stranded'
    PROVE  ClickIsAccountedFor'
<1> SUFFICES ASSUME NEW c \in clicked'
             PROVE  /\ outcomes'[c.run][c.job] = "skipped" => attempts'[c.job].status = "submitted"
                    /\ outcomes'[c.run][c.job] = "failed" => c.token \in stranded'
    BY DEF ClickIsAccountedFor
<1>1. CASE c \in clicked
    <2>1. c.job \in Jobs /\ c.run \in Runs /\ c.token \in Tokens
        BY <1>1 DEF TypeOK, HistoryOK
    <2>2. attempts[c.job].status = "submitted" => attempts'[c.job].status = "submitted"
        BY <2>1, DocsKept
    <2>3. CASE outcomes'[c.run][c.job] = outcomes[c.run][c.job]
        BY <1>1, <2>2, <2>3 DEF ClickIsAccountedFor
    <2>4. ASSUME c.run = r, c.job = job[r], NEW o, outcomes'[r][job[r]] = o, Reporting(r, o)
          PROVE  /\ outcomes'[c.run][c.job] = "skipped" => attempts'[c.job].status = "submitted"
                 /\ outcomes'[c.run][c.job] = "failed" => c.token \in stranded'
        <3>1. pc[r] \in {"preflight"} \cup ClickedPoints
            BY <1>1, <2>4, NodePoint DEF FlowOK
        <3>2. CASE pc[r] = "preflight"
            <4>1. o = "skipped" => attempts[c.job].status = "submitted"
                BY <1>1, <2>4, <3>2 DEF Reporting, ClickIsOnRecord, Doc
            <4>2. token[r] = NoToken
                BY <3>2 DEF TypeOK, LocalsOK, HoldingPoints, PreClickPoints, CleanupPoints,
                            ClickedPoints
            <4>3. c.token \in stranded
                BY <1>1, <2>1, <2>4, <4>2 DEF FlowOK
            <4> QED
                BY <2>2, <2>4, <4>1, <4>3
        <3>3. CASE pc[r] \in ClickedPoints
            BY <2>4, <3>3 DEF Reporting
        <3> QED
            BY <3>1, <3>2, <3>3
    <2> QED
        BY <2>1, <2>3, <2>4, OutcomeStep
<1>2. CASE Click(r) /\ c = ClickNow(r)
    <2>1. pc[r] = "click" /\ job[r] \in Jobs /\ c.run = r /\ c.job = job[r]
        BY <1>2 DEF Click, ClickNow, TypeOK, LocalsOK
    <2>2. outcomes[r][job[r]] = "none"
        BY <2>1 DEF FlowOK
    <2>3. outcomes'[r][job[r]] \in {"none", "needs_manual_review"}
        BY <2>1, <2>2, OutcomeStep DEF Reporting
    <2> QED
        BY <2>1, <2>3
<1> QED
    BY <1>1, <1>2, ClicksAdded

LEMMA FlowInit == Init => FlowInv
BY EndingInit
   DEF Init, FlowInv, FlowOK, ClicksSeen, ClickIsAccountedFor, UnclickedPoints, ClaimPoints,
       PreClickPoints, CleanupPoints, ClickedPoints

(* The graph hands a run a job it has no outcome for, and a crash loses the
   attempt in hand. *)
LEMMA FlowOutside ==
    ASSUME TypeOK, NEW r \in Runs, FlowOK(r),
           StartRun(r) \/ (\E j \in Jobs : SelectJob(r, j)) \/ Crash(r) \/ Resume(r)
    PROVE  FlowOK(r)'
<1>1. clicked' = clicked /\ outcomes' = outcomes /\ stranded \subseteq stranded'
    BY DEF StartRun, SelectJob, Crash, Resume, runs, history, Stranded
<1>2. pc'[r] \in {"idle", "preflight", "down"}
    BY DEF StartRun, SelectJob, Crash, Resume, Goto, TypeOK, LocalsOK
<1>3. pc'[r] \notin UnclickedPoints \cup ClickedPoints \cup {"off", "stopped", "reserve_read", "reserve_write"}
    BY <1>2 DEF UnclickedPoints, ClickedPoints, ClaimPoints, PreClickPoints, CleanupPoints
<1>4. CASE StartRun(r)
    <2>1. job'[r] = job[r] /\ token'[r] = token[r] /\ job[r] = NoJob
        BY <1>4 DEF StartRun, locals, FlowOK
    <2> QED
        BY <1>1, <1>3, <2>1 DEF FlowOK, ClickedPoints
<1>5. ASSUME NEW j \in Jobs, SelectJob(r, j) PROVE FlowOK(r)'
    <2>1. job'[r] = j /\ job[r] = NoJob /\ outcomes[r][j] = "none" /\ pc'[r] = "preflight"
        BY <1>5 DEF SelectJob, Goto, FlowOK, TypeOK, LocalsOK
    <2>2. \A c \in clicked : c.run = r => outcomes[r][c.job] # "none"
        BY <2>1 DEF FlowOK, TypeOK, HistoryOK
    <2> QED
        BY <1>1, <1>3, <2>1, <2>2 DEF FlowOK, ClickedPoints
<1>6. CASE Crash(r)
    <2>1. job'[r] = job[r] /\ pc'[r] = "down" /\ (token[r] # NoToken => token[r] \in stranded')
        BY <1>6 DEF Crash, Goto, Stranded, TypeOK, LocalsOK
    <2>2. \A c \in clicked : c.token # NoToken
        BY DEF TypeOK, HistoryOK
    <2>3. \A c \in clicked : c.run = r /\ c.job = job[r] => c.token \in stranded'
        BY <1>1, <2>1, <2>2 DEF FlowOK
    <2> QED
        BY <1>1, <1>3, <2>1, <2>3 DEF FlowOK, ClickedPoints
<1>7. CASE Resume(r)
    <2>1. job'[r] = job[r] /\ token'[r] = token[r] /\ pc'[r] = "preflight"
        BY <1>7 DEF Resume, Goto, locals, TypeOK, LocalsOK
    <2> QED
        BY <1>1, <1>3, <2>1 DEF FlowOK, ClickedPoints
<1> QED
    BY <1>4, <1>5, <1>6, <1>7

LEMMA OutsideMoves ==
    ASSUME TypeOK, NEW r \in Runs,
           StartRun(r) \/ (\E j \in Jobs : SelectJob(r, j)) \/ Crash(r) \/ Resume(r)
    PROVE  OnlyMoves(r)
BY DEF StartRun, SelectJob, Crash, Resume, Goto, locals, runs, OnlyMoves, TypeOK, LocalsOK

LEMMA FlowNext ==
    TypeOK /\ TypeOK' /\ ClickInv /\ FlowInv /\ [Next]_vars => FlowInv'
<1> SUFFICES ASSUME TypeOK, TypeOK', ClickInv, FlowInv, [Next]_vars PROVE FlowInv'
    OBVIOUS
<1>1. EndingKnown'
    BY EndingNext DEF FlowInv
<1>2. stranded \subseteq stranded'
    BY StrandedGrows
<1>3. /\ OneHolder /\ ClickIsOnRecord /\ EndingKnown /\ ClickIsAccountedFor /\ ClicksSeen
      /\ \A s \in Runs : FlowOK(s)
    BY DEF ClickInv, FlowInv
<1>4. ASSUME NEW r \in Runs, NodeStep(r) PROVE FlowInv'
    <2>1. OnlyMoves(r)
        BY <1>4, NodeFrame
    <2>2. FlowOK(r)'
        BY <1>2, <1>3, <1>4, OwnFlow
    <2>3. ASSUME NEW s \in Runs, s # r PROVE FlowOK(s)'
        BY <1>2, <1>3, <1>4, <2>1, <2>3, OtherFlow
    <2>4. ClickIsAccountedFor'
        BY <1>2, <1>3, <1>4, AccountedNode
    <2>5. ClicksSeen'
        <3>1. /\ clicks \in [Jobs -> Nat] /\ \A c \in clicked : c.job \in Jobs
              /\ Click(r) => job[r] \in Jobs
            BY DEF TypeOK, HistoryOK, Click, LocalsOK
        <3>2. CASE clicked' = clicked /\ clicks' = clicks
            BY <1>3, <3>2 DEF ClicksSeen
        <3>3. CASE /\ Click(r) /\ clicked' = clicked \cup {ClickNow(r)}
                   /\ clicks' = [clicks EXCEPT ![job[r]] = @ + 1]
            <4>1. ClickNow(r).job = job[r]
                BY DEF ClickNow
            <4>2. \A j \in Jobs : clicks'[j] = IF j = job[r] THEN clicks[j] + 1 ELSE clicks[j]
                BY <3>1, <3>3
            <4> QED
                BY <1>3, <3>1, <3>3, <4>1, <4>2 DEF ClicksSeen
        <3> QED
            BY <1>4, <3>2, <3>3, ClicksAdded
    <2> QED
        BY <1>1, <2>2, <2>3, <2>4, <2>5 DEF FlowInv
<1>5. ASSUME NEW r \in Runs,
             StartRun(r) \/ (\E j \in Jobs : SelectJob(r, j)) \/ Crash(r) \/ Resume(r)
      PROVE  FlowInv'
    <2>1. UNCHANGED <<attempts, clicks, clicked, outcomes>>
        BY <1>5 DEF StartRun, SelectJob, Crash, Resume, store, runs, history
    <2>2. FlowOK(r)'
        BY <1>3, <1>5, FlowOutside
    <2>3. OnlyMoves(r)
        BY <1>5, OutsideMoves
    <2>4. ASSUME NEW s \in Runs, s # r PROVE FlowOK(s)'
        BY <1>2, <1>3, <2>1, <2>3, <2>4 DEF FlowOK, OnlyMoves
    <2>5. ClicksSeen' /\ ClickIsAccountedFor'
        BY <1>2, <1>3, <2>1 DEF ClicksSeen, ClickIsAccountedFor
    <2> QED
        BY <1>1, <2>2, <2>4, <2>5 DEF FlowInv
<1>6. CASE Midnight \/ UNCHANGED vars
    BY <1>1, <1>3, <1>6
       DEF Midnight, vars, store, locals, runs, history, FlowInv, FlowOK, ClicksSeen,
           ClickIsAccountedFor
<1> QED
    BY <1>4, <1>5, <1>6 DEF Next

LEMMA LiveInvariant == Spec => [](TypeOK /\ LiveInv)
<1>1. Init => TypeOK /\ LiveInv
    BY InitTyped, ClickInvInit, CountersInit, SlotInit, FlowInit DEF LiveInv
<1>2. TypeOK /\ LiveInv /\ [Next]_vars => (TypeOK /\ LiveInv)'
    BY NextTyped, ClickInvNext, CountersNext, SlotNext, FlowNext DEF LiveInv
<1> QED
    BY <1>1, <1>2, PTL DEF Spec

-----------------------------------------------------------------------------
(* A slot is changed by the run that holds its attempt only. *)

LEMMA OtherSlotsKept ==
    ASSUME TypeOK, NEW r \in Runs, NodeStep(r), NEW d \in Days, NEW t \in Tokens, t # token[r]
    PROVE  SlotOf(d, t)' = SlotOf(d, t)
<1>1. CASE quota' = quota
    BY <1>1 DEF SlotOf
<1>2. ASSUME token[r] \in Tokens, day[r] \in Days, NEW status, SlotWritten(r, status)
      PROVE  SlotOf(d, t)' = SlotOf(d, t)
    BY <1>2, SlotsAfter
<1> QED
    BY <1>1, <1>2, NodeSlots DEF SlotsBy

(* What becomes of the slot of the run's own attempt, and where. *)
LEMMA OwnSlotChange ==
    ASSUME TypeOK, NEW r \in Runs, NodeStep(r), NEW d \in Days, NEW t \in Tokens, t = token[r]
    PROVE  \/ SlotOf(d, t)' = SlotOf(d, t)
           \/ /\ pc[r] = "reserve_write" /\ Charges(r) /\ d = day[r]
              /\ SlotOf(d, t)' = [status |-> "reserved", run |-> r]
           \/ /\ pc[r] = "refund_write" /\ Refunds(r) /\ d = day[r]
              /\ SlotOf(d, t)' = [status |-> "released", run |-> r]
           \/ /\ pc[r] = "commit_write" /\ Commits(r) /\ d = day[r]
              /\ SlotOf(d, t)' = [status |-> "committed", run |-> r]
<1>1. CASE quota' = quota
    BY <1>1 DEF SlotOf
<1>2. ASSUME token[r] \in Tokens, day[r] \in Days, NEW status, SlotWritten(r, status)
      PROVE  SlotOf(d, t)' = IF d = day[r] THEN [status |-> status, run |-> r] ELSE SlotOf(d, t)
    BY <1>2, SlotsAfter
<1> QED
    BY <1>1, <1>2, QuotaChange, SlotChange

(* Only the run that clicked can hold the attempt that clicked. *)
LEMMA ClickerHolds ==
    ASSUME TypeOK, ClickInv, NEW c \in clicked, NEW r \in Runs, token[r] = c.token
    PROVE  c.run = r /\ c.job = job[r]
<1>1. c.job \in Jobs /\ c.token \in Tokens
    BY DEF TypeOK, HistoryOK
<1>2. OnRecord(c.job, token[r]) /\ attempts[c.job].run = c.run
    BY DEF ClickInv, ClickIsOnRecord, OnRecord, A!Matches, A!AttemptStatus
<1> QED
    BY <1>1, <1>2 DEF ClickInv, HolderOnRecord

LEMMA KeepsSlotInit == Init => ClickKeepsItsSlot
BY DEF Init, ClickKeepsItsSlot

LEMMA KeepsSlotNext ==
    TypeOK /\ LiveInv /\ ClickKeepsItsSlot /\ [Next]_vars => ClickKeepsItsSlot'
<1> SUFFICES ASSUME TypeOK, LiveInv, ClickKeepsItsSlot, [Next]_vars
             PROVE  ClickKeepsItsSlot'
    OBVIOUS
<1>1. CASE \A r \in Runs : ~NodeStep(r)
    BY <1>1, OutsideKeeps DEF ClickKeepsItsSlot
<1>2. ASSUME NEW r \in Runs, NodeStep(r) PROVE ClickKeepsItsSlot'
    <2> SUFFICES ASSUME NEW c \in clicked'
                 PROVE  \E d \in Days : Q!OwnsCharged(quota'[d], c.token, c.run)
        BY DEF ClickKeepsItsSlot
    <2>1. CASE c \in clicked
        <3>1. PICK d \in Days : Q!OwnsCharged(quota[d], c.token, c.run)
            BY <2>1 DEF ClickKeepsItsSlot
        <3>2. c.token \in Tokens
            BY <2>1 DEF TypeOK, HistoryOK
        <3>3. CASE SlotOf(d, c.token)' = SlotOf(d, c.token)
            BY <3>1, <3>3 DEF SlotOf, Q!OwnsCharged, Q!Charged
        <3>4. CASE c.token = token[r]
            <4>1. c.run = r /\ c.job = job[r]
                BY <2>1, <3>4, ClickerHolds DEF LiveInv
            <4>2. pc[r] \notin {"reserve_write", "refund_write"}
                BY <2>1, <4>1
                   DEF LiveInv, FlowInv, FlowOK, UnclickedPoints, PreClickPoints, CleanupPoints
            <4>3. \/ SlotOf(d, c.token)' = SlotOf(d, c.token)
                  \/ SlotOf(d, c.token)' = [status |-> "committed", run |-> r]
                BY <1>2, <3>2, <3>4, <4>2, OwnSlotChange
            <4> QED
                BY <3>3, <4>1, <4>3 DEF SlotOf, Q!OwnsCharged, Q!Charged
        <3> QED
            BY <1>2, <3>2, <3>3, <3>4, OtherSlotsKept
    <2>2. CASE Click(r) /\ c = ClickNow(r)
        <3>1. pc[r] = "click" /\ quota' = quota /\ c.token = token[r] /\ c.run = r
            BY <2>2 DEF Click, ClickNow, store
        <3>2. \E d \in Days : Q!OwnsCharged(quota[d], token[r], r)
            BY <3>1 DEF LiveInv, SlotInv, SlotOK
        <3> QED
            BY <3>1, <3>2
    <2> QED
        BY <1>2, <2>1, <2>2, ClicksAdded
<1> QED
    BY <1>1, <1>2

-----------------------------------------------------------------------------
(* Who lets go of an attempt. *)

(* execution_node gives up an attempt id at the click, after it, or at the end
   of the cleanup: never in between. *)
LEMMA LetsGo ==
    ASSUME TypeOK, NEW r \in Runs, NodeStep(r), token[r] # NoToken,
           ~(token'[r] = token[r] /\ job'[r] = job[r])
    PROVE  /\ Returns(r)
           /\ pc[r] \in {"click"} \cup ClickedPoints \/ WithdrawRead(r) \/ WithdrawWrite(r)
<1>1. pc[r] \in HoldingPoints
    BY DEF TypeOK, LocalsOK
<1>2. ~\E points : GoesOn(r, points)
    BY GoesOnMoves
<1>3. pc[r] \notin ClaimPoints
    BY <1>1 DEF ClaimPoints, HoldingPoints, PreClickPoints, CleanupPoints, ClickedPoints
<1>4. Returns(r)
    BY <1>2, <1>3, NodeMoves DEF ClaimPoints
<1>5. token'[r] = token[r] /\ job'[r] = job[r] => FALSE
    OBVIOUS
<1>6. ~(ReserveRead(r) \/ ReserveWrite(r) \/ ReserveReread(r) \/ ReserveFinal(r)
        \/ ReserveQuotaState(r) \/ MarkUnknown(r) \/ RefundRead(r) \/ RefundWrite(r))
    BY <1>5
       DEF ReserveRead, ReserveWrite, ReserveReread, ReserveFinal, ReserveCheck, Reserved,
           NotReserved, locals, ReserveQuotaState, MarkUnknown, PreClickUpdate, RefundRead,
           RefundWrite
<1> QED
    BY <1>1, <1>4, <1>6
       DEF NodeStep, HoldingPoints, PreClickPoints, CleanupPoints, ClickedPoints, Preflight,
           FormEnds, AlreadyApplied, SubmittedTextSeen, ReachSubmit, ClaimRead, ClaimInsert,
           ClaimReclaim, ClaimReread, Click, AwaitConfirmation, SubmittedRead, SubmittedWrite,
           CommitRead, CommitWrite, MarkSeen

(* An attempt let go at the click or after it is on record as possibly submitted. *)
LEMMA LetGoClicked ==
    ASSUME TypeOK, LiveInv, NEW r \in Runs, pc[r] \in {"click"} \cup ClickedPoints
    PROVE  job[r] \in Jobs /\ A!Matches(attempts[job[r]], token[r], {"submission_unknown", "submitted"})
<1>1. job[r] \in Jobs
    BY DEF TypeOK, LocalsOK, ClickedPoints
<1>2. CASE pc[r] = "click"
    BY <1>1, <1>2 DEF LiveInv, ClickInv, RecordedBeforeClick, A!Matches
<1>3. CASE pc[r] \in ClickedPoints
    <2>1. PICK c \in clicked : c.token = token[r] /\ c.job = job[r] /\ c.run = r
        BY <1>3 DEF LiveInv, FlowInv, FlowOK
    <2> QED
        BY <1>1, <2>1 DEF LiveInv, ClickInv, ClickIsOnRecord, A!Matches
<1> QED
    BY <1>2, <1>3

(* A cleanup that ends and leaves its claim pending has noted the failure. *)
LEMMA LetGoWithdrawn ==
    ASSUME TypeOK, NEW r \in Runs, WithdrawRead(r) \/ WithdrawWrite(r), Returns(r),
           attempts'[job[r]].status \in {"created", "quota_reserved"},
           attempts'[job[r]].token = token[r]
    PROVE  token[r] \in stranded'
<1>1. /\ pc[r] \in {"withdraw_read", "withdraw_write"} /\ job[r] \in Jobs /\ token[r] \in Tokens
      /\ attempts \in [Jobs -> A!AttemptDoc]
    BY DEF WithdrawRead, WithdrawWrite, TypeOK, LocalsOK, StoreOK, HoldingPoints, CleanupPoints
<1>2. CASE WithdrawRead(r)
    <2>1. attempts' = attempts
        BY <1>2 DEF WithdrawRead, store
    <2>2. ~Goto(r, "withdraw_write")
        <3>1. pc'[r] \in {"idle", "stopped"}
            BY ReturnMoves DEF Returns
        <3> QED
            BY <3>1 DEF Goto, TypeOK, LocalsOK
    <2> QED
        BY <1>2, <2>1, <2>2 DEF WithdrawRead, Doc, Stranded
<1>3. CASE WithdrawWrite(r)
    <2>1. PICK res \in UpdateResults(A!MayRelease(Doc(r), token[r])) :
              /\ attempts' = IF res.applied
                             THEN [attempts EXCEPT ![job[r]] = A!MoveTo(@, "released")]
                             ELSE attempts
              /\ stranded' = Stranded(r, res.raised)
        BY <1>3 DEF WithdrawWrite
    <2>2. A!MayRelease(Doc(r), token[r]) \in BOOLEAN
        BY DEF A!MayRelease, A!Matches
    <2>3. CASE res.applied
        <3>1. \E from \in {"created", "quota_reserved"} : Moved(r, from, "released")
            BY <2>1, <2>2, <2>3, AppliedMatched DEF Moved, A!MayRelease, A!Matches
        <3>2. {"created", "quota_reserved", "released"} \subseteq A!AttemptStatus
            BY DEF A!AttemptStatus
        <3>3. attempts'[job[r]] =
                  [status |-> "released", token |-> token[r], run |-> attempts[job[r]].run]
            BY <1>1, <3>1, <3>2, MovedDoc
        <3> QED
            BY <3>3
    <2>4. CASE ~res.applied
        <3>1. A!MayRelease(Doc(r), token[r])
            BY <2>1, <2>4 DEF A!MayRelease, A!Matches, Doc
        <3>2. res.raised
            BY <2>4, <3>1 DEF UpdateResults
        <3> QED
            BY <2>1, <3>2 DEF Stranded
    <2> QED
        BY <2>3, <2>4
<1> QED
    BY <1>2, <1>3

-----------------------------------------------------------------------------
(* Slots and attempts agree, and no claim is orphaned. *)

LEMMA CommittedNext ==
    ASSUME TypeOK, LiveInv, CommittedIsSubmitted, NEW r \in Runs, NodeStep(r)
    PROVE  CommittedIsSubmitted'
<1> SUFFICES ASSUME NEW d \in Days, NEW t \in Tokens, quota'[d].slots[t].status = "committed"
             PROVE  \E j \in Jobs : attempts'[j].status = "submitted" /\ attempts'[j].token = t
    BY DEF CommittedIsSubmitted
<1>1. CASE SlotOf(d, t)' = SlotOf(d, t)
    <2>1. PICK j \in Jobs : attempts[j].status = "submitted" /\ attempts[j].token = t
        BY <1>1 DEF CommittedIsSubmitted, SlotOf
    <2> QED
        BY <2>1, DocsKept
<1>2. CASE t = token[r] /\ pc[r] = "commit_write"
    <2>1. job[r] \in Jobs
        BY <1>2 DEF TypeOK, LocalsOK
    <2>2. attempts[job[r]].status = "submitted" /\ attempts[job[r]].token = t
        BY <1>2 DEF LiveInv, FlowInv, FlowOK, A!Matches
    <2> QED
        BY <2>1, <2>2, DocsKept
<1>3. SlotOf(d, t)'.status = "committed"
    BY DEF SlotOf
<1> QED
    BY <1>1, <1>2, <1>3, OtherSlotsKept, OwnSlotChange

(* A document written afresh belongs to the run that is told so, or the answer
   was lost. *)
LEMMA ClaimNoted ==
    ASSUME TypeOK, NEW r \in Runs, ClaimInsert(r) \/ ClaimReclaim(r)
    PROVE  \/ attempts' = attempts
           \/ \E t \in Tokens : /\ attempts' = [attempts EXCEPT ![job[r]] = A!FreshClaim(t, r)]
                                /\ t \in stranded' \/ Claimed(r, t)
BY DEF ClaimInsert, ClaimReclaim, ClaimWrite, Acknowledged

(* A document that becomes pending is held by its run, or noted as stranded. *)
LEMMA NewlyPending ==
    ASSUME TypeOK, NEW r \in Runs, NodeStep(r), NEW j \in Jobs, attempts'[j] # attempts[j],
           attempts'[j].status \in {"created", "quota_reserved"}
    PROVE  attempts'[j].token \in stranded' \/ (token'[r] = attempts'[j].token /\ job'[r] = j)
<1>1. CASE ClaimInsert(r) \/ ClaimReclaim(r)
    <2>1. PICK t \in Tokens : /\ attempts' = [attempts EXCEPT ![job[r]] = A!FreshClaim(t, r)]
                              /\ t \in stranded' \/ Claimed(r, t)
        BY <1>1, ClaimNoted
    <2>2. j = job[r] /\ attempts'[j] = [status |-> "created", token |-> t, run |-> r]
        BY <2>1 DEF A!FreshClaim, TypeOK, StoreOK
    <2> QED
        BY <2>1, <2>2, ClaimedMoves
<1>2. ASSUME ~ClaimInsert(r), ~ClaimReclaim(r)
      PROVE  pc[r] \notin {"claim_insert", "claim_reclaim"}
    BY <1>2
       DEF NodeStep, Preflight, FormEnds, AlreadyApplied, SubmittedTextSeen,
           ReachSubmit, ClaimRead, ClaimReread, ReserveRead, ReserveWrite, ReserveReread,
           ReserveFinal, ReserveQuotaState, MarkUnknown, Click, AwaitConfirmation,
           SubmittedRead, SubmittedWrite, CommitRead, CommitWrite, MarkSeen, RefundRead,
           RefundWrite, WithdrawRead, WithdrawWrite
<1>3. CASE ~ClaimInsert(r) /\ ~ClaimReclaim(r)
    <2>1. ~(ClaimRead(r) \/ ClaimReread(r))
        BY DEF ClaimRead, ClaimReread, store
    <2>2. pc[r] \notin ClaimPoints
        BY <1>2, <1>3, <2>1
           DEF NodeStep, ClaimPoints, Preflight, FormEnds, AlreadyApplied, SubmittedTextSeen,
               ReachSubmit, ReserveRead, ReserveWrite, ReserveReread, ReserveFinal,
               ReserveQuotaState, MarkUnknown, Click, AwaitConfirmation, SubmittedRead,
               SubmittedWrite, CommitRead, CommitWrite, MarkSeen, RefundRead, RefundWrite,
               WithdrawRead, WithdrawWrite
    <2>3. ASSUME NEW from \in A!AttemptStatus, NEW to \in A!AttemptStatus, Moved(r, from, to),
                 job[r] \in Jobs, token[r] \in Tokens
          PROVE  j = job[r] /\ attempts'[j].status = to /\ attempts'[j].token = token[r]
        <3>1. /\ attempts'[job[r]] = [status |-> to, token |-> token[r], run |-> attempts[job[r]].run]
              /\ \A i \in Jobs : i # job[r] => attempts'[i] = attempts[i]
            BY <2>3, MovedDoc
        <3>2. j = job[r]
            BY <3>1
        <3> QED
            BY <3>1, <3>2
    <2>4. {"created", "quota_reserved", "submission_unknown", "submitted", "released"}
              = A!AttemptStatus
        BY DEF A!AttemptStatus
    <2>5. /\ pc[r] = "quota_state" /\ j = job[r] /\ attempts'[j].token = token[r]
        BY <2>2, <2>3, <2>4, DocChange
    <2>6. token'[r] = token[r] /\ job'[r] = job[r]
        <3>1. token[r] # NoToken /\ pc[r] \notin {"click"} \cup ClickedPoints
            BY <2>5 DEF TypeOK, LocalsOK, HoldingPoints, PreClickPoints, ClickedPoints
        <3>2. ~WithdrawRead(r) /\ ~WithdrawWrite(r)
            BY <2>5 DEF WithdrawRead, WithdrawWrite
        <3> QED
            BY <3>1, <3>2, LetsGo
    <2> QED
        BY <2>5, <2>6
<1> QED
    BY <1>1, <1>3

LEMMA OrphanNext ==
    ASSUME TypeOK, LiveInv, NoOrphanClaim, NEW r \in Runs, NodeStep(r),
           stranded \subseteq stranded'
    PROVE  NoOrphanClaim'
<1> SUFFICES ASSUME NEW j \in Jobs, attempts'[j].status \in {"created", "quota_reserved"}
             PROVE  \/ attempts'[j].token \in stranded'
                    \/ \E s \in Runs : token'[s] = attempts'[j].token /\ job'[s] = j
    BY DEF NoOrphanClaim
<1>1. CASE attempts'[j] # attempts[j]
    BY <1>1, NewlyPending
<1>2. CASE attempts'[j] = attempts[j]
    <2>1. CASE attempts[j].token \in stranded
        BY <1>2, <2>1
    <2>2. ASSUME NEW s \in Runs, token[s] = attempts[j].token, job[s] = j
          PROVE  \/ attempts'[j].token \in stranded'
                 \/ \E u \in Runs : token'[u] = attempts'[j].token /\ job'[u] = j
        <3>1. CASE token'[s] = token[s] /\ job'[s] = job[s]
            BY <1>2, <2>2, <3>1
        <3>2. CASE ~(token'[s] = token[s] /\ job'[s] = job[s])
            <4>1. s = r
                BY <3>2, NodeFrame DEF OnlyMoves
            <4>2. token[r] # NoToken
                <5>1. attempts[j] \in A!AttemptDoc /\ attempts[j].status # "absent"
                    BY <1>2 DEF TypeOK, StoreOK
                <5>2. attempts[j].token \in Tokens
                    BY <5>1 DEF A!AttemptDoc, A!Attempt, A!AbsentAttempt
                <5> QED
                    BY <2>2, <4>1, <5>2
            <4>3. pc[r] \notin {"click"} \cup ClickedPoints
                BY <1>2, <2>2, <4>1, LetGoClicked DEF A!Matches
            <4>4. Returns(r) /\ (WithdrawRead(r) \/ WithdrawWrite(r))
                BY <3>2, <4>1, <4>2, <4>3, LetsGo
            <4>5. token[r] \in stranded'
                BY <1>2, <2>2, <4>1, <4>4, LetGoWithdrawn
            <4> QED
                BY <1>2, <2>2, <4>1, <4>5
        <3> QED
            BY <3>1, <3>2
    <2> QED
        BY <1>2, <2>1, <2>2 DEF NoOrphanClaim
<1> QED
    BY <1>1, <1>2

LEMMA LeakNext ==
    ASSUME TypeOK, LiveInv, NoLeakedSlot, NEW r \in Runs, NodeStep(r),
           stranded \subseteq stranded'
    PROVE  NoLeakedSlot'
<1>1. today' = today /\ today \in Days
    BY NodeToday DEF TypeOK, StoreOK
<1> SUFFICES ASSUME NEW t \in Tokens, quota'[today].slots[t].status = "reserved"
             PROVE  \/ t \in stranded'
                    \/ \E j \in Jobs : A!Matches(attempts'[j], t, {"submission_unknown", "submitted"})
                    \/ \E s \in Runs : token'[s] = t
    BY <1>1 DEF NoLeakedSlot
<1>2. SlotOf(today, t)'.status = "reserved"
    BY <1>1 DEF SlotOf
<1>3. SlotOf(today, t)' = quota'[today].slots[t]
    BY <1>1 DEF SlotOf
<1>4. CASE quota'[today].slots[t] = SlotOf(today, t)
    <2>1. \/ t \in stranded
          \/ \E j \in Jobs : A!Matches(attempts[j], t, {"submission_unknown", "submitted"})
          \/ \E s \in Runs : token[s] = t
        BY <1>4 DEF NoLeakedSlot, SlotOf
    <2>2. \A j \in Jobs : A!Matches(attempts[j], t, {"submission_unknown", "submitted"})
                          => A!Matches(attempts'[j], t, {"submission_unknown", "submitted"})
        BY DocsKept
    <2>3. ASSUME NEW s \in Runs, token[s] = t, token'[s] # t
          PROVE  \/ t \in stranded'
                 \/ \E j \in Jobs : A!Matches(attempts'[j], t, {"submission_unknown", "submitted"})
        <3>1. s = r /\ token[r] # NoToken
            BY <2>3, NodeFrame DEF OnlyMoves
        <3>2. CASE pc[r] \in {"click"} \cup ClickedPoints
            BY <2>2, <2>3, <3>1, <3>2, LetGoClicked
        <3>3. CASE WithdrawRead(r) \/ WithdrawWrite(r)
            <4>1. pc[r] \in {"withdraw_read", "withdraw_write"}
                BY <3>3 DEF WithdrawRead, WithdrawWrite
            <4>2. SlotOf(today, token[r]).status = "reserved"
                BY <1>4, <2>3, <3>1
            <4> QED
                BY <2>3, <3>1, <4>1, <4>2 DEF LiveInv, SlotInv, SlotOK
        <3> QED
            BY <2>3, <3>1, <3>2, <3>3, LetsGo
    <2> QED
        BY <2>1, <2>2, <2>3
<1>5. CASE t = token[r] /\ pc[r] = "reserve_write"
    <2>1. pc[r] \notin {"click"} \cup ClickedPoints
        BY <1>5 DEF ClickedPoints
    <2>2. ~WithdrawRead(r) /\ ~WithdrawWrite(r)
        BY <1>5 DEF WithdrawRead, WithdrawWrite
    <2>3. token'[r] = token[r]
        BY <1>5, <2>1, <2>2, LetsGo
    <2> QED
        BY <1>5, <2>3
<1>6. quota'[today].slots[t] = SlotOf(today, t) \/ (t = token[r] /\ pc[r] = "reserve_write")
    <2>1. CASE t # token[r]
        BY <1>1, <1>3, <2>1, OtherSlotsKept
    <2>2. CASE t = token[r]
        <3>1. ASSUME NEW d \in Days
              PROVE  \/ quota'[d].slots[t] = quota[d].slots[t]
                     \/ pc[r] = "reserve_write"
                     \/ quota'[d].slots[t] = [status |-> "released", run |-> r]
                     \/ quota'[d].slots[t] = [status |-> "committed", run |-> r]
            <4>1. \/ SlotOf(d, t)' = SlotOf(d, t)
                  \/ pc[r] = "reserve_write"
                  \/ SlotOf(d, t)' = [status |-> "released", run |-> r]
                  \/ SlotOf(d, t)' = [status |-> "committed", run |-> r]
                BY <2>2, OwnSlotChange
            <4> QED
                BY <4>1 DEF SlotOf
        <3>2. quota'[today].slots[t] = quota[today].slots[t] \/ pc[r] = "reserve_write"
            BY <1>1, <3>1
        <3> QED
            BY <2>2, <3>2 DEF SlotOf
    <2> QED
        BY <2>1, <2>2
<1> QED
    BY <1>4, <1>5, <1>6

LEMMA SettleInit == Init => SettleInv
<1> SUFFICES ASSUME Init PROVE SettleInv
    OBVIOUS
<1>1. NoOrphanClaim
    BY DEF Init, NoOrphanClaim, A!AbsentAttempt
<1>2. \A d \in Days, t \in Tokens : quota[d].slots[t].status = "none"
    BY DEF Init, Q!EmptyDay, Q!NoSlot
<1>3. today \in Days
    BY InitTyped DEF TypeOK, StoreOK
<1> QED
    BY <1>1, <1>2, <1>3 DEF SettleInv, SlotsMatchAttempts, CommittedIsSubmitted, NoLeakedSlot

LEMMA SettleOutside ==
    ASSUME TypeOK, SettleInv, NEW r \in Runs,
           StartRun(r) \/ (\E j \in Jobs : SelectJob(r, j)) \/ Crash(r) \/ Resume(r)
    PROVE  SettleInv'
<1>1. UNCHANGED <<attempts, quota, today>> /\ stranded \subseteq stranded'
    BY DEF StartRun, SelectJob, Crash, Resume, store, history, Stranded
<1>2. ASSUME NEW s \in Runs, token[s] # NoToken
      PROVE  (token'[s] = token[s] /\ job'[s] = job[s]) \/ token[s] \in stranded'
    <2>1. CASE s # r
        BY <2>1, OutsideMoves DEF OnlyMoves
    <2>2. CASE s = r /\ Crash(r)
        BY <1>2, <2>2 DEF Crash, Stranded
    <2>3. CASE s = r /\ ~Crash(r)
        <3>1. pc[r] \notin {"off", "idle", "down"}
            BY <1>2, <2>3
               DEF TypeOK, LocalsOK, HoldingPoints, PreClickPoints, CleanupPoints, ClickedPoints
        <3> QED
            BY <2>3, <3>1 DEF StartRun, SelectJob, Resume
    <2> QED
        BY <2>1, <2>2, <2>3
<1>3. \A j \in Jobs : attempts[j].status \in {"created", "quota_reserved"} =>
                          attempts[j].token \in Tokens
    BY DEF TypeOK, StoreOK, A!AttemptDoc, A!Attempt, A!AbsentAttempt
<1>4. NoOrphanClaim'
    <2> SUFFICES ASSUME NEW j \in Jobs, attempts[j].status \in {"created", "quota_reserved"}
                 PROVE  \/ attempts[j].token \in stranded'
                        \/ \E s \in Runs : token'[s] = attempts[j].token /\ job'[s] = j
        BY <1>1 DEF NoOrphanClaim
    <2> QED
        BY <1>1, <1>2, <1>3 DEF SettleInv, NoOrphanClaim
<1>5. NoLeakedSlot'
    <2> SUFFICES ASSUME NEW t \in Tokens, quota[today].slots[t].status = "reserved"
                 PROVE  \/ t \in stranded'
                        \/ \E j \in Jobs : A!Matches(attempts[j], t, {"submission_unknown", "submitted"})
                        \/ \E s \in Runs : token'[s] = t
        BY <1>1 DEF NoLeakedSlot
    <2> QED
        BY <1>1, <1>2 DEF SettleInv, SlotsMatchAttempts, NoLeakedSlot
<1>6. CommittedIsSubmitted'
    BY <1>1 DEF SettleInv, SlotsMatchAttempts, CommittedIsSubmitted
<1> QED
    BY <1>4, <1>5, <1>6 DEF SettleInv, SlotsMatchAttempts

LEMMA SettleNext ==
    TypeOK /\ TypeOK' /\ LiveInv /\ SettleInv /\ [Next]_vars => SettleInv'
<1> SUFFICES ASSUME TypeOK, TypeOK', LiveInv, SettleInv, [Next]_vars PROVE SettleInv'
    OBVIOUS
<1>1. ASSUME NEW r \in Runs, NodeStep(r) PROVE SettleInv'
    BY <1>1, StrandedGrows, CommittedNext, OrphanNext, LeakNext DEF SettleInv, SlotsMatchAttempts
<1>2. CASE Midnight
    <2>1. /\ today' = today + 1 /\ today \in Days /\ today' \in Days
          /\ UNCHANGED <<attempts, quota, token, job, stranded>>
        BY <1>2, BoundsAssumption DEF Midnight, store, locals, history, TypeOK, StoreOK, Days
    <2>2. \A t \in Tokens : SlotOf(today', t) = Q!NoSlot
        BY <2>1 DEF LiveInv, SlotInv, NotAhead, Days
    <2>3. NoLeakedSlot'
        BY <2>1, <2>2 DEF NoLeakedSlot, SlotOf, Q!NoSlot
    <2> QED
        BY <2>1, <2>3 DEF SettleInv, SlotsMatchAttempts, CommittedIsSubmitted, NoOrphanClaim
<1>3. CASE UNCHANGED vars
    BY <1>3 DEF vars, store, locals, history, SettleInv, SlotsMatchAttempts,
                CommittedIsSubmitted, NoLeakedSlot, NoOrphanClaim
<1> QED
    BY <1>1, <1>2, <1>3, SettleOutside DEF Next

LEMMA SettleInvariant ==
    Spec => [](TypeOK /\ LiveInv /\ ClickKeepsItsSlot /\ SettleInv)
<1>1. Init => ClickKeepsItsSlot /\ SettleInv
    BY KeepsSlotInit, SettleInit
<1>2. /\ TypeOK /\ TypeOK' /\ LiveInv /\ ClickKeepsItsSlot /\ SettleInv /\ [Next]_vars
      => (ClickKeepsItsSlot /\ SettleInv)'
    BY KeepsSlotNext, SettleNext
<1> QED
    BY <1>1, <1>2, LiveInvariant, PTL DEF Spec

-----------------------------------------------------------------------------
(* The refinement: the abstract view of the state, and each step as a step of
   SubmitOnce. *)

PhaseBar == [j \in Jobs |-> PhaseOf(attempts[j].status)]
HolderBar == [j \in Jobs |-> IF A!CanProceed(attempts[j]) THEN NoToken ELSE attempts[j].token]
ChargedBar == [d \in Days |-> {t \in Tokens : Q!Charged(quota[d], t)}]

LEMMA BarClaim ==
    ASSUME NEW j \in Jobs, NEW t \in Tokens,
           PhaseBar[j] = "free", \A d \in Days : t \notin ChargedBar[d],
           \A i \in Jobs : HolderBar[i] # t,
           PhaseBar' = [PhaseBar EXCEPT ![j] = "held"],
           HolderBar' = [HolderBar EXCEPT ![j] = t],
           ChargedBar' = ChargedBar, clicks' = clicks
    PROVE  Promise!Next
<1>1. Promise!Claim(j, t)
    BY DEF Promise!Claim, Promise!IsCharged, PhaseBar, HolderBar, ChargedBar
<1> QED
    BY <1>1 DEF Promise!Next

LEMMA BarGiveBack ==
    ASSUME NEW j \in Jobs, PhaseBar[j] = "held",
           PhaseBar' = [PhaseBar EXCEPT ![j] = "free"],
           HolderBar' = [HolderBar EXCEPT ![j] = NoToken],
           ChargedBar' = ChargedBar, clicks' = clicks
    PROVE  Promise!Next
<1>1. Promise!GiveBack(j)
    BY DEF Promise!GiveBack, PhaseBar, HolderBar, ChargedBar
<1> QED
    BY <1>1 DEF Promise!Next

LEMMA BarArm ==
    ASSUME NEW j \in Jobs, PhaseBar[j] = "held", \E d \in Days : HolderBar[j] \in ChargedBar[d],
           PhaseBar' = [PhaseBar EXCEPT ![j] = "armed"],
           HolderBar' = HolderBar, ChargedBar' = ChargedBar, clicks' = clicks
    PROVE  Promise!Next
<1>1. Promise!Arm(j)
    BY DEF Promise!Arm, Promise!IsCharged, PhaseBar, HolderBar, ChargedBar
<1> QED
    BY <1>1 DEF Promise!Next

LEMMA BarConfirm ==
    ASSUME NEW j \in Jobs, PhaseBar[j] = "armed", clicks[j] = 1,
           PhaseBar' = [PhaseBar EXCEPT ![j] = "done"],
           HolderBar' = HolderBar, ChargedBar' = ChargedBar, clicks' = clicks
    PROVE  Promise!Next
<1>1. Promise!Confirm(j)
    BY DEF Promise!Confirm, PhaseBar, HolderBar, ChargedBar
<1> QED
    BY <1>1 DEF Promise!Next

LEMMA BarClick ==
    ASSUME NEW j \in Jobs, PhaseBar[j] = "armed", \E d \in Days : HolderBar[j] \in ChargedBar[d],
           clicks[j] = 0, clicks' = [clicks EXCEPT ![j] = 1],
           PhaseBar' = PhaseBar, HolderBar' = HolderBar, ChargedBar' = ChargedBar
    PROVE  Promise!Next
<1>1. Promise!Click(j)
    BY DEF Promise!Click, Promise!IsCharged, PhaseBar, HolderBar, ChargedBar
<1> QED
    BY <1>1 DEF Promise!Next

(* The abstract module's own copy of Cardinality counts the same. *)
LEMMA BarCardinality == ASSUME NEW S PROVE Promise!Cardinality(S) = Cardinality(S)
BY DEF Promise!Cardinality, Cardinality

LEMMA BarCharge ==
    ASSUME NEW d \in Days, NEW t \in Tokens,
           \E j \in Jobs : PhaseBar[j] = "held" /\ HolderBar[j] = t,
           \A e \in Days : t \notin ChargedBar[e],
           Cardinality(ChargedBar[d]) < DailyCap,
           ChargedBar' = [ChargedBar EXCEPT ![d] = @ \cup {t}],
           PhaseBar' = PhaseBar, HolderBar' = HolderBar, clicks' = clicks
    PROVE  Promise!Next
<1>1. /\ \E j \in Jobs : PhaseBar[j] = "held" /\ HolderBar[j] = t
      /\ ~\E e \in Days : t \in ChargedBar[e]
      /\ Cardinality(ChargedBar[d]) < DailyCap
      /\ ChargedBar' = [ChargedBar EXCEPT ![d] = ChargedBar[d] \cup {t}]
      /\ PhaseBar' = PhaseBar /\ HolderBar' = HolderBar /\ clicks' = clicks
    OBVIOUS
<1>2. Promise!Charge(d, t)
    BY <1>1, BarCardinality DEF Promise!Charge, Promise!IsCharged, PhaseBar, HolderBar, ChargedBar
<1> QED
    BY <1>2 DEF Promise!Next

LEMMA BarRefund ==
    ASSUME NEW d \in Days, NEW t \in Tokens, t \in ChargedBar[d],
           \A j \in Jobs : HolderBar[j] = t => clicks[j] = 0,
           ChargedBar' = [ChargedBar EXCEPT ![d] = @ \ {t}],
           PhaseBar' = PhaseBar, HolderBar' = HolderBar, clicks' = clicks
    PROVE  Promise!Next
<1>1. Promise!Refund(d, t)
    BY DEF Promise!Refund, PhaseBar, HolderBar, ChargedBar
<1> QED
    BY <1>1 DEF Promise!Next

(* How the abstract view follows a document, and a slot. *)

LEMMA BarDoc ==
    ASSUME TypeOK, NEW j \in Jobs, \A i \in Jobs : i # j => attempts'[i] = attempts[i]
    PROVE  /\ PhaseBar' = [PhaseBar EXCEPT ![j] = PhaseOf(attempts'[j].status)]
           /\ HolderBar' = [HolderBar EXCEPT ![j] =
                  IF A!CanProceed(attempts'[j]) THEN NoToken ELSE attempts'[j].token]
BY DEF PhaseBar, HolderBar

LEMMA BarPhase ==
    ASSUME NEW j \in Jobs
    PROVE  /\ attempts[j].status \in {"absent", "released"} => PhaseBar[j] = "free" /\ HolderBar[j] = NoToken
           /\ attempts[j].status \in {"created", "quota_reserved"} =>
                  PhaseBar[j] = "held" /\ HolderBar[j] = attempts[j].token
           /\ attempts[j].status = "submission_unknown" =>
                  PhaseBar[j] = "armed" /\ HolderBar[j] = attempts[j].token
           /\ attempts[j].status = "submitted" =>
                  PhaseBar[j] = "done" /\ HolderBar[j] = attempts[j].token
BY DEF PhaseBar, HolderBar, PhaseOf, A!CanProceed

(* The same document, seen after it was written with a given status and id. *)
LEMMA BarWritten ==
    ASSUME TypeOK, NEW j \in Jobs, \A i \in Jobs : i # j => attempts'[i] = attempts[i],
           NEW status, NEW t, attempts'[j].status = status, attempts'[j].token = t
    PROVE  /\ status = "released" =>
                  /\ PhaseBar' = [PhaseBar EXCEPT ![j] = "free"]
                  /\ HolderBar' = [HolderBar EXCEPT ![j] = NoToken]
           /\ status \in {"created", "quota_reserved"} =>
                  /\ PhaseBar' = [PhaseBar EXCEPT ![j] = "held"]
                  /\ HolderBar' = [HolderBar EXCEPT ![j] = t]
           /\ status = "submission_unknown" =>
                  /\ PhaseBar' = [PhaseBar EXCEPT ![j] = "armed"]
                  /\ HolderBar' = [HolderBar EXCEPT ![j] = t]
           /\ status = "submitted" =>
                  /\ PhaseBar' = [PhaseBar EXCEPT ![j] = "done"]
                  /\ HolderBar' = [HolderBar EXCEPT ![j] = t]
<1>1. /\ PhaseBar' = [PhaseBar EXCEPT ![j] = PhaseOf(status)]
      /\ HolderBar' = [HolderBar EXCEPT ![j] =
             IF A!CanProceed(attempts'[j]) THEN NoToken ELSE t]
    BY BarDoc
<1>2. A!CanProceed(attempts'[j]) <=> status \in {"absent", "released"}
    BY DEF A!CanProceed
<1>3. /\ PhaseOf("released") = "free" /\ PhaseOf("created") = "held"
      /\ PhaseOf("quota_reserved") = "held" /\ PhaseOf("submission_unknown") = "armed"
      /\ PhaseOf("submitted") = "done"
    BY DEF PhaseOf
<1> QED
    BY <1>1, <1>2, <1>3

LEMMA BarSame ==
    ASSUME NEW j \in Jobs
    PROVE  /\ [PhaseBar EXCEPT ![j] = PhaseBar[j]] = PhaseBar
           /\ [HolderBar EXCEPT ![j] = HolderBar[j]] = HolderBar
BY DEF PhaseBar, HolderBar

LEMMA BarSlots ==
    ASSUME TypeOK, NEW r \in Runs, token[r] \in Tokens, day[r] \in Days,
           NEW status, SlotWritten(r, status)
    PROVE  ChargedBar' = [ChargedBar EXCEPT ![day[r]] =
               IF status \in {"reserved", "committed"} THEN ChargedBar[day[r]] \cup {token[r]}
               ELSE ChargedBar[day[r]] \ {token[r]}]
<1>1. \A d \in Days, t \in Tokens :
          quota'[d].slots[t] = IF d = day[r] /\ t = token[r]
                               THEN [status |-> status, run |-> r] ELSE quota[d].slots[t]
    <2>1. ASSUME NEW d \in Days, NEW t \in Tokens
          PROVE  SlotOf(d, t)' = IF d = day[r] /\ t = token[r]
                                 THEN [status |-> status, run |-> r] ELSE SlotOf(d, t)
        BY SlotsAfter
    <2> QED
        BY <2>1 DEF SlotOf
<1>2. \A d \in Days, t \in Tokens :
          Q!Charged(quota'[d], t) <=>
              IF d = day[r] /\ t = token[r] THEN status \in {"reserved", "committed"}
              ELSE Q!Charged(quota[d], t)
    BY <1>1 DEF Q!Charged
<1>3. \A d \in Days : d # day[r] =>
          {t \in Tokens : Q!Charged(quota'[d], t)} = {t \in Tokens : Q!Charged(quota[d], t)}
    BY <1>2
<1>4. {t \in Tokens : Q!Charged(quota'[day[r]], t)} =
          IF status \in {"reserved", "committed"}
          THEN {t \in Tokens : Q!Charged(quota[day[r]], t)} \cup {token[r]}
          ELSE {t \in Tokens : Q!Charged(quota[day[r]], t)} \ {token[r]}
    BY <1>2
<1>5. ChargedBar = [d \in Days |-> {t \in Tokens : Q!Charged(quota[d], t)}]
    BY DEF ChargedBar
<1>6. ChargedBar' = [d \in Days |-> {t \in Tokens : Q!Charged(quota'[d], t)}]
    BY DEF ChargedBar
<1> QED
    BY <1>3, <1>4, <1>5, <1>6

-----------------------------------------------------------------------------
(* The steps. *)

LEMMA PromiseClaimStep ==
    ASSUME TypeOK, LiveInv, NEW r \in Runs, job[r] \in Jobs, NEW t \in Tokens,
           ClaimedAfresh(r, t), quota' = quota, clicks' = clicks
    PROVE  Promise!Next
<1>1. /\ attempts[job[r]].status \in {"absent", "released"} /\ t \notin used
      /\ attempts'[job[r]] = [status |-> "created", token |-> t, run |-> r]
      /\ \A i \in Jobs : i # job[r] => attempts'[i] = attempts[i]
    BY DEF ClaimedAfresh, A!CanProceed, A!FreshClaim, Doc, TypeOK, StoreOK
<1>2. PhaseBar[job[r]] = "free"
    BY <1>1, BarPhase
<1>3. /\ PhaseBar' = [PhaseBar EXCEPT ![job[r]] = "held"]
      /\ HolderBar' = [HolderBar EXCEPT ![job[r]] = t]
    BY <1>1, BarWritten
<1>4. \A d \in Days : t \notin ChargedBar[d]
    BY <1>1 DEF LiveInv, CountersInv, FreshSlots, SlotOf, ChargedBar, Q!Charged, Q!NoSlot
<1>5. ASSUME NEW i \in Jobs PROVE HolderBar[i] # t
    <2>1. attempts[i] \in A!AttemptDoc
        BY DEF TypeOK, StoreOK
    <2>2. CASE A!CanProceed(attempts[i])
        BY <2>2 DEF HolderBar
    <2>3. CASE ~A!CanProceed(attempts[i])
        <3>1. attempts[i] \in A!Attempt
            BY <2>1, <2>3 DEF A!AttemptDoc, A!AbsentAttempt, A!CanProceed
        <3>2. OnRecord(i, attempts[i].token) /\ attempts[i].token \in Tokens
            BY <3>1 DEF OnRecord, A!Matches, A!Attempt
        <3>3. attempts[i].token \in used
            BY <3>2 DEF LiveInv, ClickInv, FreshTokens
        <3> QED
            BY <1>1, <2>3, <3>3 DEF HolderBar
    <2> QED
        BY <2>2, <2>3
<1>6. ChargedBar' = ChargedBar
    BY DEF ChargedBar
<1> QED
    BY <1>2, <1>3, <1>4, <1>5, <1>6, BarClaim

(* The quota slot a run holds charges its attempt in the abstract view. *)
LEMMA HeldIsCharged ==
    ASSUME TypeOK, LiveInv, NEW r \in Runs, pc[r] \in {"quota_state", "mark_unknown", "click"}
    PROVE  token[r] \in Tokens /\ \E d \in Days : token[r] \in ChargedBar[d]
<1>1. token[r] \in Tokens
    BY DEF TypeOK, LocalsOK, HoldingPoints, PreClickPoints
<1>2. \E d \in Days : Q!OwnsCharged(quota[d], token[r], r)
    BY DEF LiveInv, SlotInv, SlotOK
<1> QED
    BY <1>1, <1>2 DEF ChargedBar, Q!OwnsCharged

LEMMA PromiseMoveStep ==
    ASSUME TypeOK, LiveInv, NEW r \in Runs, job[r] \in Jobs, token[r] \in Tokens,
           \/ pc[r] = "quota_state" /\ Moved(r, "created", "quota_reserved")
           \/ pc[r] = "mark_unknown" /\ Moved(r, "quota_reserved", "submission_unknown")
           \/ pc[r] = "submitted_write" /\ Moved(r, "submission_unknown", "submitted")
           \/ pc[r] = "withdraw_write" /\ \E from \in {"created", "quota_reserved"} : Moved(r, from, "released"),
           quota' = quota, clicks' = clicks
    PROVE  Promise!Next \/ (PhaseBar' = PhaseBar /\ HolderBar' = HolderBar /\ ChargedBar' = ChargedBar)
<1>1. ChargedBar' = ChargedBar
    BY DEF ChargedBar
<1>2. {"created", "quota_reserved", "submission_unknown", "submitted", "released"}
          \subseteq A!AttemptStatus
    BY DEF A!AttemptStatus
<1>3. ASSUME NEW from \in A!AttemptStatus, NEW to \in A!AttemptStatus, Moved(r, from, to)
      PROVE  /\ attempts[job[r]].status = from /\ attempts[job[r]].token = token[r]
             /\ attempts'[job[r]].status = to /\ attempts'[job[r]].token = token[r]
             /\ \A i \in Jobs : i # job[r] => attempts'[i] = attempts[i]
    <2>1. /\ attempts[job[r]].status = from /\ attempts[job[r]].token = token[r]
          /\ attempts'[job[r]] = [status |-> to, token |-> token[r], run |-> attempts[job[r]].run]
          /\ \A i \in Jobs : i # job[r] => attempts'[i] = attempts[i]
        BY <1>3, MovedDoc
    <2> QED
        BY <2>1
<1>4. CASE Moved(r, "created", "quota_reserved")
    <2>1. /\ attempts[job[r]].status = "created" /\ attempts[job[r]].token = token[r]
          /\ attempts'[job[r]].status = "quota_reserved" /\ attempts'[job[r]].token = token[r]
          /\ \A i \in Jobs : i # job[r] => attempts'[i] = attempts[i]
        BY <1>2, <1>3, <1>4
    <2>2. PhaseBar[job[r]] = "held" /\ HolderBar[job[r]] = token[r]
        BY <2>1, BarPhase
    <2>3. /\ PhaseBar' = [PhaseBar EXCEPT ![job[r]] = "held"]
          /\ HolderBar' = [HolderBar EXCEPT ![job[r]] = token[r]]
        BY <2>1, BarWritten
    <2> QED
        BY <1>1, <2>2, <2>3, BarSame
<1>5. CASE pc[r] = "mark_unknown" /\ Moved(r, "quota_reserved", "submission_unknown")
    <2>1. /\ attempts[job[r]].status = "quota_reserved" /\ attempts[job[r]].token = token[r]
          /\ attempts'[job[r]].status = "submission_unknown" /\ attempts'[job[r]].token = token[r]
          /\ \A i \in Jobs : i # job[r] => attempts'[i] = attempts[i]
        BY <1>2, <1>3, <1>5
    <2>2. PhaseBar[job[r]] = "held" /\ HolderBar[job[r]] = token[r]
        BY <2>1, BarPhase
    <2>3. /\ PhaseBar' = [PhaseBar EXCEPT ![job[r]] = "armed"]
          /\ HolderBar' = [HolderBar EXCEPT ![job[r]] = token[r]]
        BY <2>1, BarWritten
    <2>4. \E d \in Days : HolderBar[job[r]] \in ChargedBar[d]
        BY <1>5, <2>2, HeldIsCharged
    <2>5. HolderBar' = HolderBar
        BY <2>2, <2>3, BarSame
    <2> QED
        BY <1>1, <2>2, <2>3, <2>4, <2>5, BarArm
<1>6. CASE pc[r] = "submitted_write" /\ Moved(r, "submission_unknown", "submitted")
    <2>1. /\ attempts[job[r]].status = "submission_unknown" /\ attempts[job[r]].token = token[r]
          /\ attempts'[job[r]].status = "submitted" /\ attempts'[job[r]].token = token[r]
          /\ \A i \in Jobs : i # job[r] => attempts'[i] = attempts[i]
        BY <1>2, <1>3, <1>6
    <2>2. PhaseBar[job[r]] = "armed" /\ HolderBar[job[r]] = token[r]
        BY <2>1, BarPhase
    <2>3. /\ PhaseBar' = [PhaseBar EXCEPT ![job[r]] = "done"]
          /\ HolderBar' = [HolderBar EXCEPT ![job[r]] = token[r]]
        BY <2>1, BarWritten
    <2>4. HolderBar' = HolderBar
        BY <2>2, <2>3, BarSame
    <2>5. clicks[job[r]] = 1
        <3>1. \E c \in clicked : c.job = job[r]
            BY <1>6 DEF LiveInv, FlowInv, FlowOK, ClickedPoints
        <3>2. clicks[job[r]] > 0 /\ clicks[job[r]] <= 1 /\ clicks[job[r]] \in Nat
            BY <3>1 DEF LiveInv, FlowInv, ClicksSeen, ClickInv, SubmitAtMostOnce, TypeOK, HistoryOK
        <3> QED
            BY <3>2
    <2> QED
        BY <1>1, <2>2, <2>3, <2>4, <2>5, BarConfirm
<1>7. ASSUME NEW from \in {"created", "quota_reserved"}, Moved(r, from, "released")
      PROVE  Promise!Next
    <2>1. /\ attempts[job[r]].status \in {"created", "quota_reserved"}
          /\ attempts'[job[r]].status = "released" /\ attempts'[job[r]].token = token[r]
          /\ \A i \in Jobs : i # job[r] => attempts'[i] = attempts[i]
        BY <1>2, <1>3, <1>7
    <2>2. PhaseBar[job[r]] = "held"
        BY <2>1, BarPhase
    <2>3. /\ PhaseBar' = [PhaseBar EXCEPT ![job[r]] = "free"]
          /\ HolderBar' = [HolderBar EXCEPT ![job[r]] = NoToken]
        BY <2>1, BarWritten
    <2> QED
        BY <1>1, <2>2, <2>3, BarGiveBack
<1> QED
    BY <1>4, <1>5, <1>6, <1>7

LEMMA PromiseSlotStep ==
    ASSUME TypeOK, LiveInv, NEW r \in Runs, token[r] \in Tokens, day[r] \in Days,
           \/ pc[r] = "reserve_write" /\ Charges(r)
           \/ pc[r] = "refund_write" /\ Refunds(r)
           \/ pc[r] = "commit_write" /\ Commits(r),
           attempts' = attempts, clicks' = clicks
    PROVE  Promise!Next \/ (PhaseBar' = PhaseBar /\ HolderBar' = HolderBar /\ ChargedBar' = ChargedBar)
<1>1. PhaseBar' = PhaseBar /\ HolderBar' = HolderBar
    BY DEF PhaseBar, HolderBar
<1>2. \A d \in Days : ChargedBar[d] = ChargedOn(d)
    BY DEF ChargedBar, ChargedOn
<1>3. CASE pc[r] = "reserve_write" /\ Charges(r)
    <2>1. SlotWritten(r, "reserved")
        BY <1>3, SlotChange
    <2>2. ChargedBar' = [ChargedBar EXCEPT ![day[r]] = ChargedBar[day[r]] \cup {token[r]}]
        BY <2>1, BarSlots
    <2>3. \A e \in Days : token[r] \notin ChargedBar[e]
        BY <1>3 DEF LiveInv, SlotInv, SlotOK, SlotOf, ChargedBar, Q!Charged, Q!NoSlot
    <2>4. \E j \in Jobs : PhaseBar[j] = "held" /\ HolderBar[j] = token[r]
        <3>1. job[r] \in Jobs
            BY <1>3 DEF TypeOK, LocalsOK
        <3>2. attempts[job[r]].status = "created" /\ attempts[job[r]].token = token[r]
            BY <1>3 DEF LiveInv, FlowInv, FlowOK, A!Matches
        <3> QED
            BY <3>1, <3>2, BarPhase
    <2>5. Cardinality(ChargedBar[day[r]]) < DailyCap
        <3>1. quota[day[r]].reserved \in Nat /\ ~(quota[day[r]].reserved >= DailyCap)
            BY <1>3 DEF Charges, Q!MayCharge, Q!CapReached, DayDoc, TypeOK, StoreOK, Q!DayDoc
        <3>2. quota[day[r]].reserved = Cardinality(ChargedOn(day[r]))
            BY CapsByDay DEF LiveInv, CountersInv, DayExact
        <3> QED
            BY <1>2, <3>1, <3>2, BoundsAssumption
    <2> QED
        BY <1>1, <2>2, <2>3, <2>4, <2>5, BarCharge
<1>4. CASE pc[r] = "refund_write" /\ Refunds(r)
    <2>1. SlotWritten(r, "released")
        BY <1>4, SlotChange
    <2>2. ChargedBar' = [ChargedBar EXCEPT ![day[r]] = ChargedBar[day[r]] \ {token[r]}]
        <3>1. ChargedBar' = [ChargedBar EXCEPT ![day[r]] =
                  IF "released" \in {"reserved", "committed"}
                  THEN ChargedBar[day[r]] \cup {token[r]} ELSE ChargedBar[day[r]] \ {token[r]}]
            BY <2>1, BarSlots
        <3>2. "released" \notin {"reserved", "committed"}
            OBVIOUS
        <3> QED
            BY <3>1, <3>2
    <2>3. token[r] \in ChargedBar[day[r]]
        BY <1>4 DEF Refunds, Q!MayRefund, DayDoc, ChargedBar, Q!Charged
    <2>4. ASSUME NEW j \in Jobs, HolderBar[j] = token[r] PROVE clicks[j] = 0
        <3>1. clicks[j] \in Nat
            BY DEF TypeOK, HistoryOK
        <3>2. ASSUME NEW c \in clicked, c.job = j PROVE FALSE
            <4>1. attempts[j].status \in {"submission_unknown", "submitted"} /\ attempts[j].token = c.token
                BY <3>2 DEF LiveInv, ClickInv, ClickIsOnRecord
            <4>2. c.token = token[r]
                BY <2>4, <4>1, BarPhase
            <4>3. c.run = r /\ c.job = job[r]
                BY <4>2, ClickerHolds DEF LiveInv
            <4>4. pc[r] \in UnclickedPoints
                BY <1>4 DEF UnclickedPoints, CleanupPoints
            <4> QED
                BY <4>3, <4>4 DEF LiveInv, FlowInv, FlowOK
        <3> QED
            BY <3>1, <3>2 DEF LiveInv, ClickInv, ClicksCounted
    <2> QED
        BY <1>1, <2>2, <2>3, <2>4, BarRefund
<1>5. CASE pc[r] = "commit_write" /\ Commits(r)
    <2>1. SlotWritten(r, "committed")
        BY <1>5, SlotChange
    <2>2. ChargedBar' = [ChargedBar EXCEPT ![day[r]] = ChargedBar[day[r]] \cup {token[r]}]
        BY <2>1, BarSlots
    <2>3. token[r] \in ChargedBar[day[r]]
        BY <1>5 DEF Commits, Q!MayCommit, DayDoc, ChargedBar, Q!Charged
    <2>4. ChargedBar' = ChargedBar
        BY <2>2, <2>3 DEF ChargedBar
    <2> QED
        BY <1>1, <2>4
<1> QED
    BY <1>3, <1>4, <1>5

LEMMA PromiseClickStep ==
    ASSUME TypeOK, LiveInv, NEW r \in Runs, Click(r), clicks' = [clicks EXCEPT ![job[r]] = @ + 1]
    PROVE  Promise!Next
<1>1. /\ pc[r] = "click" /\ job[r] \in Jobs /\ attempts' = attempts /\ quota' = quota
    BY DEF Click, store, TypeOK, LocalsOK
<1>2. PhaseBar' = PhaseBar /\ HolderBar' = HolderBar /\ ChargedBar' = ChargedBar
    BY <1>1 DEF PhaseBar, HolderBar, ChargedBar
<1>3. /\ attempts[job[r]].status = "submission_unknown" /\ attempts[job[r]].token = token[r]
      /\ clicks[job[r]] = 0
    BY <1>1 DEF LiveInv, ClickInv, RecordedBeforeClick, A!Matches
<1>4. PhaseBar[job[r]] = "armed" /\ HolderBar[job[r]] = token[r]
    BY <1>1, <1>3, BarPhase
<1>5. \E d \in Days : HolderBar[job[r]] \in ChargedBar[d]
    BY <1>1, <1>4, HeldIsCharged
<1>6. clicks' = [clicks EXCEPT ![job[r]] = 1]
    BY <1>3
<1> QED
    BY <1>1, <1>2, <1>3, <1>4, <1>5, <1>6, BarClick

LEMMA PromiseInit == Init => Promise!Init
<1> SUFFICES ASSUME Init PROVE Promise!Init
    OBVIOUS
<1>1. PhaseBar = [j \in Jobs |-> "free"] /\ HolderBar = [j \in Jobs |-> NoToken]
    BY DEF Init, PhaseBar, HolderBar, PhaseOf, A!CanProceed, A!AbsentAttempt
<1>2. ChargedBar = [d \in Days |-> {}]
    BY DEF Init, ChargedBar, Q!Charged, Q!EmptyDay, Q!NoSlot
<1>3. clicks = [j \in Jobs |-> 0]
    BY DEF Init
<1> QED
    BY <1>1, <1>2, <1>3 DEF Promise!Init, PhaseBar, HolderBar, ChargedBar

LEMMA PromiseStutter ==
    ASSUME PhaseBar' = PhaseBar, HolderBar' = HolderBar, ChargedBar' = ChargedBar, clicks' = clicks
    PROVE  [Promise!Next]_(Promise!vars)
BY DEF Promise!vars, PhaseBar, HolderBar, ChargedBar

LEMMA PromiseNext == TypeOK /\ LiveInv /\ [Next]_vars => [Promise!Next]_(Promise!vars)
<1> SUFFICES ASSUME TypeOK, LiveInv, [Next]_vars PROVE [Promise!Next]_(Promise!vars)
    OBVIOUS
<1>1. CASE UNCHANGED <<attempts, quota, clicks>>
    BY <1>1, PromiseStutter DEF PhaseBar, HolderBar, ChargedBar
<1>2. ASSUME NEW r \in Runs, NodeStep(r) PROVE [Promise!Next]_(Promise!vars)
    <2>1. CASE Click(r) /\ clicks' = [clicks EXCEPT ![job[r]] = @ + 1]
        BY <2>1, PromiseClickStep
    <2>2. CASE clicks' = clicks
        <3>1. pc[r] \in ClaimPoints \cup {"quota_state", "mark_unknown", "submitted_write", "withdraw_write"}
              => quota' = quota
            BY <1>2, QuotaChange DEF ClaimPoints
        <3>2. CASE attempts' = attempts /\ quota' # quota
            BY <1>2, <2>2, <3>2, QuotaChange, PromiseSlotStep, PromiseStutter
        <3>3. CASE /\ job[r] \in Jobs /\ pc[r] \in ClaimPoints
                   /\ \E t \in Tokens : ClaimedAfresh(r, t)
            BY <2>2, <3>1, <3>3, PromiseClaimStep
        <3>4. CASE /\ job[r] \in Jobs /\ token[r] \in Tokens
                   /\ \/ pc[r] = "quota_state" /\ Moved(r, "created", "quota_reserved")
                      \/ pc[r] = "mark_unknown" /\ Moved(r, "quota_reserved", "submission_unknown")
                      \/ pc[r] = "submitted_write" /\ Moved(r, "submission_unknown", "submitted")
                      \/ pc[r] = "withdraw_write" /\ \E from \in {"created", "quota_reserved"} :
                                                        Moved(r, from, "released")
            BY <2>2, <3>1, <3>4, PromiseMoveStep, PromiseStutter
        <3> QED
            BY <1>1, <1>2, <2>2, <3>2, <3>3, <3>4, DocChange
    <2> QED
        BY <1>2, <2>1, <2>2, ClicksAdded
<1>3. CASE \A r \in Runs : ~NodeStep(r)
    BY <1>1, <1>3, OutsideKeeps
<1> QED
    BY <1>2, <1>3

(* The submit boundary implements its promise. *)
THEOREM PromiseKept == Spec => KeepsPromise
<1>1. Init => Promise!Init
    BY PromiseInit
<1>2. TypeOK /\ LiveInv /\ [Next]_vars => [Promise!Next]_(Promise!vars)
    BY PromiseNext
<1> QED
    BY <1>1, <1>2, LiveInvariant, PTL DEF Spec, KeepsPromise, Promise!Spec

-----------------------------------------------------------------------------
(* Only what LinkedIn confirmed is recorded as submitted. *)

LEMMA ConfirmedGrows ==
    ASSUME [Next]_vars PROVE confirmed \subseteq confirmed'
<1>1. ASSUME NEW r \in Runs, NodeStep(r) PROVE confirmed \subseteq confirmed'
    <2>1. CASE ClaimInsert(r) \/ ClaimReclaim(r)
        BY <2>1 DEF ClaimInsert, ClaimReclaim, ClaimWrite
    <2> QED
        BY <1>1, <2>1
           DEF NodeStep, Preflight, FormEnds, AlreadyApplied, SubmittedTextSeen, ReachSubmit,
               ClaimRead, ClaimReread, ReserveRead, ReserveWrite, ReserveReread, ReserveFinal,
               ReserveCheck, ReserveQuotaState, MarkUnknown, PreClickUpdate, Click,
               AwaitConfirmation, SubmittedRead, SubmittedWrite, CommitRead, CommitWrite,
               MarkSeen, RefundRead, RefundWrite, WithdrawRead, WithdrawWrite, history
<1> QED
    BY <1>1 DEF Next, StartRun, SelectJob, Crash, Resume, Midnight, vars, history

(* The record of the application is written by a run that saw the confirmation. *)
LEMMA ComesConfirmed ==
    ASSUME TypeOK, NEW r \in Runs, NodeStep(r), pc'[r] \in ConfirmedPoints,
           pc[r] \in ConfirmedPoints => token[r] \in confirmed,
           confirmed \subseteq confirmed'
    PROVE  token'[r] \in confirmed'
<1>1. pc'[r] \notin {"idle", "stopped", "reserve_read"}
    BY DEF ConfirmedPoints
<1>2. ~Returns(r) /\ ~\E t \in Tokens : Claimed(r, t)
    BY <1>1, ReturnMoves, ClaimedMoves DEF Returns
<1>3. ASSUME NEW points, GoesOn(r, points), points \cap ConfirmedPoints = {} PROVE FALSE
    BY <1>3, GoesOnMoves
<1>4. pc[r] \in ClickedPoints /\ GoesOn(r, ClickedPoints)
    <2>1. /\ {"form"} \cap ConfirmedPoints = {} /\ {"claim_read"} \cap ConfirmedPoints = {}
          /\ ClaimPoints \cap ConfirmedPoints = {}
          /\ {"reserve_write", "withdraw_read"} \cap ConfirmedPoints = {}
          /\ {"quota_state", "reserve_reread", "reserve_final"} \cap ConfirmedPoints = {}
          /\ {"quota_state", "withdraw_read"} \cap ConfirmedPoints = {}
          /\ {"mark_unknown", "refund_read"} \cap ConfirmedPoints = {}
          /\ {"click", "refund_read"} \cap ConfirmedPoints = {}
          /\ {"confirm"} \cap ConfirmedPoints = {}
          /\ {"refund_write", "withdraw_read"} \cap ConfirmedPoints = {}
          /\ {"withdraw_read"} \cap ConfirmedPoints = {}
          /\ {"refund_read", "withdraw_read", "withdraw_write"} \cap ConfirmedPoints = {}
        BY DEF ConfirmedPoints, ClaimPoints
    <2> QED
        BY <1>2, <1>3, <2>1, NodeMoves
<1>5. token'[r] = token[r]
    BY <1>4, GoesOnMoves
<1>6. CASE pc[r] \in ConfirmedPoints
    BY <1>5, <1>6
<1>7. CASE AwaitConfirmation(r)
    <2>1. ~Pause(r)
        BY <1>1 DEF Pause, Return, Goto, TypeOK, LocalsOK
    <2> QED
        BY <1>5, <1>7, <2>1 DEF AwaitConfirmation
<1>8. pc[r] = "confirm" => AwaitConfirmation(r)
    BY DEF NodeStep, Preflight, FormEnds, AlreadyApplied, SubmittedTextSeen, ReachSubmit, ClaimRead,
           ClaimInsert, ClaimReclaim, ClaimReread, ReserveRead, ReserveWrite, ReserveReread,
           ReserveFinal, ReserveQuotaState, MarkUnknown, Click, SubmittedRead, SubmittedWrite,
           CommitRead, CommitWrite, MarkSeen, RefundRead, RefundWrite, WithdrawRead, WithdrawWrite
<1> QED
    BY <1>4, <1>6, <1>7, <1>8 DEF ClickedPoints, ConfirmedPoints

LEMMA SubmittedConfirmedStep ==
    ASSUME TypeOK, LiveInv, ConfirmInv, NEW r \in Runs, NodeStep(r), confirmed \subseteq confirmed'
    PROVE  SubmittedIsConfirmed'
<1> SUFFICES ASSUME NEW j \in Jobs, attempts'[j].status = "submitted"
             PROVE  /\ attempts'[j].token \in confirmed'
                    /\ \E c \in clicked' : c.job = j /\ c.token = attempts'[j].token
    BY DEF SubmittedIsConfirmed
<1>1. clicked \subseteq clicked'
    BY ClicksAdded
<1>2. CASE attempts[j].status = "submitted"
    <2>1. attempts'[j] = attempts[j]
        BY <1>2, DocsKept
    <2> QED
        BY <1>1, <1>2, <2>1 DEF ConfirmInv, SubmittedIsConfirmed
<1>3. CASE attempts[j].status # "submitted"
    <2>1. {"created", "quota_reserved", "submission_unknown", "submitted", "released"}
              = A!AttemptStatus
        BY DEF A!AttemptStatus
    <2>2. ASSUME NEW from \in A!AttemptStatus, NEW to \in A!AttemptStatus, Moved(r, from, to),
                 job[r] \in Jobs, token[r] \in Tokens
          PROVE  j = job[r] /\ to = "submitted" /\ attempts'[j].token = token[r]
        <3>1. /\ attempts'[job[r]] = [status |-> to, token |-> token[r], run |-> attempts[job[r]].run]
              /\ \A i \in Jobs : i # job[r] => attempts'[i] = attempts[i]
            BY <2>2, MovedDoc
        <3>2. j = job[r]
            BY <1>3, <3>1
        <3> QED
            BY <3>1, <3>2
    <2>3. \A t \in Tokens : ~(job[r] \in Jobs /\ ClaimedAfresh(r, t))
        BY <1>3 DEF ClaimedAfresh, A!FreshClaim, TypeOK, StoreOK
    <2>4. pc[r] = "submitted_write" /\ j = job[r] /\ attempts'[j].token = token[r]
        BY <1>3, <2>1, <2>2, <2>3, DocChange
    <2>5. token[r] \in confirmed
        BY <2>4 DEF ConfirmInv, ConfirmedPoints
    <2>6. \E c \in clicked : c.job = j /\ c.token = token[r]
        BY <2>4 DEF LiveInv, FlowInv, FlowOK, ClickedPoints
    <2> QED
        BY <1>1, <2>4, <2>5, <2>6
<1> QED
    BY <1>2, <1>3

LEMMA ConfirmInit == Init => ConfirmInv
BY DEF Init, ConfirmInv, SubmittedIsConfirmed, ConfirmedPoints, A!AbsentAttempt

LEMMA ConfirmNext == TypeOK /\ LiveInv /\ ConfirmInv /\ [Next]_vars => ConfirmInv'
<1> SUFFICES ASSUME TypeOK, LiveInv, ConfirmInv, [Next]_vars PROVE ConfirmInv'
    OBVIOUS
<1>1. confirmed \subseteq confirmed'
    BY ConfirmedGrows
<1>2. ASSUME NEW r \in Runs, NodeStep(r) PROVE ConfirmInv'
    <2>1. SubmittedIsConfirmed'
        BY <1>1, <1>2, SubmittedConfirmedStep
    <2>2. ASSUME NEW s \in Runs, pc'[s] \in ConfirmedPoints PROVE token'[s] \in confirmed'
        <3>1. pc[s] \in ConfirmedPoints => token[s] \in confirmed
            BY DEF ConfirmInv
        <3>2. CASE s = r
            BY <1>1, <1>2, <2>2, <3>1, <3>2, ComesConfirmed
        <3>3. CASE s # r
            BY <1>1, <1>2, <2>2, <3>1, <3>3, NodeFrame DEF OnlyMoves
        <3> QED
            BY <3>2, <3>3
    <2> QED
        BY <2>1, <2>2 DEF ConfirmInv
<1>3. ASSUME NEW r \in Runs,
             StartRun(r) \/ (\E j \in Jobs : SelectJob(r, j)) \/ Crash(r) \/ Resume(r)
      PROVE  ConfirmInv'
    <2>1. /\ UNCHANGED <<attempts, clicked, confirmed>> /\ OnlyMoves(r)
          /\ pc'[r] \in {"idle", "preflight", "down"}
        BY <1>3, OutsideMoves
           DEF StartRun, SelectJob, Crash, Resume, store, history, Goto, TypeOK, LocalsOK
    <2> QED
        BY <2>1 DEF ConfirmInv, SubmittedIsConfirmed, OnlyMoves, ConfirmedPoints
<1>4. CASE Midnight \/ UNCHANGED vars
    BY <1>4 DEF Midnight, vars, store, locals, history, ConfirmInv, SubmittedIsConfirmed
<1> QED
    BY <1>2, <1>3, <1>4 DEF Next

-----------------------------------------------------------------------------
(* The results. *)

(* The day's counters equal the reservations they stand for, and no day and no
   session holds more of them than its cap, with every run racing for the last
   slot and updates applied without being acknowledged. *)
THEOREM CapsKept == Spec => []CapsAreKept
<1>1. CountersInv => CapsAreKept
    BY DEF CountersInv
<1> QED
    BY <1>1, SlotInvariant, PTL

(* The slot of an attempt that clicked is never given back. *)
THEOREM ClickedSlotKept == Spec => []ClickKeepsItsSlot
BY SettleInvariant, PTL

(* A claim that no run works on was left behind by a crash, a lost answer or a
   failed give-back. *)
THEOREM NoClaimOrphaned == Spec => []NoOrphanClaim
<1>1. SettleInv => NoOrphanClaim
    BY DEF SettleInv
<1> QED
    BY <1>1, SettleInvariant, PTL

(* A committed slot stands for a submitted application; a reserved slot of today
   that nobody accounts for was left behind by a crash or a failed give-back. *)
THEOREM SlotsMatch == Spec => []SlotsMatchAttempts
<1>1. SettleInv => SlotsMatchAttempts
    BY DEF SettleInv
<1> QED
    BY <1>1, SettleInvariant, PTL

(* The run that clicked never files the job as an ordinary skip or failure. *)
THEOREM ClicksAccounted == Spec => []ClickIsAccountedFor
<1>1. LiveInv => ClickIsAccountedFor
    BY DEF LiveInv, FlowInv
<1> QED
    BY <1>1, LiveInvariant, PTL

(* submitted is recorded only for an application that was clicked and that
   LinkedIn confirmed to the attempt on record. *)
THEOREM SubmittedConfirmed == Spec => []SubmittedIsConfirmed
<1>1. Init => ConfirmInv
    BY ConfirmInit
<1>2. TypeOK /\ LiveInv /\ ConfirmInv /\ [Next]_vars => ConfirmInv'
    BY ConfirmNext
<1>3. ConfirmInv => SubmittedIsConfirmed
    BY DEF ConfirmInv
<1> QED
    BY <1>1, <1>2, <1>3, LiveInvariant, PTL DEF Spec

==============================================================================
