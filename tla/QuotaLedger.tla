----------------------------- MODULE QuotaLedger -----------------------------
(***************************************************************************)
(* The document that application_quotas keeps for one UTC day, and the     *)
(* atomic conditional updates QuotaRepository performs on it               *)
(* (utils/attempts.py).  A day whose document does not exist yet and a day *)
(* whose document was just inserted by _ensure_day_doc answer every read   *)
(* and every filter alike, so both are EmptyDay.                           *)
(***************************************************************************)
EXTENDS Integers

CONSTANTS
    Tokens,      \* attempt_id values, the keys of the day's reservations
    Runs,        \* run_id values, the keys of the day's sessions
    DailyCap,    \* daily_application_cap
    SessionCap   \* max_applications

NoSlot == [status |-> "none"]

Slot == [status: {"reserved", "released", "committed"}, run: Runs] \cup {NoSlot}

DayDoc == [reserved:  Nat,              \* daily_reserved
           submitted: Nat,              \* daily_submitted
           sessions:  [Runs -> Nat],    \* sessions.<run>.reserved
           slots:     [Tokens -> Slot]] \* reservations.<attempt>

EmptyDay == [reserved  |-> 0,
             submitted |-> 0,
             sessions  |-> [r \in Runs |-> 0],
             slots     |-> [t \in Tokens |-> NoSlot]]

(* The reservation counts against the caps. *)
Charged(day, t) == day.slots[t].status \in {"reserved", "committed"}

CapReached(day, r) ==
    day.reserved >= DailyCap \/ day.sessions[r] >= SessionCap

OwnsCharged(day, t, r) == Charged(day, t) /\ day.slots[t].run = r

(* Mutation: the caps are tested by the first read only. *)
BugChargeUncapped(day, t, r) == ~Charged(day, t)

(* The filter of the conditional update that reserves a slot. *)
MayCharge(day, t, r) == ~CapReached(day, r) /\ ~Charged(day, t)

Charge(day, t, r) ==
    [day EXCEPT !.reserved = @ + 1,
                !.sessions[r] = @ + 1,
                !.slots[t] = [status |-> "reserved", run |-> r]]

MayRefund(day, t, r) ==
    /\ day.slots[t] = [status |-> "reserved", run |-> r]
    /\ day.reserved > 0
    /\ day.sessions[r] > 0

(* Mutation: the session's counter is forgotten. *)
BugRefundDayOnly(day, t, r) ==
    [day EXCEPT !.reserved = @ - 1, !.slots[t] = [status |-> "released", run |-> r]]

Refund(day, t, r) ==
    [day EXCEPT !.reserved = @ - 1,
                !.sessions[r] = @ - 1,
                !.slots[t] = [status |-> "released", run |-> r]]

MayCommit(day, t, r) == day.slots[t] = [status |-> "reserved", run |-> r]

Commit(day, t, r) ==
    [day EXCEPT !.submitted = @ + 1, !.slots[t] = [status |-> "committed", run |-> r]]

(* get_daily_consumed *)
Consumed(day) == day.reserved
=============================================================================
