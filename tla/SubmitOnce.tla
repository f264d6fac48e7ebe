------------------------------ MODULE SubmitOnce ------------------------------
(***************************************************************************)
(* What the submit boundary promises, with no runs, no program counters and *)
(* no failed calls: a job is held by one attempt at a time; an attempt is  *)
(* armed only after it was charged to a day within that day's budget; an   *)
(* armed attempt is clicked at most once, while charged; a clicked attempt *)
(* is neither given back nor refunded; only a clicked one is confirmed.    *)
(***************************************************************************)
EXTENDS Integers, FiniteSets

CONSTANTS Jobs, Tokens, Days, Budget, NoToken

VARIABLES
    phase,    \* of a job: free, held, armed (Submit may be clicked), done
    holder,   \* the attempt that holds the job
    charged,  \* the attempts charged to a day
    clicks    \* the clicks on Submit a job received

vars == <<phase, holder, charged, clicks>>

Phases == {"free", "held", "armed", "done"}

TypeOK ==
    /\ phase \in [Jobs -> Phases]
    /\ holder \in [Jobs -> Tokens \cup {NoToken}]
    /\ charged \in [Days -> SUBSET Tokens]
    /\ clicks \in [Jobs -> 0..1]

Init ==
    /\ phase = [j \in Jobs |-> "free"]
    /\ holder = [j \in Jobs |-> NoToken]
    /\ charged = [d \in Days |-> {}]
    /\ clicks = [j \in Jobs |-> 0]

IsCharged(t) == \E d \in Days : t \in charged[d]

(* An attempt is new: it holds nothing and was never charged. *)
Claim(j, t) ==
    /\ phase[j] = "free"
    /\ ~IsCharged(t)
    /\ \A i \in Jobs : holder[i] # t
    /\ phase' = [phase EXCEPT ![j] = "held"]
    /\ holder' = [holder EXCEPT ![j] = t]
    /\ UNCHANGED <<charged, clicks>>

GiveBack(j) ==
    /\ phase[j] = "held"
    /\ phase' = [phase EXCEPT ![j] = "free"]
    /\ holder' = [holder EXCEPT ![j] = NoToken]
    /\ UNCHANGED <<charged, clicks>>

Charge(d, t) ==
    /\ \E j \in Jobs : phase[j] = "held" /\ holder[j] = t
    /\ ~IsCharged(t)
    /\ Cardinality(charged[d]) < Budget
    /\ charged' = [charged EXCEPT ![d] = @ \cup {t}]
    /\ UNCHANGED <<phase, holder, clicks>>

Refund(d, t) ==
    /\ t \in charged[d]
    /\ \A j \in Jobs : holder[j] = t => clicks[j] = 0
    /\ charged' = [charged EXCEPT ![d] = @ \ {t}]
    /\ UNCHANGED <<phase, holder, clicks>>

Arm(j) ==
    /\ phase[j] = "held"
    /\ IsCharged(holder[j])
    /\ phase' = [phase EXCEPT ![j] = "armed"]
    /\ UNCHANGED <<holder, charged, clicks>>

Click(j) ==
    /\ phase[j] = "armed"
    /\ IsCharged(holder[j])
    /\ clicks[j] = 0
    /\ clicks' = [clicks EXCEPT ![j] = 1]
    /\ UNCHANGED <<phase, holder, charged>>

Confirm(j) ==
    /\ phase[j] = "armed"
    /\ clicks[j] = 1
    /\ phase' = [phase EXCEPT ![j] = "done"]
    /\ UNCHANGED <<holder, charged, clicks>>

Next ==
    \/ \E j \in Jobs : \/ \E t \in Tokens : Claim(j, t)
                       \/ GiveBack(j) \/ Arm(j) \/ Click(j) \/ Confirm(j)
    \/ \E d \in Days, t \in Tokens : Charge(d, t) \/ Refund(d, t)

Spec == Init /\ [][Next]_vars
=============================================================================
