---------------------------- MODULE LiveInvariant ----------------------------
(***************************************************************************)
(* The inductive invariants of LiveSubmission.  Its safety properties are  *)
(* not inductive: whether a click, a refund or a report is allowed depends *)
(* on whose attempt is on record, on which day holds its slot, and on how  *)
(* far the run got.  What has to hold of those is stated here, part by     *)
(* part; LiveSubmission_proofs shows that every step keeps it and that the *)
(* properties follow.                                                      *)
(***************************************************************************)
EXTENDS LiveSubmission

-----------------------------------------------------------------------------
(* The attempt: who may click. *)

(* The document of job j is an attempt under id t. *)
OnRecord(j, t) == A!Matches(attempts[j], t, A!AttemptStatus)

(* Every attempt id in use was drawn: a new one is nobody's. *)
FreshTokens ==
    /\ \A r \in Runs : token[r] # NoToken => token[r] \in used
    /\ \A j \in Jobs, t \in Tokens : OnRecord(j, t) => t \in used

(* An attempt id is held by one run at a time. *)
OneHolder == \A r, s \in Runs : token[r] # NoToken /\ token[r] = token[s] => r = s

(* The document under a run's id is that of the run's own job. *)
HolderOnRecord ==
    \A r \in Runs, j \in Jobs :
        token[r] # NoToken /\ OnRecord(j, token[r]) => j = job[r] /\ attempts[j].run = r

(* A run about to click has recorded its own attempt as submission_unknown, and
   the job was not clicked before. *)
RecordedBeforeClick ==
    \A r \in Runs :
        pc[r] = "click" =>
            /\ A!Matches(attempts[job[r]], token[r], {"submission_unknown"})
            /\ clicks[job[r]] = 0

(* The clicks of a job are remembered. *)
ClicksCounted ==
    \A j \in Jobs : clicks[j] > 0 => \E c \in clicked : c.job = j

ClickInv ==
    /\ FreshTokens
    /\ OneHolder
    /\ HolderOnRecord
    /\ RecordedBeforeClick
    /\ ClicksCounted
    /\ SubmitAtMostOnce
    /\ ClickIsOnRecord

-----------------------------------------------------------------------------
(* The quota: what the counters count, and whose the slots are. *)

(* The slot of attempt t in the document of day d. *)
SlotOf(d, t) == quota[d].slots[t]

(* A slot is written only under an id that was drawn. *)
FreshSlots == \A d \in Days, t \in Tokens : SlotOf(d, t) # Q!NoSlot => t \in used

(* The counters equal what they count; the set of ids drawn is finite, so that a
   slot more is one more charged. *)
CountersInv ==
    /\ IsFiniteSet(used)
    /\ FreshSlots
    /\ CapsAreKept

(* No slot lies ahead of today, and no run works on a day ahead. *)
NotAhead ==
    /\ \A d \in Days, t \in Tokens : d > today => SlotOf(d, t) = Q!NoSlot
    /\ \A r \in Runs : day[r] <= today

(* Before the conditional increment the attempt has no slot; after it, at most
   one on the day in use; from quota_state to the click the run's own slot is
   charged; a refund meant for today's slot is sent to today; after the refund
   no slot of today is left, unless a failure was noted. *)
SlotOK(r) ==
    /\ pc[r] \in {"reserve_read", "reserve_write"} =>
           \A d \in Days : SlotOf(d, token[r]) = Q!NoSlot
    /\ pc[r] \in {"reserve_reread", "reserve_final"} =>
           \A d \in Days : d # day[r] => SlotOf(d, token[r]) = Q!NoSlot
    /\ pc[r] \in {"quota_state", "mark_unknown", "click"} =>
           \E d \in Days : Q!OwnsCharged(quota[d], token[r], r)
    /\ pc[r] = "refund_write" /\ SlotOf(today, token[r]).status = "reserved" => day[r] = today
    /\ pc[r] \in {"withdraw_read", "withdraw_write"}
           /\ SlotOf(today, token[r]).status = "reserved" => token[r] \in stranded
    /\ token[r] # NoToken =>
           \A d \in Days : SlotOf(d, token[r]) # Q!NoSlot => SlotOf(d, token[r]).run = r

SlotInv == NotAhead /\ \A r \in Runs : SlotOK(r)

-----------------------------------------------------------------------------
(* The node: what a run has done with the job in hand. *)

(* What execution_node can report for a job. *)
Reports == Outcomes \ {"none"}

(* The cleanup knows the outcome it will report. *)
EndingKnown == \A r \in Runs : pc[r] \in CleanupPoints => ending[r] \in Reports

(* Where a run has not clicked the job in hand. *)
UnclickedPoints == {"form", "click"} \cup ClaimPoints \cup PreClickPoints \cup CleanupPoints

(* Before the click is awaited the run has not clicked this job, afterwards it
   has; the secondary writes follow the record; the quota is asked for with the
   claim on record; a run between jobs has none, and a job in hand has no
   outcome yet; a run that clicked a job it still works on holds the attempt it
   clicked with, or lost it in a crash; and a job it clicked stays in its hand
   until the outcome is reported. *)
FlowOK(r) ==
    /\ pc[r] \in UnclickedPoints => \A c \in clicked : ~(c.run = r /\ c.job = job[r])
    /\ pc[r] \in ClickedPoints =>
           \E c \in clicked : c.token = token[r] /\ c.job = job[r] /\ c.run = r
    /\ pc[r] \in {"commit_read", "commit_write", "mark_seen"} =>
           A!Matches(attempts[job[r]], token[r], {"submitted"})
    /\ pc[r] \in {"reserve_read", "reserve_write"} =>
           A!Matches(attempts[job[r]], token[r], {"created"})
    /\ pc[r] \in {"off", "idle", "stopped"} => job[r] = NoJob
    /\ job[r] \in Jobs => outcomes[r][job[r]] = "none"
    /\ \A c \in clicked : c.run = r /\ c.job = job[r] =>
           token[r] = c.token \/ c.token \in stranded
    /\ \A c \in clicked : c.run = r /\ outcomes[r][c.job] = "none" => job[r] = c.job

(* Every remembered click was counted. *)
ClicksSeen == \A c \in clicked : clicks[c.job] > 0

FlowInv ==
    /\ EndingKnown
    /\ \A r \in Runs : FlowOK(r)
    /\ ClicksSeen
    /\ ClickIsAccountedFor

-----------------------------------------------------------------------------
(* What is left behind, and what is confirmed. *)

(* The four together: each is inductive relative to the ones before it. *)
LiveInv == ClickInv /\ CountersInv /\ SlotInv /\ FlowInv

(* What a run leaves behind when it lets go of its attempt. *)
SettleInv == NoOrphanClaim /\ SlotsMatchAttempts

(* Where a run has seen the confirmation of its own click. *)
ConfirmedPoints ==
    {"submitted_read", "submitted_write", "commit_read", "commit_write", "mark_seen"}

(* The record of an application follows the confirmation. *)
ConfirmInv ==
    /\ \A r \in Runs : pc[r] \in ConfirmedPoints => token[r] \in confirmed
    /\ SubmittedIsConfirmed

=============================================================================
