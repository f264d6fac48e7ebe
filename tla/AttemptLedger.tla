---------------------------- MODULE AttemptLedger ----------------------------
(***************************************************************************)
(* The document that application_attempts keeps for one job: its lifecycle *)
(* (models/application.py) and the single-document reads and conditional   *)
(* updates AttemptRepository performs on it (utils/attempts.py).  MongoDB  *)
(* executes each of them atomically, so each is one operator here; the     *)
(* callers in LiveSubmission interleave them.                              *)
(***************************************************************************)
CONSTANTS
    Tokens,   \* attempt_id values, one allocated by every begin_attempt
    Runs      \* run_id values

AttemptStatus ==
    {"created", "quota_reserved", "submission_unknown", "submitted", "released"}

(* No document exists for the job. *)
AbsentAttempt == [status |-> "absent"]

Attempt == [status: AttemptStatus, token: Tokens, run: Runs]

AttemptDoc == Attempt \cup {AbsentAttempt}

(* LEGAL_ATTEMPT_TRANSITIONS; inserting the document is the step from absent. *)
LegalAttemptTransitions ==
    [ absent             |-> {"created"},
      created            |-> {"quota_reserved", "released"},
      quota_reserved     |-> {"submission_unknown", "released"},
      submission_unknown |-> {"submitted"},
      submitted          |-> {},
      released           |-> {"created"} ]

LegalStep(from, to) ==
    from = to \/ to \in LegalAttemptTransitions[from]

(* preflight_check, can_proceed: the job is free for a new attempt. *)
CanProceed(doc) == doc.status \in {"absent", "released"}

(* Mutation: the conditional update forgets the status filter. *)
BugReclaimAny(doc) == doc.status # "absent"

(* The filter under which begin_attempt claims a released job afresh. *)
MayReclaim(doc) == doc.status = "released"

(* The document a successful claim leaves behind. *)
FreshClaim(t, r) == [status |-> "created", token |-> t, run |-> r]

(* The filter of a conditional update by the holder of token t. *)
Matches(doc, t, statuses) == doc.status \in statuses /\ doc.token = t

MayReserve(doc, t)  == Matches(doc, t, {"created"})
MayMarkUnknown(doc, t) == Matches(doc, t, {"quota_reserved"})
MaySubmit(doc, t)   == Matches(doc, t, {"submission_unknown"})

(* Mutation: an attempt that may have been submitted is released, too. *)
BugReleaseUnknown(doc, t) ==
    Matches(doc, t, {"created", "quota_reserved", "submission_unknown"})

MayRelease(doc, t)  == Matches(doc, t, {"created", "quota_reserved"})

MoveTo(doc, status) == [doc EXCEPT !.status = status]
=============================================================================
