-------------------------------- MODULE FormFlow --------------------------------
(***************************************************************************)
(* execution_node (nodes/execution.py) from the job page to the final      *)
(* submit button: the Easy Apply form, its questions and the guards.       *)
(* LiveSubmission takes over at the claim.  One action is the code between *)
(* two awaits that matter: LinkedIn may re-render the form or raise a      *)
(* barrier, a saved fact may expire, a request may fail and the process    *)
(* may die between any two.  A control is the index of its record in the   *)
(* form; a value remembers which control the operator was asked about.     *)
(***************************************************************************)
EXTENDS Integers, Sequences, FiniteSets

CONSTANTS
    Forms,         \* the forms LinkedIn may show: sequences of control records
    FactOf,        \* classify_candidate_fact: from a label to its fact, for this job
    NoFact,        \* sensitive.unstored
    Memories,      \* what the candidate facts may hold when the job comes up
    MaxSteps,      \* max_steps: 10 in the code
    MaxRenders,    \* bound: re-renders
    MaxTroubles    \* bound: what goes wrong: requests, inspections, re-renders, crashes

Kinds == {"text", "select", "radio", "group", "combo", "consent", "box"}

Labels == DOMAIN FactOf
Facts == {FactOf[l] : l \in Labels} \ {NoFact}

(* label is what the code reads, profile: the profile answers it, skip: is_auto_skip_field *)
Controls == [kind: Kinds, label: Labels, page: Nat \ {0}, required: BOOLEAN,
             profile: BOOLEAN, skip: BOOLEAN, hidden: BOOLEAN]

(* get_auto_fill_value reads the label alone: radios of one question are all in the       *)
(* profile, or none is.                                                                   *)
ASSUME FormsAssumption ==
    \A f \in Forms :
        /\ f \in Seq(Controls) /\ f # <<>>
        /\ \A c, d \in {e \in DOMAIN f : f[e].kind = "radio"} :
              f[c].label = f[d].label => f[c].profile = f[d].profile
ASSUME BoundsAssumption ==
    /\ MaxSteps \in Nat \ {0}
    /\ MaxRenders \in Nat /\ MaxTroubles \in Nat

(* "no" is the answer no list of choices offers and no checkbox is checked for.  *)
(* of is the control the operator was shown, 0 for an answer given in another job. *)
Answers == {"yes", "no"}
Nothing == [about |-> "nothing", of |-> 0, says |-> "nothing"]
Given(c, l, a) == [about |-> l, of |-> c, says |-> a]
FromProfile == Given(0, "profile", "yes")
FromPolicy == Given(0, "policy", "yes")

(* A fact is the value that was given and whether it is still valid. *)
NoAnswer == [given |-> Nothing, fresh |-> FALSE]

(* A fact is stored under the identity of the question it was given to. *)
ASSUME MemoriesAssumption ==
    \A known \in Memories : known \in [Facts -> [given : {Nothing} \cup
                [about : Labels, of : {0}, says : Answers], fresh : BOOLEAN]]
        /\ \A f \in Facts : known[f].fresh =>
                known[f].given # Nothing /\ FactOf[known[f].given.about] = f

(* Where a barrier shows: in the status of the response, as an element known by its       *)
(* selector, or anywhere else (the url, the title, an alert).                             *)
Barriers == {"none", "status", "element", "elsewhere"}

(* The passes over one page, in order, and the controls each looks at. *)
Passes == <<{"text"}, {"radio"}, {"group"}, {"combo"}, {"text", "select"}, {"consent", "box"}>>
EarlyText == 1

VARIABLES
    \* LinkedIn
    form, page, value, hidden,
    before,        \* the values in the elements the node holds if they were replaced
    render,        \* how often the form was re-rendered
    barrier,
    \* settings
    autoAccept,    \* auto_accept_application_terms
    \* the node
    pc, step, pass,
    batch,         \* the controls of the pass still to be handled, first to last
    taken,         \* the render its element handles belong to
    exchanges,     \* len(form_qa_exchanges), the ordinal of a question
    answer,        \* what is about to be put in a control
    remembers,     \* identity is not None and identity.remember
    outcome,
    \* MongoDB and Telegram
    facts,         \* the candidate facts
    prompts,       \* the status of each correlation key asked under
    \* history
    clicked,       \* the final submit button was clicked
    disturbed,     \* controls re-rendered since their page was validated
    skipped,       \* the question of the operator's last word on this job, 0 if not a /skip
    excused,       \* no guard had a chance to see the barrier that is up
    troubles

linkedin == <<form, page, value, hidden, before, render, barrier>>
handling == <<pass, batch, taken>>
asking == <<exchanges, answer, remembers>>
stores == <<facts, prompts>>
history == <<clicked, disturbed, skipped, excused>>
vars == <<linkedin, autoAccept, pc, step, handling, asking, outcome, stores, history, troubles>>

Ids == DOMAIN form
OnPage == {c \in Ids : form[c].page = page}
OnLastPage == \A c \in Ids : form[c].page <= page
Visible(c) == c \notin hidden
Label(c) == form[c].label

Trouble == troubles < MaxTroubles /\ troubles' = troubles + 1
Fault == Trouble
NoFault == UNCHANGED troubles

Goto(point) == pc' = point /\ UNCHANGED outcome
End(o) == pc' = "done" /\ outcome' = o
Break == Goto("broken")       \* an exception the page code does not handle

-----------------------------------------------------------------------------
Init ==
    /\ form \in Forms /\ page = 1
    /\ value = [c \in Ids |-> Nothing] /\ before = value
    /\ hidden = {c \in Ids : form[c].hidden}
    /\ render = 0 /\ barrier = "none"
    /\ autoAccept \in BOOLEAN
    /\ pc = "goto" /\ step = 0 /\ pass = EarlyText /\ batch = {} /\ taken = 0
    /\ exchanges = 0 /\ answer = Nothing /\ remembers = FALSE /\ outcome = "none"
    /\ facts \in Memories /\ prompts = [k \in {} |-> "none"]
    /\ clicked = FALSE /\ disturbed = {} /\ skipped = 0 /\ excused = FALSE
    /\ troubles = 0

-----------------------------------------------------------------------------
(* Guards: inspect_page_account_safety and guard_page_account_safety *)

GuardPoints == {"landed", "opening", "opened", "top", "leaving", "moved", "submitting"}

AfterGuard == [landed |-> "find", opening |-> "apply", opened |-> "top", top |-> "container",
               leaving |-> "click", moved |-> "again", submitting |-> "boundary"]

(* What the guards lead to: no guard stands between these points and a click. *)
ClickPoints == {"apply", "click", "boundary", "submit"}

(* Mutation: an inspection that fails is taken for a page without a barrier. *)
BugDetected(raising) == raising = "none" /\ barrier # "none"

(* The layer whose inspection raises, or none.  An exception of the selectors is passed   *)
(* over, any other is taken for a barrier; the status is that of the navigation only.     *)
Detected(raising) ==
    \/ barrier = "elsewhere" \/ (barrier = "status" /\ pc = "landed")
    \/ barrier = "element" /\ raising # "element"
    \/ raising \in {"title", "alert"}

Inspect(raising) == (raising = "none" /\ NoFault) \/ (raising # "none" /\ Fault)

Guard ==
    /\ pc \in GuardPoints
    /\ \E raising \in {"none", "title", "element", "alert"} :
         /\ Inspect(raising)
         /\ IF Detected(raising)
            THEN End("paused") /\ UNCHANGED excused
            ELSE Goto(AfterGuard[pc]) /\ excused' = (barrier = "element")
    /\ UNCHANGED <<linkedin, autoAccept, step, handling, asking, stores, clicked, disturbed,
                   skipped>>

(* except Exception, before the claim: one more inspection decides. *)
Recover ==
    /\ pc = "broken"
    /\ \E raising \in {"none", "title", "element", "alert"} :
         Inspect(raising) /\ End(IF Detected(raising) THEN "paused" ELSE "failed")
    /\ UNCHANGED <<linkedin, autoAccept, step, handling, asking, stores, history>>

-----------------------------------------------------------------------------
(* The job page *)

Navigate ==
    /\ pc = "goto"
    /\ \/ Goto("landed") /\ NoFault /\ barrier' \in {barrier, "status"}
       \/ Break /\ Fault /\ UNCHANGED barrier
    /\ UNCHANGED <<form, page, value, hidden, before, render, autoAccept, step, handling, asking,
                   stores, history>>

FindEasyApply ==
    /\ pc = "find"
    /\ Goto("opening") \/ \E o \in {"already_applied", "no_easy_apply"} : End(o)
    /\ UNCHANGED <<linkedin, autoAccept, step, handling, asking, stores, history, troubles>>

ClickEasyApply ==
    /\ pc = "apply"
    /\ (Goto("opened") /\ NoFault) \/ (Break /\ Fault)
    /\ UNCHANGED <<linkedin, autoAccept, step, handling, asking, stores, history>>

(* resolve_easy_apply_container; without one the text of the page decides. *)
FindContainer ==
    /\ pc = "container"
    /\ \/ Goto("scan") /\ pass' = EarlyText
       \/ /\ \E o \in {"already_applied", "believed_submitted", "review"} : End(o)
          /\ UNCHANGED pass
    /\ UNCHANGED <<linkedin, autoAccept, step, batch, taken, asking, stores, history, troubles>>

-----------------------------------------------------------------------------
(* The passes over a page *)

(* The filters each pass applies when it collects its elements. *)
Collected(c) ==
    /\ c \in OnPage /\ form[c].kind \in Passes[pass]
    /\ form[c].kind \in {"radio", "group"} \/ pass = EarlyText => value[c] = Nothing
    /\ form[c].kind = "group" \/ pass = EarlyText => Visible(c)

Scan ==
    /\ pc = "scan"
    /\ batch' = {c \in Ids : Collected(c)}
    /\ taken' = render /\ before' = value
    /\ Goto("item")
    /\ UNCHANGED <<form, page, value, hidden, render, barrier, autoAccept, step, pass, asking,
                   stores, history, troubles>>

Current == CHOOSE c \in batch : \A d \in batch : c <= d
Control == form[Current]

Stale == taken # render

(* An element the page has replaced still shows what it held. *)
Shows(c) == IF Stale THEN before[c] ELSE value[c]

PassedOver ==
    \/ pass \notin {EarlyText} /\ Control.kind \notin {"radio", "group"} /\ Shows(Current) # Nothing
    \/ Control.kind \in {"text", "select"} /\ Control.skip

FilledIn ==
    \/ Control.kind \in {"text", "select", "radio"} /\ Control.profile
    \/ Control.kind = "consent" /\ autoAccept

EndOfPass ==
    /\ pc = "item" /\ batch = {}
    /\ IF pass < Len(Passes) THEN pass' = pass + 1 /\ Goto("scan")
                             ELSE pass' = pass /\ Goto("navigate")
    /\ UNCHANGED <<linkedin, autoAccept, step, batch, taken, asking, stores, history, troubles>>

PassOver ==
    /\ pc = "item" /\ batch # {} /\ PassedOver
    /\ batch' = batch \ {Current}
    /\ Goto("item")
    /\ UNCHANGED <<linkedin, autoAccept, step, pass, taken, asking, stores, history, troubles>>

FillIn ==
    /\ pc = "item" /\ batch # {} /\ ~PassedOver /\ FilledIn
    /\ answer' = IF Control.kind = "consent" THEN FromPolicy ELSE FromProfile
    /\ Goto("put")
    /\ UNCHANGED <<linkedin, autoAccept, step, handling, exchanges, remembers, stores, history, troubles>>

(* A combobox is opened first: its options are the choices that are offered. *)
Open ==
    /\ pc = "item" /\ batch # {} /\ ~PassedOver /\ ~FilledIn
    /\ \/ Control.kind = "combo" /\ (Stale \/ ~Visible(Current)) /\ Break
       \/ Control.kind = "combo" /\ End("review")
       \/ (Control.kind = "combo" => ~Stale /\ Visible(Current)) /\ Goto("ask")
    /\ UNCHANGED <<linkedin, autoAccept, step, handling, asking, stores, history, troubles>>

-----------------------------------------------------------------------------
(* ask_application_question and ask_user_for_question *)

Fact == FactOf[Label(Current)]

Offers(a) == Control.kind \in {"text", "consent", "box"} \/ a = "yes"

Key == <<exchanges, Label(Current)>>
Status == IF Key \in DOMAIN prompts THEN prompts[Key] ELSE "none"
SetPrompt(s) == prompts' = [k \in DOMAIN prompts \cup {Key} |-> IF k = Key THEN s ELSE prompts[k]]

Remembered ==
    Fact # NoFact /\ facts[Fact].fresh /\ Offers(facts[Fact].given.says)

(* The summary of the job goes out before the first question; then the saved facts. *)
Ask ==
    /\ pc = "ask"
    /\ \/ /\ Remembered /\ NoFault
          /\ answer' = facts[Fact].given
          /\ exchanges' = exchanges + 1
          /\ Goto("put") /\ UNCHANGED remembers
       \/ /\ ~Remembered /\ NoFault
          /\ remembers' = (Fact # NoFact)
          /\ Goto("prompt") /\ UNCHANGED <<answer, exchanges>>
       \/ /\ Fault                                      \* the lookup fails
          /\ remembers' = FALSE
          /\ Goto("prompt") /\ UNCHANGED <<answer, exchanges>>
       \/ /\ exchanges = 0 /\ Fault                     \* the summary cannot be sent
          /\ Break /\ UNCHANGED asking
    /\ UNCHANGED <<linkedin, autoAccept, step, handling, stores, history>>

(* Mutation: the stored reply of a consumed prompt is used again. *)
BugPrompt ==
    /\ pc = "prompt"
    /\ IF Status \in {"none", "sent"}
       THEN SetPrompt("sent") /\ Goto("wait") /\ UNCHANGED answer
       ELSE UNCHANGED prompts /\ Goto("put") /\ answer' = Given(Current, Label(Current), "yes")
    /\ UNCHANGED <<linkedin, autoAccept, step, handling, exchanges, remembers, facts, history,
                   troubles>>

Prompt ==
    /\ pc = "prompt"
    /\ \/ Status \in {"none", "sent"} /\ SetPrompt("sent") /\ Goto("wait") /\ NoFault
       \/ Status = "none" /\ SetPrompt("unclear") /\ End("review") /\ Fault
       \/ Status \in {"consumed", "unclear"} /\ UNCHANGED prompts /\ End("review") /\ NoFault
       \/ Status = "timed_out" /\ UNCHANGED prompts /\ End("skipped") /\ NoFault
    /\ UNCHANGED <<linkedin, autoAccept, step, handling, asking, facts, history>>

(* A reply, by a button or in words, with which the prompt is consumed. *)
Reply(a) ==
    /\ pc = "wait"
    /\ SetPrompt("consumed") /\ skipped' = 0
    /\ answer' = Given(Current, Label(Current), a)
    /\ exchanges' = exchanges + 1
    /\ Goto(IF remembers THEN "keep" ELSE "put")
    /\ UNCHANGED <<linkedin, autoAccept, step, handling, remembers, facts, clicked, disturbed,
                   excused, troubles>>

(* UserSkippedJob.  Only the /skip of a question that is shown without an answer counts,   *)
(* and not if it was asked because its saved fact could not be read.                      *)
Skip ==
    /\ pc = "wait"
    /\ SetPrompt("consumed")
    /\ skipped' = IF Visible(Current) /\ value[Current] = Nothing /\ remembers = (Fact # NoFact)
                  THEN Current ELSE 0
    /\ End("skipped")
    /\ UNCHANGED <<linkedin, autoAccept, step, handling, asking, facts, clicked, disturbed,
                   excused, troubles>>

(* Mutation: the wait for a reply has no limit. *)
BugTimeOut ==
    /\ pc = "wait"
    /\ UNCHANGED prompts /\ End("review") /\ Fault
    /\ UNCHANGED <<linkedin, autoAccept, step, handling, asking, facts, history>>

TimeOut ==
    /\ pc = "wait"
    /\ \/ SetPrompt("timed_out") /\ End("skipped") /\ NoFault
       \/ UNCHANGED prompts /\ End("review") /\ Fault  \* FormQaInfrastructureError
    /\ UNCHANGED <<linkedin, autoAccept, step, handling, asking, facts, history>>

(* CandidateFactsRepository.remember; the answer is used even if it cannot be saved. *)
Keep ==
    /\ pc = "keep"
    /\ \/ facts' = [facts EXCEPT ![Fact] = [given |-> answer, fresh |-> TRUE]] /\ NoFault
       \/ UNCHANGED facts /\ Fault
    /\ Goto("put")
    /\ UNCHANGED <<linkedin, autoAccept, step, handling, asking, prompts, history>>

-----------------------------------------------------------------------------
(* Putting an answer in a control *)

Forget == answer' = Nothing /\ remembers' = FALSE    \* the locals are dead

Declined == ~Offers(answer.says) \/ (Control.kind \in {"consent", "box"} /\ answer.says # "yes")

AfterDecline ==
    CASE Control.kind = "consent" -> End("skipped") /\ UNCHANGED batch
      [] Control.kind = "box" /\ ~Control.required -> Goto("item") /\ batch' = batch \ {Current}
      [] OTHER -> End("review") /\ UNCHANGED batch

Decline ==
    /\ pc = "put" /\ Declined /\ AfterDecline /\ Forget
    /\ UNCHANGED <<linkedin, autoAccept, step, pass, taken, exchanges, stores, history, troubles>>

(* Mutation: the first group that is visible is taken, whatever its label. *)
BugSameQuestion == {c \in OnPage : Visible(c) /\ form[c].kind = Control.kind}

(* select_live_radio_option finds the question again by its label, the others use the element. *)
SameQuestion ==
    {c \in OnPage : Visible(c) /\ form[c].kind = Control.kind /\ Label(c) = Label(Current)}

Targets ==
    IF Control.kind \in {"radio", "group"}
    THEN {c \in SameQuestion : \A d \in SameQuestion : c <= d}
    ELSE {c \in {Current} : ~Stale /\ Visible(c)}

Put ==
    /\ pc = "put" /\ ~Declined
    /\ \/ /\ \E c \in Targets : value' = [value EXCEPT ![c] = answer]
          /\ batch' = batch \ {Current} /\ Goto("item") /\ NoFault
       \/ /\ (Targets = {} /\ NoFault) \/ (Targets # {} /\ Fault)
          /\ Break /\ UNCHANGED <<value, batch>>
    /\ Forget
    /\ UNCHANGED <<form, page, hidden, before, render, barrier, autoAccept, step, pass, taken,
                   exchanges, stores, history>>

-----------------------------------------------------------------------------
(* Leaving a page *)

(* Mutation: the validation passes over the choice groups. *)
BugUnresolved ==
    {c \in OnPage : /\ form[c].required /\ Visible(c) /\ value[c] = Nothing
                    /\ form[c].kind \notin {"radio", "group"}}

Unresolved == {c \in OnPage : form[c].required /\ Visible(c) /\ value[c] = Nothing}

(* upload_resume_if_needed, find_navigation_button, validate_visible_required_controls *)
Validate ==
    /\ pc = "navigate"
    /\ taken' = render
    /\ \/ /\ Unresolved = {}
          /\ Goto(IF OnLastPage THEN "submitting" ELSE "leaving")
          /\ disturbed' = disturbed \ OnPage
       \/ End("review") /\ UNCHANGED disturbed     \* unresolved, not inspectable or no button
    /\ UNCHANGED <<linkedin, autoAccept, step, pass, batch, asking, stores, clicked, skipped,
                   excused, troubles>>

(* LinkedIn may stay on the page it shows, and a form may never advance. *)
Advance ==
    /\ pc = "click"
    /\ \/ ~Stale /\ Goto("moved") /\ page' \in {page, page + 1} /\ NoFault
       \/ Stale /\ Break /\ UNCHANGED page /\ NoFault
       \/ ~Stale /\ Break /\ UNCHANGED page /\ Fault
    /\ UNCHANGED <<form, value, hidden, before, render, barrier, autoAccept, step, handling,
                   asking, stores, history>>

(* Mutation: a press is not counted; a form that advances comes to its last page anyhow. *)
BugNextStep ==
    /\ pc = "again"
    /\ Goto("top")
    /\ UNCHANGED <<linkedin, autoAccept, step, handling, asking, stores, history, troubles>>

(* for step in range(max_steps) *)
NextStep ==
    /\ pc = "again"
    /\ IF step + 1 < MaxSteps THEN step' = step + 1 /\ Goto("top")
                              ELSE step' = step /\ End("failed")
    /\ UNCHANGED <<linkedin, autoAccept, handling, asking, stores, history, troubles>>

(* The dry run stops here; a disabled button and a refused claim are LiveSubmission's. *)
Boundary ==
    /\ pc = "boundary"
    /\ \/ \E o \in {"dry_run", "refused"} : End(o)
       \/ ~Stale /\ ~clicked /\ Goto("submit")
    /\ UNCHANGED <<linkedin, autoAccept, step, handling, asking, stores, history, troubles>>

ClickSubmit ==
    /\ pc = "submit"
    /\ clicked' = TRUE
    /\ \E o \in {"submitted", "paused"} : End(o)
    /\ UNCHANGED <<linkedin, autoAccept, step, handling, asking, stores, disturbed, skipped,
                   excused, troubles>>

(* The checkpoint of the node's update. *)
Save ==
    /\ pc = "done"
    /\ Goto("saved")
    /\ UNCHANGED <<linkedin, autoAccept, step, handling, asking, stores, history, troubles>>

-----------------------------------------------------------------------------
(* What the node does not control *)

InForm == pc \notin {"goto", "landed", "find", "opening", "apply", "done", "saved"}

RaiseBarrier(b) ==
    /\ pc \notin {"goto", "done", "saved"} /\ barrier = "none"
    /\ barrier' = b
    /\ excused' = (pc \in ClickPoints)
    /\ UNCHANGED <<form, page, value, hidden, before, render, autoAccept, pc, step, handling,
                   asking, outcome, stores, clicked, disturbed, skipped, troubles>>

(* A question that is no longer shown need not be asked again. *)
LoseSkip == skipped' = IF skipped \in hidden' THEN 0 ELSE skipped

(* A control is replaced: what it held is lost, or it is hidden or shown. *)
Rerender(c) ==
    /\ InForm /\ render < MaxRenders /\ Trouble
    /\ render' = render + 1
    /\ before' = value
    /\ \/ value' = [value EXCEPT ![c] = Nothing] /\ UNCHANGED hidden
       \/ hidden' = (IF c \in hidden THEN hidden \ {c} ELSE hidden \cup {c}) /\ UNCHANGED value
    /\ disturbed' = disturbed \cup {c} /\ LoseSkip
    /\ UNCHANGED <<form, page, barrier, autoAccept, pc, step, handling, asking, outcome, stores,
                   clicked, excused>>

(* The process dies and the run is resumed, perhaps much later: the node starts over,    *)
(* LinkedIn may have kept what was filled in, the saved facts may have expired, and a    *)
(* prompt on its way out may be one nobody can tell about.                               *)
Crash ==
    /\ pc # "saved" /\ Trouble
    /\ page' = 1 /\ hidden' = {c \in Ids : form[c].hidden}
    /\ value' \in {value, [c \in Ids |-> Nothing]} /\ before' = value'
    /\ barrier' \in {barrier, "none"} /\ excused' = FALSE
    /\ pc' = "goto" /\ step' = 0 /\ pass' = EarlyText /\ batch' = {} /\ taken' = render
    /\ exchanges' = 0 /\ answer' = Nothing /\ remembers' = FALSE /\ outcome' = "none"
    /\ UNCHANGED prompts \/ (pc = "prompt" /\ Status = "none" /\ SetPrompt("unclear"))
    /\ disturbed' = {}
    /\ facts' \in {facts, [f \in Facts |-> [facts[f] EXCEPT !.fresh = FALSE]]}
    /\ LoseSkip
    /\ UNCHANGED <<form, render, autoAccept, clicked>>

-----------------------------------------------------------------------------
NodeStep ==
    \/ Guard \/ Recover \/ Navigate \/ FindEasyApply \/ ClickEasyApply \/ FindContainer
    \/ Scan \/ EndOfPass \/ PassOver \/ FillIn \/ Open
    \/ Ask \/ Prompt \/ TimeOut \/ Keep \/ Decline \/ Put
    \/ Validate \/ Advance \/ NextStep \/ Boundary \/ ClickSubmit \/ Save

Operator == Skip \/ \E a \in Answers : Reply(a)

World ==
    \/ \E b \in Barriers \ {"none", "status"} : RaiseBarrier(b)
    \/ \E c \in OnPage : Rerender(c)
    \/ Crash

Next == NodeStep \/ Operator \/ World

Spec == Init /\ [][Next]_vars

(* The event loop runs the node; a question it waits for times out. *)
FairSpec == Spec /\ WF_vars(NodeStep)

-----------------------------------------------------------------------------
(* Properties *)

(* No control holds an answer that is not its own: it comes from the profile or the       *)
(* policy for a control they may answer, or the operator gave it to this question or to   *)
(* one with the same candidate fact; consent is never taken for granted.                  *)
AnswersFit ==
    \A c \in Ids :
        \/ value[c] = Nothing
        \/ value[c] = FromProfile /\ form[c].profile
        \/ value[c] = FromPolicy /\ form[c].kind = "consent" /\ autoAccept
        \/ /\ value[c].about \in Labels
           /\ value[c].about # Label(c) =>
                 FactOf[value[c].about] = FactOf[Label(c)] /\ FactOf[Label(c)] # NoFact
           /\ form[c].kind \in {"consent", "box"} => value[c].says = "yes"

(* An application leaves the agent complete: when the submit button may be clicked every  *)
(* required control the form shows is filled, unless LinkedIn replaced it since its page  *)
(* was validated.                                                                         *)
SubmitIsComplete ==
    pc \in {"boundary", "submit"} =>
        \A c \in Ids \ disturbed :
            form[c].required /\ Visible(c) => value[c] # Nothing

(* execution_node clicks no Easy Apply, Next, Review or Submit on a page that shows a     *)
(* barrier, unless the barrier came up after the guard of that click or no look at the    *)
(* page could have told.  The clicks on controls, which fill a page under the guard of    *)
(* its step, are not looked at.                                                           *)
Clicks == pc \in {"apply", "click", "submit"} /\ pc' \notin {pc, "goto", "broken"}
NoClickBehindBarrier == [][Clicks => barrier = "none" \/ excused]_vars

(* A /skip is the end of the application unless the operator answers another question of  *)
(* it later, also when the process dies before the outcome is saved and the form comes up *)
(* again with what was filled in, as long as LinkedIn shows the question it was given to. *)
SkipIsFinal == skipped # 0 => pc # "submit"

(* Every application attempt ends with an outcome: no form, re-render or silence of the   *)
(* operator keeps execution_node for ever.                                                *)
FormEnds == <>(pc = "saved")

(* candidate_facts.py:92: repeated wording is remembered "without guessing that two       *)
(* semantically different questions are equivalent".                                      *)
AnswersAreTheirOwn ==
    \A c \in Ids : value[c].about \in Labels /\ value[c].of # 0 => value[c].of = c
=============================================================================
