---------------------------- MODULE FormFlow_proofs ----------------------------
(***************************************************************************)
(* Proofs about FormFlow: what holds of every form, every set of facts and *)
(* every bound.  FormInv is the inductive invariant, a conjunction of      *)
(* named parts; each part is preserved with the parts before it at hand.   *)
(***************************************************************************)
EXTENDS FormFlow, WellFoundedInduction, TLAPS

-----------------------------------------------------------------------------
(* The inductive invariant *)

Points == {"goto", "landed", "find", "opening", "apply", "opened", "top", "container",
           "scan", "item", "ask", "prompt", "wait", "keep", "put", "navigate", "leaving",
           "click", "moved", "again", "submitting", "boundary", "submit", "broken", "done",
           "saved"}

(* Where the node handles a control of its pass. *)
AtControl == {"ask", "prompt", "wait", "keep", "put"}

(* Everything an answer may be. *)
AnswerSet == [about : Labels \cup {"profile", "policy"}, of : Nat, says : Answers]
             \cup {Nothing}

TypeOK ==
    /\ form \in Forms
    /\ page \in Nat /\ barrier \in Barriers
    /\ value \in [Ids -> AnswerSet]
    /\ pc \in Points
    /\ pass \in DOMAIN Passes
    /\ batch \subseteq Ids
    /\ exchanges \in Nat
    /\ answer \in AnswerSet
    /\ remembers \in BOOLEAN
    /\ facts \in [Facts -> [given : AnswerSet, fresh : BOOLEAN]]

(* A valid fact was given to a question of that fact. *)
FactsFit ==
    \A f \in Facts :
        facts[f].fresh => /\ facts[f].given \in AnswerSet \ {Nothing}
                          /\ facts[f].given.about \in Labels
                          /\ FactOf[facts[f].given.about] = f

(* An answer the operator gave to the question of control c or to its fact. *)
GivenFor(a, c) ==
    /\ a.about \in Labels
    /\ a.about # Label(c) => FactOf[a.about] = FactOf[Label(c)] /\ FactOf[Label(c)] # NoFact

(* An answer that may be put in control c. *)
MayHold(a, c) ==
    \/ a = FromProfile /\ form[c].profile
    \/ a = FromPolicy /\ form[c].kind = "consent" /\ autoAccept
    \/ GivenFor(a, c)

(* The answer in the hands of the node is one for the control it handles. *)
InHand ==
    /\ pc \in AtControl => batch # {}
    /\ pc \in {"prompt", "wait", "keep"} /\ remembers => Fact # NoFact
    /\ pc = "keep" => remembers /\ answer.about = Label(Current)
    /\ pc \in {"put", "keep"} => answer # Nothing /\ MayHold(answer, Current)
    /\ pc = "put" /\ answer = FromProfile => 
          GivenFor(answer, Current) \/ Control.kind \in {"text", "select", "radio"}

(* The pages behind the node, and the one it is leaving, are filled. *)
Behind == {"leaving", "click", "submitting", "boundary", "submit"}

Filled(c) == form[c].required /\ Visible(c) => value[c] # Nothing

PagesFilled ==
    /\ \A c \in Ids \ disturbed :
          form[c].page < page \/ (form[c].page = page /\ pc \in Behind) => Filled(c)
    /\ pc \in {"submitting", "boundary", "submit"} => OnLastPage

(* The status of a navigation is seen where it lands; a barrier that came up before the   *)
(* last guard is excused or was seen.                                                     *)
BarrierSeen ==
    /\ barrier = "status" => pc \in {"goto", "landed", "broken", "done", "saved"}
    /\ pc \in ClickPoints => barrier = "none" \/ excused

(* The pass that collects a control last: typed and native controls come twice. *)
PassOf == [text |-> 5, select |-> 5, radio |-> 2, group |-> 3, combo |-> 4, consent |-> 6,
           box |-> 6]

(* The node is at one of the passes over a page, and holds its elements. *)
Holding == {"item"} \cup AtControl
AtPass == {"scan"} \cup Holding

(* Nothing but the operator answers the question of control c. *)
KnownFor(c) ==
    LET f == FactOf[Label(c)] IN
    /\ f # NoFact /\ facts[f].fresh
    /\ form[c].kind \in {"text", "consent", "box"} \/ facts[f].given.says = "yes"
FilledInFor(c) ==
    \/ form[c].kind \in {"text", "select", "radio"} /\ form[c].profile
    \/ form[c].kind = "consent" /\ autoAccept
LeftOut(c) == form[c].kind \in {"text", "select"} /\ form[c].skip
OnlyAsked(c) == ~KnownFor(c) /\ ~FilledInFor(c) /\ ~LeftOut(c)

(* The node has not come past control c since it last started. *)
NotPast(c) ==
    /\ form[c].page >= page
    /\ pc \in AtPass /\ form[c].page = page =>
          pass <= PassOf[form[c].kind]
          /\ (pass = PassOf[form[c].kind] => pc = "scan" \/ c \in batch)
    /\ pc \in {"navigate"} \cup Behind => form[c].page > page

(* Where the node stands: the batch is of its page and pass, what it asks has no other    *)
(* answer, and what it puts without a word of the operator is from elsewhere.             *)
Asked ==
    /\ pc \in Holding =>
          \A c \in batch : form[c].page = page /\ form[c].kind \in Passes[pass]
    /\ pc \in {"ask", "prompt", "wait"} => ~FilledInFor(Current) /\ ~LeftOut(Current)
    /\ pc \in {"prompt", "wait"} /\ remembers => ~KnownFor(Current)
    /\ pc = "keep" => skipped = 0
    /\ pc = "put" /\ skipped # 0 => FilledInFor(Current) \/ KnownFor(Current)

(* The question that was skipped is before the node again, without an answer. *)
SkipStands ==
    skipped # 0 =>
        /\ skipped \in Ids /\ Visible(skipped) /\ value[skipped] = Nothing
        /\ pc \in Holding => before[skipped] = Nothing
        /\ OnlyAsked(skipped) /\ NotPast(skipped)

FormInv ==
    /\ TypeOK /\ FactsFit /\ InHand /\ AnswersFit
    /\ PagesFilled /\ BarrierSeen /\ Asked /\ SkipStands

-----------------------------------------------------------------------------
(* The controls of a form *)

(* A set of positions has a first one: what Current chooses exists. *)
LEMMA FirstExists ==
    ASSUME NEW T, T \subseteq Nat, T # {}
    PROVE  \E c \in T : \A d \in T : c <= d
<1> DEFINE Less == {d \in Nat \X Nat : d[1] < d[2]}
<1>1. IsWellFoundedOn(Less, Nat)
  BY NatLessThanWellFounded DEF OpToRel
<1>2. PICK c \in T : \A d \in T : ~ (<<d, c>> \in Less)
  BY <1>1, WFMin
<1>3. ASSUME NEW d \in T PROVE c <= d
  <2>1. <<d, c>> \in Nat \X Nat
    OBVIOUS
  <2>2. ~ (<<d, c>>[1] < <<d, c>>[2])
    BY <1>2, <2>1
  <2>3. QED
    BY <2>2
<1>4. QED
  BY <1>3

(* The records of a form of Forms. *)
LEMMA FormShape ==
    ASSUME form \in Forms
    PROVE  /\ Ids = 1..Len(form) /\ Len(form) \in Nat /\ Ids \subseteq Nat
           /\ \A c \in Ids : form[c] \in Controls
           /\ \A c, d \in Ids : form[c].kind = "radio" /\ form[d].kind = "radio"
                                /\ form[c].label = form[d].label
                                   => form[c].profile = form[d].profile
<1>1. form \in Seq(Controls)
  BY FormsAssumption
<1>2. QED
  BY <1>1, FormsAssumption DEF Ids

(* The control at hand is one of the pass. *)
LEMMA CurrentInBatch ==
    ASSUME TypeOK, batch # {}
    PROVE  Current \in batch /\ Current \in Ids
<1>1. batch \subseteq Nat
  BY FormShape DEF TypeOK
<1>2. QED
  BY <1>1, FirstExists DEF Current, TypeOK

(* Nothing in the code changes the form or the setting. *)
LEMMA FormIsFixed ==
    ASSUME [Next]_vars
    PROVE  form' = form /\ autoAccept' = autoAccept /\ Ids' = Ids
<1>1. form' = form /\ autoAccept' = autoAccept
  BY DEF Next, vars, linkedin, handling, asking, stores, history, NodeStep, Operator, World,
    Guard, Recover, Navigate, FindEasyApply, ClickEasyApply, FindContainer, Scan, EndOfPass,
    PassOver, FillIn, Open, Ask, Prompt, TimeOut, Keep, Decline, Put, Validate, Advance,
    NextStep, Boundary, ClickSubmit, Save, Skip, Reply, RaiseBarrier, Rerender, Crash
<1>2. QED
  BY <1>1 DEF Ids

-----------------------------------------------------------------------------
(* Types *)

LEMMA SixPasses == DOMAIN Passes = 1..6 /\ Len(Passes) = 6 /\ EarlyText \in DOMAIN Passes
  BY DEF Passes, EarlyText

LEMMA TypeInit == Init => TypeOK
<1> SUFFICES ASSUME Init PROVE TypeOK
  OBVIOUS
<1>1. facts \in [Facts -> [given : AnswerSet, fresh : BOOLEAN]]
  <2>1. {Nothing} \cup [about : Labels, of : {0}, says : Answers] \subseteq AnswerSet
    BY DEF AnswerSet
  <2>2. facts \in [Facts -> [given : {Nothing} \cup [about : Labels, of : {0}, says : Answers],
                            fresh : BOOLEAN]]
    BY MemoriesAssumption DEF Init
  <2>3. QED
    BY <2>1, <2>2
<1>2. value \in [Ids -> AnswerSet]
  BY DEF Init, AnswerSet
<1>3. QED
  BY <1>1, <1>2, SixPasses DEF Init, TypeOK, Points, AnswerSet, Barriers

(* The answers the node may take in hand. *)
LEMMA AnswersTyped ==
    ASSUME TypeOK
    PROVE  /\ FromProfile \in AnswerSet /\ FromPolicy \in AnswerSet /\ Nothing \in AnswerSet
           /\ FromProfile # Nothing /\ FromPolicy # Nothing /\ FromProfile # FromPolicy
           /\ \A c \in Ids : Label(c) \in Labels
           /\ \A c \in Ids, a \in Answers :
                 /\ Given(c, Label(c), a) \in AnswerSet /\ Given(c, Label(c), a) # Nothing
                 /\ Given(c, Label(c), a).about = Label(c)
<1>1. \A c \in Ids : c \in Nat /\ Label(c) \in Labels
  BY FormShape DEF TypeOK, Label, Controls
<1>2. QED
  BY <1>1 DEF FromProfile, FromPolicy, Nothing, Given, AnswerSet, Answers

LEMMA TypeStep ==
    ASSUME TypeOK, FactsFit, InHand, [Next]_vars
    PROVE  TypeOK'
<1> USE DEF linkedin, handling, asking, stores, history, Goto, End, Break, Points, Barriers
<1>1. form' = form /\ Ids' = Ids /\ form' \in Forms
  BY FormIsFixed DEF TypeOK
<1>2. CASE Guard
  BY <1>1, <1>2 DEF Guard, TypeOK, GuardPoints, AfterGuard
<1>3. CASE Recover \/ Navigate \/ FindEasyApply \/ ClickEasyApply \/ FindContainer
  BY <1>1, <1>3, SixPasses DEF Recover, Navigate, FindEasyApply, ClickEasyApply, FindContainer, TypeOK
<1>4. CASE Scan \/ PassOver \/ Open
  BY <1>1, <1>4 DEF Scan, PassOver, Open, TypeOK
<1>5. CASE EndOfPass
  BY <1>1, <1>5, SixPasses DEF EndOfPass, TypeOK
<1>6. CASE FillIn
  BY <1>1, <1>6, AnswersTyped DEF FillIn, TypeOK
<1>7. CASE Ask
  <2>1. Remembered => facts[Fact].given \in AnswerSet
    <3>1. Label(Current) \in Labels
      BY <1>7, CurrentInBatch, AnswersTyped DEF Ask, InHand, AtControl
    <3>2. Fact # NoFact => Fact \in Facts
      BY <3>1 DEF Fact, Facts
    <3>3. QED
      BY <3>2 DEF Remembered, FactsFit
  <2>2. answer' \in AnswerSet /\ remembers' \in BOOLEAN
    BY <1>7, <2>1 DEF Ask, TypeOK
  <2>3. exchanges' = exchanges + 1 \/ exchanges' = exchanges
    BY <1>7 DEF Ask
  <2>4. exchanges' \in Nat
    BY <2>3 DEF TypeOK
  <2>5. QED
    BY <1>1, <1>7, <2>2, <2>4 DEF Ask, TypeOK
<1>8. CASE Prompt \/ TimeOut \/ Skip
  BY <1>1, <1>8 DEF Prompt, TimeOut, Skip, TypeOK
<1>9. CASE Validate
  BY <1>1, <1>9 DEF Validate, TypeOK
<1>10. CASE NextStep
  BY <1>1, <1>10 DEF NextStep, TypeOK
<1>11. CASE Boundary \/ ClickSubmit \/ Save
  BY <1>1, <1>11 DEF Boundary, ClickSubmit, Save, TypeOK
<1>12. CASE \E a \in Answers : Reply(a)
  <2>1. PICK a \in Answers : Reply(a)
    BY <1>12
  <2>2. batch # {} /\ answer' = Given(Current, Label(Current), a) /\ exchanges' = exchanges + 1
    BY <2>1 DEF Reply, InHand, AtControl
  <2>3. answer' \in AnswerSet
    BY <2>2, AnswersTyped, CurrentInBatch
  <2>4. exchanges' \in Nat
    BY <2>2 DEF TypeOK
  <2>5. QED
    BY <1>1, <2>1, <2>3, <2>4 DEF Reply, TypeOK
<1>13. CASE Keep
  <2>1. [given |-> answer, fresh |-> TRUE] \in [given : AnswerSet, fresh : BOOLEAN]
    BY DEF TypeOK
  <2>2. facts' \in [Facts -> [given : AnswerSet, fresh : BOOLEAN]]
    BY <1>13, <2>1 DEF Keep, TypeOK
  <2>3. QED
    BY <1>1, <1>13, <2>2 DEF Keep, TypeOK
<1>14. CASE Decline
  BY <1>1, <1>14, AnswersTyped DEF Decline, AfterDecline, Forget, TypeOK
<1>15. CASE Put
  BY <1>1, <1>15, AnswersTyped DEF Put, Forget, TypeOK
<1>16. CASE Advance
  BY <1>1, <1>16 DEF Advance, TypeOK
<1>17. CASE \E b \in Barriers \ {"none", "status"} : RaiseBarrier(b)
  BY <1>1, <1>17 DEF RaiseBarrier, TypeOK
<1>18. CASE \E c \in OnPage : Rerender(c)
  BY <1>1, <1>18, AnswersTyped DEF Rerender, TypeOK
<1>19. CASE Crash
  <2>1. value' \in [Ids' -> AnswerSet]
    BY <1>1, <1>19, AnswersTyped DEF Crash, TypeOK
  <2>2. facts' \in [Facts -> [given : AnswerSet, fresh : BOOLEAN]]
    <3>1. \A f \in Facts : [facts[f] EXCEPT !.fresh = FALSE] \in
                              [given : AnswerSet, fresh : BOOLEAN]
      BY DEF TypeOK
    <3>2. facts' = facts \/ facts' = [f \in Facts |-> [facts[f] EXCEPT !.fresh = FALSE]]
      BY <1>19 DEF Crash
    <3>3. QED
      BY <3>1, <3>2 DEF TypeOK
  <2>3. QED
    BY <1>1, <1>19, <2>1, <2>2, AnswersTyped, SixPasses DEF Crash, TypeOK
<1>20. CASE UNCHANGED vars
  BY <1>1, <1>20 DEF vars, TypeOK
<1>21. QED
  BY <1>2, <1>3, <1>4, <1>5, <1>6, <1>7, <1>8, <1>9, <1>10, <1>11, <1>12, <1>13, <1>14, <1>15, <1>16, <1>17, <1>18,
     <1>19, <1>20 DEF Next, NodeStep, Operator, World

-----------------------------------------------------------------------------
(* The saved facts *)

LEMMA FactsInit == Init => FactsFit
<1> SUFFICES ASSUME Init, NEW f \in Facts, facts[f].fresh
             PROVE  /\ facts[f].given \in AnswerSet \ {Nothing}
                    /\ facts[f].given.about \in Labels
                    /\ FactOf[facts[f].given.about] = f
  BY DEF FactsFit
<1>1. facts \in Memories
  BY DEF Init
<1>2. facts[f].given # Nothing /\ FactOf[facts[f].given.about] = f
  BY <1>1, MemoriesAssumption
<1>3. facts[f].given \in {Nothing} \cup [about : Labels, of : {0}, says : Answers]
  BY <1>1, MemoriesAssumption
<1>4. facts[f].given \in [about : Labels, of : {0}, says : Answers]
  BY <1>2, <1>3
<1>5. QED
  BY <1>2, <1>4 DEF AnswerSet

(* Where a fact is at hand it is one that may be remembered. *)
LEMMA FactAtHand ==
    ASSUME TypeOK, InHand, pc \in AtControl
    PROVE  Label(Current) \in Labels /\ (Fact # NoFact => Fact \in Facts)
<1>1. Label(Current) \in Labels
  BY CurrentInBatch, AnswersTyped DEF InHand
<1>2. QED
  BY <1>1 DEF Fact, Facts

LEMMA FactsStep ==
    ASSUME TypeOK, FactsFit, InHand, [Next]_vars
    PROVE  FactsFit'
<1>1. CASE UNCHANGED facts
  BY <1>1 DEF FactsFit
<1>2. CASE Keep /\ facts' = [facts EXCEPT ![Fact] = [given |-> answer, fresh |-> TRUE]]
  <2>1. Fact # NoFact /\ answer.about = Label(Current) /\ answer # Nothing
    BY <1>2 DEF Keep, InHand
  <2>2. Fact \in Facts /\ Label(Current) \in Labels
    BY <1>2, <2>1, FactAtHand DEF Keep, AtControl
  <2>3. \A f \in Facts : facts'[f] = IF f = Fact THEN [given |-> answer, fresh |-> TRUE]
                                                 ELSE facts[f]
    BY <1>2 DEF TypeOK
  <2>4. facts'[Fact].given = answer
    BY <2>2, <2>3
  <2>5. \A f \in Facts \ {Fact} : facts'[f] = facts[f]
    BY <2>3
  <2>6. answer \in AnswerSet \ {Nothing} /\ FactOf[answer.about] = Fact
    BY <2>1 DEF TypeOK, Fact
  <2>7. QED
    BY <2>1, <2>2, <2>4, <2>5, <2>6 DEF FactsFit
<1>3. CASE facts' = [f \in Facts |-> [facts[f] EXCEPT !.fresh = FALSE]]
  BY <1>3 DEF FactsFit, TypeOK
<1>4. QED
  BY <1>1, <1>2, <1>3 DEF Next, vars, linkedin, handling, asking, stores, history, NodeStep,
    Operator, World, Guard, Recover, Navigate, FindEasyApply, ClickEasyApply, FindContainer,
    Scan, EndOfPass, PassOver, FillIn, Open, Ask, Prompt, TimeOut, Keep, Decline, Put,
    Validate, Advance, NextStep, Boundary, ClickSubmit, Save, Skip, Reply, RaiseBarrier,
    Rerender, Crash

-----------------------------------------------------------------------------
(* The barriers *)

LEMMA BarrierInit == Init => BarrierSeen
  BY DEF Init, BarrierSeen, ClickPoints

LEMMA BarrierStep ==
    ASSUME TypeOK, BarrierSeen, [Next]_vars
    PROVE  BarrierSeen'
<1> USE DEF BarrierSeen, ClickPoints, linkedin, history, Goto, End, Break
<1>1. CASE Guard
  <2>1. PICK raising \in {"none", "title", "element", "alert"} :
            IF Detected(raising)
            THEN pc' = "done"
            ELSE pc' = AfterGuard[pc] /\ excused' = (barrier = "element")
    BY <1>1 DEF Guard
  <2>2. barrier' = barrier /\ pc \in GuardPoints
    BY <1>1 DEF Guard
  <2>3. CASE Detected(raising)
    BY <2>1, <2>2, <2>3
  <2>4. CASE ~Detected(raising)
    <3>1. barrier \in {"none", "element"}
      BY <2>2, <2>4 DEF Detected, GuardPoints, TypeOK, Barriers
    <3>2. pc' = AfterGuard[pc] /\ excused' = (barrier = "element")
      BY <2>1, <2>4
    <3>3. QED
      BY <2>2, <3>1, <3>2
  <2>5. QED
    BY <2>3, <2>4
<1>2. CASE Recover \/ Navigate \/ FindEasyApply \/ ClickEasyApply \/ FindContainer
  BY <1>2 DEF Recover, Navigate, FindEasyApply, ClickEasyApply, FindContainer
<1>3. CASE Scan \/ EndOfPass \/ PassOver \/ FillIn \/ Open
  BY <1>3 DEF Scan, EndOfPass, PassOver, FillIn, Open
<1>4. CASE Ask \/ Prompt \/ TimeOut \/ Keep
  BY <1>4 DEF Ask, Prompt, TimeOut, Keep
<1>5. CASE Skip \/ \E a \in Answers : Reply(a)
  BY <1>5 DEF Skip, Reply
<1>6. CASE Decline \/ Put
  BY <1>6 DEF Decline, AfterDecline, Put
<1>7. CASE Validate \/ Advance \/ NextStep
  BY <1>7 DEF Validate, Advance, NextStep
<1>8. CASE Boundary \/ ClickSubmit \/ Save
  BY <1>8 DEF Boundary, ClickSubmit, Save
<1>9. CASE \E b \in Barriers \ {"none", "status"} : RaiseBarrier(b)
  BY <1>9 DEF RaiseBarrier
<1>10. CASE (\E c \in OnPage : Rerender(c)) \/ Crash
  BY <1>10 DEF Rerender, Crash
<1>11. CASE UNCHANGED vars
  BY <1>11 DEF vars
<1>12. QED
  BY <1>1, <1>2, <1>3, <1>4, <1>5, <1>6, <1>7, <1>8, <1>9, <1>10, <1>11
  DEF Next, NodeStep, Operator, World

-----------------------------------------------------------------------------
(* The pages that are done with *)

LEMMA PagesInit == Init => PagesFilled
<1> SUFFICES ASSUME Init PROVE PagesFilled
  OBVIOUS
<1>1. \A c \in Ids : form[c].page \in Nat \ {0}
  BY FormShape DEF Init, Controls
<1>2. QED
  BY <1>1 DEF Init, PagesFilled, Behind

(* What is filled stays filled where the node and LinkedIn leave the controls alone. *)
LEMMA PagesKept ==
    ASSUME TypeOK, PagesFilled, form' = form, page' = page, hidden' = hidden,
           disturbed \subseteq disturbed',
           \A c \in Ids \ disturbed' : value[c] # Nothing => value'[c] # Nothing,
           pc' \in Behind => pc \in Behind,
           pc' \in {"submitting", "boundary", "submit"} =>
               pc \in {"submitting", "boundary", "submit"}
    PROVE  PagesFilled'
  BY DEF PagesFilled, Filled, Visible, OnLastPage, Ids

LEMMA PagesStep ==
    ASSUME TypeOK, InHand, PagesFilled, [Next]_vars
    PROVE  PagesFilled'
<1> USE DEF linkedin, handling, asking, stores, history, Goto, End, Break, Behind
<1>1. form' = form /\ Ids' = Ids /\ \A c \in Ids : form[c].page \in Nat \ {0}
  BY FormIsFixed, FormShape DEF TypeOK, Controls
<1>2. CASE Guard
  <2>1. pc' = "done" \/ pc' = AfterGuard[pc]
    BY <1>2 DEF Guard
  <2>2. pc \in GuardPoints
    BY <1>2 DEF Guard
  <2>3. /\ pc' \in Behind => pc \in Behind
        /\ pc' \in {"submitting", "boundary", "submit"} =>
               pc \in {"submitting", "boundary", "submit"}
    BY <2>1, <2>2 DEF AfterGuard, GuardPoints
  <2>4. page' = page /\ hidden' = hidden /\ disturbed' = disturbed /\ value' = value
    BY <1>2 DEF Guard
  <2>5. QED
    BY <1>1, <2>3, <2>4, PagesKept
<1>3. CASE Recover \/ Navigate \/ FindEasyApply \/ ClickEasyApply \/ FindContainer
  BY <1>1, <1>3, PagesKept DEF Recover, Navigate, FindEasyApply, ClickEasyApply, FindContainer
<1>4. CASE Scan \/ EndOfPass \/ PassOver \/ FillIn \/ Open
  BY <1>1, <1>4, PagesKept DEF Scan, EndOfPass, PassOver, FillIn, Open
<1>5. CASE Ask \/ Prompt \/ TimeOut \/ Keep
  BY <1>1, <1>5, PagesKept DEF Ask, Prompt, TimeOut, Keep
<1>6. CASE Skip \/ \E a \in Answers : Reply(a)
  BY <1>1, <1>6, PagesKept DEF Skip, Reply
<1>7. CASE Decline
  BY <1>1, <1>7, PagesKept DEF Decline, AfterDecline
<1>8. CASE Put
  <2>1. answer # Nothing
    BY <1>8 DEF Put, InHand
  <2>2. \A c \in Ids : value'[c] = value[c] \/ value'[c] = answer
    BY <1>8 DEF Put, TypeOK
  <2>3. \A c \in Ids \ disturbed' : value[c] # Nothing => value'[c] # Nothing
    BY <2>1, <2>2
  <2>4. pc' \in {"item", "broken"} /\ page' = page /\ hidden' = hidden /\ disturbed' = disturbed
    BY <1>8 DEF Put
  <2>5. QED
    BY <1>1, <2>3, <2>4, PagesKept
<1>9. CASE Validate
  <2>1. CASE pc' = "done" /\ disturbed' = disturbed
    BY <1>1, <1>9, <2>1, PagesKept DEF Validate
  <2>2. CASE /\ Unresolved = {} /\ disturbed' = disturbed \ OnPage
             /\ pc' = IF OnLastPage THEN "submitting" ELSE "leaving"
    <3>1. page' = page /\ value' = value /\ hidden' = hidden
      BY <1>9 DEF Validate
    <3>2. ASSUME NEW c \in Ids \ disturbed', form[c].page <= page
          PROVE  Filled(c)
      <4>1. CASE form[c].page = page
        BY <2>2, <4>1 DEF Unresolved, OnPage, Filled
      <4>2. CASE form[c].page < page
        <5>1. c \notin OnPage
          BY <1>1, <4>2 DEF OnPage, TypeOK
        <5>2. c \in Ids \ disturbed
          BY <2>2, <5>1
        <5>3. QED
          BY <4>2, <5>2 DEF PagesFilled
      <4>3. QED
        BY <1>1, <3>2, <4>1, <4>2 DEF TypeOK
    <3>3. \A c \in Ids \ disturbed' :
             form[c].page < page \/ form[c].page = page => Filled(c)
      BY <1>1, <3>2 DEF TypeOK
    <3>4. \A c \in Ids : Filled(c)' = Filled(c)
      BY <1>1, <3>1 DEF Filled, Visible
    <3>5. pc' \in {"submitting", "boundary", "submit"} => OnLastPage'
      BY <1>1, <2>2, <3>1 DEF OnLastPage
    <3>6. QED
      BY <1>1, <3>1, <3>3, <3>4, <3>5 DEF PagesFilled
  <2>3. QED
    BY <1>9, <2>1, <2>2 DEF Validate
<1>10. CASE Advance
  <2>1. /\ pc = "click" /\ pc' \in {"moved", "broken"} /\ page' \in {page, page + 1}
        /\ value' = value /\ hidden' = hidden /\ disturbed' = disturbed
    BY <1>10 DEF Advance
  <2>2. \A c \in Ids \ disturbed : form[c].page < page + 1 => Filled(c)
    BY <1>1, <2>1 DEF PagesFilled, TypeOK
  <2>3. \A c \in Ids : Filled(c)' = Filled(c)
    BY <1>1, <2>1 DEF Filled, Visible
  <2>4. \A c \in Ids \ disturbed' : form[c].page < page' => Filled(c)'
    BY <1>1, <2>1, <2>2, <2>3 DEF TypeOK
  <2>5. QED
    BY <1>1, <2>1, <2>4 DEF PagesFilled
<1>11. CASE NextStep \/ Boundary \/ ClickSubmit \/ Save
  BY <1>1, <1>11, PagesKept DEF NextStep, Boundary, ClickSubmit, Save
<1>12. CASE \E b \in Barriers \ {"none", "status"} : RaiseBarrier(b)
  BY <1>1, <1>12, PagesKept DEF RaiseBarrier
<1>13. CASE \E c \in OnPage : Rerender(c)
  <2>1. PICK d \in OnPage : Rerender(d)
    BY <1>13
  <2>2. page' = page /\ pc' = pc /\ disturbed' = disturbed \cup {d}
    BY <2>1 DEF Rerender
  <2>3. \A c \in Ids \ {d} : value'[c] = value[c] /\ (c \in hidden' <=> c \in hidden)
    BY <2>1 DEF Rerender, TypeOK
  <2>4. \A c \in Ids \ disturbed' : c \in Ids \ disturbed /\ Filled(c)' = Filled(c)
    BY <1>1, <2>2, <2>3 DEF Filled, Visible
  <2>5. OnLastPage' = OnLastPage
    BY <1>1, <2>2 DEF OnLastPage
  <2>6. QED
    BY <1>1, <2>2, <2>4, <2>5 DEF PagesFilled
<1>14. CASE Crash
  <2>1. page' = 1 /\ pc' = "goto"
    BY <1>14 DEF Crash
  <2>2. \A c \in Ids : ~ (form[c].page < 1)
    BY <1>1
  <2>3. QED
    BY <1>1, <2>1, <2>2 DEF PagesFilled
<1>15. CASE UNCHANGED vars
  BY <1>1, <1>15, PagesKept DEF vars
<1>16. QED
  BY <1>2, <1>3, <1>4, <1>5, <1>6, <1>7, <1>8, <1>9, <1>10, <1>11, <1>12, <1>13, <1>14, <1>15
  DEF Next, NodeStep, Operator, World

-----------------------------------------------------------------------------
(* The answer in hand *)

LEMMA InHandInit == Init => InHand
  BY DEF Init, InHand, AtControl

(* Where the node does not move on, what it holds stays what it was. *)
LEMMA InHandKept ==
    ASSUME InHand, form' = form, autoAccept' = autoAccept, batch' = batch, pc' = pc,
           answer' = answer, remembers' = remembers
    PROVE  InHand'
<1>1. Current' = Current /\ Fact' = Fact /\ Control' = Control /\ Label(Current)' = Label(Current)
  BY DEF Current, Fact, Control, Label
<1>2. MayHold(answer, Current)' = MayHold(answer, Current)
      /\ GivenFor(answer, Current)' = GivenFor(answer, Current)
  BY <1>1 DEF MayHold, GivenFor, Label
<1>3. QED
  BY <1>1, <1>2 DEF InHand

LEMMA InHandStep ==
    ASSUME TypeOK, FactsFit, InHand, [Next]_vars
    PROVE  InHand'
<1> USE DEF linkedin, handling, asking, stores, history, Goto, End, Break
<1>1. form' = form /\ autoAccept' = autoAccept
  BY FormIsFixed
<1>2. ASSUME pc' \notin AtControl PROVE InHand'
  BY <1>2 DEF InHand, AtControl
<1>3. CASE Guard \/ Recover \/ Navigate \/ FindEasyApply \/ ClickEasyApply \/ FindContainer
  <2>1. pc' \notin AtControl
    BY <1>3 DEF Guard, Recover, Navigate, FindEasyApply, ClickEasyApply, FindContainer,
       AtControl, AfterGuard, GuardPoints
  <2>2. QED
    BY <1>2, <2>1
<1>4. CASE Scan \/ EndOfPass \/ PassOver
  BY <1>2, <1>4 DEF Scan, EndOfPass, PassOver, AtControl
<1>5. CASE FillIn
  <2>1. /\ batch # {} /\ batch' = batch /\ pc' = "put" /\ FilledIn
        /\ answer' = IF Control.kind = "consent" THEN FromPolicy ELSE FromProfile
    BY <1>5 DEF FillIn
  <2>2. Current' = Current /\ Control' = Control
    BY <1>1, <2>1 DEF Current, Control
  <2>3. answer' # Nothing
    BY <2>1, AnswersTyped
  <2>4. CASE Control.kind = "consent"
    <3>1. autoAccept /\ answer' = FromPolicy
      BY <2>1, <2>4 DEF FilledIn
    <3>2. MayHold(answer, Current)'
      BY <1>1, <2>2, <2>4, <3>1 DEF MayHold, Control, FromPolicy
    <3>3. answer' # FromProfile'
      BY <3>1, AnswersTyped DEF FromProfile
    <3>4. QED
      BY <2>1, <2>3, <3>2, <3>3 DEF InHand, AtControl
  <2>5. CASE Control.kind # "consent"
    <3>1. Control.profile /\ Control.kind \in {"text", "select", "radio"} /\ answer' = FromProfile
      BY <2>1, <2>5 DEF FilledIn
    <3>2. MayHold(answer, Current)'
      BY <1>1, <2>2, <3>1 DEF MayHold, Control, FromProfile
    <3>3. QED
      BY <2>1, <2>2, <2>3, <3>1, <3>2 DEF InHand, AtControl
  <2>6. QED
    BY <2>4, <2>5
<1>6. CASE Open
  BY <1>2, <1>6 DEF Open, InHand, AtControl
<1>7. CASE Ask
  <2>1. batch # {} /\ batch' = batch /\ Current' = Current /\ Fact' = Fact
    BY <1>1, <1>7 DEF Ask, InHand, AtControl, Current, Fact, Label
  <2>2. CASE Remembered /\ answer' = facts[Fact].given /\ pc' = "put"
    <3>1. Fact # NoFact /\ Fact \in Facts /\ facts[Fact].fresh
      BY <1>7, <2>2, FactAtHand DEF Ask, Remembered, AtControl
    <3>2. answer' # Nothing /\ answer'.about \in Labels /\ FactOf[answer'.about] = Fact
      BY <2>2, <3>1 DEF FactsFit
    <3>3. GivenFor(answer, Current)'
      BY <1>1, <2>1, <3>1, <3>2 DEF GivenFor, Fact, Label, Labels
    <3>4. QED
      BY <2>1, <2>2, <3>2, <3>3 DEF InHand, MayHold, AtControl, Nothing
  <2>3. CASE pc' = "prompt" /\ (remembers' => Fact # NoFact)
    BY <2>1, <2>3 DEF InHand
  <2>4. CASE pc' = "broken"
    BY <1>2, <2>4 DEF AtControl
  <2>5. QED
    BY <1>7, <2>2, <2>3, <2>4 DEF Ask
<1>8. CASE Prompt
  <2>1. batch # {} /\ batch' = batch /\ Fact' = Fact /\ remembers' = remembers
    BY <1>1, <1>8 DEF Prompt, InHand, AtControl, Fact, Current, Label
  <2>2. CASE pc' = "wait"
    BY <1>8, <2>1, <2>2 DEF Prompt, InHand
  <2>3. CASE pc' = "done"
    BY <1>2, <2>3 DEF AtControl
  <2>4. QED
    BY <1>8, <2>2, <2>3 DEF Prompt
<1>9. CASE TimeOut \/ Skip
  BY <1>2, <1>9 DEF TimeOut, Skip, AtControl
<1>10. CASE \E a \in Answers : Reply(a)
  <2>1. PICK a \in Answers : Reply(a)
    BY <1>10
  <2>2. /\ batch # {} /\ batch' = batch /\ remembers' = remembers
        /\ answer' = Given(Current, Label(Current), a)
        /\ pc' = IF remembers THEN "keep" ELSE "put"
        /\ remembers => Fact # NoFact
    BY <2>1 DEF Reply, InHand, AtControl
  <2>3. Current' = Current /\ Fact' = Fact /\ Label(Current)' = Label(Current)
    BY <1>1, <2>2 DEF Current, Fact, Label
  <2>4. Current \in Ids /\ Label(Current) \in Labels
    BY <2>2, CurrentInBatch, AnswersTyped
  <2>5. answer' # Nothing /\ answer'.about = Label(Current)
    BY <2>2, <2>4, AnswersTyped
  <2>6. GivenFor(answer, Current)'
    BY <2>3, <2>4, <2>5 DEF GivenFor, Labels
  <2>7. QED
    BY <2>2, <2>3, <2>5, <2>6 DEF InHand, MayHold, Nothing
<1>11. CASE Keep
  <2>1. /\ batch # {} /\ batch' = batch /\ answer' = answer /\ pc' = "put"
        /\ answer # Nothing /\ answer.about = Label(Current)
    BY <1>11 DEF Keep, InHand, AtControl
  <2>2. Current' = Current /\ Label(Current)' = Label(Current) /\ Label(Current) \in Labels
    BY <1>1, <2>1, CurrentInBatch, AnswersTyped DEF Current, Label
  <2>3. GivenFor(answer, Current)'
    BY <2>1, <2>2 DEF GivenFor, Labels
  <2>4. QED
    BY <2>1, <2>3 DEF InHand, MayHold, Nothing
<1>12. CASE Decline
  BY <1>2, <1>12 DEF Decline, AfterDecline, AtControl
<1>13. CASE Put
  BY <1>2, <1>13 DEF Put, AtControl
<1>14. CASE Validate \/ Advance \/ NextStep \/ Boundary \/ ClickSubmit \/ Save
  BY <1>2, <1>14 DEF Validate, Advance, NextStep, Boundary, ClickSubmit, Save, AtControl
<1>15. CASE \E b \in Barriers \ {"none", "status"} : RaiseBarrier(b)
  BY <1>1, <1>15, InHandKept DEF RaiseBarrier
<1>16. CASE \E c \in OnPage : Rerender(c)
  BY <1>1, <1>16, InHandKept DEF Rerender
<1>17. CASE Crash
  BY <1>2, <1>17 DEF Crash, AtControl
<1>18. CASE UNCHANGED vars
  BY <1>1, <1>18, InHandKept DEF vars
<1>19. QED
  BY <1>3, <1>4, <1>5, <1>6, <1>7, <1>8, <1>9, <1>10, <1>11, <1>12, <1>13, <1>14, <1>15, <1>16,
     <1>17, <1>18 DEF Next, NodeStep, Operator, World

-----------------------------------------------------------------------------
(* The answers in the controls *)

(* An answer that may be held, and says yes where consent is given, fits. *)
Fits(a, c) ==
    \/ a = Nothing
    \/ a = FromProfile /\ form[c].profile
    \/ a = FromPolicy /\ form[c].kind = "consent" /\ autoAccept
    \/ GivenFor(a, c) /\ (form[c].kind \in {"consent", "box"} => a.says = "yes")

LEMMA FitsIsAnswersFit == AnswersFit <=> \A c \in Ids : Fits(value[c], c)
  BY DEF AnswersFit, Fits, GivenFor

LEMMA FitsInit == Init => AnswersFit
  BY DEF Init, AnswersFit

(* What is in hand fits each control it may be put in. *)
LEMMA TargetFits ==
    ASSUME TypeOK, InHand, pc = "put", ~Declined, NEW c \in Targets
    PROVE  c \in Ids /\ Fits(answer, c)
<1>1. Current \in Ids /\ Label(Current) \in Labels /\ MayHold(answer, Current)
  BY CurrentInBatch, AnswersTyped DEF InHand, AtControl
<1>2. /\ c \in Ids /\ form[c].kind = Control.kind /\ Label(c) = Label(Current)
      /\ c # Current => form[c].kind \in {"radio", "group"}
  BY <1>1 DEF Targets, SameQuestion, OnPage, Control
<1>3. Control.kind \in {"consent", "box"} => answer.says = "yes"
  BY DEF Declined
<1>4. CASE GivenFor(answer, Current)
  BY <1>2, <1>3, <1>4 DEF Fits, GivenFor
<1>5. CASE answer = FromPolicy /\ Control.kind = "consent" /\ autoAccept
  BY <1>2, <1>5 DEF Fits
<1>6. CASE answer = FromProfile /\ Control.profile /\ ~GivenFor(answer, Current)
  <2>1. Control.kind \in {"text", "select", "radio"}
    BY <1>6 DEF InHand
  <2>2. CASE c = Current
    BY <1>2, <1>6, <2>2 DEF Fits, Control
  <2>3. CASE c # Current
    <3>1. form[c].kind = "radio" /\ form[Current].kind = "radio"
          /\ form[c].label = form[Current].label
      BY <1>2, <2>1, <2>3 DEF Control, Label
    <3>2. form[c].profile = form[Current].profile
      BY <1>1, <1>2, <3>1, FormShape DEF TypeOK
    <3>3. QED
      BY <1>2, <1>6, <3>2 DEF Fits, Control
  <2>4. QED
    BY <2>2, <2>3
<1>7. QED
  BY <1>1, <1>2, <1>4, <1>5, <1>6 DEF MayHold, Control

LEMMA FitsStep ==
    ASSUME TypeOK, InHand, AnswersFit, [Next]_vars
    PROVE  AnswersFit'
<1> USE DEF linkedin, handling, asking, stores, history
<1>1. form' = form /\ autoAccept' = autoAccept /\ Ids' = Ids
  BY FormIsFixed
<1>2. ASSUME \A c \in Ids : value'[c] = value[c] \/ value'[c] = Nothing
             \/ Fits(value'[c], c)
      PROVE  AnswersFit'
  <2>1. \A c \in Ids : Fits(value[c], c)
    BY FitsIsAnswersFit
  <2>2. \A c \in Ids : Fits(value'[c], c)
    BY <1>2, <2>1 DEF Fits
  <2>3. QED
    BY <1>1, <2>2 DEF AnswersFit, Fits, GivenFor, Label
<1>3. CASE UNCHANGED value
  BY <1>2, <1>3
<1>4. CASE Put /\ \E d \in Targets : value' = [value EXCEPT ![d] = answer]
  <2>1. PICK d \in Targets : value' = [value EXCEPT ![d] = answer]
    BY <1>4
  <2>2. d \in Ids /\ Fits(answer, d)
    BY <1>4, <2>1, TargetFits DEF Put
  <2>3. \A c \in Ids : value'[c] = IF c = d THEN answer ELSE value[c]
    BY <2>1 DEF TypeOK
  <2>4. \A c \in Ids : value'[c] = value[c] \/ Fits(value'[c], c)
    BY <2>2, <2>3
  <2>5. QED
    BY <1>2, <2>4
<1>5. CASE \E c \in OnPage : value' = [value EXCEPT ![c] = Nothing]
  <2>1. \A c \in Ids : value'[c] = value[c] \/ value'[c] = Nothing
    BY <1>5 DEF TypeOK
  <2>2. QED
    BY <1>2, <2>1
<1>6. CASE value' = [c \in Ids |-> Nothing]
  BY <1>2, <1>6
<1>7. CASE UNCHANGED vars
  BY <1>3, <1>7 DEF vars
<1>8. ASSUME Next PROVE \/ UNCHANGED value
                        \/ Put /\ \E d \in Targets : value' = [value EXCEPT ![d] = answer]
                        \/ \E c \in OnPage : value' = [value EXCEPT ![c] = Nothing]
                        \/ value' = [c \in Ids |-> Nothing]
  BY <1>8 DEF Next, NodeStep, Operator, World, Guard, Recover, Navigate, FindEasyApply,
    ClickEasyApply, FindContainer, Scan, EndOfPass, PassOver, FillIn, Open, Ask, Prompt,
    TimeOut, Keep, Decline, Put, Validate, Advance, NextStep, Boundary, ClickSubmit, Save,
    Skip, Reply, RaiseBarrier, Rerender, Crash
<1>9. QED
  BY <1>3, <1>4, <1>5, <1>6, <1>7, <1>8

-----------------------------------------------------------------------------
(* What is asked *)

LEMMA AskedInit == Init => Asked
  BY DEF Init, Asked, Holding, AtControl

(* The operators of FormFlow say the same of the control at hand. *)
LEMMA AtHandMeans ==
    ASSUME TypeOK
    PROVE  /\ FilledIn <=> FilledInFor(Current)
           /\ Remembered <=> KnownFor(Current)
  BY DEF FilledIn, FilledInFor, Control, Remembered, KnownFor, Fact, Offers

LEMMA AskedKept ==
    ASSUME Asked, form' = form, autoAccept' = autoAccept, page' = page, pass' = pass,
           batch' = batch, remembers' = remembers, facts' = facts, pc' = pc,
           skipped' = 0 \/ skipped' = skipped
    PROVE  Asked'
<1>1. Current' = Current
  BY DEF Current
<1>2. /\ FilledInFor(Current)' = FilledInFor(Current) /\ LeftOut(Current)' = LeftOut(Current)
      /\ KnownFor(Current)' = KnownFor(Current)
  BY <1>1 DEF FilledInFor, LeftOut, KnownFor, Label
<1>3. QED
  BY <1>1, <1>2 DEF Asked

LEMMA AskedStep ==
    ASSUME TypeOK, Asked, InHand, [Next]_vars
    PROVE  Asked'
<1> USE DEF linkedin, handling, asking, stores, history, Goto, End, Break
<1>1. form' = form /\ autoAccept' = autoAccept /\ Ids' = Ids
  BY FormIsFixed
<1>2. ASSUME pc' \notin Holding PROVE Asked'
  BY <1>2 DEF Asked, Holding, AtControl
<1>3. CASE Guard \/ Recover \/ Navigate \/ FindEasyApply \/ ClickEasyApply \/ FindContainer
  <2>1. pc' \notin Holding
    BY <1>3 DEF Guard, Recover, Navigate, FindEasyApply, ClickEasyApply, FindContainer,
       Holding, AtControl, AfterGuard, GuardPoints
  <2>2. QED
    BY <1>2, <2>1
<1>4. CASE Scan
  BY <1>1, <1>4 DEF Scan, Asked, Collected, OnPage, AtControl, Holding
<1>5. CASE EndOfPass
  BY <1>2, <1>5 DEF EndOfPass, Holding, AtControl
<1>6. CASE PassOver
  BY <1>1, <1>6 DEF PassOver, Asked, Holding, AtControl
<1>7. CASE FillIn
  <2>1. /\ pc = "item" /\ pc' = "put" /\ batch' = batch /\ page' = page /\ pass' = pass
        /\ FilledInFor(Current)
    BY <1>7, AtHandMeans DEF FillIn
  <2>2. FilledInFor(Current)'
    BY <1>1, <2>1 DEF FilledInFor, Current
  <2>3. QED
    BY <1>1, <2>1, <2>2 DEF Asked, Holding, AtControl
<1>8. CASE Open
  <2>1. CASE pc' # "ask"
    BY <1>2, <1>8, <2>1 DEF Open, Holding, AtControl
  <2>2. CASE pc' = "ask"
    <3>1. /\ pc = "item" /\ batch' = batch /\ page' = page /\ pass' = pass
          /\ ~FilledInFor(Current) /\ ~LeftOut(Current)
      BY <1>8, <2>2, AtHandMeans DEF Open, PassedOver, LeftOut, Control
    <3>2. ~FilledInFor(Current)' /\ ~LeftOut(Current)'
      BY <1>1, <3>1 DEF FilledInFor, LeftOut, Current
    <3>3. QED
      BY <1>1, <2>2, <3>1, <3>2 DEF Asked, Holding, AtControl
  <2>3. QED
    BY <2>1, <2>2
<1>9. CASE Ask
  <2>1. /\ pc = "ask" /\ batch' = batch /\ page' = page /\ pass' = pass /\ facts' = facts
        /\ skipped' = skipped /\ Current' = Current
    BY <1>1, <1>9 DEF Ask, Current
  <2>2. /\ FilledInFor(Current)' = FilledInFor(Current) /\ LeftOut(Current)' = LeftOut(Current)
        /\ KnownFor(Current)' = KnownFor(Current)
    BY <1>1, <2>1 DEF FilledInFor, LeftOut, KnownFor, Label
  <2>3. CASE Remembered /\ pc' = "put"
    BY <1>1, <2>1, <2>2, <2>3, AtHandMeans DEF Asked, Holding, AtControl
  <2>4. CASE pc' = "prompt" /\ (remembers' => ~Remembered)
    BY <1>1, <2>1, <2>2, <2>4, AtHandMeans DEF Asked, Holding, AtControl
  <2>5. CASE pc' = "broken"
    BY <1>2, <2>5 DEF Holding, AtControl
  <2>6. QED
    BY <1>9, <2>3, <2>4, <2>5 DEF Ask
<1>10. CASE Prompt
  <2>1. CASE pc' = "done"
    BY <1>2, <2>1 DEF Holding, AtControl
  <2>2. CASE pc' = "wait"
    <3>1. /\ pc = "prompt" /\ batch' = batch /\ page' = page /\ pass' = pass /\ facts' = facts
          /\ skipped' = skipped /\ remembers' = remembers /\ Current' = Current
      BY <1>1, <1>10 DEF Prompt, Current
    <3>2. /\ FilledInFor(Current)' = FilledInFor(Current)
          /\ LeftOut(Current)' = LeftOut(Current) /\ KnownFor(Current)' = KnownFor(Current)
      BY <1>1, <3>1 DEF FilledInFor, LeftOut, KnownFor, Label
    <3>3. QED
      BY <1>1, <2>2, <3>1, <3>2 DEF Asked, Holding, AtControl
  <2>3. QED
    BY <1>10, <2>1, <2>2 DEF Prompt
<1>11. CASE TimeOut \/ Skip
  BY <1>2, <1>11 DEF TimeOut, Skip, Holding, AtControl
<1>12. CASE \E a \in Answers : Reply(a)
  BY <1>1, <1>12 DEF Reply, Asked, Holding, AtControl
<1>13. CASE Keep
  BY <1>1, <1>13 DEF Keep, Asked, Holding, AtControl
<1>14. CASE Decline
  <2>1. CASE pc' = "done"
    BY <1>2, <2>1 DEF Holding, AtControl
  <2>2. CASE pc' = "item" /\ batch' = batch \ {Current}
    BY <1>1, <1>14, <2>2 DEF Decline, Asked, Holding, AtControl
  <2>3. QED
    BY <1>14, <2>1, <2>2 DEF Decline, AfterDecline
<1>15. CASE Put
  <2>1. CASE pc' = "broken"
    BY <1>2, <2>1 DEF Holding, AtControl
  <2>2. CASE pc' = "item" /\ batch' = batch \ {Current}
    BY <1>1, <1>15, <2>2 DEF Put, Asked, Holding, AtControl
  <2>3. QED
    BY <1>15, <2>1, <2>2 DEF Put
<1>16. CASE Validate \/ Advance \/ NextStep \/ Boundary \/ ClickSubmit \/ Save
  BY <1>2, <1>16 DEF Validate, Advance, NextStep, Boundary, ClickSubmit, Save, Holding,
     AtControl
<1>17. CASE \E b \in Barriers \ {"none", "status"} : RaiseBarrier(b)
  BY <1>1, <1>17, AskedKept DEF RaiseBarrier
<1>18. CASE \E c \in OnPage : Rerender(c)
  BY <1>1, <1>18, AskedKept DEF Rerender, LoseSkip
<1>19. CASE Crash
  BY <1>2, <1>19 DEF Crash, Holding, AtControl
<1>20. CASE UNCHANGED vars
  BY <1>1, <1>20, AskedKept DEF vars
<1>21. QED
  BY <1>3, <1>4, <1>5, <1>6, <1>7, <1>8, <1>9, <1>10, <1>11, <1>12, <1>13, <1>14, <1>15, <1>16,
     <1>17, <1>18, <1>19, <1>20 DEF Next, NodeStep, Operator, World

LEMMA SkipInit == Init => SkipStands
  BY DEF Init, SkipStands

(* What a skip needs to stand after a step that leaves the last word. *)
LEMMA SkipCarried ==
    ASSUME SkipStands, NEW c, c = skipped, c # 0, skipped' = c,
           form' = form, autoAccept' = autoAccept, KnownFor(c)' => KnownFor(c),
           c \notin hidden', value'[c] = Nothing, pc' \in Holding => before'[c] = Nothing,
           NotPast(c)'
    PROVE  SkipStands'
<1>1. OnlyAsked(c)'
  BY DEF SkipStands, OnlyAsked, FilledInFor, LeftOut
<1>2. QED
  BY <1>1 DEF SkipStands, Visible, Ids

(* A control of a later page is not past, whatever the node does on this page. *)
LEMMA LaterPage ==
    ASSUME TypeOK, NEW c \in Ids, form' = form, page' \in Nat, form[c].page > page'
    PROVE  NotPast(c)'
<1>1. form[c].page \in Nat
  BY FormShape DEF TypeOK, Controls
<1>2. QED
  BY <1>1 DEF NotPast

(* Each kind of control has a last pass, and is collected in it. *)
LEMMA PassOfKind ==
    ASSUME TypeOK, NEW c \in Ids
    PROVE  /\ PassOf[form[c].kind] \in 2..6
           /\ form[c].kind \in Passes[PassOf[form[c].kind]]
           /\ form[c].page \in Nat /\ form[c].kind \in Kinds
<1>1. form[c].kind \in Kinds /\ form[c].page \in Nat
  BY FormShape DEF TypeOK, Controls
<1>2. QED
  BY <1>1 DEF Kinds, PassOf, Passes

(* The steps of the node that leave the saved facts, the form and the last word alone. *)
Quiet == /\ skipped' = skipped /\ facts' = facts /\ hidden' = hidden /\ page' = page
         /\ form' = form /\ autoAccept' = autoAccept

LEMMA SkipQuiet ==
    ASSUME TypeOK, SkipStands, NEW c, c = skipped, c # 0, Quiet, value'[c] = Nothing,
           pc' \in Holding => before'[c] = Nothing,
           form[c].page = page => NotPast(c)'
    PROVE  SkipStands'
<1>1. c \in Ids /\ Visible(c) /\ NotPast(c) /\ form[c].page \in Nat
  BY FormShape DEF SkipStands, TypeOK, Controls
<1>2. form[c].page = page \/ form[c].page > page
  BY <1>1 DEF NotPast, TypeOK
<1>3. page' \in Nat /\ page' = page
  BY DEF Quiet, TypeOK
<1>4. NotPast(c)'
  BY <1>1, <1>2, <1>3, LaterPage DEF Quiet
<1>5. KnownFor(c)' = KnownFor(c)
  BY DEF Quiet, KnownFor, Label
<1>6. QED
  BY <1>1, <1>4, <1>5, SkipCarried DEF Quiet, Visible

(* Where the node is on its way over the page of the skipped control. *)
LEMMA SkipHere ==
    ASSUME TypeOK, SkipStands, skipped # 0, form[skipped].page = page
    PROVE  /\ pc \notin {"navigate"} \cup Behind
           /\ pc \in AtPass => /\ pass <= PassOf[form[skipped].kind]
                               /\ pass = PassOf[form[skipped].kind] =>
                                    pc = "scan" \/ skipped \in batch
<1>1. ~(form[skipped].page > page)
  BY DEF TypeOK
<1>2. QED
  BY <1>1 DEF SkipStands, NotPast

(* The node holds an answer without a word of the operator: not for the skipped control.  *)
LEMMA PutElsewhere ==
    ASSUME TypeOK, Asked, InHand, SkipStands, skipped # 0, pc = "put"
    PROVE  Current # skipped /\ (~Declined => skipped \notin Targets)
<1>1. FilledInFor(Current) \/ KnownFor(Current)
  BY DEF Asked
<1>2. ~FilledInFor(skipped) /\ ~KnownFor(skipped) /\ skipped \in Ids
  BY DEF SkipStands, OnlyAsked
<1>3. Current # skipped
  BY <1>1, <1>2
<1>4. ASSUME skipped \in Targets PROVE FALSE
  <2>1. /\ form[Current].kind \in {"radio", "group"}
        /\ form[skipped].kind = form[Current].kind /\ Label(skipped) = Label(Current)
    BY <1>3, <1>4 DEF Targets, SameQuestion, Control
  <2>2. Current \in Ids
    BY CurrentInBatch DEF InHand, AtControl
  <2>3. form[Current].kind = "radio" => form[skipped].profile = form[Current].profile
    BY <1>2, <2>1, <2>2, FormShape DEF TypeOK, Label
  <2>4. FilledInFor(Current) => FilledInFor(skipped)
    BY <2>1, <2>3 DEF FilledInFor
  <2>5. KnownFor(Current) => KnownFor(skipped)
    BY <2>1 DEF KnownFor
  <2>6. QED
    BY <1>1, <1>2, <2>4, <2>5
<1>5. QED
  BY <1>3, <1>4

LEMMA SkipStep ==
    ASSUME TypeOK, Asked, InHand, SkipStands, [Next]_vars
    PROVE  SkipStands'
<1> USE DEF linkedin, handling, asking, stores, history, Goto, End, Break
<1>1. form' = form /\ autoAccept' = autoAccept /\ Ids' = Ids
  BY FormIsFixed
<1>2. ASSUME skipped' = 0 PROVE SkipStands'
  BY <1>2 DEF SkipStands
<1>3. CASE Skip
  <2>1. SUFFICES ASSUME skipped' # 0 PROVE SkipStands'
    BY <1>2
  <2>2. /\ pc = "wait" /\ batch # {} /\ skipped' = Current /\ Visible(Current)
        /\ value[Current] = Nothing /\ remembers = (Fact # NoFact) /\ pc' = "done"
    BY <1>3, <2>1 DEF Skip, InHand, AtControl
  <2>3. Current \in batch /\ Current \in Ids
    BY <2>2, CurrentInBatch
  <2>4. ~KnownFor(Current) /\ ~FilledInFor(Current) /\ ~LeftOut(Current)
    BY <2>2 DEF Asked, KnownFor, Fact
  <2>5. form[Current].page = page /\ page \in Nat
    BY <2>2, <2>3 DEF Asked, Holding, AtControl, TypeOK
  <2> DEFINE c == Current
  <2>6. /\ page' = page /\ value' = value /\ hidden' = hidden /\ facts' = facts
    BY <1>3 DEF Skip
  <2>7. PICK d : d = c
    OBVIOUS
  <2>8. OnlyAsked(d)' /\ Visible(d)'
    BY <1>1, <2>2, <2>4, <2>6, <2>7 DEF OnlyAsked, FilledInFor, KnownFor, LeftOut, Visible, Label
  <2>9. NotPast(d)'
    BY <1>1, <2>2, <2>5, <2>6, <2>7 DEF NotPast, AtPass, Holding, AtControl, Behind
  <2>10. skipped' = d /\ d \in Ids' /\ value'[d] = Nothing
    BY <1>1, <2>2, <2>3, <2>6, <2>7
  <2>11. QED
    BY <2>2, <2>8, <2>9, <2>10 DEF SkipStands, Holding, AtControl
<1>4. CASE \E a \in Answers : Reply(a)
  BY <1>2, <1>4 DEF Reply
<1>5. CASE ~Skip /\ ~(\E a \in Answers : Reply(a))
  <2>1. SUFFICES ASSUME skipped' # 0 PROVE SkipStands'
    BY <1>2
  <2>2. skipped' = skipped
    BY <1>5, <2>1 DEF Next, vars, NodeStep, Operator, World, Guard, Recover, Navigate,
      FindEasyApply, ClickEasyApply, FindContainer, Scan, EndOfPass, PassOver, FillIn, Open,
      Ask, Prompt, TimeOut, Keep, Decline, Put, Validate, Advance, NextStep, Boundary,
      ClickSubmit, Save, RaiseBarrier, Rerender, LoseSkip, Crash
  <2>3. PICK c : c = skipped
    OBVIOUS
  <2>4. /\ c # 0 /\ c \in Ids /\ value[c] = Nothing /\ Visible(c) /\ OnlyAsked(c)
        /\ pc \in Holding => before[c] = Nothing
    BY <2>1, <2>2, <2>3 DEF SkipStands
  <2>5. /\ PassOf[form[c].kind] \in 2..6 /\ form[c].kind \in Passes[PassOf[form[c].kind]]
        /\ form[c].kind \in Kinds
    BY <2>4, PassOfKind
  <2>6. form[c].page = page =>
          /\ pc \notin {"navigate"} \cup Behind
          /\ pc \in AtPass => /\ pass <= PassOf[form[c].kind]
                              /\ pass = PassOf[form[c].kind] => pc = "scan" \/ c \in batch
    BY <2>1, <2>2, <2>3, SkipHere
  <2>7. ASSUME Quiet, value' = value, pc' \in Holding => before'[c] = Nothing,
               form[c].page = page => NotPast(c)'
        PROVE  SkipStands'
    BY <2>2, <2>3, <2>4, <2>7, SkipQuiet
  <2>8. ASSUME Quiet, value' = value, before' = before, pc' \in Holding => pc \in Holding,
               form[c].page = page => NotPast(c)'
        PROVE  SkipStands'
    BY <2>4, <2>7, <2>8
  <2>9. CASE Guard \/ Recover \/ Navigate \/ FindEasyApply \/ ClickEasyApply
    <3>1. Quiet /\ value' = value /\ before' = before
      BY <1>1, <2>2, <2>9 DEF Guard, Recover, Navigate, FindEasyApply, ClickEasyApply, Quiet
    <3>2. pc' \notin AtPass
      BY <2>9 DEF Guard, Recover, Navigate, FindEasyApply, ClickEasyApply, AtPass, Holding,
         AtControl, GuardPoints, AfterGuard
    <3>3. pc' \in {"navigate"} \cup Behind => pc \in Behind
      BY <2>9 DEF Guard, Recover, Navigate, FindEasyApply, ClickEasyApply, Behind,
         GuardPoints, AfterGuard
    <3>4. form[c].page = page => NotPast(c)'
      BY <1>1, <2>6, <3>1, <3>2, <3>3 DEF NotPast, Quiet, TypeOK
    <3>5. QED
      BY <2>8, <3>1, <3>2, <3>4 DEF AtPass
  <2>10. CASE FindContainer
    <3>1. /\ Quiet /\ value' = value /\ before' = before
          /\ (pc' = "scan" /\ pass' = 1) \/ pc' = "done"
      BY <1>1, <2>2, <2>10 DEF FindContainer, Quiet, EarlyText
    <3>2. form[c].page = page => NotPast(c)'
      BY <1>1, <2>5, <3>1 DEF NotPast, AtPass, Holding, AtControl, Behind, Quiet, TypeOK
    <3>3. QED
      BY <2>8, <3>1, <3>2 DEF Holding, AtControl
  <2>11. CASE Scan
    <3>1. /\ Quiet /\ value' = value /\ before' = value /\ pc = "scan" /\ pc' = "item"
          /\ pass' = pass /\ batch' = {d \in Ids : Collected(d)}
      BY <1>1, <2>2, <2>11 DEF Scan, Quiet
    <3>2. ASSUME form[c].page = page, pass = PassOf[form[c].kind]
          PROVE  Collected(c)
      BY <2>4, <2>5, <3>2 DEF Collected, OnPage, EarlyText
    <3>3. form[c].page = page => pass <= PassOf[form[c].kind]
      BY <2>6, <3>1 DEF AtPass
    <3>4. form[c].page = page => NotPast(c)'
      BY <1>1, <2>4, <3>1, <3>2, <3>3 DEF NotPast, AtPass, Holding, AtControl, Behind, Quiet, TypeOK
    <3>5. QED
      BY <2>4, <2>7, <3>1, <3>4
  <2>12. CASE EndOfPass
    <3>1. /\ Quiet /\ value' = value /\ before' = before /\ pc = "item" /\ batch = {}
          /\ IF pass < 6 THEN pass' = pass + 1 /\ pc' = "scan" ELSE pc' = "navigate"
      BY <1>1, <2>2, <2>12, SixPasses DEF EndOfPass, Quiet
    <3>2. form[c].page = page => pass <= PassOf[form[c].kind] /\ pass # PassOf[form[c].kind]
      BY <2>6, <3>1 DEF AtPass, Holding
    <3>3. pass \in 1..6
      BY SixPasses DEF TypeOK
    <3>4. form[c].page = page => pass + 1 <= PassOf[form[c].kind] /\ pass < 6
      BY <2>5, <3>2, <3>3
    <3>5. form[c].page = page => NotPast(c)'
      BY <1>1, <3>1, <3>4 DEF NotPast, AtPass, Holding, AtControl, Behind, Quiet, TypeOK
    <3>6. QED
      BY <2>8, <3>1, <3>5 DEF Holding, AtControl
  <2>13. CASE PassOver
    <3>1. /\ Quiet /\ value' = value /\ before' = before /\ pc = "item" /\ pc' = "item"
          /\ pass' = pass /\ batch' = batch \ {Current} /\ PassedOver
      BY <1>1, <2>2, <2>13 DEF PassOver, Quiet
    <3>2. c # Current
      BY <2>4, <3>1 DEF PassedOver, Shows, OnlyAsked, LeftOut, Control, Holding
    <3>3. form[c].page = page => NotPast(c)'
      BY <1>1, <2>6, <3>1, <3>2 DEF NotPast, AtPass, Holding, AtControl, Behind, Quiet, TypeOK
    <3>4. QED
      BY <2>8, <3>1, <3>3
  <2>14. CASE FillIn \/ Open \/ Ask \/ Prompt \/ TimeOut
    <3>1. /\ Quiet /\ value' = value /\ before' = before /\ pc \in Holding
          /\ pass' = pass /\ batch' = batch
      BY <1>1, <2>2, <2>14 DEF FillIn, Open, Ask, Prompt, TimeOut, Quiet, Holding, AtControl
    <3>2. pc' \in Holding \cup {"done", "broken"}
      BY <2>14 DEF FillIn, Open, Ask, Prompt, TimeOut, Holding, AtControl
    <3>3. form[c].page = page => NotPast(c)'
      BY <1>1, <2>6, <3>1, <3>2 DEF NotPast, AtPass, Holding, AtControl, Behind, Quiet, TypeOK
    <3>4. QED
      BY <2>8, <3>1, <3>3
  <2>15. CASE Keep
    BY <2>1, <2>2, <2>15 DEF Keep, Asked
  <2>16. CASE Decline
    <3>1. /\ Quiet /\ value' = value /\ before' = before /\ pc = "put" /\ pass' = pass
          /\ (pc' = "item" /\ batch' = batch \ {Current}) \/ pc' = "done"
      BY <1>1, <2>2, <2>16 DEF Decline, AfterDecline, Quiet
    <3>2. c # Current
      BY <2>1, <2>2, <2>3, <3>1, PutElsewhere
    <3>3. form[c].page = page => NotPast(c)'
      BY <1>1, <2>6, <3>1, <3>2 DEF NotPast, AtPass, Holding, AtControl, Behind, Quiet, TypeOK
    <3>4. QED
      BY <2>8, <3>1, <3>3 DEF Holding, AtControl
  <2>17. CASE Put
    <3>1. /\ Quiet /\ before' = before /\ pc = "put" /\ pass' = pass /\ ~Declined
          /\ (pc' = "item" /\ batch' = batch \ {Current}) \/ pc' = "broken"
          /\ value' = value \/ \E d \in Targets : value' = [value EXCEPT ![d] = answer]
      BY <1>1, <2>2, <2>17 DEF Put, Quiet
    <3>2. c # Current /\ c \notin Targets
      BY <2>1, <2>2, <2>3, <3>1, PutElsewhere
    <3>3. form[c].page = page => NotPast(c)'
      BY <1>1, <2>6, <3>1, <3>2 DEF NotPast, AtPass, Holding, AtControl, Behind, Quiet, TypeOK
    <3>4. value'[c] = value[c]
      BY <2>4, <3>1, <3>2 DEF TypeOK
    <3>5. pc' \in Holding => before'[c] = Nothing
      BY <2>4, <3>1 DEF Holding, AtControl
    <3>6. QED
      BY <2>2, <2>3, <2>4, <3>1, <3>3, <3>4, <3>5, SkipQuiet
  <2>18. CASE Validate \/ NextStep \/ Boundary \/ ClickSubmit \/ Save
    <3>1. Quiet /\ value' = value /\ before' = before
      BY <1>1, <2>2, <2>18 DEF Validate, NextStep, Boundary, ClickSubmit, Save, Quiet
    <3>2. /\ pc \in {"navigate"} \cup Behind \/ pc' \notin {"navigate"} \cup Behind
          /\ pc' \notin AtPass
      BY <2>18 DEF Validate, NextStep, Boundary, ClickSubmit, Save, AtPass, Holding, AtControl, Behind
    <3>3. form[c].page = page => NotPast(c)'
      BY <1>1, <2>6, <3>1, <3>2 DEF NotPast, Quiet, TypeOK
    <3>4. QED
      BY <2>8, <3>1, <3>2, <3>3 DEF AtPass
  <2>19. CASE Advance
    <3>1. /\ pc = "click" /\ pc' \in {"moved", "broken"} /\ page' \in {page, page + 1}
          /\ value' = value /\ hidden' = hidden /\ facts' = facts
      BY <2>19 DEF Advance
    <3>2. form[c].page > page /\ form[c].page \in Nat /\ page \in Nat
      BY <2>1, <2>2, <2>3, <2>4, <3>1, PassOfKind DEF SkipStands, NotPast, Behind, TypeOK
    <3>3. form[c].page >= page'
      BY <3>1, <3>2
    <3>4. NotPast(c)'
      BY <1>1, <3>1, <3>3 DEF NotPast, AtPass, Holding, AtControl, Behind
    <3>5. KnownFor(c)' = KnownFor(c)
      BY <1>1, <3>1 DEF KnownFor, Label
    <3>6. QED
      BY <1>1, <2>2, <2>3, <2>4, <3>1, <3>4, <3>5, SkipCarried DEF Visible, Holding, AtControl
  <2>20. CASE \E b \in Barriers \ {"none", "status"} : RaiseBarrier(b)
    <3>1. Quiet /\ value' = value /\ before' = before /\ pc' = pc /\ pass' = pass
          /\ batch' = batch
      BY <1>1, <2>2, <2>20 DEF RaiseBarrier, Quiet
    <3>2. form[c].page = page => NotPast(c)'
      BY <1>1, <2>6, <3>1 DEF NotPast, Quiet, TypeOK
    <3>3. QED
      BY <2>8, <3>1, <3>2
  <2>21. CASE \E d \in OnPage : Rerender(d)
    <3>1. /\ page' = page /\ facts' = facts /\ pc' = pc /\ pass' = pass /\ batch' = batch
          /\ before' = value /\ skipped' = IF skipped \in hidden' THEN 0 ELSE skipped
      BY <2>21 DEF Rerender, LoseSkip
    <3>2. c \notin hidden'
      BY <2>1, <2>3, <3>1
    <3>3. value'[c] = Nothing
      BY <2>4, <2>21 DEF Rerender, TypeOK
    <3>4. NotPast(c)' = NotPast(c) /\ NotPast(c)
      BY <1>1, <2>1, <2>2, <2>3, <3>1 DEF NotPast, SkipStands
    <3>5. KnownFor(c)' = KnownFor(c)
      BY <1>1, <3>1 DEF KnownFor, Label
    <3>6. QED
      BY <1>1, <2>2, <2>3, <2>4, <3>1, <3>2, <3>3, <3>4, <3>5, SkipCarried
  <2>22. CASE Crash
    <3>1. /\ page' = 1 /\ pc' = "goto" /\ value' \in {value, [d \in Ids |-> Nothing]}
          /\ facts' \in {facts, [f \in Facts |-> [facts[f] EXCEPT !.fresh = FALSE]]}
          /\ skipped' = IF skipped \in hidden' THEN 0 ELSE skipped
      BY <2>22 DEF Crash, LoseSkip
    <3>2. c \notin hidden' /\ value'[c] = Nothing
      BY <2>1, <2>3, <2>4, <3>1
    <3>3. form[c].page >= 1
      BY <2>4, FormShape DEF TypeOK, Controls
    <3>4. NotPast(c)'
      BY <1>1, <3>1, <3>3 DEF NotPast, AtPass, Holding, AtControl, Behind
    <3>5. KnownFor(c)' => KnownFor(c)
      <4>1. Label(c) \in Labels
        BY <2>4, AnswersTyped
      <4>2. FactOf[Label(c)] # NoFact => FactOf[Label(c)] \in Facts
        BY <4>1 DEF Facts
      <4>3. CASE facts' = facts
        BY <1>1, <4>3 DEF KnownFor, Label
      <4>4. CASE facts' = [f \in Facts |-> [facts[f] EXCEPT !.fresh = FALSE]]
        <5>1. \A f \in Facts : ~facts'[f].fresh
          BY <4>4 DEF TypeOK
        <5>2. QED
          BY <1>1, <4>2, <5>1 DEF KnownFor, Label
      <4>5. QED
        BY <3>1, <4>3, <4>4
    <3>6. QED
      BY <1>1, <2>2, <2>3, <2>4, <3>1, <3>2, <3>4, <3>5, SkipCarried DEF Holding, AtControl
  <2>23. CASE UNCHANGED vars
    <3>1. Quiet /\ value' = value /\ before' = before /\ pc' = pc /\ pass' = pass
          /\ batch' = batch
      BY <1>1, <2>23 DEF vars, Quiet
    <3>2. form[c].page = page => NotPast(c)'
      BY <1>1, <2>6, <3>1 DEF NotPast, Quiet, TypeOK
    <3>3. QED
      BY <2>8, <3>1, <3>2
  <2>24. QED
    BY <1>5, <2>9, <2>10, <2>11, <2>12, <2>13, <2>14, <2>15, <2>16, <2>17, <2>18, <2>19,
       <2>20, <2>21, <2>22, <2>23 DEF Next, NodeStep, Operator, World
<1>6. QED
  BY <1>3, <1>4, <1>5

-----------------------------------------------------------------------------
(* The theorems *)

LEMMA FormInvHolds == Spec => []FormInv
<1>1. Init => FormInv
  BY TypeInit, FactsInit, InHandInit, FitsInit, PagesInit, BarrierInit,
     AskedInit, SkipInit DEF FormInv
<1>2. FormInv /\ [Next]_vars => FormInv'
  BY TypeStep, FactsStep, InHandStep, FitsStep, PagesStep, BarrierStep,
     AskedStep, SkipStep DEF FormInv
<1>3. QED
  BY <1>1, <1>2, PTL DEF Spec

(* Every variable of the node and of the form keeps its type, and the control at hand is  *)
(* always one of the form.                                                                *)
THEOREM TypeCorrect == Spec => []TypeOK
<1>1. FormInv => TypeOK
  BY DEF FormInv
<1>2. QED
  BY <1>1, FormInvHolds, PTL

(* Whatever form LinkedIn shows and however it re-renders it, no control ever holds an    *)
(* answer that was not given for it: to its question, to its candidate fact, or by the    *)
(* profile or the policy that may answer it.                                              *)
THEOREM AnswersAreFit == Spec => []AnswersFit
<1>1. FormInv => AnswersFit
  BY DEF FormInv
<1>2. QED
  BY <1>1, FormInvHolds, PTL

(* Where execution_node may click the submit button, every required control that is shown *)
(* is filled, on every page of a form of any length, unless LinkedIn re-rendered it since *)
(* its page was validated.                                                                *)
THEOREM SubmitsComplete == Spec => []SubmitIsComplete
<1>1. ASSUME FormInv PROVE SubmitIsComplete
  <2>1. SUFFICES ASSUME pc \in {"boundary", "submit"}, NEW c \in Ids \ disturbed
                 PROVE  Filled(c)
    BY DEF SubmitIsComplete, Filled
  <2>2. form[c].page <= page
    BY <1>1, <2>1 DEF FormInv, PagesFilled, OnLastPage
  <2>3. form[c].page < page \/ form[c].page = page
    BY <1>1, <2>2, FormShape DEF FormInv, TypeOK, Controls
  <2>4. QED
    BY <1>1, <2>1, <2>3 DEF FormInv, PagesFilled, Behind
<1>2. QED
  BY <1>1, FormInvHolds, PTL

(* No step of execution_node clicks Easy Apply, Next or Submit on a page that shows a     *)
(* barrier, unless it came up after the guard of that click or the guard's look at the    *)
(* page failed.                                                                           *)
THEOREM NoBarrierIsClicked == Spec => NoClickBehindBarrier
<1>1. FormInv /\ [Next]_vars => [Clicks => barrier = "none" \/ excused]_vars
  BY DEF FormInv, BarrierSeen, ClickPoints, Clicks
<1>2. QED
  BY <1>1, FormInvHolds, PTL DEF Spec, NoClickBehindBarrier

(* A /skip is the end of the application on every form, however often the process dies    *)
(* and the form comes up again: as long as the question is shown and the operator answers *)
(* nothing else, the node comes to the question again and cannot get past it.             *)
THEOREM SkipsAreFinal == Spec => []SkipIsFinal
<1>1. ASSUME FormInv PROVE SkipIsFinal
  <2>1. SUFFICES ASSUME skipped # 0, pc = "submit" PROVE FALSE
    BY DEF SkipIsFinal
  <2>2. skipped \in Ids /\ form[skipped].page > page
    BY <1>1, <2>1 DEF FormInv, SkipStands, NotPast, Behind
  <2>3. form[skipped].page <= page
    BY <1>1, <2>1, <2>2 DEF FormInv, PagesFilled, OnLastPage
  <2>4. QED
    BY <1>1, <2>2, <2>3, PassOfKind DEF FormInv, TypeOK
<1>2. QED
  BY <1>1, FormInvHolds, PTL
=============================================================================
