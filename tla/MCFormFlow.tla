------------------------------ MODULE MCFormFlow ------------------------------
(* Instances of FormFlow for TLC. *)
EXTENDS FormFlow

Field(kind, label, onPage) ==
    [kind |-> kind, label |-> label, page |-> onPage, required |-> TRUE, profile |-> FALSE,
     skip |-> FALSE, hidden |-> FALSE]

Optional(field) == [field EXCEPT !.required = FALSE]

MCFactOf == [city |-> "city", sponsor |-> "sponsorship", visa |-> "sponsorship",
             gender |-> "gender", salary |-> "none", terms |-> "terms"]

(* A page of typed and native controls, then one with the agreement. *)
TwoPages ==
    <<[Field("select", "city", 1) EXCEPT !.profile = TRUE],
      Field("radio", "sponsor", 1),
      Field("combo", "visa", 2),
      Field("consent", "terms", 2)>>

(* What may be left out, what is asked anew every time, what is not shown yet. *)
OnePage ==
    <<[Optional(Field("text", "gender", 1)) EXCEPT !.skip = TRUE],
      Field("group", "salary", 1),
      Field("group", "sponsor", 1),
      [Field("text", "visa", 1) EXCEPT !.hidden = TRUE],
      Optional(Field("box", "terms", 1))>>

(* Nothing but the question that may be skipped. *)
OneQuestion == <<Field("group", "sponsor", 1)>>

MCForms == {TwoPages, OnePage, OneQuestion}

Blank == [f \in {"city", "sponsorship", "gender", "terms"} |-> NoAnswer]

MCMemories ==
    {Blank, [Blank EXCEPT !["sponsorship"] = [given |-> Given(0, "visa", "yes"), fresh |-> TRUE]]}

(* Two dropdowns without an accessible label: both are read as "Choice question". *)
Unlabelled == Optional(Field("combo", "choice_question", 1))
MCUnlabelled == {<<Unlabelled, Unlabelled>>}
MCUnlabelledFactOf == [choice_question |-> "choice_question"]
MCNoMemories == {[choice_question |-> NoAnswer]}
=============================================================================
