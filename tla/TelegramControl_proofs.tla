------------------------- MODULE TelegramControl_proofs -------------------------
(***************************************************************************)
(* Proofs about the controller and its runs, for any number of commands    *)
(* and faults: one run at a time, which the controller knows; cancelled    *)
(* for its own sake only; finalised once; the clients closed after it.     *)
(***************************************************************************)
EXTENDS TelegramControl, TLAPS

(* Runs are created in order, and only created ones are spoken of. *)
BornInOrder ==
    /\ \A t \in Tasks : pc[t] = "unborn" <=> t > started
    /\ workflowTask <= started
    /\ \A a \in Actors : target[a] <= started

(* No run is at work before the first, nor while the end of one is announced. *)
QuietMoments == pc[Controller] \in {"greet", "announcing"} => \A t \in Tasks : ~Live(t)

(* A timer is armed for a run a /stop was accepted for. *)
TimersAreDue == \A t \in Tasks : timers[t] > 0 => t \in stopped /\ t <= started

(* run() is entered after the preflight and before the graph. *)
EnteredInOrder ==
    \A t \in Tasks :
       /\ pc[t] \in {"unborn", "preflight"} => t \notin entered
       /\ pc[t] \in GraphPoints \cup {"flush", "read"} => t \in entered

ControlInv ==
    /\ TypeOK
    /\ BornInOrder /\ QuietMoments /\ TimersAreDue /\ EnteredInOrder
    /\ LiveRunIsKnown /\ StopHitsItsRun /\ FinalisedOnce /\ ClosedAfterRuns

-----------------------------------------------------------------------------
(* Types *)

LEMMA Sets ==
    /\ MaxRuns \in Nat /\ Tasks = 1..MaxRuns /\ Controller \notin Tasks
    /\ Tasks \subseteq Actors /\ Controller \in Actors
    /\ \A t \in Tasks : t \in Nat /\ t # NoTask
BY BoundsAssumption DEF MaxRuns, Tasks, Actors, Controller, NoTask

(* Every point is one of the controller or one of a run. *)
LEMMA Points ==
    /\ {"graph", "asking", "waiting", "handle", "reply", "save", "preflight", "flush", "read", "done"}
           \subseteq RunPoints
    /\ Dispatching \subseteq ControllerPoints /\ GraphPoints \subseteq RunPoints
BY DEF RunPoints, GraphPoints, AskingPoints, Dispatching, ControllerPoints

(* What a CancelledError does to a run. *)
LEMMA HitsOK ==
    ASSUME TypeOK, NEW t \in Tasks, NEW hit \in Hits(t)
    PROVE  /\ hit.point \in {"read", "done"} /\ hit.result \in Results
           /\ pc[t] \in GraphPoints \cup {"flush"} => hit.point = "read"
           /\ pc[t] \notin GraphPoints \cup {"flush"} => hit.point = "done"
           /\ pc[t] \in {"unborn", "read", "done"} => hit.result = result[t]
<1>1. "preflight" \notin GraphPoints \cup {"flush"}
  BY DEF GraphPoints, AskingPoints, Dispatching
<1>2. {"unborn", "read", "done"} \cap (GraphPoints \cup {"flush", "preflight"}) = {}
  BY DEF GraphPoints, AskingPoints, Dispatching
<1>3. result[t] \in Results /\ {"cancelled", "failed", "none"} \subseteq Results
  BY DEF TypeOK, Results
<1>4. CASE pc[t] = "preflight"
  <2>1. hit = [point |-> "done", result |-> "cancelled"] BY <1>1, <1>4 DEF Hits
  <2> QED BY <2>1, <1>1, <1>2, <1>3, <1>4
<1>5. CASE pc[t] \in GraphPoints \cup {"flush"}
  <2>1. hit = [point |-> "read", result |-> "cancelled"] BY <1>5, <1>1 DEF Hits
  <2> QED BY <2>1, <1>2, <1>3, <1>5
<1>6. CASE pc[t] \notin GraphPoints \cup {"flush", "preflight"}
  <2>1. hit = [point |-> "done", result |-> result[t]] BY <1>6 DEF Hits
  <2> QED BY <2>1, <1>3, <1>6
<1> QED BY <1>4, <1>5, <1>6

(* What an exception does that takes the place of the CancelledError. *)
LEMMA ReplacementsOK ==
    ASSUME NEW t \in Tasks, NEW hit \in Replacements(t)
    PROVE  /\ hit.result \in {"failed", "none"}
           /\ pc[t] \in GraphPoints => hit.point \in {"graph", "read"}
           /\ pc[t] \notin GraphPoints => pc[t] = "preflight" /\ hit.point = "done"
<1>1. "preflight" \notin GraphPoints
  BY DEF GraphPoints, AskingPoints, Dispatching
<1>2. CASE pc[t] = "preflight"
  <2>1. hit = [point |-> "done", result |-> "failed"] BY <1>1, <1>2 DEF Replacements
  <2> QED BY <2>1, <1>1, <1>2
<1>3. CASE pc[t] \in GraphPoints
  <2>1. \/ hit = [point |-> "graph", result |-> "none"]
        \/ hit = [point |-> "read", result |-> "failed"]
    BY <1>3, <1>1 DEF Replacements
  <2> QED BY <2>1, <1>3
<1>4. CASE pc[t] \notin GraphPoints \cup {"preflight"}
  BY <1>4 DEF Replacements
<1> QED BY <1>2, <1>3, <1>4

(* Where a cancelled run goes. *)
Thrown(from, to) ==
    /\ to \in {"graph", "read", "done"}
    /\ to = "graph" => from \in GraphPoints
    /\ from \in GraphPoints \cup {"flush"} => to # "done"
    /\ from \notin GraphPoints \cup {"flush"} => to = "done"

(* Cancel, whatever way it takes. *)
LEMMA CancelEffect ==
    ASSUME TypeOK, NEW t \in Tasks, NEW point, NEW S, Cancel(t, point, S)
    PROVE  \E to \in {"graph", "read", "done"}, res \in Results :
             /\ Thrown(pc[t], to)
             /\ pc' = [pc EXCEPT ![Controller] = point, ![t] = to]
             /\ result' = [result EXCEPT ![t] = res]
             /\ pc[t] \in {"unborn", "read", "done"} => res = result[t]
             /\ swallowed' \in {swallowed, swallowed \cup {t}}
             /\ faults' \in {faults, faults + 1} /\ faults' \in 0..MaxFaults
             /\ finalised' = IF pc[t] = "read" THEN [finalised EXCEPT ![t] = finalised[t] + 1]
                             ELSE finalised
<1>1. finalised' = IF pc[t] = "read" THEN [finalised EXCEPT ![t] = finalised[t] + 1] ELSE finalised
  BY DEF Cancel, Tolerates
<1>2. CASE /\ \E hit \in Hits(t) :
                  /\ pc' = [pc EXCEPT ![Controller] = point, ![t] = hit.point]
                  /\ result' = [result EXCEPT ![t] = hit.result]
           /\ UNCHANGED <<swallowed, faults>>
  <2>1. PICK hit \in Hits(t) :
                  /\ pc' = [pc EXCEPT ![Controller] = point, ![t] = hit.point]
                  /\ result' = [result EXCEPT ![t] = hit.result]
    BY <1>2
  <2>2. Thrown(pc[t], hit.point) /\ hit.point \in {"graph", "read", "done"}
    BY HitsOK DEF Thrown
  <2>3. hit.result \in Results /\ (pc[t] \in {"unborn", "read", "done"} => hit.result = result[t])
    BY HitsOK
  <2>4. swallowed' = swallowed /\ faults' = faults /\ faults \in 0..MaxFaults
    BY <1>2 DEF TypeOK
  <2> QED BY <1>1, <2>1, <2>2, <2>3, <2>4
<1>3. CASE /\ \E hit \in Replacements(t) :
                  /\ pc' = [pc EXCEPT ![Controller] = point, ![t] = hit.point]
                  /\ result' = [result EXCEPT ![t] = hit.result]
           /\ swallowed' = swallowed \cup {t}
           /\ Fault
  <2>1. PICK hit \in Replacements(t) :
                  /\ pc' = [pc EXCEPT ![Controller] = point, ![t] = hit.point]
                  /\ result' = [result EXCEPT ![t] = hit.result]
    BY <1>3
  <2>2. Thrown(pc[t], hit.point) /\ hit.point \in {"graph", "read", "done"}
    BY ReplacementsOK DEF Thrown
  <2>3. hit.result \in Results /\ pc[t] \notin {"unborn", "read", "done"}
    BY ReplacementsOK DEF Results, GraphPoints, AskingPoints, Dispatching
  <2>4. faults' = faults + 1 /\ faults' \in 0..MaxFaults
    BY <1>3, BoundsAssumption DEF TypeOK, Fault
  <2> QED BY <1>1, <1>3, <2>1, <2>2, <2>3, <2>4
<1> QED BY <1>2, <1>3 DEF Cancel

(* The types in four parts. *)
ChannelOK == inbox \in Seq(Commands) /\ cursor \in Nat /\ lease \in Actors \cup {Nobody}

PointsOK ==
    /\ pc \in [Actors -> ControllerPoints \cup RunPoints]
    /\ pc[Controller] \in ControllerPoints
    /\ \A t \in Tasks : pc[t] \in RunPoints

BatchesOK ==
    /\ at \in [Actors -> Nat] /\ upto \in [Actors -> Nat]
    /\ target \in [Actors -> Tasks \cup {NoTask}]

ServiceOK ==
    /\ result \in [Tasks -> Results]
    /\ workflowTask \in Tasks \cup {NoTask} /\ lastAnnounced \in Tasks \cup {NoTask}
    /\ started \in 0..MaxRuns /\ timers \in [Tasks -> 0..2]

HistoryOK ==
    /\ entered \subseteq Tasks /\ finalised \in [Tasks -> Nat]
    /\ stopped \subseteq Tasks /\ swallowed \subseteq Tasks
    /\ told \subseteq Tasks \cup {NoTask}
    /\ interrupted \in BOOLEAN /\ overtaken \in BOOLEAN /\ faults \in 0..MaxFaults

LEMMA TypeParts == TypeOK <=> ChannelOK /\ PointsOK /\ BatchesOK /\ ServiceOK /\ HistoryOK
BY DEF TypeOK, ChannelOK, PointsOK, BatchesOK, ServiceOK, HistoryOK

LEMMA TypePartsNext ==
    ASSUME ChannelOK', PointsOK', BatchesOK', ServiceOK', HistoryOK'
    PROVE  TypeOK'
BY DEF TypeOK, ChannelOK, PointsOK, BatchesOK, ServiceOK, HistoryOK

LEMMA DropOK ==
    ASSUME BatchesOK, NEW S, Drop(S)
    PROVE  BatchesOK'
BY DEF BatchesOK, Drop, Actors

LEMMA InterruptedOK ==
    ASSUME ChannelOK, BatchesOK, NEW a \in Actors
    PROVE  Interrupted(a) \subseteq Nat
BY DEF ChannelOK, BatchesOK, Interrupted

LEMMA GotoOK ==
    ASSUME PointsOK, NEW a \in Actors, NEW q,
           a = Controller => q \in ControllerPoints, a \in Tasks => q \in RunPoints,
           Goto(a, q)
    PROVE  PointsOK'
BY Sets DEF PointsOK, Goto, Actors

LEMMA CancelOK ==
    ASSUME TypeOK, NEW t \in Tasks, NEW point \in ControllerPoints, NEW S \in SUBSET Actors,
           Cancel(t, point, S)
    PROVE  /\ cursor' \in Nat /\ lease' \in Actors \cup {Nobody}
           /\ PointsOK' /\ BatchesOK' /\ result' \in [Tasks -> Results]
           /\ finalised' \in [Tasks -> Nat] /\ swallowed' \subseteq Tasks /\ faults' \in 0..MaxFaults
<1>0. ChannelOK /\ PointsOK /\ BatchesOK /\ ServiceOK /\ HistoryOK
  BY TypeParts
<1>1. PICK to \in {"graph", "read", "done"}, res \in Results :
             /\ pc' = [pc EXCEPT ![Controller] = point, ![t] = to]
             /\ result' = [result EXCEPT ![t] = res]
             /\ swallowed' \in {swallowed, swallowed \cup {t}}
             /\ faults' \in 0..MaxFaults
             /\ finalised' = IF pc[t] = "read" THEN [finalised EXCEPT ![t] = finalised[t] + 1]
                             ELSE finalised
  BY CancelEffect
<1>2. to \in RunPoints
  BY Points
<1>3. PointsOK'
  BY <1>0, <1>1, <1>2, Sets DEF PointsOK
<1>4. BatchesOK'
  BY <1>0, DropOK DEF Cancel
<1>5. lease' \in Actors \cup {Nobody}
  BY <1>0 DEF Cancel, GiveBack, ChannelOK
<1>6. cursor' \in Nat
  <2>1. S \cup {t} \subseteq Actors
    BY Sets
  <2>2. cursor' \in UNION {Interrupted(a) : a \in S \cup {t}}
    BY DEF Cancel
  <2>3. PICK a \in S \cup {t} : cursor' \in Interrupted(a)
    BY <2>2
  <2> QED BY <1>0, <2>1, <2>3, InterruptedOK
<1>7. result' \in [Tasks -> Results]
  BY <1>0, <1>1 DEF ServiceOK
<1>8. finalised' \in [Tasks -> Nat]
  BY <1>0, <1>1 DEF HistoryOK
<1>9. swallowed' \subseteq Tasks /\ faults' \in 0..MaxFaults
  BY <1>0, <1>1 DEF HistoryOK
<1> QED BY <1>3, <1>4, <1>5, <1>6, <1>7, <1>8, <1>9

LEMMA CreateTaskOK ==
    ASSUME TypeOK, NEW a \in Actors, NEW q \in (ControllerPoints \cap RunPoints) \cup {"announce"},
           a \in Tasks => q \in RunPoints,
           CreateTask(a, q)
    PROVE  PointsOK' /\ started' \in 0..MaxRuns /\ workflowTask' \in Tasks /\ lastAnnounced' = NoTask
<1>1. started \in Nat /\ started + 1 \in Tasks /\ started + 1 \in 0..MaxRuns
  BY Sets DEF TypeOK, CreateTask
<1>2. pc' = [pc EXCEPT ![a] = q, ![started + 1] = "preflight"]
  BY DEF CreateTask
<1>3. started + 1 # Controller
  BY <1>1, Sets
<1>4. q \in ControllerPoints
  BY DEF ControllerPoints
<1>5. PointsOK'
  BY <1>1, <1>2, <1>3, <1>4, Points, Sets DEF TypeOK, PointsOK
<1> QED BY <1>1, <1>5 DEF CreateTask

LEMMA AbortOK ==
    ASSUME PointsOK, BatchesOK, ChannelOK, NEW a \in Actors, Abort(a)
    PROVE  PointsOK' /\ BatchesOK' /\ lease' \in Actors \cup {Nobody}
<1>1. Goto(a, IF a = Controller THEN "announce" ELSE "graph") /\ Drop({a}) /\ GiveBack({a})
  BY DEF Abort
<1>2. PointsOK'
  <2>1. CASE a = Controller
    BY <1>1, <2>1, GotoOK, Sets DEF ControllerPoints
  <2>2. CASE a # Controller
    BY <1>1, <2>2, GotoOK, Points
  <2> QED BY <2>1, <2>2
<1>3. BatchesOK'
  BY <1>1, DropOK
<1>4. lease' \in Actors \cup {Nobody}
  BY <1>1 DEF GiveBack, ChannelOK
<1> QED BY <1>2, <1>3, <1>4

LEMMA HandleOK ==
    ASSUME TypeOK, NEW a \in Actors, Handle(a)
    PROVE  TypeOK'
<1>0. ChannelOK /\ PointsOK /\ BatchesOK /\ ServiceOK /\ HistoryOK
  BY TypeParts
<1>1. ChannelOK' /\ HistoryOK' /\ at' = at /\ upto' = upto /\ result' = result
  BY <1>0 DEF Handle, channel, history, ChannelOK, HistoryOK
<1>2. CASE HandleRun(a)
  <2>1. PointsOK' /\ started' \in 0..MaxRuns /\ workflowTask' \in Tasks /\ lastAnnounced' = NoTask
    BY <1>2, CreateTaskOK, Points DEF HandleRun, ControllerPoints, RunPoints, GraphPoints, AskingPoints, Dispatching
  <2>2. BatchesOK' /\ ServiceOK'
    BY <1>0, <1>1, <1>2, <2>1 DEF HandleRun, BatchesOK, ServiceOK
  <2> QED BY <1>1, <2>1, <2>2, TypePartsNext
<1>3. CASE HandleStop(a)
  <2>1. target' = [target EXCEPT ![a] = workflowTask] /\ Goto(a, "reply") /\ UNCHANGED service
    BY <1>3 DEF HandleStop
  <2>2. PointsOK'
    BY <1>0, <2>1, GotoOK, Points DEF Dispatching
  <2>3. BatchesOK' /\ ServiceOK'
    BY <1>0, <1>1, <2>1 DEF BatchesOK, ServiceOK, service
  <2> QED BY <1>1, <2>2, <2>3, TypePartsNext
<1>4. CASE HandleOther(a)
  <2>1. UNCHANGED <<target, service>> /\ (Goto(a, "reply") \/ Goto(a, "save"))
    BY <1>4 DEF HandleOther
  <2>2. PointsOK'
    BY <1>0, <2>1, GotoOK, Points DEF Dispatching
  <2>3. BatchesOK' /\ ServiceOK'
    BY <1>0, <1>1, <2>1 DEF BatchesOK, ServiceOK, service
  <2> QED BY <1>1, <2>2, <2>3, TypePartsNext
<1> QED BY <1>2, <1>3, <1>4 DEF Handle

LEMMA FaultOK == ASSUME HistoryOK, Fault PROVE faults' \in 0..MaxFaults
BY BoundsAssumption DEF HistoryOK, Fault

LEMMA ReplyOK ==
    ASSUME TypeOK, NEW a \in Actors, Reply(a)
    PROVE  TypeOK'
<1>0. ChannelOK /\ PointsOK /\ BatchesOK /\ ServiceOK /\ HistoryOK
  BY TypeParts
<1>1. /\ inbox' = inbox /\ cursor' = cursor /\ result' = result /\ workflowTask' = workflowTask
      /\ lastAnnounced' = lastAnnounced /\ started' = started /\ entered' = entered
      /\ finalised' = finalised /\ swallowed' = swallowed /\ told' = told
      /\ interrupted' = interrupted /\ overtaken' = overtaken
  BY DEF Reply
<1>2. CASE /\ Goto(a, "save") /\ target' = [target EXCEPT ![a] = NoTask]
           /\ IF target[a] = NoTask
              THEN UNCHANGED <<timers, stopped>>
              ELSE /\ timers' = [timers EXCEPT ![target[a]] = IF @ < 2 THEN @ + 1 ELSE @]
                   /\ stopped' = stopped \cup {target[a]}
           /\ UNCHANGED <<lease, at, upto, faults>>
  <2>1. PointsOK'
    BY <1>0, <1>2, GotoOK, Points DEF Dispatching
  <2>2. BatchesOK' /\ ChannelOK'
    BY <1>0, <1>1, <1>2 DEF BatchesOK, ChannelOK
  <2>3. timers' \in [Tasks -> 0..2] /\ stopped' \subseteq Tasks
    <3>1. CASE target[a] = NoTask
      BY <1>0, <1>2, <3>1 DEF ServiceOK, HistoryOK
    <3>2. CASE target[a] # NoTask
      <4>1. target[a] \in Tasks /\ timers[target[a]] \in 0..2
        BY <1>0, <3>2 DEF BatchesOK, ServiceOK
      <4>2. timers' = [timers EXCEPT ![target[a]] = IF timers[target[a]] < 2
                                                  THEN timers[target[a]] + 1 ELSE timers[target[a]]]
        BY <1>2, <3>2
      <4>3. (IF timers[target[a]] < 2 THEN timers[target[a]] + 1 ELSE timers[target[a]]) \in 0..2
        BY <4>1
      <4> QED BY <1>0, <1>2, <3>2, <4>1, <4>2, <4>3 DEF ServiceOK, HistoryOK
    <3> QED BY <3>1, <3>2
  <2>4. ServiceOK'
    BY <1>0, <1>1, <2>3 DEF ServiceOK
  <2>5. HistoryOK'
    BY <1>0, <1>1, <1>2, <2>3 DEF HistoryOK
  <2> QED BY <2>1, <2>2, <2>4, <2>5, TypePartsNext
<1>3. CASE Abort(a) /\ Fault /\ UNCHANGED <<timers, stopped>>
  <2>1. PointsOK' /\ BatchesOK' /\ lease' \in Actors \cup {Nobody}
    BY <1>0, <1>3, AbortOK
  <2>2. faults' \in 0..MaxFaults
    BY <1>0, <1>3, FaultOK
  <2>3. ChannelOK' /\ ServiceOK' /\ HistoryOK'
    BY <1>0, <1>1, <1>3, <2>1, <2>2 DEF ChannelOK, ServiceOK, HistoryOK
  <2> QED BY <2>1, <2>3, TypePartsNext
<1> QED BY <1>2, <1>3 DEF Reply

LEMMA SaveOK ==
    ASSUME TypeOK, NEW a \in Actors, Save(a)
    PROVE  TypeOK'
<1>0. ChannelOK /\ PointsOK /\ BatchesOK /\ ServiceOK /\ HistoryOK
  BY TypeParts
<1>1. inbox' = inbox /\ ServiceOK' /\ at[a] \in Nat
      /\ UNCHANGED <<entered, finalised, stopped, swallowed, told, interrupted, overtaken>>
  BY <1>0 DEF Save, ServiceOK, service, history, BatchesOK
<1>2. CASE /\ lease = a /\ cursor' = at[a] /\ UNCHANGED faults
           /\ at' = [at EXCEPT ![a] = @ + 1] /\ Goto(a, "handle") /\ UNCHANGED <<lease, upto, target>>
  <2>1. PointsOK'
    BY <1>0, <1>2, GotoOK, Points DEF Dispatching
  <2>2. BatchesOK' /\ ChannelOK' /\ HistoryOK'
    BY <1>0, <1>1, <1>2 DEF BatchesOK, ChannelOK, HistoryOK
  <2> QED BY <1>1, <2>1, <2>2, TypePartsNext
<1>3. CASE /\ lease = a /\ cursor' = at[a] /\ UNCHANGED faults
           /\ Drop({a})
           /\ IF a = Controller
              THEN Goto(a, "announce") /\ GiveBack({a})
              ELSE Goto(a, "waiting") /\ UNCHANGED lease
  <2>1. PointsOK'
    <3>1. CASE a = Controller
      BY <1>0, <1>3, <3>1, GotoOK, Sets DEF ControllerPoints
    <3>2. CASE a # Controller
      BY <1>0, <1>3, <3>2, GotoOK, Points
    <3> QED BY <3>1, <3>2
  <2>2. BatchesOK'
    BY <1>0, <1>3, DropOK
  <2>3. lease' \in Actors \cup {Nobody}
    BY <1>0, <1>3 DEF GiveBack, ChannelOK
  <2>4. ChannelOK' /\ HistoryOK'
    BY <1>0, <1>1, <1>3, <2>3 DEF ChannelOK, HistoryOK
  <2> QED BY <1>1, <2>1, <2>2, <2>4, TypePartsNext
<1>4. CASE lease # a /\ Abort(a) /\ UNCHANGED <<cursor, faults>>
  <2>1. PointsOK' /\ BatchesOK' /\ lease' \in Actors \cup {Nobody}
    BY <1>0, <1>4, AbortOK
  <2>2. ChannelOK' /\ HistoryOK'
    BY <1>0, <1>1, <1>4, <2>1 DEF ChannelOK, HistoryOK
  <2> QED BY <1>1, <2>1, <2>2, TypePartsNext
<1>5. CASE cursor' \in Interrupted(a) /\ Abort(a) /\ Fault
  <2>1. PointsOK' /\ BatchesOK' /\ lease' \in Actors \cup {Nobody}
    BY <1>0, <1>5, AbortOK
  <2>2. cursor' \in Nat /\ faults' \in 0..MaxFaults
    BY <1>0, <1>5, InterruptedOK, FaultOK
  <2>3. ChannelOK' /\ HistoryOK'
    BY <1>0, <1>1, <2>1, <2>2 DEF ChannelOK, HistoryOK
  <2> QED BY <1>1, <2>1, <2>3, TypePartsNext
<1> QED BY <1>2, <1>3, <1>4, <1>5 DEF Save

LEMMA FireTimerOK ==
    ASSUME TypeOK, NEW t \in Tasks, FireTimer(t)
    PROVE  TypeOK'
<1>0. ChannelOK /\ PointsOK /\ BatchesOK /\ ServiceOK /\ HistoryOK
  BY TypeParts
<1>1. Cancel(t, pc[Controller], {}) /\ pc[Controller] \in ControllerPoints
  BY <1>0 DEF FireTimer, PointsOK
<1>2. /\ cursor' \in Nat /\ lease' \in Actors \cup {Nobody}
      /\ PointsOK' /\ BatchesOK' /\ result' \in [Tasks -> Results]
      /\ finalised' \in [Tasks -> Nat] /\ swallowed' \subseteq Tasks /\ faults' \in 0..MaxFaults
  BY <1>1, CancelOK
<1>3. timers' \in [Tasks -> 0..2]
  BY <1>0 DEF FireTimer, ServiceOK
<1>4. ChannelOK' /\ ServiceOK' /\ HistoryOK'
  BY <1>0, <1>2, <1>3 DEF FireTimer, ChannelOK, ServiceOK, HistoryOK
<1> QED BY <1>2, <1>4, TypePartsNext

LEMMA InterruptOK ==
    ASSUME TypeOK, Interrupt
    PROVE  TypeOK'
<1>0. ChannelOK /\ PointsOK /\ BatchesOK /\ ServiceOK /\ HistoryOK
  BY TypeParts
<1>1. /\ interrupted' = TRUE /\ inbox' = inbox
      /\ UNCHANGED <<workflowTask, lastAnnounced, started, timers>>
      /\ UNCHANGED <<entered, stopped, told, overtaken>>
  BY DEF Interrupt, Finally, service
<1>2. /\ cursor' \in Nat /\ lease' \in Actors \cup {Nobody}
      /\ PointsOK' /\ BatchesOK' /\ result' \in [Tasks -> Results]
      /\ finalised' \in [Tasks -> Nat] /\ swallowed' \subseteq Tasks /\ faults' \in 0..MaxFaults
  <2>1. CASE IsRunning
    <3>1. Cancel(workflowTask, "gather", {Controller})
      BY <2>1 DEF Interrupt, Finally
    <3>2. workflowTask \in Tasks /\ "gather" \in ControllerPoints /\ {Controller} \in SUBSET Actors
      BY <1>0, <2>1, Sets DEF IsRunning, ServiceOK, ControllerPoints
    <3> QED BY <3>1, <3>2, CancelOK
  <2>2. CASE ~IsRunning
    <3>1. /\ Goto(Controller, "gather") /\ Drop({Controller}) /\ GiveBack({Controller})
          /\ cursor' \in Interrupted(Controller)
          /\ UNCHANGED <<result, swallowed, finalised, faults>>
      BY <2>2 DEF Interrupt, Finally
    <3>2. PointsOK'
      BY <1>0, <3>1, GotoOK, Sets DEF ControllerPoints
    <3>3. BatchesOK'
      BY <1>0, <3>1, DropOK
    <3>4. cursor' \in Nat
      BY <1>0, <3>1, InterruptedOK, Sets
    <3>5. lease' \in Actors \cup {Nobody}
      BY <1>0, <3>1 DEF GiveBack, ChannelOK
    <3>6. /\ result' \in [Tasks -> Results] /\ finalised' \in [Tasks -> Nat]
          /\ swallowed' \subseteq Tasks /\ faults' \in 0..MaxFaults
      BY <1>0, <3>1 DEF ServiceOK, HistoryOK
    <3> QED BY <3>2, <3>3, <3>4, <3>5, <3>6
  <2> QED BY <2>1, <2>2
<1>3. ChannelOK' /\ ServiceOK' /\ HistoryOK'
  BY <1>0, <1>1, <1>2 DEF ChannelOK, ServiceOK, HistoryOK
<1> QED BY <1>2, <1>3, TypePartsNext

(* The controller's own steps. *)
LEMMA ControllerOK ==
    ASSUME TypeOK, Greet \/ Announce \/ Announced \/ Poll \/ Close
    PROVE  TypeOK'
<1>0. ChannelOK /\ PointsOK /\ BatchesOK /\ ServiceOK /\ HistoryOK
  BY TypeParts
<1>c. {"announce", "announcing", "poll", "gather", "closed", "handle"} \subseteq ControllerPoints
  BY DEF ControllerPoints, Dispatching
<1>1. CASE Greet
  <2>1. CASE CreateTask(Controller, "announce") /\ UNCHANGED <<channel, batches, result, timers, history, faults>>
    <3>1. PointsOK' /\ started' \in 0..MaxRuns /\ workflowTask' \in Tasks /\ lastAnnounced' = NoTask
      BY <2>1, CreateTaskOK, Sets
    <3>2. ChannelOK' /\ BatchesOK' /\ ServiceOK' /\ HistoryOK'
      BY <1>0, <2>1, <3>1 DEF ChannelOK, BatchesOK, ServiceOK, HistoryOK, channel, batches, history
    <3> QED BY <3>1, <3>2, TypePartsNext
  <2>2. CASE Fault /\ Goto(Controller, "gather") /\ UNCHANGED <<channel, batches, result, service, history>>
    <3>1. PointsOK' /\ faults' \in 0..MaxFaults
      BY <1>0, <1>c, <2>2, GotoOK, FaultOK, Sets
    <3>2. ChannelOK' /\ BatchesOK' /\ ServiceOK' /\ HistoryOK'
      BY <1>0, <2>2, <3>1 DEF ChannelOK, BatchesOK, ServiceOK, HistoryOK, channel, batches, service, history
    <3> QED BY <3>1, <3>2, TypePartsNext
  <2> QED BY <1>1, <2>1, <2>2 DEF Greet
<1>2. CASE Announce
  <2>1. /\ Goto(Controller, "announcing") \/ Goto(Controller, "poll")
        /\ lastAnnounced' \in {lastAnnounced, workflowTask}
        /\ UNCHANGED <<channel, batches, result, workflowTask, started, timers, history, faults>>
    BY <1>2 DEF Announce
  <2>2. PointsOK'
    BY <1>0, <1>c, <2>1, GotoOK, Sets
  <2>3. ChannelOK' /\ BatchesOK' /\ ServiceOK' /\ HistoryOK'
    BY <1>0, <2>1 DEF ChannelOK, BatchesOK, ServiceOK, HistoryOK, channel, batches, history
  <2> QED BY <2>2, <2>3, TypePartsNext
<1>3. CASE Announced
  <2>1. /\ Goto(Controller, "poll") \/ Goto(Controller, "gather")
        /\ workflowTask' \in {workflowTask, NoTask}
        /\ told' \in {told, told \cup {workflowTask}} /\ (told' = told \/ Goto(Controller, "poll"))
        /\ Fault \/ faults' = faults
        /\ UNCHANGED <<channel, batches, result, lastAnnounced, started, timers, entered,
                       finalised, stopped, swallowed, interrupted, overtaken>>
    BY <1>3 DEF Announced
  <2>2. PointsOK' /\ faults' \in 0..MaxFaults
    BY <1>0, <1>c, <2>1, GotoOK, FaultOK, Sets DEF HistoryOK
  <2>3. ChannelOK' /\ BatchesOK' /\ ServiceOK'
    BY <1>0, <2>1 DEF ChannelOK, BatchesOK, ServiceOK, channel, batches
  <2>4. told' \subseteq Tasks \cup {NoTask}
    BY <1>0, <2>1 DEF HistoryOK, ServiceOK
  <2>5. HistoryOK'
    BY <1>0, <2>1, <2>2, <2>4 DEF HistoryOK
  <2> QED BY <2>2, <2>3, <2>5, TypePartsNext
<1>4. CASE Poll
  <2>1. /\ Goto(Controller, "handle") \/ Goto(Controller, "announce")
        /\ lease' \in {lease, Controller}
        /\ at' = at \/ at' = [at EXCEPT ![Controller] = cursor + 1]
        /\ upto' = upto \/ upto' = [upto EXCEPT ![Controller] = Len(inbox)]
        /\ UNCHANGED <<inbox, cursor, target, result, service, history, faults>>
    BY <1>4 DEF Poll, Fetch
  <2>2. PointsOK'
    BY <1>0, <1>c, <2>1, GotoOK, Sets
  <2>3. Len(inbox) \in Nat /\ cursor + 1 \in Nat
    BY <1>0 DEF ChannelOK
  <2>4. at' \in [Actors -> Nat] /\ upto' \in [Actors -> Nat]
    BY <1>0, <2>1, <2>3 DEF BatchesOK
  <2>5. ChannelOK' /\ BatchesOK'
    BY <1>0, <2>1, <2>4, Sets DEF ChannelOK, BatchesOK
  <2>6. ServiceOK' /\ HistoryOK'
    BY <1>0, <2>1 DEF ServiceOK, HistoryOK, service, history
  <2> QED BY <2>2, <2>5, <2>6, TypePartsNext
<1>5. CASE Close
  <2>1. Goto(Controller, "closed") /\ UNCHANGED <<channel, batches, result, service, history, faults>>
    BY <1>5 DEF Close
  <2>2. PointsOK'
    BY <1>0, <1>c, <2>1, GotoOK, Sets
  <2>3. ChannelOK' /\ BatchesOK' /\ ServiceOK' /\ HistoryOK'
    BY <1>0, <2>1 DEF ChannelOK, BatchesOK, ServiceOK, HistoryOK, channel, batches, service, history
  <2> QED BY <2>2, <2>3, TypePartsNext
<1> QED BY <1>1, <1>2, <1>3, <1>4, <1>5

(* The steps of a run that are not a handler's. *)
LEMMA RunOK ==
    ASSUME TypeOK, NEW t \in Tasks,
           \/ Preflight(t) \/ GraphStep(t) \/ ClaimLease(t) \/ FetchCommands(t) \/ QuestionEnds(t)
           \/ Flush(t) \/ ReadCheckpoint(t)
    PROVE  TypeOK'
<1>0. ChannelOK /\ PointsOK /\ BatchesOK /\ ServiceOK /\ HistoryOK
  BY TypeParts
<1>1. \E q \in {"graph", "asking", "waiting", "handle", "flush", "read", "done"} : Goto(t, q)
  BY DEF Preflight, GraphStep, ClaimLease, FetchCommands, QuestionEnds, Flush, ReadCheckpoint, Fetch
<1>2. PointsOK'
  BY <1>0, <1>1, GotoOK, Points, Sets
<1>3. Len(inbox) \in Nat /\ cursor + 1 \in Nat
  BY <1>0 DEF ChannelOK
<1>4. /\ inbox' = inbox /\ cursor' = cursor
      /\ UNCHANGED <<target, service, stopped, swallowed, told, interrupted, overtaken, faults>>
  BY DEF Preflight, GraphStep, ClaimLease, FetchCommands, QuestionEnds, Flush, ReadCheckpoint, Fetch,
         channel, batches, history
<1>5. lease' \in Actors \cup {Nobody}
  BY <1>0, Sets DEF Preflight, GraphStep, ClaimLease, FetchCommands, QuestionEnds, Flush, ReadCheckpoint,
         channel, ChannelOK, GiveBack
<1>6. /\ at' = at \/ at' = [at EXCEPT ![t] = cursor + 1]
      /\ upto' = upto \/ upto' = [upto EXCEPT ![t] = Len(inbox)]
  BY DEF Preflight, GraphStep, ClaimLease, FetchCommands, QuestionEnds, Flush, ReadCheckpoint, Fetch, batches
<1>7. ChannelOK' /\ BatchesOK'
  BY <1>0, <1>3, <1>4, <1>5, <1>6 DEF ChannelOK, BatchesOK
<1>8. /\ result' = result \/ \E res \in Results : result' = [result EXCEPT ![t] = res]
      /\ entered' \in {entered, entered \cup {t}}
      /\ finalised' = finalised \/ finalised' = [finalised EXCEPT ![t] = finalised[t] + 1]
  BY DEF Preflight, GraphStep, ClaimLease, FetchCommands, QuestionEnds, Flush, ReadCheckpoint, history, Results
<1>9. ServiceOK' /\ HistoryOK'
  BY <1>0, <1>4, <1>8 DEF ServiceOK, HistoryOK, service
<1> QED BY <1>2, <1>7, <1>9, TypePartsNext

LEMMA TypeNext == TypeOK /\ [Next]_vars => TypeOK'
<1> SUFFICES ASSUME TypeOK, [Next]_vars PROVE TypeOK'
  OBVIOUS
<1>0. ChannelOK /\ PointsOK /\ BatchesOK /\ ServiceOK /\ HistoryOK
  BY TypeParts
<1>1. CASE \E command \in Commands : Send(command)
  <2>1. PICK command \in Commands : Send(command)
    BY <1>1
  <2>2. inbox' \in Seq(Commands)
    BY <1>0, <2>1 DEF Send, ChannelOK
  <2>3. ChannelOK' /\ PointsOK' /\ BatchesOK' /\ ServiceOK' /\ HistoryOK'
    BY <1>0, <2>1, <2>2 DEF Send, ChannelOK, PointsOK, BatchesOK, ServiceOK, HistoryOK, batches, service, history
  <2> QED BY <2>3, TypePartsNext
<1>2. CASE ControllerStep
  BY <1>2, ControllerOK, HandleOK, ReplyOK, SaveOK, Sets DEF ControllerStep, Dispatch
<1>3. CASE \E t \in Tasks : RunStep(t)
  BY <1>3, RunOK, HandleOK, ReplyOK, SaveOK, Sets DEF RunStep, Dispatch
<1>4. CASE \E t \in Tasks : FireTimer(t)
  BY <1>4, FireTimerOK
<1>5. CASE Interrupt
  BY <1>5, InterruptOK
<1>6. CASE LeaseRunsOut
  <2>1. /\ lease' = Nobody /\ (Fault \/ faults' = faults) /\ overtaken' \in BOOLEAN
        /\ UNCHANGED <<inbox, cursor, pc, batches, result, service, entered, finalised, stopped,
                       swallowed, told, interrupted>>
    BY <1>0, <1>6 DEF LeaseRunsOut, HistoryOK
  <2>2. faults' \in 0..MaxFaults
    BY <1>0, <2>1, FaultOK DEF HistoryOK
  <2>3. ChannelOK' /\ PointsOK' /\ BatchesOK' /\ ServiceOK' /\ HistoryOK'
    BY <1>0, <2>1, <2>2 DEF ChannelOK, PointsOK, BatchesOK, ServiceOK, HistoryOK, batches, service
  <2> QED BY <2>3, TypePartsNext
<1>7. CASE UNCHANGED vars
  <2>1. ChannelOK' /\ PointsOK' /\ BatchesOK' /\ ServiceOK' /\ HistoryOK'
    BY <1>0, <1>7 DEF vars, ChannelOK, PointsOK, BatchesOK, ServiceOK, HistoryOK, channel, batches, service, history
  <2> QED BY <2>1, TypePartsNext
<1> QED BY <1>1, <1>2, <1>3, <1>4, <1>5, <1>6, <1>7 DEF Next

-----------------------------------------------------------------------------
(* The invariant *)

LEMMA ControlInit == Init => ControlInv
<1> SUFFICES ASSUME Init PROVE ControlInv
  OBVIOUS
<1>1. \A t \in Tasks : pc[t] = "unborn" /\ t > 0
  BY Sets DEF Init, Tasks, Controller
<1>2. pc[Controller] = "greet"
  BY Sets DEF Init
<1>3. TypeOK
  <2>1. ChannelOK /\ BatchesOK
    BY DEF Init, ChannelOK, BatchesOK
  <2>2. PointsOK
    BY <1>1, <1>2, Sets DEF Init, PointsOK, ControllerPoints, RunPoints
  <2>3. 0 \in 0..MaxRuns /\ 0 \in 0..2 /\ 0 \in 0..MaxFaults /\ "none" \in Results
    BY Sets, BoundsAssumption DEF Results
  <2>4. ServiceOK
    BY <2>3 DEF Init, ServiceOK
  <2>5. HistoryOK
    BY <2>3 DEF Init, HistoryOK
  <2> QED BY <2>1, <2>2, <2>4, <2>5, TypeParts
<1>4. BornInOrder
  <2>1. \A t \in Tasks : t > started
    BY <1>1 DEF Init
  <2>2. workflowTask <= started
    BY DEF Init, NoTask
  <2>3. \A a \in Actors : target[a] <= started
    BY DEF Init, NoTask
  <2> QED BY <1>1, <2>1, <2>2, <2>3 DEF BornInOrder
<1>6. \A t \in Tasks : ~Live(t)
  BY <1>1 DEF Live
<1>7. TimersAreDue
  BY Sets DEF Init, TimersAreDue
<1>8. QuietMoments /\ ClosedAfterRuns
  BY <1>6 DEF QuietMoments, ClosedAfterRuns
<1>5. EnteredInOrder /\ LiveRunIsKnown /\ StopHitsItsRun /\ FinalisedOnce
  BY <1>1 DEF Init, EnteredInOrder, LiveRunIsKnown, Live, StopHitsItsRun, FinalisedOnce, GraphPoints,
              AskingPoints, Dispatching
<1> QED BY <1>3, <1>4, <1>5, <1>7, <1>8 DEF ControlInv

(* Which runs, targets and timers a step may speak of. *)
KeepsRuns ==
    /\ started' = started
    /\ \/ workflowTask' = workflowTask
       \/ workflowTask' = NoTask /\ \A t \in Tasks : ~Live(t)

KeepsTargets == \A a \in Actors : target'[a] \in {target[a], workflowTask, NoTask}

KeepsTimers ==
    \A t \in Tasks : timers'[t] > 0 => timers[t] > 0 \/ (t \in stopped' /\ t <= started)

KeepsHistory ==
    /\ stopped \subseteq stopped' /\ (interrupted => interrupted')
    /\ swallowed' = swallowed
    /\ \A t \in Tasks : result'[t] = "cancelled" => result[t] = "cancelled"

(* With no run at work the controller knows of none, and with one of that one. *)
LEMMA RunningIsLive ==
    ASSUME ControlInv
    PROVE  /\ ~IsRunning => \A t \in Tasks : ~Live(t)
           /\ IsRunning => workflowTask \in Tasks
           /\ \A t \in Tasks : Live(t) => IsRunning
<1>1. \A t \in Tasks : Live(t) => t = workflowTask /\ t # NoTask /\ pc[t] # "done"
  BY Sets DEF ControlInv, LiveRunIsKnown, Live
<1> QED BY <1>1 DEF IsRunning, ControlInv, TypeOK

LEMMA TargetsStep ==
    ASSUME ControlInv, TypeOK', KeepsRuns, KeepsTargets
    PROVE  workflowTask' <= started' /\ \A a \in Actors : target'[a] <= started'
<1>1. started' = started /\ started \in Nat /\ NoTask <= started
  BY Sets DEF ControlInv, TypeOK, KeepsRuns, NoTask
<1>2. workflowTask <= started /\ \A a \in Actors : target[a] <= started
  BY DEF ControlInv, BornInOrder
<1>3. workflowTask' <= started'
  <2>1. workflowTask' = workflowTask \/ workflowTask' = NoTask
    BY DEF KeepsRuns
  <2> QED BY <1>1, <1>2, <2>1
<1>4. ASSUME NEW a \in Actors PROVE target'[a] <= started'
  <2>1. target'[a] = target[a] \/ target'[a] = workflowTask \/ target'[a] = NoTask
    BY DEF KeepsTargets
  <2> QED BY <1>1, <1>2, <2>1
<1> QED BY <1>3, <1>4

LEMMA TimersStep ==
    ASSUME ControlInv, KeepsRuns, KeepsTimers, KeepsHistory
    PROVE  TimersAreDue'
BY DEF ControlInv, TimersAreDue, KeepsRuns, KeepsTimers, KeepsHistory

LEMMA StopsStep ==
    ASSUME ControlInv, KeepsHistory
    PROVE  StopHitsItsRun'
BY DEF ControlInv, StopHitsItsRun, KeepsHistory

(* The controller goes on and leaves the runs where they are. *)
LEMMA ControllerMove ==
    ASSUME ControlInv, TypeOK', NEW q \in ControllerPoints, Goto(Controller, q),
           q \in {"greet", "announcing", "closed"} => \A t \in Tasks : ~Live(t),
           KeepsRuns, KeepsTargets, KeepsTimers, KeepsHistory,
           entered' = entered, finalised' = finalised
    PROVE  ControlInv'
<1>1. \A t \in Tasks : pc'[t] = pc[t] /\ (Live(t)' <=> Live(t))
  BY Sets DEF Goto, Live, ControlInv, TypeOK
<1>2. pc'[Controller] = q
  BY Sets DEF Goto, ControlInv, TypeOK
<1>3. BornInOrder'
  BY <1>1, TargetsStep DEF ControlInv, BornInOrder, KeepsRuns
<1>4. QuietMoments' /\ ClosedAfterRuns'
  BY <1>1, <1>2 DEF QuietMoments, ClosedAfterRuns
<1>5. EnteredInOrder' /\ FinalisedOnce'
  BY <1>1 DEF ControlInv, EnteredInOrder, FinalisedOnce
<1>6. LiveRunIsKnown'
  BY <1>1 DEF ControlInv, LiveRunIsKnown, KeepsRuns
<1> QED BY <1>3, <1>4, <1>5, <1>6, TimersStep, StopsStep DEF ControlInv

(* A run at work goes on, and perhaps comes to its end. *)
LEMMA RunMove ==
    ASSUME ControlInv, TypeOK', NEW t \in Tasks, Live(t),
           NEW q \in RunPoints \ {"unborn", "preflight"}, Goto(t, q),
           KeepsRuns, KeepsTargets, KeepsTimers, KeepsHistory,
           entered' \in {entered, entered \cup {t}}, q # "done" => t \in entered',
           finalised' = IF q = "done" /\ t \in entered' THEN [finalised EXCEPT ![t] = finalised[t] + 1]
                        ELSE finalised
    PROVE  ControlInv'
<1>1. pc'[t] = q /\ pc'[Controller] = pc[Controller] /\ \A u \in Tasks \ {t} : pc'[u] = pc[u]
  BY Sets DEF Goto, ControlInv, TypeOK
<1>2. pc[t] \notin {"unborn", "done"} /\ q \notin {"unborn", "preflight"}
  BY DEF Live
<1>3. \A u \in Tasks : Live(u)' => Live(u)
  BY <1>1, <1>2 DEF Live
<1>4. BornInOrder'
  BY <1>1, <1>2, TargetsStep DEF ControlInv, BornInOrder, KeepsRuns
<1>5. QuietMoments' /\ ClosedAfterRuns'
  BY <1>1, <1>3 DEF ControlInv, QuietMoments, ClosedAfterRuns
<1>6. LiveRunIsKnown'
  BY <1>3 DEF ControlInv, LiveRunIsKnown, KeepsRuns
<1>7. EnteredInOrder'
  <2>1. q = "done" => q \notin GraphPoints \cup {"flush", "read"}
    BY DEF GraphPoints, AskingPoints, Dispatching
  <2> QED BY <1>1, <1>2, <2>1 DEF ControlInv, EnteredInOrder
<1>8. FinalisedOnce'
  <2>1. finalised[t] = 0 /\ t \in DOMAIN finalised
    BY <1>2 DEF ControlInv, FinalisedOnce, TypeOK
  <2>2. finalised'[t] = IF q = "done" /\ t \in entered' THEN 1 ELSE 0
    BY <2>1
  <2>3. \A u \in Tasks \ {t} : finalised'[u] = finalised[u] /\ (u \in entered' <=> u \in entered)
    BY DEF ControlInv, TypeOK
  <2> QED BY <1>1, <2>2, <2>3 DEF ControlInv, FinalisedOnce
<1> QED BY <1>4, <1>5, <1>6, <1>7, <1>8, TimersStep, StopsStep DEF ControlInv

(* A cancellation reaches a run, with a reason. *)
LEMMA CancelStep ==
    ASSUME ControlInv, TypeOK', NEW t \in Tasks, t <= started,
           NEW point \in {pc[Controller], "gather"}, NEW S \in SUBSET Actors,
           Cancel(t, point, S),
           KeepsRuns, KeepsTimers,
           entered' = entered, stopped' = stopped, interrupted => interrupted',
           t \in stopped \/ interrupted'
    PROVE  ControlInv'
<1>0. TypeOK
  BY DEF ControlInv
<1>1. PICK to \in {"graph", "read", "done"}, res \in Results :
             /\ Thrown(pc[t], to)
             /\ pc' = [pc EXCEPT ![Controller] = point, ![t] = to]
             /\ result' = [result EXCEPT ![t] = res]
             /\ swallowed' \in {swallowed, swallowed \cup {t}}
             /\ finalised' = IF pc[t] = "read" THEN [finalised EXCEPT ![t] = finalised[t] + 1]
                             ELSE finalised
  BY <1>0, CancelEffect
<1>2. pc'[t] = to /\ pc'[Controller] = point /\ \A u \in Tasks \ {t} : pc'[u] = pc[u]
  BY <1>0, <1>1, Sets DEF TypeOK
<1>3. pc[t] # "unborn" /\ to # "unborn"
  <2>1. t \in Nat /\ started \in Nat
    BY <1>0, Sets DEF TypeOK
  <2>2. ~(t > started)
    BY <2>1
  <2> QED BY <2>2 DEF ControlInv, BornInOrder
<1>4. \A u \in Tasks : Live(u)' => Live(u)
  <2>1. pc[t] = "done" => to = "done"
    BY <1>1 DEF Thrown, GraphPoints, AskingPoints, Dispatching
  <2> QED BY <1>2, <1>3, <2>1 DEF Live
<1>5. KeepsTargets
  BY <1>0 DEF Cancel, Drop, KeepsTargets, TypeOK
<1>6. BornInOrder'
  BY <1>2, <1>3, <1>5, TargetsStep DEF ControlInv, BornInOrder, KeepsRuns
<1>7. QuietMoments' /\ ClosedAfterRuns'
  BY <1>2, <1>4 DEF ControlInv, QuietMoments, ClosedAfterRuns
<1>8. LiveRunIsKnown'
  BY <1>4 DEF ControlInv, LiveRunIsKnown, KeepsRuns
<1>9. EnteredInOrder'
  <2>1. to \in {"graph", "read"} => t \in entered
    <3>1. to \in {"graph", "read"} => pc[t] \in GraphPoints \cup {"flush"}
      BY <1>1 DEF Thrown
    <3> QED BY <3>1 DEF ControlInv, EnteredInOrder
  <2>2. "done" \notin GraphPoints \cup {"flush", "read"}
    BY DEF GraphPoints, AskingPoints, Dispatching
  <2> QED BY <1>2, <2>1, <2>2 DEF ControlInv, EnteredInOrder
<1>10. FinalisedOnce'
  <2>1. finalised[t] = IF pc[t] = "done" /\ t \in entered THEN 1 ELSE 0
    BY DEF ControlInv, FinalisedOnce
  <2>2. \A u \in Tasks \ {t} : finalised'[u] = finalised[u]
    BY <1>0, <1>1 DEF TypeOK
  <2>3. finalised'[t] = IF to = "done" /\ t \in entered THEN 1 ELSE 0
    <3>1. CASE pc[t] = "read"
      <4>1. t \in entered /\ to = "done"
        BY <1>1, <3>1 DEF ControlInv, EnteredInOrder, Thrown, GraphPoints, AskingPoints, Dispatching
      <4>2. finalised'[t] = 1
        BY <1>0, <1>1, <2>1, <3>1 DEF TypeOK
      <4> QED BY <4>1, <4>2
    <3>2. CASE pc[t] = "done"
      <4>1. to = "done" /\ finalised' = finalised
        BY <1>1, <3>2 DEF Thrown, GraphPoints, AskingPoints, Dispatching
      <4> QED BY <2>1, <3>2, <4>1
    <3>3. CASE pc[t] \in GraphPoints \cup {"flush"}
      <4>1. to # "done" /\ pc[t] \notin {"read", "done"}
        BY <1>1, <3>3 DEF Thrown, GraphPoints, AskingPoints, Dispatching
      <4> QED BY <1>1, <2>1, <4>1
    <3>4. CASE pc[t] = "preflight"
      <4>1. t \notin entered
        BY <3>4 DEF ControlInv, EnteredInOrder
      <4> QED BY <1>1, <2>1, <3>4, <4>1
    <3> QED BY <1>0, <1>3, <3>1, <3>2, <3>3, <3>4 DEF TypeOK, RunPoints
  <2> QED BY <1>2, <2>2, <2>3 DEF ControlInv, FinalisedOnce
<1>11. StopHitsItsRun'
  BY <1>0, <1>1 DEF ControlInv, StopHitsItsRun, TypeOK
<1>12. TimersAreDue'
  BY DEF ControlInv, TimersAreDue, KeepsRuns, KeepsTimers
<1> QED BY <1>6, <1>7, <1>8, <1>9, <1>10, <1>11, <1>12 DEF ControlInv

(* A run is created when none is at work. *)
LEMMA CreateStep ==
    ASSUME ControlInv, TypeOK', NEW q \in {"announce", "reply"},
           \A t \in Tasks : ~Live(t), CreateTask(Controller, q),
           target' = target, timers' = timers, result' = result, entered' = entered,
           finalised' = finalised, stopped' = stopped, swallowed' = swallowed,
           interrupted' = interrupted
    PROVE  ControlInv'
<1> DEFINE new == started + 1
<1>0. TypeOK /\ BornInOrder
  BY DEF ControlInv
<1>1. started \in Nat /\ new \in Tasks /\ new > started /\ started' = new /\ workflowTask' = new
  BY <1>0, Sets DEF TypeOK, CreateTask
<1>2. pc[new] = "unborn"
  BY <1>0, <1>1 DEF BornInOrder
<1>3. /\ pc'[Controller] = q /\ pc'[new] = "preflight"
      /\ \A t \in Tasks \ {new} : pc'[t] = pc[t]
  <2>1. pc' = [pc EXCEPT ![Controller] = q, ![new] = "preflight"]
    BY DEF CreateTask
  <2>2. new # Controller /\ pc \in [Actors -> ControllerPoints \cup RunPoints]
    BY <1>0, <1>1, Sets DEF TypeOK
  <2> QED BY <1>1, <2>1, <2>2, Sets
<1>4. BornInOrder'
  <2>1. ASSUME NEW t \in Tasks \ {new} PROVE pc'[t] = "unborn" <=> t > started'
    <3>1. t \in Nat /\ t # new
      BY Sets
    <3>2. t > new <=> t > started
      BY <1>1, <3>1
    <3>3. pc[t] = "unborn" <=> t > started
      BY <1>0 DEF BornInOrder
    <3> QED BY <1>1, <1>3, <3>2, <3>3
  <2>2. pc'[new] # "unborn"
    BY <1>3
  <2>3. ~(new > started') /\ workflowTask' <= started'
    BY <1>1
  <2>4. \A a \in Actors : target'[a] <= started'
    <3> SUFFICES ASSUME NEW a \in Actors PROVE target[a] <= new
      BY <1>1
    <3>1. target[a] <= started
      BY <1>0 DEF BornInOrder
    <3>2. target[a] \in Tasks \cup {NoTask}
      BY <1>0 DEF TypeOK
    <3>3. target[a] \in Nat
      BY <3>2, Sets DEF NoTask
    <3> QED BY <1>1, <3>1, <3>3
  <2> QED BY <2>1, <2>2, <2>3, <2>4 DEF BornInOrder
<1>5. LiveRunIsKnown'
  BY <1>1, <1>3 DEF LiveRunIsKnown, Live
<1>6. QuietMoments' /\ ClosedAfterRuns'
  BY <1>3 DEF QuietMoments, ClosedAfterRuns
<1>7. EnteredInOrder'
  <2>1. "preflight" \notin GraphPoints \cup {"flush", "read"}
    BY DEF GraphPoints, AskingPoints, Dispatching
  <2> QED BY <1>1, <1>2, <1>3, <2>1 DEF ControlInv, EnteredInOrder
<1>8. FinalisedOnce'
  BY <1>1, <1>2, <1>3 DEF ControlInv, FinalisedOnce
<1>9. StopHitsItsRun'
  BY DEF ControlInv, StopHitsItsRun
<1>10. TimersAreDue'
  <2> SUFFICES ASSUME NEW t \in Tasks, timers[t] > 0 PROVE t \in stopped /\ t <= new
    BY <1>1 DEF TimersAreDue
  <2>1. t \in stopped /\ t <= started /\ t \in Nat
    BY Sets DEF ControlInv, TimersAreDue
  <2> QED BY <1>1, <2>1
<1> QED BY <1>4, <1>5, <1>6, <1>7, <1>8, <1>9, <1>10 DEF ControlInv

(* A handler goes from one of its points to the next, in whichever task. *)
LEMMA DispatchMove ==
    ASSUME ControlInv, TypeOK', NEW a \in Actors, pc[a] \in Dispatching,
           NEW q \in Dispatching \cup (IF a = Controller THEN {"announce"} ELSE {"graph", "waiting"}),
           Goto(a, q),
           KeepsRuns, KeepsTargets, KeepsTimers, KeepsHistory,
           entered' = entered, finalised' = finalised
    PROVE  ControlInv'
<1>1. CASE a = Controller
  <2>1. q \in ControllerPoints /\ q \notin {"greet", "announcing", "closed"}
    BY <1>1 DEF ControllerPoints, Dispatching
  <2> QED BY <1>1, <2>1, ControllerMove
<1>2. CASE a # Controller
  <2>1. a \in Tasks /\ Live(a) /\ a \in entered
    BY <1>2 DEF Actors, Live, ControlInv, EnteredInOrder, GraphPoints, AskingPoints, Dispatching
  <2>2. q \in RunPoints \ {"unborn", "preflight"} /\ q # "done"
    BY <1>2 DEF RunPoints, GraphPoints, AskingPoints, Dispatching
  <2> QED BY <2>1, <2>2, RunMove
<1> QED BY <1>1, <1>2

-----------------------------------------------------------------------------
(* The steps *)

LEMMA DropKeeps == ASSUME TypeOK, NEW S, Drop(S) PROVE KeepsTargets
BY DEF Drop, KeepsTargets, TypeOK

LEMMA HandleStep ==
    ASSUME ControlInv, TypeOK', NEW a \in Actors, Handle(a)
    PROVE  ControlInv'
<1>0. TypeOK /\ pc[a] \in Dispatching /\ pc[a] = "handle"
  BY DEF ControlInv, Handle, Dispatching
<1>1. /\ result' = result /\ entered' = entered /\ finalised' = finalised /\ stopped' = stopped
      /\ swallowed' = swallowed /\ interrupted' = interrupted
  BY DEF Handle, history
<1>2. KeepsHistory
  BY <1>1 DEF KeepsHistory
<1>3. CASE HandleRun(a)
  <2>1. ~IsRunning /\ CreateTask(a, "reply") /\ target' = target /\ timers' = timers
    BY <1>3 DEF HandleRun
  <2>2. \A t \in Tasks : ~Live(t)
    BY <2>1, RunningIsLive
  <2>3. a = Controller
    BY <1>0, <2>2 DEF Live, Actors
  <2> QED BY <1>1, <2>1, <2>2, <2>3, CreateStep
<1>4. CASE HandleStop(a) \/ HandleOther(a)
  <2>1. UNCHANGED service /\ (Goto(a, "reply") \/ Goto(a, "save"))
        /\ (target' = target \/ target' = [target EXCEPT ![a] = workflowTask])
    BY <1>4 DEF HandleStop, HandleOther
  <2>2. workflowTask' = workflowTask /\ started' = started /\ timers' = timers
    BY <2>1 DEF service
  <2>3. KeepsRuns /\ KeepsTimers
    BY <2>2 DEF KeepsRuns, KeepsTimers
  <2>4. KeepsTargets
    BY <1>0, <2>1 DEF KeepsTargets, TypeOK
  <2>5. {"reply", "save"} \subseteq Dispatching
    BY DEF Dispatching
  <2> QED BY <1>0, <1>1, <1>2, <2>1, <2>3, <2>4, <2>5, DispatchMove
<1> QED BY <1>3, <1>4 DEF Handle

LEMMA AbortStep ==
    ASSUME ControlInv, TypeOK', NEW a \in Actors, pc[a] \in Dispatching, Abort(a),
           KeepsRuns, KeepsTimers, KeepsHistory, entered' = entered, finalised' = finalised
    PROVE  ControlInv'
<1>1. Goto(a, IF a = Controller THEN "announce" ELSE "graph") /\ Drop({a})
  BY DEF Abort
<1>2. KeepsTargets
  BY <1>1, DropKeeps DEF ControlInv
<1>3. CASE a = Controller
  BY <1>1, <1>2, <1>3, DispatchMove
<1>4. CASE a # Controller
  BY <1>1, <1>2, <1>4, DispatchMove
<1> QED BY <1>3, <1>4

LEMMA ReplyStep ==
    ASSUME ControlInv, TypeOK', NEW a \in Actors, Reply(a)
    PROVE  ControlInv'
<1>0. TypeOK /\ pc[a] \in Dispatching
  BY DEF ControlInv, Reply, Dispatching
<1>1. /\ result' = result /\ workflowTask' = workflowTask /\ started' = started
      /\ entered' = entered /\ finalised' = finalised /\ swallowed' = swallowed
      /\ interrupted' = interrupted
  BY DEF Reply
<1>2. KeepsRuns
  BY <1>1 DEF KeepsRuns
<1>3. CASE /\ Goto(a, "save") /\ target' = [target EXCEPT ![a] = NoTask]
           /\ IF target[a] = NoTask
              THEN UNCHANGED <<timers, stopped>>
              ELSE /\ timers' = [timers EXCEPT ![target[a]] = IF @ < 2 THEN @ + 1 ELSE @]
                   /\ stopped' = stopped \cup {target[a]}
  <2>1. KeepsTargets
    BY <1>0, <1>3 DEF KeepsTargets, TypeOK
  <2>2. stopped \subseteq stopped' /\ KeepsHistory
    BY <1>1, <1>3 DEF KeepsHistory
  <2>3. KeepsTimers
    <3>1. CASE target[a] = NoTask
      BY <1>3, <3>1 DEF KeepsTimers
    <3>2. CASE target[a] # NoTask
      <4>1. target[a] <= started /\ target[a] \in stopped'
        BY <1>3, <3>2 DEF ControlInv, BornInOrder
      <4>2. \A t \in Tasks \ {target[a]} : timers'[t] = timers[t]
        BY <1>0, <1>3, <3>2 DEF TypeOK
      <4> QED BY <4>1, <4>2 DEF KeepsTimers
    <3> QED BY <3>1, <3>2
  <2>4. "save" \in Dispatching
    BY DEF Dispatching
  <2> QED BY <1>0, <1>1, <1>2, <1>3, <2>1, <2>2, <2>3, <2>4, DispatchMove
<1>4. CASE Abort(a) /\ UNCHANGED <<timers, stopped>>
  <2>1. KeepsTimers /\ KeepsHistory
    BY <1>1, <1>4 DEF KeepsTimers, KeepsHistory
  <2> QED BY <1>0, <1>1, <1>2, <1>4, <2>1, AbortStep
<1> QED BY <1>3, <1>4 DEF Reply

LEMMA SaveStep ==
    ASSUME ControlInv, TypeOK', NEW a \in Actors, Save(a)
    PROVE  ControlInv'
<1>0. TypeOK /\ pc[a] \in Dispatching
  BY DEF ControlInv, Save, Dispatching
<1>1. /\ result' = result /\ workflowTask' = workflowTask /\ started' = started
      /\ timers' = timers /\ entered' = entered /\ finalised' = finalised /\ stopped' = stopped
      /\ swallowed' = swallowed /\ interrupted' = interrupted
  BY DEF Save, service, history
<1>2. KeepsRuns /\ KeepsTimers /\ KeepsHistory
  BY <1>1 DEF KeepsRuns, KeepsTimers, KeepsHistory
<1>3. CASE Goto(a, "handle") /\ target' = target
  <2>1. KeepsTargets /\ "handle" \in Dispatching
    BY <1>3 DEF KeepsTargets, Dispatching
  <2> QED BY <1>0, <1>1, <1>2, <1>3, <2>1, DispatchMove
<1>4. CASE Drop({a}) /\ IF a = Controller THEN Goto(a, "announce") ELSE Goto(a, "waiting")
  <2>1. KeepsTargets
    BY <1>0, <1>4, DropKeeps
  <2>2. CASE a = Controller
    BY <1>0, <1>1, <1>2, <1>4, <2>1, <2>2, DispatchMove
  <2>3. CASE a # Controller
    BY <1>0, <1>1, <1>2, <1>4, <2>1, <2>3, DispatchMove
  <2> QED BY <2>2, <2>3
<1>5. CASE Abort(a)
  BY <1>0, <1>1, <1>2, <1>5, AbortStep
<1> QED BY <1>3, <1>4, <1>5 DEF Save

LEMMA FireTimerStep ==
    ASSUME ControlInv, TypeOK', NEW t \in Tasks, FireTimer(t)
    PROVE  ControlInv'
<1>1. t \in stopped /\ t <= started
  BY DEF FireTimer, ControlInv, TimersAreDue
<1>2. KeepsRuns
  BY DEF FireTimer, KeepsRuns
<1>3. KeepsTimers
  <2>1. \A u \in Tasks \ {t} : timers'[u] = timers[u]
    BY DEF FireTimer, ControlInv, TypeOK
  <2>2. timers[t] > 0
    BY DEF FireTimer
  <2> QED BY <2>1, <2>2 DEF KeepsTimers
<1>4. /\ Cancel(t, pc[Controller], {}) /\ entered' = entered /\ stopped' = stopped
      /\ interrupted' = interrupted
  BY DEF FireTimer
<1>5. {} \in SUBSET Actors
  OBVIOUS
<1> QED BY <1>1, <1>2, <1>3, <1>4, <1>5, CancelStep

LEMMA InterruptStep ==
    ASSUME ControlInv, TypeOK', Interrupt
    PROVE  ControlInv'
<1>0. TypeOK
  BY DEF ControlInv
<1>1. /\ workflowTask' = workflowTask /\ started' = started /\ timers' = timers
      /\ entered' = entered /\ stopped' = stopped /\ interrupted' = TRUE
  BY DEF Interrupt, Finally, service
<1>2. KeepsRuns /\ KeepsTimers
  BY <1>1 DEF KeepsRuns, KeepsTimers
<1>3. CASE IsRunning
  <2>1. Cancel(workflowTask, "gather", {Controller})
    BY <1>3 DEF Interrupt, Finally
  <2>2. workflowTask \in Tasks /\ workflowTask <= started /\ {Controller} \in SUBSET Actors
    BY <1>3, RunningIsLive, Sets DEF ControlInv, BornInOrder
  <2> QED BY <1>1, <1>2, <2>1, <2>2, CancelStep
<1>4. CASE ~IsRunning
  <2>1. /\ Goto(Controller, "gather") /\ Drop({Controller})
        /\ result' = result /\ swallowed' = swallowed /\ finalised' = finalised
    BY <1>4 DEF Interrupt, Finally
  <2>2. KeepsTargets /\ KeepsHistory
    BY <1>0, <1>1, <2>1, DropKeeps DEF KeepsHistory
  <2>3. "gather" \in ControllerPoints /\ "gather" \notin {"greet", "announcing", "closed"}
    BY DEF ControllerPoints
  <2> QED BY <1>1, <1>2, <2>1, <2>2, <2>3, ControllerMove
<1> QED BY <1>3, <1>4

LEMMA ServeStep ==
    ASSUME ControlInv, TypeOK', Greet \/ Announce \/ Announced \/ Poll \/ Close
    PROVE  ControlInv'
<1>0. {"announce", "announcing", "poll", "gather", "closed", "handle"} \subseteq ControllerPoints
  BY DEF ControllerPoints, Dispatching
<1>1. /\ result' = result /\ entered' = entered /\ finalised' = finalised /\ stopped' = stopped
      /\ swallowed' = swallowed /\ interrupted' = interrupted /\ target' = target
      /\ timers' = timers
  BY DEF Greet, Announce, Announced, Poll, Close, batches, service, history
<1>2. KeepsTargets /\ KeepsTimers /\ KeepsHistory
  BY <1>1 DEF KeepsTargets, KeepsTimers, KeepsHistory
<1>3. CASE Greet
  <2>1. \A t \in Tasks : ~Live(t)
    BY <1>3 DEF Greet, ControlInv, QuietMoments
  <2>2. CASE CreateTask(Controller, "announce")
    BY <1>1, <2>1, <2>2, CreateStep
  <2>3. CASE Goto(Controller, "gather") /\ UNCHANGED service
    <3>1. KeepsRuns
      BY <2>3 DEF KeepsRuns, service
    <3> QED BY <1>0, <1>1, <1>2, <2>3, <3>1, ControllerMove
  <2> QED BY <1>3, <2>2, <2>3 DEF Greet
<1>4. CASE Announce
  <2>1. KeepsRuns
    BY <1>4 DEF Announce, KeepsRuns
  <2>2. CASE Unannounced /\ Goto(Controller, "announcing")
    <3>1. \A t \in Tasks : ~Live(t)
      BY <2>2 DEF Unannounced, ControlInv, LiveRunIsKnown, Live
    <3> QED BY <1>0, <1>1, <1>2, <2>1, <2>2, <3>1, ControllerMove
  <2>3. CASE Goto(Controller, "poll")
    BY <1>0, <1>1, <1>2, <2>1, <2>3, ControllerMove
  <2> QED BY <1>4, <2>2, <2>3 DEF Announce
<1>5. CASE Announced
  <2>1. \A t \in Tasks : ~Live(t)
    BY <1>5 DEF Announced, ControlInv, QuietMoments
  <2>2. KeepsRuns
    BY <1>5, <2>1 DEF Announced, KeepsRuns
  <2>3. Goto(Controller, "poll") \/ Goto(Controller, "gather")
    BY <1>5 DEF Announced
  <2> QED BY <1>0, <1>1, <1>2, <2>2, <2>3, ControllerMove
<1>6. CASE Poll
  <2>1. KeepsRuns
    BY <1>6 DEF Poll, KeepsRuns, service
  <2>2. Goto(Controller, "handle") \/ Goto(Controller, "announce")
    BY <1>6 DEF Poll, Fetch
  <2> QED BY <1>0, <1>1, <1>2, <2>1, <2>2, ControllerMove
<1>7. CASE Close
  <2>1. KeepsRuns
    BY <1>7 DEF Close, KeepsRuns, service
  <2>2. Goto(Controller, "closed") /\ \A t \in Tasks : ~Live(t)
    BY <1>7, RunningIsLive DEF Close
  <2> QED BY <1>0, <1>1, <1>2, <2>1, <2>2, ControllerMove
<1> QED BY <1>3, <1>4, <1>5, <1>6, <1>7

LEMMA WorkStep ==
    ASSUME ControlInv, TypeOK', NEW t \in Tasks,
           \/ Preflight(t) \/ GraphStep(t) \/ ClaimLease(t) \/ FetchCommands(t) \/ QuestionEnds(t)
           \/ Flush(t) \/ ReadCheckpoint(t)
    PROVE  ControlInv'
<1>0. {"graph", "asking", "waiting", "handle", "flush", "read", "done"}
         \subseteq RunPoints \ {"unborn", "preflight"}
  BY DEF RunPoints, GraphPoints, AskingPoints, Dispatching
<1>1. /\ workflowTask' = workflowTask /\ started' = started /\ timers' = timers
      /\ target' = target /\ stopped' = stopped /\ swallowed' = swallowed
      /\ interrupted' = interrupted
  BY DEF Preflight, GraphStep, ClaimLease, FetchCommands, QuestionEnds, Flush, ReadCheckpoint, Fetch,
         batches, service, history
<1>2. KeepsRuns /\ KeepsTargets /\ KeepsTimers
  BY <1>1 DEF KeepsRuns, KeepsTargets, KeepsTimers
<1>3. result' = result \/ \E res \in {"failed", "finished"} : result' = [result EXCEPT ![t] = res]
  BY DEF Preflight, GraphStep, ClaimLease, FetchCommands, QuestionEnds, Flush, ReadCheckpoint
<1>4. KeepsHistory
  BY <1>1, <1>3 DEF KeepsHistory, ControlInv, TypeOK
<1>5. CASE Preflight(t)
  <2>1. Live(t) /\ t \notin entered /\ finalised' = finalised
    BY <1>5 DEF Preflight, Live, ControlInv, EnteredInOrder
  <2>2. CASE Goto(t, "graph") /\ entered' = entered \cup {t}
    BY <1>0, <1>2, <1>4, <2>1, <2>2, RunMove
  <2>3. CASE Goto(t, "done") /\ entered' = entered
    BY <1>0, <1>2, <1>4, <2>1, <2>3, RunMove
  <2> QED BY <1>5, <2>2, <2>3 DEF Preflight
<1>6. CASE GraphStep(t) \/ ClaimLease(t) \/ FetchCommands(t) \/ QuestionEnds(t)
  <2>1. pc[t] \in {"graph", "asking", "waiting"}
    BY <1>6 DEF GraphStep, ClaimLease, FetchCommands, QuestionEnds
  <2>2. Live(t) /\ t \in entered
    BY <2>1 DEF Live, ControlInv, EnteredInOrder, GraphPoints, AskingPoints
  <2>3. entered' = entered /\ finalised' = finalised
    BY <1>6 DEF GraphStep, ClaimLease, FetchCommands, QuestionEnds, history
  <2>4. PICK q \in {"graph", "asking", "waiting", "handle", "flush", "read"} : Goto(t, q)
    BY <1>6 DEF GraphStep, ClaimLease, FetchCommands, QuestionEnds, Fetch
  <2> QED BY <1>0, <1>2, <1>4, <2>2, <2>3, <2>4, RunMove
<1>7. CASE Flush(t) \/ ReadCheckpoint(t)
  <2>1. pc[t] \in {"flush", "read"} /\ Goto(t, "done") /\ entered' = entered
        /\ finalised' = [finalised EXCEPT ![t] = finalised[t] + 1]
    BY <1>7 DEF Flush, ReadCheckpoint
  <2>2. Live(t) /\ t \in entered
    BY <2>1 DEF Live, ControlInv, EnteredInOrder
  <2> QED BY <1>0, <1>2, <1>4, <2>1, <2>2, RunMove
<1> QED BY <1>5, <1>6, <1>7

(* A step that leaves the controller and the runs alone. *)
LEMMA OutsideStep ==
    ASSUME ControlInv, TypeOK', pc' = pc,
           workflowTask' = workflowTask, started' = started, timers' = timers, target' = target,
           result' = result, entered' = entered, finalised' = finalised, stopped' = stopped,
           swallowed' = swallowed, interrupted' = interrupted
    PROVE  ControlInv'
BY DEF ControlInv, BornInOrder, QuietMoments, TimersAreDue, EnteredInOrder, LiveRunIsKnown, Live,
       StopHitsItsRun, FinalisedOnce, ClosedAfterRuns

LEMMA ControlNext == ControlInv /\ [Next]_vars => ControlInv'
<1> SUFFICES ASSUME ControlInv, [Next]_vars PROVE ControlInv'
  OBVIOUS
<1>0. TypeOK'
  BY TypeNext DEF ControlInv
<1>1. CASE \E command \in Commands : Send(command)
  BY <1>0, <1>1, OutsideStep DEF Send, batches, service, history
<1>2. CASE ControllerStep
  BY <1>0, <1>2, ServeStep, HandleStep, ReplyStep, SaveStep, Sets DEF ControllerStep, Dispatch
<1>3. CASE \E t \in Tasks : RunStep(t)
  BY <1>0, <1>3, WorkStep, HandleStep, ReplyStep, SaveStep, Sets DEF RunStep, Dispatch
<1>4. CASE \E t \in Tasks : FireTimer(t)
  BY <1>0, <1>4, FireTimerStep
<1>5. CASE Interrupt
  BY <1>0, <1>5, InterruptStep
<1>6. CASE LeaseRunsOut
  BY <1>0, <1>6, OutsideStep DEF LeaseRunsOut, batches, service
<1>7. CASE UNCHANGED vars
  BY <1>0, <1>7, OutsideStep DEF vars, batches, service, history
<1> QED BY <1>1, <1>2, <1>3, <1>4, <1>5, <1>6, <1>7 DEF Next

LEMMA ControlAlways == Spec => []ControlInv
BY ControlInit, ControlNext, PTL DEF Spec

-----------------------------------------------------------------------------
(* Every variable of the controller keeps its type. *)
THEOREM ControlTypeCorrect == Spec => []TypeOK
<1>1. ControlInv => TypeOK
  BY DEF ControlInv
<1> QED BY <1>1, ControlAlways, PTL

(* The run at work is the one the controller knows, and there is never a second
   one (start_workflow and _announce_finished_task). *)
THEOREM LiveRunKnown == Spec => []LiveRunIsKnown
<1>1. ControlInv => LiveRunIsKnown
  BY DEF ControlInv
<1> QED BY <1>1, ControlAlways, PTL

(* A run is cancelled because a /stop was accepted for it or because of Ctrl+C,
   whatever timer comes due and whenever (stop_workflow's call_later). *)
THEOREM StopsHitTheirRun == Spec => []StopHitsItsRun
<1>1. ControlInv => StopHitsItsRun
  BY DEF ControlInv
<1> QED BY <1>1, ControlAlways, PTL

(* A run that entered run() is finalised exactly once (_finalize_run). *)
THEOREM FinalisedExactlyOnce == Spec => []FinalisedOnce
<1>1. ControlInv => FinalisedOnce
  BY DEF ControlInv
<1> QED BY <1>1, ControlAlways, PTL

(* The shared clients are closed after the last run (serve's finally). *)
THEOREM ClientsClosedLast == Spec => []ClosedAfterRuns
<1>1. ControlInv => ClosedAfterRuns
  BY DEF ControlInv
<1> QED BY <1>1, ControlAlways, PTL
=============================================================================
