--------------------------- MODULE ReviewQueue_proofs ---------------------------
(***************************************************************************)
(* Proofs about ManualReviewQueue, for any sets of items, operators and    *)
(* labels and any bound of the pending list: its types, that no outcome is *)
(* forgotten uncounted (the side of the run), and that what operators did  *)
(* stands (the side of the documents).                                     *)
(***************************************************************************)
EXTENDS ManualReviewQueue, FiniteSetTheorems, TLAPS

(* The control of a run: who is enqueueing, and when a flush is under way. *)
RunControl ==
    /\ pc \in {"pending", "rebuild"} => boundary # "none"
    /\ pc \in {"idle", "ended", "down"} => boundary = "none"
    /\ pc = "enqueue" =>
          /\ item \in Items
          /\ caller # "none"
          /\ caller = "node" <=> boundary = "none"
          /\ caller = "node" => item \notin outcomes

(* The pending entries the first pass of a flush has yet to deal with. *)
Ahead ==
    IF pc = "pending" THEN todo
    ELSE IF pc = "enqueue" /\ caller = "pending" THEN todo \cup {item}
    ELSE {}

(* What a flush neither kept nor has ahead of it is queued. *)
FlushInv ==
    boundary # "none" =>
        /\ kept \subseteq pending
        /\ Ahead \subseteq pending
        /\ \A i \in pending \ (kept \cup Ahead) : state[i] # "absent"

(* A gap of the graph state out, with the pending list held. *)
Gap(out, held) == {i \in out : state[i] = "absent"} \ held

(* The checkpoint is an earlier value of the graph state, and as sound. *)
SavedCounts ==
    /\ saved.outcomes \subseteq outcomes
    /\ Cardinality(saved.pending) <= Cap
    /\ Cardinality(Gap(saved.outcomes, saved.pending)) <= saved.overflow
    /\ \A i \in pending \ saved.pending : state[i] # "absent" \/ i \notin saved.outcomes

(* A run that is down, or flushes before it goes on, has what was saved. *)
SavedFresh ==
    pc = "down" \/ boundary = "resume" =>
        /\ saved.outcomes = outcomes
        /\ saved.pending = pending
        /\ saved.overflow = overflow

RunInv == TypeOK /\ RunControl /\ FlushInv /\ SavedCounts /\ SavedFresh /\ GapsAreCounted

(* The commands of operators. *)
DeskControl ==
    /\ \A i \in Items : state[i] # "resolved" => label[i] = NoLabel
    /\ \A o \in Operators :
          /\ desk[o].at # "idle" \/ desk[o].answer # "none" => desk[o].item \in Items
          /\ desk[o].at # "idle" => desk[o].name # "none"
          /\ desk[o].at = "cas" =>
                /\ desk[o].name = "resolve"
                /\ desk[o].item \in Ambiguous => desk[o].label # NoLabel

(* What one command reports is true, and no two report the same transition. *)
TrueReply(o) ==
    LET i == desk[o].item
        l == desk[o].label
    IN /\ Told(o, "resolve", "changed") => state[i] = "resolved" /\ label[i] = l
       /\ Told(o, "acknowledge", "changed") => state[i] \in {"acknowledged", "resolved"}
       /\ Told(o, "resolve", "no-op") =>
             state[i] = "resolved" /\ (NoLabel \in {l, label[i]} \/ label[i] = l)

SameNews(o, p) ==
    /\ desk[o].name \in {"acknowledge", "resolve"} /\ desk[o].name = desk[p].name
    /\ desk[o].answer = "changed" /\ desk[p].answer = "changed"
    /\ desk[o].item = desk[p].item

DeskInv ==
    /\ DeskControl
    /\ AmbiguousIsLabelled
    /\ \A o \in Operators : TrueReply(o)
    /\ \A o, p \in Operators : o # p => ~SameNews(o, p)

-----------------------------------------------------------------------------
(* Cardinalities of sets of items. *)

LEMMA FewerItems ==
    ASSUME NEW T \in SUBSET Items, NEW S \in SUBSET T, NEW n \in Nat, Cardinality(T) <= n
    PROVE  Cardinality(S) <= n
<1>1. IsFiniteSet(T)
  BY ItemsAssumption, FS_Subset
<1>2. Cardinality(S) <= Cardinality(T) /\ IsFiniteSet(S)
  BY <1>1, FS_Subset
<1>3. Cardinality(S) \in Nat /\ Cardinality(T) \in Nat
  BY <1>1, <1>2, FS_CardinalityType
<1> QED
  BY <1>2, <1>3

LEMMA OneMoreItem ==
    ASSUME NEW T \in SUBSET Items, NEW x \in Items, NEW S \in SUBSET (T \cup {x}),
           NEW n \in Nat, Cardinality(T) <= n
    PROVE  Cardinality(S) <= n + 1
<1>1. IsFiniteSet(T)
  BY ItemsAssumption, FS_Subset
<1>2. Cardinality(T) \in Nat
  BY <1>1, FS_CardinalityType
<1>3. Cardinality(T \cup {x}) = Cardinality(T) \/ Cardinality(T \cup {x}) = Cardinality(T) + 1
  BY <1>1, FS_AddElement
<1>4. Cardinality(T \cup {x}) <= n + 1
  BY <1>2, <1>3
<1> QED
  BY <1>4, FewerItems

(* A flush of a list within its bound takes all of it. *)
LEMMA FirstIsAll ==
    ASSUME NEW T \in SUBSET Items, Cardinality(T) <= Cap
    PROVE  FirstOf(T) \subseteq {T}
<1>1. IsFiniteSet(T) /\ Cardinality(T) \in Nat
  BY ItemsAssumption, FS_Subset, FS_CardinalityType
<1>2. ASSUME NEW part \in SUBSET T, Cardinality(part) = Cardinality(T)
      PROVE  part = T
  BY <1>1, <1>2, FS_Subset
<1> QED
  BY <1>1, <1>2, CapAssumption DEF FirstOf

-----------------------------------------------------------------------------
(* The initial states. *)

LEMMA NothingThere == Cardinality({}) = 0
  BY FS_EmptySet

LEMMA InitRun == Init => RunInv
<1> SUFFICES ASSUME Init PROVE RunInv
  OBVIOUS
<1> USE DEF Init, Memory
<1>a. NoCmd \in Commands
  BY DEF NoCmd, Cmd, Commands
<1>b. desk \in [Operators -> Commands]
  BY <1>a
<1>c. Cardinality(pending) <= Cap
  BY NothingThere, CapAssumption
<1>d. tried \in [Items -> {"no", "landed", "failed"}] /\ state \in [Items -> States]
  BY DEF States
<1>1. TypeOK
  BY <1>b, <1>c, <1>d DEF TypeOK
<1>2. RunControl /\ FlushInv
  BY DEF RunControl, FlushInv
<1>3. Unqueued \ pending = {} /\ Gap(saved.outcomes, saved.pending) = {}
  BY DEF Unqueued, Gap
<1>4. SavedCounts /\ SavedFresh
  BY <1>3, NothingThere, CapAssumption DEF SavedCounts, SavedFresh
<1>5. GapsAreCounted
  BY <1>3, NothingThere DEF GapsAreCounted
<1> QED
  BY <1>1, <1>2, <1>4, <1>5 DEF RunInv

-----------------------------------------------------------------------------
(* Steps that leave the graph state and the checkpoint alone.  Documents only
   come into being. *)

DocsGrow == \A i \in Items : state[i] # "absent" => state'[i] # "absent"

LEMMA GapShrinks ==
    ASSUME NEW out \in SUBSET Items, NEW held \in SUBSET Items, DocsGrow
    PROVE  {i \in out : state'[i] = "absent"} \ held \subseteq Gap(out, held)
  BY DEF DocsGrow, Gap

LEMMA CountsStay ==
    ASSUME RunInv, DocsGrow, UNCHANGED <<memory, saved>>
    PROVE  SavedCounts' /\ GapsAreCounted'
<1> USE DEF RunInv
<1>1. /\ outcomes \in SUBSET Items /\ pending \in SUBSET Items /\ overflow \in Nat
      /\ saved.outcomes \in SUBSET Items /\ saved.pending \in SUBSET Items
      /\ saved.overflow \in Nat
  BY DEF TypeOK
<1>2. (Unqueued \ pending)' \in SUBSET (Unqueued \ pending)
  BY <1>1 DEF DocsGrow, Unqueued, memory
<1>3. Gap(saved.outcomes, saved.pending)' \in SUBSET Gap(saved.outcomes, saved.pending)
  BY <1>1 DEF DocsGrow, Gap
<1>4. Cardinality((Unqueued \ pending)') <= overflow
  BY <1>1, <1>2, FewerItems DEF GapsAreCounted, Unqueued
<1>5. Cardinality(Gap(saved.outcomes, saved.pending)') <= saved.overflow
  BY <1>1, <1>3, FewerItems DEF SavedCounts, Gap
<1>6. GapsAreCounted'
  BY <1>4 DEF GapsAreCounted, memory
<1>7. SavedCounts'
  BY <1>1, <1>5 DEF SavedCounts, DocsGrow, memory
<1> QED
  BY <1>6, <1>7

(* A step of an operator touches the documents only. *)
LEMMA DeskStep ==
    ASSUME RunInv, DocsGrow, UNCHANGED run,
           state' \in [Items -> States], label' \in [Items -> Labels \cup {NoLabel}],
           desk' \in [Operators -> Commands]
    PROVE  RunInv'
<1> USE DEF RunInv
<1>1. UNCHANGED <<memory, saved>>
  BY DEF run
<1>2. SavedCounts' /\ GapsAreCounted'
  BY <1>1, CountsStay
<1>3. TypeOK'
  BY DEF TypeOK, run, memory, flushing
<1>4. RunControl' /\ SavedFresh'
  BY DEF RunControl, SavedFresh, run, memory, flushing
<1>5. FlushInv'
  <2>1. pending \in SUBSET Items
    BY DEF TypeOK
  <2> QED
    BY <2>1 DEF FlushInv, Ahead, DocsGrow, run, memory, flushing
<1> QED
  BY <1>2, <1>3, <1>4, <1>5

-----------------------------------------------------------------------------
(* The steps of a run.  Those that move inside a flush, or begin one, leave the
   documents, the graph state and the checkpoint alone. *)

LEMMA InsideStep ==
    ASSUME RunInv, UNCHANGED <<docs, memory, saved, desk>>,
           pc' \in {"idle", "enqueue", "pending", "rebuild", "ended", "down"},
           boundary' \in {"none", "notify", "resume", "final"},
           caller' \in {"none", "node", "pending", "rebuild"},
           item' \in Items \cup {NoItem},
           todo' \in SUBSET Items, kept' \in SUBSET Items, seen' \in SUBSET Items,
           tried' \in [Items -> {"no", "landed", "failed"}],
           RunControl', FlushInv', SavedFresh'
    PROVE  RunInv'
<1> USE DEF RunInv
<1>1. DocsGrow
  BY DEF DocsGrow, docs
<1>2. SavedCounts' /\ GapsAreCounted'
  BY <1>1, CountsStay
<1>3. TypeOK'
  BY DEF TypeOK, docs, memory
<1> QED
  BY <1>2, <1>3

LEMMA NeedsReviewStep ==
    ASSUME RunInv, NEW i \in Items, NeedsReview(i)
    PROVE  RunInv'
<1> USE DEF RunInv, NeedsReview, flushing, memory
<1>1. RunControl'
  BY DEF RunControl
<1>2. FlushInv'
  BY DEF FlushInv, RunControl
<1>3. SavedFresh'
  BY DEF SavedFresh, RunControl
<1> QED
  BY <1>1, <1>2, <1>3, InsideStep DEF TypeOK

(* Beginning a flush: all that is pending lies ahead. *)
LEMMA StartFlushStep ==
    ASSUME RunInv, NEW where \in {"notify", "resume", "final"}, StartFlush(where),
           UNCHANGED <<docs, memory, saved, caller, item, desk>>,
           where = "resume" => pc = "down"
    PROVE  RunInv'
<1> USE DEF RunInv, StartFlush
<1>1. pending \in SUBSET Items /\ Cardinality(pending) <= Cap
  BY DEF TypeOK
<1>2. todo' = pending
  BY <1>1, FirstIsAll
<1>3. RunControl'
  BY DEF RunControl
<1>4. FlushInv'
  BY <1>2 DEF FlushInv, Ahead, memory
<1>5. SavedFresh'
  BY DEF SavedFresh, memory
<1>6. tried' \in [Items -> {"no", "landed", "failed"}]
  OBVIOUS
<1>7. todo' \in SUBSET Items /\ caller' \in {"none", "node", "pending", "rebuild"}
      /\ item' \in Items \cup {NoItem}
  BY <1>1, <1>2 DEF TypeOK
<1> QED
  BY <1>3, <1>4, <1>5, <1>6, <1>7, InsideStep

LEMMA BeginStep ==
    ASSUME RunInv, Notify \/ Finish \/ Resume
    PROVE  RunInv'
<1>1. CASE Notify
  BY <1>1, StartFlushStep DEF Notify
<1>2. CASE Finish
  BY <1>2, StartFlushStep DEF Finish
<1>3. CASE Resume
  BY <1>3, StartFlushStep DEF Resume
<1> QED
  BY <1>1, <1>2, <1>3

(* The loops of a flush. *)
LEMMA LoopStep ==
    ASSUME RunInv, FlushPending \/ Reconstruct \/ Rebuild
    PROVE  RunInv'
<1> USE DEF RunInv, memory
<1>1. boundary # "none" /\ pc \in {"pending", "rebuild"}
  BY DEF RunControl, FlushPending, Reconstruct, Rebuild
<1>2. ASSUME NEW i \in todo, Try(i), pc \in {"pending", "rebuild"}
      PROVE  RunInv'
  <2> USE <1>1, <1>2 DEF Try
  <2>1. i \in Items
    BY DEF TypeOK
  <2>2. RunControl'
    BY <2>1 DEF RunControl
  <2>3. SavedFresh'
    BY DEF SavedFresh
  <2>4. Ahead' = Ahead
    BY DEF Ahead
  <2>5. FlushInv'
    BY <2>4 DEF FlushInv, docs
  <2> QED
    BY <2>1, <2>2, <2>3, <2>5, InsideStep DEF TypeOK
<1>3. CASE Reconstruct
  <2> USE <1>1, <1>3 DEF Reconstruct
  <2>1. RunControl'
    BY DEF RunControl
  <2>2. SavedFresh'
    BY DEF SavedFresh
  <2>3. Ahead' = {} /\ Ahead = {}
    BY DEF Ahead
  <2>4. FlushInv'
    BY <2>3 DEF FlushInv, docs
  <2> QED
    BY <2>1, <2>2, <2>4, InsideStep DEF TypeOK
<1> QED
  BY <1>2, <1>3 DEF FlushPending, Rebuild

(* When a flush is through, what it kept leaves the same gaps as before. *)
LEMMA KeptIsEnough ==
    ASSUME RunInv, Flushed
    PROVE  /\ kept \in SUBSET pending
           /\ \A i \in pending \ kept : state[i] # "absent"
           /\ Cardinality(kept) <= Cap
           /\ Cardinality(Gap(outcomes, kept)) <= overflow
<1> USE DEF RunInv, Flushed
<1>1. outcomes \in SUBSET Items /\ pending \in SUBSET Items /\ overflow \in Nat
  BY DEF TypeOK
<1>2. kept \in SUBSET pending /\ \A i \in pending \ kept : state[i] # "absent"
  BY DEF FlushInv, Ahead, RunControl
<1>3. Cardinality(kept) <= Cap
  BY <1>1, <1>2, FewerItems, CapAssumption DEF TypeOK
<1>4. Gap(outcomes, kept) = Unqueued \ pending
  BY <1>2 DEF Gap, Unqueued
<1> QED
  BY <1>2, <1>3, <1>4 DEF GapsAreCounted

LEMMA EndStep ==
    ASSUME RunInv, NotificationEnds \/ ResumeEnds \/ RunEnds
    PROVE  RunInv'
<1> USE DEF RunInv
<1>1. Flushed /\ UNCHANGED <<docs, outcomes, overflow, desk>> /\ pending' \in {kept, pending}
  BY DEF NotificationEnds, ResumeEnds, RunEnds
<1>2. /\ kept \in SUBSET pending
      /\ \A i \in pending \ kept : state[i] # "absent"
      /\ Cardinality(kept) <= Cap
      /\ Cardinality(Gap(outcomes, kept)) <= overflow
  BY <1>1, KeptIsEnough
<1>3. boundary' = "none" /\ pc' \in {"idle", "ended"} /\ caller' = caller /\ item' = item
      /\ todo' = {} /\ kept' = {} /\ seen' = {} /\ tried' = [i \in Items |-> "no"]
  BY DEF NotificationEnds, ResumeEnds, RunEnds, Rest
<1>4. saved' = saved \/ (boundary = "resume" /\ saved' = [saved EXCEPT !.pending = kept])
  BY DEF NotificationEnds, ResumeEnds, RunEnds
<1>5. over' \in BOOLEAN
  BY DEF NotificationEnds, ResumeEnds, RunEnds, TypeOK
<1>6. /\ outcomes \in SUBSET Items /\ pending \in SUBSET Items
      /\ pending' \in SUBSET Items /\ Cardinality(pending') <= Cap
  BY <1>1, <1>2 DEF TypeOK
<1>7. saved \in [outcomes : SUBSET Items, pending : SUBSET Items, overflow : Nat, over : BOOLEAN]
  BY DEF TypeOK
<1>8. saved' \in [outcomes : SUBSET Items, pending : SUBSET Items, overflow : Nat, over : BOOLEAN]
  BY <1>2, <1>4, <1>6, <1>7
<1>9. TypeOK'
  BY <1>1, <1>3, <1>5, <1>6, <1>8 DEF TypeOK, docs
<1>10. RunControl' /\ FlushInv' /\ SavedFresh'
  BY <1>3 DEF RunControl, FlushInv, SavedFresh
<1>11. GapsAreCounted'
  <2>1. (Unqueued \ pending)' \in {Unqueued \ pending, Gap(outcomes, kept)}
    BY <1>1 DEF Unqueued, Gap, docs
  <2> QED
    BY <1>1, <1>2, <2>1 DEF GapsAreCounted
<1>12. SavedCounts'
  <2>1. CASE saved' = saved
    BY <1>1, <1>2, <2>1 DEF SavedCounts, Gap, docs
  <2>2. CASE boundary = "resume" /\ saved' = [saved EXCEPT !.pending = kept]
    <3>1. saved'.outcomes = outcomes /\ saved'.pending = kept /\ saved'.overflow = overflow
      BY <2>2, <1>7 DEF SavedFresh
    <3>2. Gap(saved.outcomes, saved.pending)' = Gap(outcomes, kept)
      BY <3>1, <1>1 DEF Gap, docs
    <3> QED
      BY <3>1, <3>2, <1>1, <1>2 DEF SavedCounts, docs
  <2> QED
    BY <1>4, <2>1, <2>2
<1> QED
  BY <1>9, <1>10, <1>11, <1>12

LEMMA CheckpointStep ==
    ASSUME RunInv, Checkpoint
    PROVE  RunInv'
<1> USE DEF RunInv, Checkpoint
<1>1. /\ outcomes \in SUBSET Items /\ pending \in SUBSET Items /\ Cardinality(pending) <= Cap
      /\ overflow \in Nat /\ over \in BOOLEAN
  BY DEF TypeOK
<1>2. /\ saved' \in [outcomes : SUBSET Items, pending : SUBSET Items, overflow : Nat, over : BOOLEAN]
      /\ saved'.outcomes = outcomes /\ saved'.pending = pending /\ saved'.overflow = overflow
  BY <1>1 DEF Memory
<1>3. TypeOK'
  BY <1>2 DEF TypeOK, docs, memory, flushing
<1>4. RunControl'
  BY DEF RunControl, memory, flushing
<1>5. FlushInv'
  BY DEF FlushInv, Ahead, docs, memory, flushing
<1>6. GapsAreCounted'
  BY DEF GapsAreCounted, Unqueued, docs, memory
<1>7. SavedFresh'
  BY <1>2 DEF SavedFresh, memory
<1>8. Gap(saved.outcomes, saved.pending)' = Unqueued \ pending
  BY <1>2 DEF Gap, Unqueued, docs
<1>9. SavedCounts'
  BY <1>1, <1>2, <1>8 DEF SavedCounts, GapsAreCounted, docs, memory
<1> QED
  BY <1>3, <1>4, <1>5, <1>6, <1>7, <1>9

LEMMA StopStep ==
    ASSUME RunInv, Stop
    PROVE  RunInv'
<1> USE DEF RunInv, Stop, Rest
<1>1. /\ saved.outcomes \in SUBSET Items /\ saved.pending \in SUBSET Items
      /\ saved.overflow \in Nat /\ saved.over \in BOOLEAN
  BY DEF TypeOK
<1>2. TypeOK'
  BY <1>1 DEF TypeOK, SavedCounts, docs
<1>3. RunControl' /\ FlushInv' /\ SavedFresh'
  BY DEF RunControl, FlushInv, SavedFresh
<1>4. (Unqueued \ pending)' = Gap(saved.outcomes, saved.pending)
  BY DEF Unqueued, Gap, docs
<1>5. GapsAreCounted'
  BY <1>4 DEF GapsAreCounted, SavedCounts
<1>6. Gap(saved.outcomes, saved.pending)' = Gap(saved.outcomes, saved.pending)
  BY DEF Gap, docs
<1>7. SavedCounts'
  BY <1>6 DEF SavedCounts, docs
<1> QED
  BY <1>2, <1>3, <1>5, <1>7

(* safe_enqueue_manual_review comes back: to the flush, or to the node, whose
   outcome is queued, pending or counted. *)
LEMMA FlushEnqueueStep ==
    ASSUME RunInv, Enqueue, caller # "node"
    PROVE  RunInv'
<1> USE DEF RunInv, Enqueue
<1>1. PICK ok \in BOOLEAN : Enqueued(ok) /\ (ok => state'[item] # "absent")
  BY DEF TypeOK, RunControl, States
<1>2. item \in Items /\ caller \in {"pending", "rebuild"} /\ boundary # "none"
  BY DEF RunControl, TypeOK
<1>3. DocsGrow /\ state' \in [Items -> States]
  BY <1>2 DEF DocsGrow, TypeOK, States
<1> USE <1>1, <1>2 DEF Enqueued, FlushGoesOn
<1>4. SavedCounts' /\ GapsAreCounted'
  BY <1>3, CountsStay
<1>5. kept' \in SUBSET Items /\ seen' \in SUBSET Items
      /\ tried' \in [Items -> {"no", "landed", "failed"}]
  BY DEF TypeOK
<1>6. TypeOK'
  BY <1>3, <1>5 DEF TypeOK, memory
<1>7. RunControl' /\ SavedFresh'
  BY DEF RunControl, SavedFresh, memory
<1>8. FlushInv'
  <2>1. CASE caller = "pending"
    <3>1. Ahead = todo \cup {item} /\ Ahead' = todo
      BY <2>1 DEF Ahead
    <3>2. kept' = IF ok THEN kept ELSE kept \cup {item}
      BY <2>1
    <3>3. pending \in SUBSET Items
      BY DEF TypeOK
    <3> QED
      BY <1>3, <3>1, <3>2, <3>3 DEF FlushInv, DocsGrow, memory
  <2>2. CASE caller = "rebuild"
    <3>1. Ahead = {} /\ Ahead' = {} /\ kept' = kept
      BY <2>2 DEF Ahead
    <3>2. pending \in SUBSET Items
      BY DEF TypeOK
    <3> QED
      BY <1>3, <3>1, <3>2 DEF FlushInv, DocsGrow, memory
  <2> QED
    BY <2>1, <2>2
<1> QED
  BY <1>4, <1>6, <1>7, <1>8

LEMMA NodeEnqueueStep ==
    ASSUME RunInv, Enqueue, caller = "node"
    PROVE  RunInv'
<1> USE DEF RunInv, Enqueue
<1>1. PICK ok \in BOOLEAN : Enqueued(ok) /\ (ok => state'[item] # "absent")
  BY DEF TypeOK, RunControl, States
<1>2. item \in Items /\ item \notin outcomes /\ boundary = "none"
  BY DEF RunControl
<1>3. DocsGrow /\ state' \in [Items -> States]
  BY <1>2 DEF DocsGrow, TypeOK, States
<1> USE <1>1, <1>2 DEF Enqueued, NodeEnds
<1>4. /\ outcomes \in SUBSET Items /\ pending \in SUBSET Items /\ Cardinality(pending) <= Cap
      /\ overflow \in Nat /\ Cardinality(Unqueued \ pending) <= overflow
      /\ Unqueued \ pending \in SUBSET Items
  BY DEF TypeOK, GapsAreCounted, Unqueued
<1>5. outcomes' = outcomes \cup {item} /\ pc' = "idle" /\ UNCHANGED <<saved, over, flushing, tried>>
  OBVIOUS
<1>6. \/ pending' = pending /\ overflow' = overflow /\ state'[item] # "absent"
      \/ pending' = pending \cup {item} /\ overflow' = overflow /\ ~(Cardinality(pending) >= Cap)
      \/ pending' = pending /\ overflow' = overflow + 1
  BY DEF KeepPending
<1>7. GapsAreCounted'
  <2>1. (Unqueued \ pending)' \in SUBSET ((Unqueued \ pending) \cup {item})
    BY <1>3, <1>4, <1>5, <1>6 DEF Unqueued, DocsGrow
  <2>2. CASE overflow' = overflow + 1
    BY <1>4, <2>1, <2>2, OneMoreItem DEF GapsAreCounted
  <2>3. CASE overflow' = overflow
    <3>1. state'[item] # "absent" \/ item \in pending'
      BY <1>4, <1>6, <2>3
    <3>2. (Unqueued \ pending)' \in SUBSET (Unqueued \ pending)
      BY <2>1, <3>1 DEF Unqueued
    <3> QED
      BY <1>4, <3>2, <2>3, FewerItems DEF GapsAreCounted
  <2> QED
    BY <1>6, <2>2, <2>3
<1>8. Cardinality(pending') <= Cap
  <2>1. CASE pending' = pending
    BY <1>4, <2>1
  <2>2. CASE pending' = pending \cup {item} /\ ~(Cardinality(pending) >= Cap)
    <3>1. IsFiniteSet(pending)
      BY <1>4, ItemsAssumption, FS_Subset
    <3>2. Cardinality(pending) \in Nat
      BY <3>1, FS_CardinalityType
    <3>3. Cardinality(pending) <= Cap - 1 /\ Cap - 1 \in Nat
      BY <3>2, <2>2, CapAssumption
    <3>4. Cardinality(pending \cup {item}) <= (Cap - 1) + 1
      BY <1>4, <3>3, OneMoreItem
    <3> QED
      BY <2>2, <3>4, CapAssumption
  <2> QED
    BY <1>6, <2>1, <2>2
<1>9. pending' \in SUBSET Items /\ overflow' \in Nat
  BY <1>4, <1>6
<1>10. TypeOK'
  BY <1>3, <1>4, <1>5, <1>8, <1>9 DEF TypeOK, flushing
<1>11. RunControl' /\ FlushInv' /\ SavedFresh'
  BY <1>5 DEF RunControl, FlushInv, SavedFresh, flushing
<1>12. SavedCounts'
  <2>1. saved.outcomes \in SUBSET Items /\ saved.pending \in SUBSET Items /\ saved.overflow \in Nat
    BY DEF TypeOK
  <2>2. Gap(saved.outcomes, saved.pending)' \in SUBSET Gap(saved.outcomes, saved.pending)
    BY <1>3, <1>5, <2>1 DEF Gap, DocsGrow
  <2>3. Cardinality(Gap(saved.outcomes, saved.pending)') <= saved.overflow
    BY <2>1, <2>2, FewerItems DEF SavedCounts, Gap
  <2>4. pending' \subseteq pending \cup {item} /\ item \notin saved.outcomes
    BY <1>6 DEF SavedCounts
  <2> QED
    BY <1>3, <1>4, <1>5, <2>3, <2>4 DEF SavedCounts, DocsGrow
<1> QED
  BY <1>7, <1>10, <1>11, <1>12

-----------------------------------------------------------------------------
(* Operators. *)

LEMMA NoCmdType == NoCmd \in Commands
  BY DEF NoCmd, Cmd, Commands

LEMMA CommandType ==
    ASSUME NEW o \in Operators, NEW i \in Items, NEW l \in Labels \cup {NoLabel},
           NEW name \in {"acknowledge", "resolve"}, TypeOK,
           \/ \E at \in {"cas", "reread"} : Continue(o, at, name, i, l)
           \/ \E answer : Answer(o, name, i, l, answer)
    PROVE  desk' \in [Operators -> Commands]
<1>1. \A at \in {"idle", "cas", "reread"}, answer \in {"none", "changed", "no-op"} :
          Cmd(at, name, i, l, answer) \in Commands
  BY DEF Cmd, Commands
<1> QED
  BY <1>1, NoCmdType DEF Continue, Answer, TypeOK

(* What the steps of operators have in common. *)
LEMMA OperatorStep ==
    ASSUME RunInv, DeskInv, NEW o \in Operators, Operator(o)
    PROVE  /\ UNCHANGED run /\ DocsGrow
           /\ state' \in [Items -> States]
           /\ label' \in [Items -> Labels \cup {NoLabel}]
           /\ desk' \in [Operators -> Commands]
<1> USE DEF docs
<1>0. TypeOK /\ state \in [Items -> States] /\ label \in [Items -> Labels \cup {NoLabel}]
      /\ desk \in [Operators -> Commands]
  BY DEF RunInv, TypeOK
<1>1. ASSUME NEW i \in Items, Acknowledge(o, i)
      PROVE  /\ UNCHANGED <<run, label>> /\ DocsGrow /\ state' \in [Items -> States]
             /\ desk' \in [Operators -> Commands]
  <2> USE <1>0, <1>1 DEF Acknowledge
  <2>1. desk' \in [Operators -> Commands]
    BY CommandType
  <2>2. DocsGrow /\ state' \in [Items -> States]
    BY DEF DocsGrow, States
  <2> QED
    BY <2>1, <2>2
<1>2. ASSUME NEW i \in Items, NEW l \in Labels \cup {NoLabel}, Resolve(o, i, l)
      PROVE  UNCHANGED <<run, docs>> /\ desk' \in [Operators -> Commands]
  <2> USE <1>0, <1>2 DEF Resolve
  <2>1. desk' \in [Operators -> Commands]
    BY CommandType
  <2> QED
    BY <2>1
<1>3. ASSUME ResolveCas(o)
      PROVE  /\ UNCHANGED run /\ DocsGrow /\ state' \in [Items -> States]
             /\ label' \in [Items -> Labels \cup {NoLabel}]
             /\ desk' \in [Operators -> Commands]
  <2> USE <1>0, <1>3 DEF ResolveCas
  <2>1. desk[o].item \in Items /\ desk[o].label \in Labels \cup {NoLabel}
    BY DEF DeskInv, DeskControl, Commands
  <2>2. desk' \in [Operators -> Commands]
    BY <2>1, CommandType
  <2>3. DocsGrow /\ state' \in [Items -> States]
    BY <2>1 DEF DocsGrow, States, Resolvable
  <2>4. label' \in [Items -> Labels \cup {NoLabel}]
    BY <2>1
  <2> QED
    BY <2>2, <2>3, <2>4
<1>4. ASSUME Reject(o)
      PROVE  UNCHANGED <<run, docs>> /\ desk' \in [Operators -> Commands]
  <2> USE <1>0, <1>4 DEF Reject
  <2>1. desk[o].item \in Items /\ desk[o].label \in Labels \cup {NoLabel}
        /\ desk[o].name \in {"none", "acknowledge", "resolve"}
    BY DEF DeskInv, DeskControl, Commands
  <2>2. desk[o].name # "none"
    BY DEF DeskInv, DeskControl
  <2>3. desk' \in [Operators -> Commands]
    BY <2>1, <2>2, CommandType
  <2> QED
    BY <2>3
<1> QED
  BY <1>0, <1>1, <1>2, <1>3, <1>4 DEF Operator, DocsGrow

(* Documents move forward, and a resolution stays as it is. *)
Forward ==
    \A i \in Items :
        /\ state[i] = "resolved" => state'[i] = "resolved" /\ label'[i] = label[i]
        /\ state[i] = "acknowledged" => state'[i] \in {"acknowledged", "resolved"}
        /\ state'[i] # "resolved" => state[i] # "resolved" /\ label'[i] = label[i]

(* What holds of a command that was not touched holds still. *)
LEMMA OthersStand ==
    ASSUME DeskInv, Forward, NEW p \in Operators, desk'[p] = desk[p]
    PROVE  TrueReply(p)'
<1>1. desk[p].answer # "none" => desk[p].item \in Items
  BY DEF DeskInv, DeskControl
<1>2. TrueReply(p)
  BY DEF DeskInv
<1> QED
  BY <1>1, <1>2 DEF TrueReply, Told, Forward

(* The step of operator o, who is then at a command c. *)
LEMMA RecordStep ==
    ASSUME DeskInv, Forward, NEW o \in Operators, NEW c \in Commands,
           desk \in [Operators -> Commands],
           desk' = [desk EXCEPT ![o] = c],
           AmbiguousIsLabelled',
           TrueReply(o)',
           c.at # "idle" \/ c.answer # "none" => c.item \in Items,
           c.at # "idle" => c.name # "none",
           c.at = "cas" => c.name = "resolve" /\ (c.item \in Ambiguous => c.label # NoLabel),
           c.answer = "changed" =>
              \A p \in Operators : desk[p].name = c.name /\ desk[p].answer = "changed"
                                   => desk[p].item # c.item
    PROVE  DeskInv'
<1>1. desk'[o] = c /\ \A p \in Operators : p # o => desk'[p] = desk[p]
  OBVIOUS
<1>2. DeskControl'
  BY <1>1 DEF DeskInv, DeskControl, Forward
<1>3. \A p \in Operators : TrueReply(p)'
  BY <1>1, OthersStand
<1>4. \A p, q \in Operators : p # q => ~SameNews(p, q)'
  BY <1>1 DEF DeskInv, SameNews
<1> QED
  BY <1>2, <1>3, <1>4 DEF DeskInv

(* A step that leaves the operators alone. *)
LEMMA AloneStep ==
    ASSUME DeskInv, Forward, UNCHANGED desk, AmbiguousIsLabelled'
    PROVE  DeskInv'
<1>1. DeskControl'
  BY DEF DeskInv, DeskControl, Forward
<1>2. \A p \in Operators : TrueReply(p)'
  BY OthersStand
<1>3. \A p, q \in Operators : p # q => ~SameNews(p, q)'
  BY DEF DeskInv, SameNews
<1> QED
  BY <1>1, <1>2, <1>3 DEF DeskInv

LEMMA RunKeepsDesk ==
    ASSUME RunInv, DeskInv, Run
    PROVE  Forward /\ DeskInv' /\ UNCHANGED desk
<1>1. UNCHANGED <<label, desk>>
  BY DEF Run, docs, Enqueue, NeedsReview, Notify, Finish, FlushPending, Reconstruct, Rebuild, Try,
         NotificationEnds, ResumeEnds, RunEnds, Checkpoint, Stop, Resume
<1>2. state' = state \/ (state[item] = "absent" /\ state' = [state EXCEPT ![item] = "open"])
  BY DEF Run, docs, Enqueue, NeedsReview, Notify, Finish, FlushPending, Reconstruct, Rebuild, Try,
         NotificationEnds, ResumeEnds, RunEnds, Checkpoint, Stop, Resume
<1>3. Forward
  BY <1>1, <1>2 DEF Forward, RunInv, TypeOK
<1>4. AmbiguousIsLabelled'
  BY <1>1, <1>2, AmbiguousAssumption DEF DeskInv, AmbiguousIsLabelled, RunInv, TypeOK
<1> QED
  BY <1>1, <1>3, <1>4, AloneStep

LEMMA StillLabelled ==
    ASSUME DeskInv, UNCHANGED docs
    PROVE  Forward /\ AmbiguousIsLabelled'
  BY DEF DeskInv, AmbiguousIsLabelled, Forward, docs

(* Commands that end, or go on, without changing a document. *)
LEMMA ContinueStep ==
    ASSUME TypeOK, DeskInv, UNCHANGED docs, NEW o \in Operators, NEW i \in Items,
           NEW l \in Labels \cup {NoLabel},
           \/ \E name \in {"acknowledge", "resolve"} : Continue(o, "reread", name, i, l)
           \/ Continue(o, "cas", "resolve", i, l) /\ ~NeedsLabel(i, l)
    PROVE  Forward /\ DeskInv'
<1>1. PICK at \in {"cas", "reread"}, name \in {"acknowledge", "resolve"} :
          /\ desk' = [desk EXCEPT ![o] = Cmd(at, name, i, l, "none")]
          /\ at = "cas" => name = "resolve" /\ ~NeedsLabel(i, l)
  BY DEF Continue
<1>2. Cmd(at, name, i, l, "none") \in Commands
  BY DEF Cmd, Commands
<1>3. desk'[o] = Cmd(at, name, i, l, "none") /\ desk \in [Operators -> Commands]
  BY <1>1 DEF TypeOK
<1>4. TrueReply(o)'
  BY <1>3 DEF TrueReply, Told, Cmd
<1> QED
  BY <1>1, <1>2, <1>3, <1>4, StillLabelled, RecordStep DEF Cmd, NeedsLabel

LEMMA ForgetStep ==
    ASSUME TypeOK, DeskInv, Forward, AmbiguousIsLabelled', NEW o \in Operators,
           desk' = [desk EXCEPT ![o] = NoCmd]
    PROVE  DeskInv'
<1>1. desk'[o] = NoCmd /\ desk \in [Operators -> Commands]
  BY DEF TypeOK
<1>2. TrueReply(o)'
  BY <1>1 DEF TrueReply, Told, NoCmd, Cmd
<1> QED
  BY <1>1, <1>2, NoCmdType, RecordStep DEF NoCmd, Cmd

LEMMA AnswerStep ==
    ASSUME TypeOK, DeskInv, Forward, AmbiguousIsLabelled', NEW o \in Operators, NEW i \in Items,
           NEW l \in Labels \cup {NoLabel}, NEW name \in {"acknowledge", "resolve"}, NEW answer,
           Answer(o, name, i, l, answer),
           answer = "changed" =>
              /\ name = "resolve" =>
                    state[i] # "resolved" /\ state'[i] = "resolved" /\ label'[i] = l
              /\ name = "acknowledge" => state[i] = "open" /\ state'[i] = "acknowledged",
           answer = "no-op" =>
              /\ name = "resolve"
              /\ state'[i] = "resolved" /\ (NoLabel \in {l, label'[i]} \/ label'[i] = l)
    PROVE  DeskInv'
<1>1. CASE answer \notin {"changed", "no-op"}
  BY <1>1, ForgetStep DEF Answer
<1>2. CASE answer \in {"changed", "no-op"}
  <2>1. desk' = [desk EXCEPT ![o] = Cmd("idle", name, i, l, answer)]
    BY <1>2 DEF Answer
  <2>2. Cmd("idle", name, i, l, answer) \in Commands
    BY <1>2 DEF Cmd, Commands
  <2>3. desk'[o] = Cmd("idle", name, i, l, answer) /\ desk \in [Operators -> Commands]
    BY <2>1 DEF TypeOK
  <2>4. TrueReply(o)'
    BY <2>3 DEF TrueReply, Told, Cmd
  <2>5. answer = "changed" =>
           \A p \in Operators : desk[p].name = name /\ desk[p].answer = "changed"
                                => desk[p].item # i
    BY DEF DeskInv, TrueReply, Told
  <2> QED
    BY <2>1, <2>2, <2>3, <2>4, <2>5, RecordStep DEF Cmd
<1> QED
  BY <1>1, <1>2

LEMMA OperatorKeepsDesk ==
    ASSUME RunInv, DeskInv, NEW o \in Operators, Operator(o)
    PROVE  Forward /\ DeskInv'
<1>0. TypeOK /\ state \in [Items -> States] /\ label \in [Items -> Labels \cup {NoLabel}]
      /\ desk \in [Operators -> Commands]
  BY DEF RunInv, TypeOK
<1>1. ASSUME NEW i \in Items, Acknowledge(o, i)
      PROVE  Forward /\ DeskInv'
  <2>1. ASSUME NEW answer \in {"changed", "error"}, state[i] = "open",
               state' = [state EXCEPT ![i] = "acknowledged"], UNCHANGED label,
               Answer(o, "acknowledge", i, NoLabel, answer)
        PROVE  Forward /\ DeskInv'
    <3>1. Forward
      BY <1>0, <2>1 DEF Forward
    <3>2. AmbiguousIsLabelled'
      BY <1>0, <2>1 DEF DeskInv, AmbiguousIsLabelled
    <3> QED
      BY <1>0, <2>1, <3>1, <3>2, AnswerStep
  <2>2. ASSUME UNCHANGED docs, Answer(o, "acknowledge", i, NoLabel, "error")
        PROVE  Forward /\ DeskInv'
    BY <1>0, <2>2, StillLabelled, AnswerStep
  <2>3. ASSUME UNCHANGED docs, Continue(o, "reread", "acknowledge", i, NoLabel)
        PROVE  Forward /\ DeskInv'
    BY <1>0, <2>3, ContinueStep
  <2> QED
    BY <1>1, <2>1, <2>2, <2>3 DEF Acknowledge, docs
<1>2. ASSUME NEW i \in Items, NEW l \in Labels \cup {NoLabel}, Resolve(o, i, l)
      PROVE  Forward /\ DeskInv'
  <2>0. UNCHANGED docs
    BY <1>2 DEF Resolve
  <2>1. ASSUME NEW answer \in {"not_found", "conflict", "error"}, Answer(o, "resolve", i, l, answer)
        PROVE  Forward /\ DeskInv'
    BY <1>0, <2>0, <2>1, StillLabelled, AnswerStep
  <2>2. ASSUME state[i] = "resolved", Answer(o, "resolve", i, l, AlreadyResolved(i, l))
        PROVE  Forward /\ DeskInv'
    BY <1>0, <2>0, <2>2, StillLabelled, AnswerStep DEF AlreadyResolved, docs
  <2>3. ASSUME ~NeedsLabel(i, l), Continue(o, "cas", "resolve", i, l)
        PROVE  Forward /\ DeskInv'
    BY <1>0, <2>0, <2>3, ContinueStep
  <2> QED
    BY <1>2, <2>1, <2>2, <2>3 DEF Resolve
<1>3. ASSUME ResolveCas(o)
      PROVE  Forward /\ DeskInv'
  <2> DEFINE i == desk[o].item
             l == desk[o].label
  <2>0. /\ i \in Items /\ l \in Labels \cup {NoLabel}
        /\ i \in Ambiguous => l # NoLabel
    BY <1>0, <1>3 DEF ResolveCas, DeskInv, DeskControl, Commands
  <2>1. ASSUME NEW answer \in {"changed", "error"}, Resolvable(i),
               state' = [state EXCEPT ![i] = "resolved"],
               label' = [label EXCEPT ![i] = IF l = NoLabel THEN @ ELSE l],
               Answer(o, "resolve", i, l, answer)
        PROVE  Forward /\ DeskInv'
    <3>1. state[i] # "resolved" /\ label[i] = NoLabel
      BY <2>0, <2>1 DEF Resolvable, DeskInv, DeskControl
    <3>2. state'[i] = "resolved" /\ label'[i] = l
      BY <1>0, <2>0, <2>1, <3>1
    <3>3. Forward
      BY <1>0, <2>0, <2>1, <3>1 DEF Forward
    <3>4. AmbiguousIsLabelled'
      BY <1>0, <2>0, <2>1, <3>2, AmbiguousAssumption DEF DeskInv, AmbiguousIsLabelled
    <3> QED
      BY <1>0, <2>0, <2>1, <3>1, <3>2, <3>3, <3>4, AnswerStep
  <2>2. ASSUME UNCHANGED docs, Answer(o, "resolve", i, l, "error")
        PROVE  Forward /\ DeskInv'
    BY <1>0, <2>0, <2>2, StillLabelled, AnswerStep
  <2>3. ASSUME UNCHANGED docs, Continue(o, "reread", "resolve", i, l)
        PROVE  Forward /\ DeskInv'
    BY <1>0, <2>0, <2>3, ContinueStep
  <2> QED
    BY <1>3, <2>1, <2>2, <2>3 DEF ResolveCas
<1>4. ASSUME Reject(o)
      PROVE  Forward /\ DeskInv'
  <2> DEFINE i == desk[o].item
             l == desk[o].label
             name == desk[o].name
  <2>0. i \in Items /\ l \in Labels \cup {NoLabel} /\ name \in {"acknowledge", "resolve"}
        /\ UNCHANGED docs
    BY <1>0, <1>4 DEF Reject, DeskInv, DeskControl, Commands
  <2>1. PICK answer \in {Rejection(name, i, l), "error"} : Answer(o, name, i, l, answer)
    BY <1>4 DEF Reject
  <2>2. Forward /\ AmbiguousIsLabelled'
    BY <2>0, StillLabelled
  <2>3. answer # "changed"
    BY <1>0, <2>0 DEF Rejection, AlreadyResolved, States
  <2>4. answer = "no-op" =>
           /\ name = "resolve"
           /\ state'[i] = "resolved" /\ (NoLabel \in {l, label'[i]} \/ label'[i] = l)
    BY <1>0, <2>0 DEF Rejection, AlreadyResolved, States, docs
  <2> QED
    BY <1>0, <2>0, <2>1, <2>2, <2>3, <2>4, AnswerStep
<1> QED
  BY <1>1, <1>2, <1>3, <1>4 DEF Operator

-----------------------------------------------------------------------------
(* The two invariants together. *)

ReviewInv == RunInv /\ DeskInv

LEMMA InitReview == Init => ReviewInv
<1> SUFFICES ASSUME Init PROVE ReviewInv
  OBVIOUS
<1>1. desk = [o \in Operators |-> NoCmd] /\ NoCmd.at = "idle" /\ NoCmd.answer = "none"
  BY DEF Init, NoCmd, Cmd
<1>2. state = [i \in Items |-> "absent"] /\ label = [i \in Items |-> NoLabel]
  BY DEF Init
<1>3. DeskControl
  BY <1>1, <1>2 DEF DeskControl
<1>4. AmbiguousIsLabelled
  BY <1>2, AmbiguousAssumption DEF AmbiguousIsLabelled
<1>5. \A o \in Operators : TrueReply(o)
  BY <1>1 DEF TrueReply, Told
<1>6. \A o, p \in Operators : o # p => ~SameNews(o, p)
  BY <1>1 DEF SameNews
<1> QED
  BY <1>3, <1>4, <1>5, <1>6, InitRun DEF ReviewInv, DeskInv

LEMMA RunKeepsRun ==
    ASSUME RunInv, Run
    PROVE  RunInv'
<1>1. CASE Enqueue
  BY <1>1, FlushEnqueueStep, NodeEnqueueStep
<1>2. CASE \E i \in Items : NeedsReview(i)
  BY <1>2, NeedsReviewStep
<1>3. CASE Notify \/ Finish \/ Resume
  BY <1>3, BeginStep
<1>4. CASE FlushPending \/ Reconstruct \/ Rebuild
  BY <1>4, LoopStep
<1>5. CASE NotificationEnds \/ ResumeEnds \/ RunEnds
  BY <1>5, EndStep
<1>6. CASE Checkpoint
  BY <1>6, CheckpointStep
<1>7. CASE Stop
  BY <1>7, StopStep
<1> QED
  BY <1>1, <1>2, <1>3, <1>4, <1>5, <1>6, <1>7 DEF Run

LEMMA NextReview ==
    ASSUME ReviewInv, [Next]_vars
    PROVE  ReviewInv' /\ Forward
<1> USE DEF ReviewInv
<1>1. CASE Run
  BY <1>1, RunKeepsRun, RunKeepsDesk
<1>2. ASSUME NEW o \in Operators, Operator(o)
      PROVE  ReviewInv' /\ Forward
  <2>1. RunInv'
    BY <1>2, OperatorStep, DeskStep
  <2> QED
    BY <1>2, <2>1, OperatorKeepsDesk
<1>3. CASE UNCHANGED vars
  <2>1. UNCHANGED run /\ UNCHANGED docs /\ UNCHANGED desk
    BY <1>3 DEF vars
  <2>2. RunInv'
    <3>1. /\ DocsGrow
          /\ state' \in [Items -> States] /\ label' \in [Items -> Labels \cup {NoLabel}]
          /\ desk' \in [Operators -> Commands]
      BY <2>1 DEF docs, DocsGrow, RunInv, TypeOK
    <3> QED
      BY <2>1, <3>1, DeskStep
  <2>3. Forward /\ AmbiguousIsLabelled'
    BY <2>1, StillLabelled
  <2> QED
    BY <2>1, <2>2, <2>3, AloneStep
<1> QED
  BY <1>1, <1>2, <1>3 DEF Next

LEMMA ReviewInvariant == Spec => []ReviewInv
<1>1. ReviewInv /\ [Next]_vars => ReviewInv'
  BY NextReview
<1> QED
  BY <1>1, InitReview, PTL DEF Spec

-----------------------------------------------------------------------------
(* How far a flush has come: what it has seen is queued, and the second pass has
   tried every outcome it does not have ahead of it. *)

ReachInv ==
    /\ \A i \in seen : state[i] # "absent"
    /\ pc = "rebuild" \/ (pc = "enqueue" /\ caller = "rebuild") =>
          \A i \in outcomes : \/ i \in todo
                              \/ pc = "enqueue" /\ i = item
                              \/ state[i] # "absent"
                              \/ tried[i] = "failed"

LEMMA RunReaches ==
    ASSUME RunInv, ReachInv, Run
    PROVE  ReachInv'
<1> USE DEF RunInv, ReachInv, memory, flushing, docs
<1>0. /\ state \in [Items -> States] /\ tried \in [Items -> {"no", "landed", "failed"}]
      /\ outcomes \in SUBSET Items /\ seen \in SUBSET Items /\ item \in Items \cup {NoItem}
      /\ caller \in {"none", "node", "pending", "rebuild"}
  BY DEF TypeOK
<1>1. CASE Enqueue
  <2>1. PICK ok \in BOOLEAN : Enqueued(ok) /\ (ok => state'[item] # "absent")
    BY <1>0, <1>1 DEF Enqueue, RunControl, States
  <2>2. item \in Items /\ caller # "none"
    BY <1>1 DEF Enqueue, RunControl
  <2>3. DocsGrow
    BY <1>0, <1>1, <2>2 DEF Enqueue, DocsGrow
  <2>4. CASE caller = "node"
    BY <1>0, <2>1, <2>3, <2>4 DEF Enqueued, NodeEnds, DocsGrow
  <2>5. CASE caller \in {"pending", "rebuild"}
    <3>1. /\ pc' = caller /\ UNCHANGED <<outcomes, todo>>
          /\ seen' \subseteq seen \cup {item}
          /\ item \in seen' => item \in seen \/ ok
          /\ tried' = [tried EXCEPT ![item] = IF ok THEN "landed" ELSE "failed"]
      BY <2>1, <2>5 DEF Enqueued, FlushGoesOn
    <3>2. \A i \in seen' : state'[i] # "absent"
      BY <1>0, <2>1, <2>3, <3>1 DEF DocsGrow
    <3>3. caller = "rebuild" =>
             \A i \in outcomes : i \in todo \/ state'[i] # "absent" \/ tried'[i] = "failed"
      BY <1>0, <1>1, <2>1, <2>2, <2>3, <3>1 DEF DocsGrow, Enqueue
    <3> QED
      BY <2>5, <3>1, <3>2, <3>3
  <2> QED
    BY <1>0, <2>2, <2>4, <2>5
<1>2. CASE \E i \in Items : NeedsReview(i)
  BY <1>2 DEF NeedsReview
<1>3. CASE Notify \/ Finish \/ Resume
  BY <1>3 DEF Notify, Finish, Resume, StartFlush
<1>4. CASE FlushPending \/ Reconstruct \/ Rebuild
  BY <1>4 DEF FlushPending, Reconstruct, Rebuild, Try
<1>5. CASE NotificationEnds \/ ResumeEnds \/ RunEnds
  BY <1>5 DEF NotificationEnds, ResumeEnds, RunEnds, Rest
<1>6. CASE Checkpoint
  BY <1>6 DEF Checkpoint
<1>7. CASE Stop
  BY <1>7 DEF Stop, Rest
<1> QED
  BY <1>1, <1>2, <1>3, <1>4, <1>5, <1>6, <1>7 DEF Run

LEMMA NextReaches ==
    ASSUME ReviewInv, ReachInv, [Next]_vars
    PROVE  ReachInv'
<1> USE DEF ReviewInv
<1>1. CASE Run
  BY <1>1, RunReaches
<1>2. ASSUME DocsGrow, UNCHANGED run
      PROVE  ReachInv'
  <2>1. outcomes \in SUBSET Items /\ seen \in SUBSET Items
    BY DEF RunInv, TypeOK
  <2> QED
    BY <1>2, <2>1 DEF ReachInv, DocsGrow, run, memory, flushing
<1>3. ASSUME NEW o \in Operators, Operator(o)
      PROVE  ReachInv'
  BY <1>2, <1>3, OperatorStep
<1>4. CASE UNCHANGED vars
  BY <1>2, <1>4 DEF vars, docs, DocsGrow
<1> QED
  BY <1>1, <1>3, <1>4 DEF Next

-----------------------------------------------------------------------------
(* Every variable of the review queue keeps its type and the pending list its
   bound, so the flush never cuts an entry off. *)
THEOREM ReviewTypeCorrect == Spec => []TypeOK
<1>1. ReviewInv => TypeOK
  BY DEF ReviewInv, RunInv
<1> QED
  BY <1>1, ReviewInvariant, PTL

(* Outcomes without a document or a pending entry never outnumber the overflow
   counter (_pending_state_update and the flush). *)
THEOREM GapsCounted == Spec => []GapsAreCounted
<1>1. ReviewInv => GapsAreCounted
  BY DEF ReviewInv, RunInv
<1> QED
  BY <1>1, ReviewInvariant, PTL

(* A flush has queued every outcome but those it failed to write
   (flush_manual_review_queue). *)
THEOREM FlushIsThorough == Spec => []FlushReachesAll
<1>1. Init => ReachInv
  BY DEF Init, ReachInv
<1>2. ReviewInv /\ ReachInv /\ [Next]_vars => ReachInv'
  BY NextReaches
<1>3. ReviewInv /\ ReachInv => FlushReachesAll
  BY DEF ReachInv, FlushReachesAll, Flushed
<1> QED
  BY <1>1, <1>2, <1>3, ReviewInvariant, PTL DEF Spec

(* No pending entry is evicted or dropped before its item is queued
   (_pending_state_update, flush_manual_review_queue, resume). *)
THEOREM PendingKept == Spec => PendingKeptUntilQueued
<1>1. ASSUME ReviewInv, [Next]_vars
      PROVE  [\A i \in pending \ pending' : state'[i] # "absent" \/ i \notin outcomes']_vars
  <2> USE <1>1 DEF ReviewInv
  <2>1. CASE NotificationEnds \/ ResumeEnds \/ RunEnds
    BY <2>1, KeptIsEnough DEF NotificationEnds, ResumeEnds, RunEnds, docs
  <2>2. CASE Stop
    BY <2>2 DEF Stop, docs, RunInv, SavedCounts
  <2>3. CASE Enqueue
    <3>1. pending \subseteq pending'
      BY <2>3 DEF Enqueue, Enqueued, NodeEnds, KeepPending, FlushGoesOn, memory
    <3> QED
      BY <3>1
  <2>4. CASE Run /\ ~(NotificationEnds \/ ResumeEnds \/ RunEnds \/ Stop \/ Enqueue)
    <3>1. pending' = pending
      BY <2>4 DEF Run, memory, NeedsReview, Notify, Finish, FlushPending, Reconstruct, Rebuild, Try,
                  Checkpoint, Resume
    <3> QED
      BY <3>1
  <2>5. ASSUME NEW o \in Operators, Operator(o)
        PROVE  pending' = pending
    BY <2>5, OperatorStep DEF run, memory
  <2> QED
    BY <2>1, <2>2, <2>3, <2>4, <2>5 DEF Next
<1> QED
  BY <1>1, ReviewInvariant, PTL DEF Spec, PendingKeptUntilQueued

(* Whatever is replayed and whoever races, items move forward only and a
   resolution keeps its label (enqueue, acknowledge, resolve). *)
THEOREM ResolvedForGood == Spec => ResolutionIsFinal
<1>1. ASSUME ReviewInv, [Next]_vars
      PROVE  [\A i \in Items : /\ Rank[state[i]] <= Rank[state'[i]]
                               /\ state[i] = "resolved" => label'[i] = label[i]]_vars
  <2>1. Forward /\ ReviewInv'
    BY <1>1, NextReview
  <2>2. state \in [Items -> States] /\ state' \in [Items -> States]
    BY <1>1, <2>1 DEF ReviewInv, RunInv, TypeOK
  <2>3. DocsGrow
    <3>1. CASE UNCHANGED vars
      BY <3>1 DEF vars, docs, DocsGrow
    <3>2. CASE Run
      <4>1. state' = state \/ (state[item] = "absent" /\ state' = [state EXCEPT ![item] = "open"])
        BY <3>2 DEF Run, docs, Enqueue, NeedsReview, Notify, Finish, FlushPending, Reconstruct,
                    Rebuild, Try, NotificationEnds, ResumeEnds, RunEnds, Checkpoint, Stop, Resume
      <4> QED
        BY <2>2, <4>1 DEF DocsGrow
    <3>3. ASSUME NEW o \in Operators, Operator(o)
          PROVE  DocsGrow
      BY <1>1, <3>3, OperatorStep DEF ReviewInv
    <3> QED
      BY <1>1, <3>1, <3>2, <3>3 DEF Next
  <2>4. \A i \in Items : Rank[state[i]] <= Rank[state'[i]]
    <3> SUFFICES ASSUME NEW i \in Items
                 PROVE  Rank[state[i]] <= Rank[state'[i]]
      OBVIOUS
    <3>1. /\ Rank["absent"] = 0 /\ Rank["open"] = 1
          /\ Rank["acknowledged"] = 2 /\ Rank["resolved"] = 3
      BY DEF Rank, States
    <3>2. /\ state[i] \in {"absent", "open", "acknowledged", "resolved"}
          /\ state'[i] \in {"absent", "open", "acknowledged", "resolved"}
      BY <2>2 DEF States
    <3> QED
      BY <2>1, <2>3, <3>1, <3>2 DEF Forward, DocsGrow
  <2>5. \A i \in Items : state[i] = "resolved" => label'[i] = label[i]
    BY <2>1 DEF Forward
  <2> QED
    BY <2>4, <2>5
<1> QED
  BY <1>1, ReviewInvariant, PTL DEF Spec, ResolutionIsFinal

(* No ambiguous submission is resolved without a label (resolve). *)
THEOREM AmbiguousLabelled == Spec => []AmbiguousIsLabelled
<1>1. ReviewInv => AmbiguousIsLabelled
  BY DEF ReviewInv, DeskInv
<1> QED
  BY <1>1, ReviewInvariant, PTL

(* What an operator was told is so, and no two operators are told of the same
   transition (acknowledge, resolve, review_cli.py). *)
THEOREM RepliesTrue == Spec => []RepliesAreTrue
<1>1. ReviewInv => RepliesAreTrue
  BY DEF ReviewInv, DeskInv, RepliesAreTrue, TrueReply, SameNews, Told
<1> QED
  BY <1>1, ReviewInvariant, PTL
=============================================================================
