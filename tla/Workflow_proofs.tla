---------------------------- MODULE Workflow_proofs ----------------------------
(***************************************************************************)
(* The types and safety of Workflow, for any scope, limits and settings:   *)
(* that the summary adds up and is true, that stopped runs rest, that the  *)
(* limits are kept and that nothing is passed over.  They speak of the state*)
(* a process works on; after a kill that is the checkpoint, which may be one*)
(* node behind.  Sound, Resting, Limited and Covered are therefore stated of*)
(* any state, and hold of the one in memory and of the one saved.          *)
(***************************************************************************)
EXTENDS Workflow, FiniteSetTheorems, TLAPS

Outcome == [job: Jobs, dryRun: BOOLEAN]

(* The listings are jobs, the outcomes a sequence, the counters numbers. *)
Typed(listed, ev, qu, nq, out, err) ==
    /\ \A i \in DOMAIN listed : listed[i] \in Jobs
    /\ ev \in Nat /\ qu \in Nat /\ nq \in Nat
    /\ out \in Seq(Outcome)
    /\ err \in [evaluations: Nat, letters: Nat]

Balanced(nd, ev, qu, nq, out, err) ==
    /\ ev = qu + nq + err.evaluations
    /\ qu = Len(out) + err.letters
            + (IF nd \in {"generate", "execute"} THEN 1 ELSE 0)

(* An outcome is of a job that was seen, and no two are of one job. *)
Distinct(seen, out) ==
    /\ \A i \in 1..Len(out) : out[i].job \in seen
    /\ \A i, k \in 1..Len(out) : out[i].job = out[k].job => i = k

(* The job at hand: not seen before it is judged, without an outcome after. *)
AtHand(nd, jb, seen, out) ==
    /\ nd = "qualify" => jb \in Jobs /\ jb \notin seen
    /\ nd \in {"generate", "execute"} =>
          /\ jb \in Jobs /\ jb \in seen
          /\ \A i \in 1..Len(out) : out[i].job # jb

(* A paused run does not get to its nodes, else a qualified job would have no
   outcome. *)
Quiet(nd, pa) == pa => nd \in {"select", "notify", "end"}

(* The search stays within its scope, and so shows jobs. *)
InScope(nd, qy, pg) ==
    /\ qy \in 1..Queries /\ pg \in 1..PagesPerQuery
    /\ nd = "query" => qy < Queries
    /\ nd = "page" => pg < PagesPerQuery

Sound(nd, qy, pg, listed, jb, seen, ev, qu, nq, out, err, pa) ==
    /\ InScope(nd, qy, pg)
    /\ Typed(listed, ev, qu, nq, out, err)
    /\ Balanced(nd, ev, qu, nq, out, err)
    /\ Distinct(seen, out)
    /\ AtHand(nd, jb, seen, out)
    /\ Quiet(nd, pa)

MemorySound ==
    Sound(node, query, page, listings, job, seenIds, evaluated, qualified, notQualified,
          outcomes, errors, paused)

StateSound(s) ==
    Sound(s.node, s.query, s.page, s.listings, s.job, s.seenIds, s.evaluated,
          s.qualified, s.notQualified, s.outcomes, s.errors, s.paused)

SavedSound == \A s \in saved : StateSound(s)

(* A process that runs has saved something, and nothing runs before it has. *)
Untouched == saved = {} => node = "search" /\ proc # "up"

BooksInv == MemorySound /\ SavedSound /\ Untouched

-----------------------------------------------------------------------------
(* The nodes *)

LEMMA SnapshotFields ==
    /\ Snapshot.node = node /\ Snapshot.query = query /\ Snapshot.page = page
    /\ Snapshot.listings = listings /\ Snapshot.job = job
    /\ Snapshot.seenIds = seenIds /\ Snapshot.evaluated = evaluated
    /\ Snapshot.qualified = qualified /\ Snapshot.notQualified = notQualified
    /\ Snapshot.outcomes = outcomes /\ Snapshot.errors = errors
    /\ Snapshot.paused = paused
    BY DEF Snapshot

LEMMA SnapshotFieldsNext ==
    /\ (Snapshot').node = node' /\ (Snapshot').query = query' /\ (Snapshot').page = page'
    /\ (Snapshot').listings = listings' /\ (Snapshot').job = job'
    /\ (Snapshot').seenIds = seenIds' /\ (Snapshot').evaluated = evaluated'
    /\ (Snapshot').qualified = qualified' /\ (Snapshot').notQualified = notQualified'
    /\ (Snapshot').outcomes = outcomes' /\ (Snapshot').errors = errors'
    /\ (Snapshot').paused = paused'
    BY DEF Snapshot

LEMMA NodeSaves ==
    ASSUME MemorySound, MemorySound', Checkpointed
    PROVE  SavedSound' /\ Untouched'
<1>1. StateSound(Snapshot) <=> MemorySound
    BY SnapshotFields DEF StateSound, MemorySound
<1>2. StateSound(Snapshot') <=> MemorySound'
    BY SnapshotFieldsNext DEF StateSound, MemorySound
<1> QED BY <1>1, <1>2 DEF Checkpointed, SavedSound, Untouched

(* Steps that leave the books alone and go where no job is at hand. *)
LEMMA QuietNode ==
    ASSUME MemorySound,
           InScope(node, query, page)',
           \A i \in DOMAIN listings' : listings'[i] \in Jobs,
           UNCHANGED <<evaluated, qualified, notQualified, outcomes, errors>>,
           seenIds \subseteq seenIds',
           node \notin {"generate", "execute"},
           node' \notin {"generate", "execute", "qualify"},
           paused' => node' \in {"select", "notify", "end"}
    PROVE  MemorySound'
<1>1. Typed(listings, evaluated, qualified, notQualified, outcomes, errors)'
    BY DEF MemorySound, Sound, Typed
<1>2. Balanced(node, evaluated, qualified, notQualified, outcomes, errors)'
    BY DEF MemorySound, Sound, Balanced
<1>3. Distinct(seenIds, outcomes)'
    BY DEF MemorySound, Sound, Distinct
<1>4. AtHand(node, job, seenIds, outcomes)' /\ Quiet(node, paused)'
    BY DEF AtHand, Quiet
<1> QED BY <1>1, <1>2, <1>3, <1>4 DEF MemorySound, Sound

(* The cards of a page show jobs. *)
LEMMA CardsAreJobs ==
    ASSUME query \in 1..Queries, page \in 1..PagesPerQuery
    PROVE  OnPage \subseteq Jobs
<1>1. <<query, page>> \in (1..Queries) \X (1..PagesPerQuery)
    OBVIOUS
<1>2. Shown[<<query, page>>] \in Seq(Jobs)
    BY <1>1, ScopeAssumption
<1>3. \A i \in DOMAIN Shown[<<query, page>>] : Shown[<<query, page>>][i] \in Jobs
    BY <1>2
<1> QED BY <1>3 DEF OnPage

LEMMA FirstShownKept ==
    ASSUME NEW keep
    PROVE  \A i \in DOMAIN FirstShown(keep) : FirstShown(keep)[i] \in keep
    BY DEF FirstShown

LEMMA SearchSound == MemorySound /\ Search => MemorySound'
<1> SUFFICES ASSUME MemorySound, Search PROVE MemorySound'
    OBVIOUS
<1>1. node = "search" /\ InScope(node, query, page)
    BY DEF Search, MemorySound, Sound
<1>2. ASSUME NEW found, NEW failure, NEW empty, Searched(found, failure, empty),
             \A i \in DOMAIN found : found[i] \in Jobs,
             seenIds \subseteq seenIds'
      PROVE  MemorySound'
    <2>1. /\ node' = "select" /\ listings' = found
          /\ UNCHANGED <<evaluated, qualified, notQualified, outcomes, errors, query, page>>
        BY <1>2 DEF Searched, tally
    <2>2. InScope(node, query, page)'
        BY <1>1, <2>1 DEF InScope
    <2> QED BY <1>1, <1>2, <2>1, <2>2, QuietNode
<1>3. CASE SearchFindsCards
    <2>1. PICK marked \in SUBSET Markable, lost \in SUBSET Fresh :
              LET over == marked \cup ((Fresh \cap Excluded) \ lost)
              IN  /\ Searched(FirstShown(Fresh \ (lost \cup over)), FALSE, FALSE)
                  /\ seenIds' = seenIds \cup (PersistedSeen \cap OnPage) \cup over
        BY <1>3 DEF SearchFindsCards
    <2> DEFINE keep == Fresh \ (lost \cup marked \cup ((Fresh \cap Excluded) \ lost))
    <2>2. /\ Searched(FirstShown(keep), FALSE, FALSE)
          /\ seenIds \subseteq seenIds'
        <3>1. keep = Fresh \ (lost \cup (marked \cup ((Fresh \cap Excluded) \ lost)))
            OBVIOUS
        <3> HIDE DEF keep
        <3> QED BY <2>1, <3>1
    <2>3. keep \subseteq Jobs
        BY <1>1, CardsAreJobs DEF Fresh, InScope
    <2> HIDE DEF keep
    <2>4. \A i \in DOMAIN FirstShown(keep) : FirstShown(keep)[i] \in Jobs
        BY <2>3, FirstShownKept
    <2> QED BY <1>2, <2>2, <2>4
<1>4. CASE SearchFindsNothing \/ SearchFails \/ SearchMeetsBarrier
    <2>1. /\ \E failure, empty : Searched(<<>>, failure, empty)
          /\ seenIds' = seenIds
        BY <1>4 DEF SearchFindsNothing, SearchFails, SearchMeetsBarrier
    <2>2. PICK failure, empty : Searched(<<>>, failure, empty)
        BY <2>1
    <2>3. \A found : found = <<>> => \A i \in DOMAIN found : found[i] \in Jobs
        OBVIOUS
    <2> QED BY <1>2, <2>1, <2>2, <2>3
<1> QED BY <1>3, <1>4 DEF Search

(* The router sends a job only to qualify, and only when one was selected. *)
LEMMA SelectSound == MemorySound /\ SelectNextJob => MemorySound'
<1> SUFFICES ASSUME MemorySound, SelectNextJob PROVE MemorySound'
    OBVIOUS
<1>1. /\ UNCHANGED <<query, page, listings, seenIds, evaluated, qualified, notQualified,
                      outcomes, errors, paused>>
      /\ node = "select" /\ node' = RouteSelectNextJob'
    BY DEF SelectNextJob, tally
<1>2. job' = NoJob \/ (job' \in Jobs /\ job' \notin seenIds)
    BY DEF SelectNextJob, Unseen, MemorySound, Sound, Typed
<1>3. /\ node' \in {"notify", "qualify", "page", "query"}
      /\ paused' => node' = "notify"
      /\ node' = "qualify" => job' # NoJob
      /\ node' = "page" => page' < PagesPerQuery
      /\ node' = "query" => query' < Queries
    BY <1>1 DEF RouteSelectNextJob
<1>4. InScope(node, query, page)'
    BY <1>1, <1>3 DEF MemorySound, Sound, InScope
<1>5. Typed(listings, evaluated, qualified, notQualified, outcomes, errors)'
    BY <1>1 DEF MemorySound, Sound, Typed
<1>6. Balanced(node, evaluated, qualified, notQualified, outcomes, errors)'
    BY <1>1, <1>3 DEF MemorySound, Sound, Balanced
<1>7. Distinct(seenIds, outcomes)'
    BY <1>1 DEF MemorySound, Sound, Distinct
<1>8. AtHand(node, job, seenIds, outcomes)' /\ Quiet(node, paused)'
    BY <1>1, <1>2, <1>3 DEF AtHand, Quiet
<1> QED BY <1>4, <1>5, <1>6, <1>7, <1>8 DEF MemorySound, Sound

LEMMA IncrementSound == MemorySound /\ (IncrementPage \/ IncrementQuery) => MemorySound'
<1> SUFFICES ASSUME MemorySound, IncrementPage \/ IncrementQuery PROVE MemorySound'
    OBVIOUS
<1>1. /\ UNCHANGED <<listings, seenIds, evaluated, qualified, notQualified, outcomes,
                      errors, paused>>
      /\ node' = "search"
      /\ \/ node = "page" /\ page' = page + 1 /\ query' = query
         \/ node = "query" /\ page' = 1 /\ query' = query + 1
    BY DEF IncrementPage, IncrementQuery, tally
<1>2. ~paused
    BY <1>1 DEF MemorySound, Sound, Quiet
<1>3. InScope(node, query, page)'
    BY <1>1, ScopeAssumption DEF MemorySound, Sound, InScope
<1>4. \A i \in DOMAIN listings : listings[i] \in Jobs
    BY DEF MemorySound, Sound, Typed
<1> QED BY <1>1, <1>2, <1>3, <1>4, QuietNode

LEMMA QualifySound == MemorySound /\ Qualify => MemorySound'
<1> SUFFICES ASSUME MemorySound, Qualify PROVE MemorySound'
    OBVIOUS
<1>1. /\ UNCHANGED <<query, page, listings, job, outcomes, paused>>
      /\ node = "qualify" /\ node' = RouteAfterQualification'
    BY DEF Qualify, cursor
<1>2. /\ ~paused /\ job \in Jobs /\ job \notin seenIds
      /\ InScope(node, query, page)
    BY <1>1 DEF MemorySound, Sound, Quiet, AtHand
<1>3. node' = IF fit' THEN "generate" ELSE "select"
    BY <1>1, <1>2 DEF RouteAfterQualification
<1>4. InScope(node, query, page)' /\ Quiet(node, paused)'
    BY <1>1, <1>2, <1>3 DEF InScope, Quiet
<1>5. ASSUME NEW verdict \in BOOLEAN, Judge(verdict) PROVE MemorySound'
    <2>1. /\ fit' = verdict /\ seenIds' = seenIds \cup {job} /\ errors' = errors
          /\ evaluated' = evaluated + 1
          /\ qualified' = qualified + (IF verdict THEN 1 ELSE 0)
          /\ notQualified' = notQualified + (IF verdict THEN 0 ELSE 1)
        BY <1>5 DEF Judge, Remember
    <2>2. Typed(listings, evaluated, qualified, notQualified, outcomes, errors)'
        BY <1>1, <2>1 DEF MemorySound, Sound, Typed
    <2>3. Balanced(node, evaluated, qualified, notQualified, outcomes, errors)'
        <3>1. /\ evaluated \in Nat /\ qualified \in Nat /\ notQualified \in Nat
              /\ errors.evaluations \in Nat /\ errors.letters \in Nat
              /\ Len(outcomes) \in Nat
              /\ evaluated = qualified + notQualified + errors.evaluations
              /\ qualified = Len(outcomes) + errors.letters
            BY <1>1 DEF MemorySound, Sound, Typed, Balanced
        <3>2. \/ /\ node' = "generate"
                 /\ qualified' = qualified + 1 /\ notQualified' = notQualified
              \/ /\ node' = "select"
                 /\ qualified' = qualified /\ notQualified' = notQualified + 1
            <4>1. CASE verdict
                BY <1>3, <2>1, <3>1, <4>1
            <4>2. CASE ~verdict
                BY <1>3, <2>1, <3>1, <4>2
            <4> QED BY <4>1, <4>2
        <3>3. /\ evaluated' = evaluated + 1 /\ Len(outcomes') = Len(outcomes)
              /\ errors'.evaluations = errors.evaluations
              /\ errors'.letters = errors.letters
            BY <1>1, <2>1
        <3>4. evaluated' = qualified' + notQualified' + errors'.evaluations
            <4>1. \A ev, qu, nq, er \in Nat :
                    ev = qu + nq + er => /\ ev + 1 = (qu + 1) + nq + er
                                         /\ ev + 1 = qu + (nq + 1) + er
                OBVIOUS
            <4>2. /\ evaluated + 1 = (qualified + 1) + notQualified + errors.evaluations
                  /\ evaluated + 1 = qualified + (notQualified + 1) + errors.evaluations
                BY <3>1, <4>1
            <4>3. CASE qualified' = qualified + 1 /\ notQualified' = notQualified
                BY <3>3, <4>2, <4>3
            <4>4. CASE qualified' = qualified /\ notQualified' = notQualified + 1
                BY <3>3, <4>2, <4>4
            <4> QED BY <3>2, <4>3, <4>4
        <3>5. qualified' = Len(outcomes') + errors'.letters
                           + (IF node' \in {"generate", "execute"} THEN 1 ELSE 0)
            BY <3>1, <3>2, <3>3
        <3> QED BY <3>4, <3>5 DEF Balanced
    <2>4. Distinct(seenIds, outcomes)'
        BY <1>1, <2>1 DEF MemorySound, Sound, Distinct
    <2>5. AtHand(node, job, seenIds, outcomes)'
        BY <1>1, <1>2, <1>3, <2>1 DEF MemorySound, Sound, Distinct, AtHand
    <2> QED BY <1>4, <2>2, <2>3, <2>4, <2>5 DEF MemorySound, Sound
<1>6. CASE JudgeFails
    <2>1. /\ fit' = FALSE /\ evaluated' = evaluated + 1
          /\ errors' = [errors EXCEPT !.evaluations = @ + 1]
          /\ UNCHANGED <<seenIds, qualified, notQualified>>
        BY <1>6 DEF JudgeFails
    <2>2. /\ evaluated \in Nat /\ qualified \in Nat /\ notQualified \in Nat
          /\ errors \in [evaluations: Nat, letters: Nat]
          /\ outcomes \in Seq(Outcome)
          /\ evaluated = qualified + notQualified + errors.evaluations
          /\ qualified = Len(outcomes) + errors.letters
        BY <1>1 DEF MemorySound, Sound, Typed, Balanced
    <2>3. /\ errors' \in [evaluations: Nat, letters: Nat]
          /\ errors'.evaluations = errors.evaluations + 1
          /\ errors'.letters = errors.letters
        <3>1. errors' = [evaluations |-> errors.evaluations + 1, letters |-> errors.letters]
            BY <2>1, <2>2
        <3> QED BY <2>2, <3>1
    <2>4. Typed(listings, evaluated, qualified, notQualified, outcomes, errors)'
        BY <1>1, <2>1, <2>2, <2>3 DEF MemorySound, Sound, Typed
    <2>5. Balanced(node, evaluated, qualified, notQualified, outcomes, errors)'
        BY <1>1, <1>3, <2>1, <2>2, <2>3 DEF Balanced
    <2>6. Distinct(seenIds, outcomes)'
        BY <1>1, <2>1 DEF MemorySound, Sound, Distinct
    <2>7. AtHand(node, job, seenIds, outcomes)'
        BY <1>3, <2>1 DEF AtHand
    <2> QED BY <1>4, <2>4, <2>5, <2>6, <2>7 DEF MemorySound, Sound
<1> QED BY <1>5, <1>6 DEF Qualify

LEMMA GenerateSound == MemorySound /\ Generate => MemorySound'
<1> SUFFICES ASSUME MemorySound, Generate PROVE MemorySound'
    OBVIOUS
<1>1. /\ UNCHANGED <<query, page, listings, job, seenIds, evaluated, qualified,
                      notQualified, outcomes, paused>>
      /\ node = "generate" /\ node' = RouteAfterGeneration'
      /\ \/ failed' = FALSE /\ errors' = errors
         \/ failed' = TRUE /\ errors' = [errors EXCEPT !.letters = @ + 1]
    BY DEF Generate, cursor
<1>2. ~paused /\ InScope(node, query, page)
    BY <1>1 DEF MemorySound, Sound, Quiet
<1>3. node' = IF failed' THEN "select" ELSE "execute"
    BY <1>1, <1>2 DEF RouteAfterGeneration
<1>4. InScope(node, query, page)' /\ Quiet(node, paused)'
    BY <1>1, <1>2, <1>3 DEF InScope, Quiet
<1>5. /\ evaluated \in Nat /\ qualified \in Nat /\ notQualified \in Nat
      /\ errors \in [evaluations: Nat, letters: Nat]
      /\ Len(outcomes) \in Nat
      /\ evaluated = qualified + notQualified + errors.evaluations
      /\ qualified = Len(outcomes) + errors.letters + 1
    BY <1>1 DEF MemorySound, Sound, Typed, Balanced
<1>6. /\ errors' \in [evaluations: Nat, letters: Nat]
      /\ errors'.evaluations = errors.evaluations
      /\ \/ node' = "execute" /\ errors'.letters = errors.letters
         \/ node' = "select" /\ errors'.letters = errors.letters + 1
    <2>1. CASE failed' = FALSE /\ errors' = errors
        BY <1>3, <1>5, <2>1
    <2>2. CASE failed' = TRUE /\ errors' = [errors EXCEPT !.letters = @ + 1]
        <3>1. errors' = [evaluations |-> errors.evaluations, letters |-> errors.letters + 1]
            BY <1>5, <2>2
        <3>2. node' = "select"
            BY <1>3, <2>2
        <3> QED BY <1>5, <3>1, <3>2
    <2> QED BY <1>1, <2>1, <2>2
<1>7. Typed(listings, evaluated, qualified, notQualified, outcomes, errors)'
    BY <1>1, <1>6 DEF MemorySound, Sound, Typed
<1>8. Balanced(node, evaluated, qualified, notQualified, outcomes, errors)'
    <2>1. /\ evaluated' = evaluated /\ qualified' = qualified
          /\ notQualified' = notQualified /\ Len(outcomes') = Len(outcomes)
        BY <1>1
    <2>2. evaluated' = qualified' + notQualified' + errors'.evaluations
        BY <1>5, <1>6, <2>1
    <2>3. CASE node' = "execute" /\ errors'.letters = errors.letters
        BY <1>5, <2>1, <2>2, <2>3 DEF Balanced
    <2>4. CASE node' = "select" /\ errors'.letters = errors.letters + 1
        BY <1>5, <2>1, <2>2, <2>4 DEF Balanced
    <2> QED BY <1>6, <2>3, <2>4
<1>9. Distinct(seenIds, outcomes)' /\ AtHand(node, job, seenIds, outcomes)'
    BY <1>1, <1>6 DEF MemorySound, Sound, Distinct, AtHand
<1> QED BY <1>4, <1>7, <1>8, <1>9 DEF MemorySound, Sound

(* Every way through execution_node appends one outcome of the job at hand. *)
LEMMA ExecuteReports ==
    ASSUME Execute
    PROVE  \E dry \in BOOLEAN : outcomes' = Append(outcomes, [job |-> job, dryRun |-> dry])
<1>1. \E result : Report(result)
    BY DEF Execute, GiveUp, MeetBarrier, FindApplied, FindClaim, Rehearse, Submit, FindTaken
<1>2. PICK result : Report(result)
    BY <1>1
<1>3. outcomes' = Append(outcomes, [job |-> job, dryRun |-> (result = "dry_run")])
    BY <1>2 DEF Report
<1>4. (result = "dry_run") \in BOOLEAN
    OBVIOUS
<1> QED BY <1>3, <1>4

LEMMA ExecuteSound == MemorySound /\ Execute => MemorySound'
<1> SUFFICES ASSUME MemorySound, Execute PROVE MemorySound'
    OBVIOUS
<1>1. /\ UNCHANGED <<query, page, listings, job, seenIds, evaluated, qualified,
                      notQualified, errors>>
      /\ node = "execute" /\ node' = RoutePostProcessing'
    BY DEF Execute, cursor
<1>2. PICK dry \in BOOLEAN : outcomes' = Append(outcomes, [job |-> job, dryRun |-> dry])
    BY ExecuteReports
<1>3. /\ node' \in {"notify", "select"}
      /\ paused' => node' = "notify"
    BY <1>1 DEF RoutePostProcessing
<1>4. /\ job \in Jobs /\ job \in seenIds
      /\ \A i \in 1..Len(outcomes) : outcomes[i].job # job
      /\ InScope(node, query, page)
      /\ outcomes \in Seq(Outcome)
    BY <1>1 DEF MemorySound, Sound, AtHand, Typed
<1>5. /\ outcomes' \in Seq(Outcome)
      /\ Len(outcomes') = Len(outcomes) + 1
      /\ \A i \in 1..Len(outcomes) : outcomes'[i] = outcomes[i]
      /\ outcomes'[Len(outcomes) + 1].job = job
    <2>1. [job |-> job, dryRun |-> dry] \in Outcome
        BY <1>4 DEF Outcome
    <2>2. [job |-> job, dryRun |-> dry].job = job
        OBVIOUS
    <2> HIDE DEF Outcome
    <2> QED BY <1>2, <1>4, <2>1, <2>2
<1>6. InScope(node, query, page)' /\ Quiet(node, paused)'
    BY <1>1, <1>3, <1>4 DEF InScope, Quiet
<1>7. Typed(listings, evaluated, qualified, notQualified, outcomes, errors)'
    BY <1>1, <1>5 DEF MemorySound, Sound, Typed
<1>8. Balanced(node, evaluated, qualified, notQualified, outcomes, errors)'
    <2>1. /\ evaluated = qualified + notQualified + errors.evaluations
          /\ qualified = Len(outcomes) + errors.letters + 1
          /\ errors.letters \in Nat /\ Len(outcomes) \in Nat
        BY <1>1 DEF MemorySound, Sound, Typed, Balanced
    <2> QED BY <1>1, <1>3, <1>5, <2>1 DEF Balanced
<1>9. Distinct(seenIds, outcomes)'
    <2>1. \A i \in 1..Len(outcomes') : i \in 1..Len(outcomes) \/ i = Len(outcomes) + 1
        BY <1>4, <1>5
    <2>2. Distinct(seenIds, outcomes)
        BY DEF MemorySound, Sound
    <2> QED BY <1>1, <1>4, <1>5, <2>1, <2>2 DEF Distinct
<1>10. AtHand(node, job, seenIds, outcomes)'
    BY <1>3 DEF AtHand
<1> QED BY <1>6, <1>7, <1>8, <1>9, <1>10 DEF MemorySound, Sound

LEMMA NotifySound == MemorySound /\ Notify => MemorySound'
<1> SUFFICES ASSUME MemorySound, Notify PROVE MemorySound'
    OBVIOUS
<1>1. /\ UNCHANGED <<query, page, listings, seenIds, evaluated, qualified, notQualified,
                      outcomes, errors, paused>>
      /\ node = "notify" /\ node' = "end"
    BY DEF Notify, cursor, tally
<1>2. InScope(node, query, page)'
    BY <1>1 DEF MemorySound, Sound, InScope
<1>3. \A i \in DOMAIN listings : listings[i] \in Jobs
    BY DEF MemorySound, Sound, Typed
<1> QED BY <1>1, <1>2, <1>3, QuietNode

LEMMA NodeKeeps == BooksInv /\ Node => BooksInv'
<1> SUFFICES ASSUME MemorySound, Node PROVE BooksInv'
    BY DEF BooksInv
<1>1. MemorySound'
    BY SearchSound, SelectSound, IncrementSound, QualifySound, GenerateSound, ExecuteSound,
       NotifySound DEF Node
<1>2. Checkpointed
    BY DEF Node, Search, SelectNextJob, IncrementPage, IncrementQuery, Qualify, Generate,
           Execute, Notify
<1> QED BY <1>1, <1>2, NodeSaves DEF BooksInv

-----------------------------------------------------------------------------
(* The invocations *)

(* What a dead process leaves behind is sound: its checkpoint, or the state it
   never started from. *)
LEMMA ForgetSound ==
    ASSUME BooksInv, Forget
    PROVE  MemorySound' /\ (saved = {} => node' = node)
<1>1. CASE saved = {} /\ UNCHANGED memory
    <2>1. /\ UNCHANGED <<node, query, page, listings, job, seenIds, evaluated, qualified,
                          notQualified, outcomes, errors, paused>>
        BY <1>1 DEF memory, cursor, tally
    <2> QED BY <2>1 DEF BooksInv, MemorySound, Sound, InScope, Typed, Balanced, Distinct,
                        AtHand, Quiet
<1>2. CASE saved # {}
    <2>1. PICK s \in saved :
            /\ node' = s.node /\ query' = s.query /\ page' = s.page
            /\ listings' = s.listings /\ job' = s.job /\ seenIds' = s.seenIds
            /\ evaluated' = s.evaluated /\ qualified' = s.qualified
            /\ notQualified' = s.notQualified /\ outcomes' = s.outcomes
            /\ errors' = s.errors /\ paused' = s.paused
        BY <1>2 DEF Forget
    <2>2. StateSound(s)
        BY DEF BooksInv, SavedSound
    <2>3. Sound(s.node, s.query, s.page, s.listings, s.job, s.seenIds, s.evaluated,
                s.qualified, s.notQualified, s.outcomes, s.errors, s.paused)
        BY <2>2 DEF StateSound
    <2> QED BY <1>2, <2>1, <2>3 DEF MemorySound
<1> QED BY <1>1, <1>2 DEF Forget

(* A step that leaves the graph's state and its checkpoint alone. *)
LEMMA IdleSound ==
    ASSUME BooksInv, UNCHANGED <<memory, saved>>, proc' = "up" => saved # {}
    PROVE  BooksInv'
<1>1. UNCHANGED <<node, query, page, listings, job, seenIds, evaluated, qualified,
                  notQualified, outcomes, errors, paused, saved>>
    BY DEF memory, cursor, tally
<1>2. MemorySound'
    BY <1>1 DEF BooksInv, MemorySound, Sound, InScope, Typed, Balanced, Distinct, AtHand, Quiet
<1>3. SavedSound'
    BY <1>1 DEF BooksInv, SavedSound
<1>4. Untouched'
    BY <1>1 DEF BooksInv, Untouched
<1> QED BY <1>2, <1>3, <1>4 DEF BooksInv

LEMMA StartKeeps == BooksInv /\ Start => BooksInv'
<1> SUFFICES ASSUME BooksInv, Start PROVE BooksInv'
    OBVIOUS
<1>1. /\ UNCHANGED <<query, page, listings, job, seenIds, evaluated, qualified,
                      notQualified, outcomes, errors, paused>>
      /\ saved = {} /\ node = "search"
      /\ \/ proc' = "up" /\ node' = RouteStart'
         \/ proc' = "closing" /\ node' = node
      /\ saved' = IF proc' = "up" THEN {Snapshot'} ELSE saved
    BY DEF Start, cursor, BooksInv, Untouched
<1>2. /\ node' \in {"search", "notify"} /\ ~paused'
      /\ proc' # "up" => node' = "search"
    BY <1>1 DEF RouteStart, BooksInv, MemorySound, Sound, Quiet
<1>3. MemorySound'
    <2>1. InScope(node, query, page)'
        BY <1>1, <1>2 DEF BooksInv, MemorySound, Sound, InScope
    <2>2. \A i \in DOMAIN listings : listings[i] \in Jobs
        BY DEF BooksInv, MemorySound, Sound, Typed
    <2> QED BY <1>1, <1>2, <2>1, <2>2, QuietNode DEF BooksInv
<1>4. SavedSound'
    <2>1. StateSound(Snapshot') <=> MemorySound'
        BY SnapshotFieldsNext DEF StateSound, MemorySound
    <2> QED BY <1>1, <1>3, <2>1 DEF SavedSound
<1>5. Untouched'
    BY <1>1, <1>2 DEF Untouched
<1> QED BY <1>3, <1>4, <1>5 DEF BooksInv

LEMMA ReturnKeeps == BooksInv /\ Return => BooksInv'
<1> SUFFICES ASSUME BooksInv, Return PROVE BooksInv'
    OBVIOUS
<1>1. /\ UNCHANGED <<node, query, page, listings, job, seenIds, evaluated, qualified,
                      notQualified, outcomes, errors, paused>>
      /\ saved' = {Snapshot}
    BY DEF Return, memory, cursor, tally
<1>2. MemorySound'
    BY <1>1 DEF BooksInv, MemorySound, Sound, InScope, Typed, Balanced, Distinct, AtHand, Quiet
<1>3. StateSound(Snapshot)
    BY SnapshotFields DEF BooksInv, MemorySound, StateSound
<1> QED BY <1>1, <1>2, <1>3 DEF BooksInv, SavedSound, Untouched

LEMMA StopKeeps == BooksInv /\ (BreakOff \/ Kill) => BooksInv'
<1> SUFFICES ASSUME BooksInv, BreakOff \/ Kill PROVE BooksInv'
    OBVIOUS
<1>1. Forget /\ saved' = saved /\ proc' \in {"closing", "off"}
    BY DEF BreakOff, Kill
<1>2. MemorySound' /\ (saved = {} => node' = node)
    BY <1>1, ForgetSound
<1>3. SavedSound' /\ Untouched'
    BY <1>1, <1>2 DEF BooksInv, SavedSound, Untouched
<1> QED BY <1>2, <1>3 DEF BooksInv

(* Resuming, coming back and another run's clicks touch no state of the graph. *)
LEMMA OthersKeep == BooksInv /\ (Resume \/ Finalize \/ OtherRun) => BooksInv'
<1> SUFFICES ASSUME BooksInv, Resume \/ Finalize \/ OtherRun PROVE BooksInv'
    OBVIOUS
<1>1. UNCHANGED <<memory, saved>>
    BY DEF Resume, Finalize, OtherRun
<1>2. proc' = "up" => saved # {}
    BY DEF Resume, Finalize, OtherRun, invoked, BooksInv, Untouched
<1> QED BY <1>1, <1>2, IdleSound

-----------------------------------------------------------------------------
LEMMA BooksInit == Init => BooksInv
<1> SUFFICES ASSUME Init PROVE BooksInv
    OBVIOUS
<1>1. /\ node = "search" /\ query = 1 /\ page = 1 /\ listings = <<>> /\ job = NoJob
      /\ seenIds = {} /\ evaluated = 0 /\ qualified = 0 /\ notQualified = 0
      /\ outcomes = <<>> /\ errors = [evaluations |-> 0, letters |-> 0]
      /\ paused = FALSE /\ saved = {} /\ proc = "off"
    BY DEF Init
<1>2. InScope(node, query, page)
    BY <1>1, ScopeAssumption DEF InScope
<1>3. Typed(listings, evaluated, qualified, notQualified, outcomes, errors)
    BY <1>1 DEF Typed
<1>4. Balanced(node, evaluated, qualified, notQualified, outcomes, errors)
    BY <1>1 DEF Balanced
<1>5. Distinct(seenIds, outcomes) /\ AtHand(node, job, seenIds, outcomes) /\ Quiet(node, paused)
    BY <1>1 DEF Distinct, AtHand, Quiet
<1> QED BY <1>1, <1>2, <1>3, <1>4, <1>5 DEF BooksInv, MemorySound, Sound, SavedSound, Untouched

LEMMA BooksNext == BooksInv /\ [Next]_vars => BooksInv'
<1>1. BooksInv /\ UNCHANGED vars => BooksInv'
    <2> SUFFICES ASSUME BooksInv, UNCHANGED vars PROVE BooksInv'
        OBVIOUS
    <2>1. UNCHANGED <<memory, saved>> /\ proc' = proc
        BY DEF vars, invoked
    <2>2. proc' = "up" => saved # {}
        BY <2>1 DEF BooksInv, Untouched
    <2> QED BY <2>1, <2>2, IdleSound
<1> QED BY <1>1, NodeKeeps, StartKeeps, ReturnKeeps, StopKeeps, OthersKeep DEF Next

LEMMA BooksInductive == Spec => []BooksInv
    BY BooksInit, BooksNext, PTL DEF Spec

(* Whatever the pages show, the LLM says, fails or is killed, the counters of the
   summary add up: evaluated jobs to qualified, not qualified and errors, and
   qualified ones to outcomes, failed letters and the one at hand. *)
THEOREM BooksAlwaysBalance == Spec => []BooksBalance
<1>1. BooksInv => BooksBalance
    BY DEF BooksInv, MemorySound, Sound, Balanced, BooksBalance
<1> QED BY <1>1, BooksInductive, PTL

(* No crash, resumption or second sight of a card gives a job two outcomes. *)
THEOREM OneOutcome == Spec => []OneOutcomePerJob
<1>1. BooksInv => OneOutcomePerJob
    <2> SUFFICES ASSUME BooksInv PROVE OneOutcomePerJob
        OBVIOUS
    <2>1. outcomes \in Seq(Outcome) /\ Distinct(seenIds, outcomes)
        BY DEF BooksInv, MemorySound, Sound, Typed
    <2>2. DOMAIN outcomes = 1..Len(outcomes)
        BY <2>1
    <2> QED BY <2>1, <2>2 DEF Distinct, OneOutcomePerJob
<1> QED BY <1>1, BooksInductive, PTL

(* The summary adds up in its counters and job by job. *)
THEOREM OutcomesAlwaysAddUp == Spec => []OutcomesAddUp
<1>1. BooksBalance /\ OneOutcomePerJob => OutcomesAddUp
    BY DEF OutcomesAddUp
<1> QED BY <1>1, BooksAlwaysBalance, OneOutcome, PTL

-----------------------------------------------------------------------------
(* Stopping conditions *)

(* CapsReached, of any state. *)
CapsOf(out, sub, day, md) ==
    \/ sub + (IF md.dryRun THEN Cardinality({i \in DOMAIN out : out[i].dryRun}) ELSE 0)
          >= md.maxApplications
    \/ ~md.dryRun /\ day >= DailyCap

Resting(nd, sf, out, sub, day, pa, md) ==
    pa \/ CapsOf(out, sub, day, md) \/ sf => nd \in {"select", "notify", "end"}

MemoryRests == Resting(node, searchFailed, outcomes, submitted, daily, paused, mode)

SavedRests ==
    \A s \in saved :
        Resting(s.node, s.searchFailed, s.outcomes, s.submitted, s.daily, s.paused, s.mode)

(* Before its first start a run is where it began, whatever its caps say. *)
Unstarted == node = "search" /\ ~paused /\ ~searchFailed /\ proc # "up"

RestInv == SavedRests /\ (saved # {} => MemoryRests) /\ (saved = {} => Unstarted)

LEMMA CapsAreCapsOf == CapsReached <=> CapsOf(outcomes, submitted, daily, mode)
    BY DEF CapsReached, SessionCount, CompletedDryRuns, CapsOf

LEMMA CapsAreCapsOfNext == CapsReached' <=> CapsOf(outcomes, submitted, daily, mode)'
    BY DEF CapsReached, SessionCount, CompletedDryRuns, CapsOf

LEMMA SnapshotRests ==
    /\ Snapshot.node = node /\ Snapshot.searchFailed = searchFailed
    /\ Snapshot.outcomes = outcomes /\ Snapshot.submitted = submitted
    /\ Snapshot.daily = daily /\ Snapshot.paused = paused /\ Snapshot.mode = mode
    BY DEF Snapshot

LEMMA SnapshotRestsNext ==
    /\ (Snapshot').node = node' /\ (Snapshot').searchFailed = searchFailed'
    /\ (Snapshot').outcomes = outcomes' /\ (Snapshot').submitted = submitted'
    /\ (Snapshot').daily = daily' /\ (Snapshot').paused = paused'
    /\ (Snapshot').mode = mode'
    BY DEF Snapshot

LEMMA SavedNow ==
    ASSUME MemoryRests, MemoryRests', saved' = {Snapshot} \/ saved' = {Snapshot'}
    PROVE  RestInv'
    BY SnapshotRests, SnapshotRestsNext DEF MemoryRests, RestInv, SavedRests

(* A node that ends in a routing to rest, and one that has nothing to stop for. *)
LEMMA ComesToRest ==
    ASSUME node' \in {"select", "notify", "end"}
    PROVE  MemoryRests'
    BY DEF MemoryRests, Resting

LEMMA GoesOn ==
    ASSUME MemoryRests, node \notin {"select", "notify", "end"},
           UNCHANGED <<outcomes, submitted, daily, paused, mode>>,
           searchFailed' \in {searchFailed, FALSE}
    PROVE  MemoryRests'
<1>1. ~paused /\ ~searchFailed /\ ~CapsOf(outcomes, submitted, daily, mode)
    BY DEF MemoryRests, Resting
<1>2. ~paused' /\ ~searchFailed' /\ ~CapsOf(outcomes, submitted, daily, mode)'
    <2>1. /\ outcomes' = outcomes /\ submitted' = submitted /\ daily' = daily
          /\ paused' = paused /\ mode' = mode
          /\ searchFailed' = searchFailed \/ searchFailed' = FALSE
        OBVIOUS
    <2>2. CapsOf(outcomes', submitted', daily', mode')
            <=> CapsOf(outcomes, submitted, daily, mode)
        BY <2>1
    <2>3. ~CapsOf(outcomes', submitted', daily', mode')
        BY <1>1, <2>2
    <2>4. ~paused'
        BY <1>1, <2>1
    <2>5. ~searchFailed'
        <3>1. CASE searchFailed' = searchFailed
            BY <1>1, <3>1
        <3>2. CASE searchFailed' = FALSE
            BY <3>2
        <3> QED BY <2>1, <3>1, <3>2
    <2> QED BY <2>3, <2>4, <2>5
<1> QED BY <1>2 DEF MemoryRests, Resting

LEMMA NodeRests == MemoryRests /\ Node => MemoryRests'
<1> SUFFICES ASSUME MemoryRests, Node PROVE MemoryRests'
    OBVIOUS
<1>1. CASE Search \/ Execute \/ Notify
    <2>1. node' \in {"select", "notify", "end"}
        BY <1>1 DEF Search, SearchFindsCards, SearchFindsNothing, SearchFails,
                    SearchMeetsBarrier, Searched, Execute, RoutePostProcessing, Notify
    <2> QED BY <2>1, ComesToRest
<1>2. CASE SelectNextJob
    <2>1. node' = RouteSelectNextJob'
        BY <1>2 DEF SelectNextJob
    <2>2. paused' \/ CapsReached' \/ searchFailed' => node' = "notify"
        BY <2>1 DEF RouteSelectNextJob
    <2> QED BY <2>2, CapsAreCapsOfNext DEF MemoryRests, Resting
<1>3. CASE IncrementPage \/ IncrementQuery \/ Qualify \/ Generate
    <2>1. /\ node \in {"page", "query", "qualify", "generate"}
          /\ UNCHANGED <<outcomes, submitted, daily, paused, mode>>
          /\ searchFailed' \in {searchFailed, FALSE}
        BY <1>3 DEF IncrementPage, IncrementQuery, Qualify, Generate, tally, cursor
    <2>2. node \notin {"select", "notify", "end"}
        BY <2>1
    <2> QED BY <2>1, <2>2, GoesOn
<1> QED BY <1>1, <1>2, <1>3 DEF Node

LEMMA NodeKeepsRest == RestInv /\ Node => RestInv'
<1> SUFFICES ASSUME RestInv, Node PROVE RestInv'
    OBVIOUS
<1>1. proc = "up" /\ (saved' = {Snapshot} \/ saved' = {Snapshot'})
    BY DEF Node, Search, SelectNextJob, IncrementPage, IncrementQuery, Qualify, Generate,
           Execute, Notify, Checkpointed
<1>2. MemoryRests
    BY <1>1 DEF RestInv, Unstarted
<1> QED BY <1>1, <1>2, NodeRests, SavedNow

(* A step that leaves the graph's state and its checkpoint alone. *)
LEMMA IdleRests ==
    ASSUME RestInv, UNCHANGED <<memory, saved>>, proc' = "up" => saved # {}
    PROVE  RestInv'
<1>1. UNCHANGED <<node, searchFailed, outcomes, submitted, daily, paused, mode, saved>>
    BY DEF memory, cursor, tally
<1>2. MemoryRests' <=> MemoryRests
    BY <1>1 DEF MemoryRests, Resting, CapsOf
<1>3. SavedRests'
    BY <1>1 DEF RestInv, SavedRests
<1>4. saved' = {} => Unstarted'
    BY <1>1 DEF RestInv, Unstarted
<1> QED BY <1>1, <1>2, <1>3, <1>4 DEF RestInv

LEMMA StartKeepsRest == RestInv /\ Start => RestInv'
<1> SUFFICES ASSUME RestInv, Start PROVE RestInv'
    OBVIOUS
<1>1. CASE proc' = "up"
    <2>1. saved = {} /\ node' = RouteStart' /\ searchFailed' = searchFailed /\ saved' = {Snapshot'}
        BY <1>1 DEF Start, cursor
    <2>2. ~searchFailed'
        BY <2>1 DEF RestInv, Unstarted
    <2>3. MemoryRests'
        BY <2>1, <2>2, CapsAreCapsOfNext DEF RouteStart, MemoryRests, Resting
    <2> QED BY <2>1, <2>3, SnapshotRestsNext DEF MemoryRests, RestInv, SavedRests
<1>2. CASE proc' # "up"
    <2>1. /\ UNCHANGED <<node, paused, searchFailed>>
          /\ saved = {} /\ saved' = {}
        BY <1>2 DEF Start, cursor
    <2> QED BY <1>2, <2>1 DEF RestInv, Unstarted, SavedRests
<1> QED BY <1>1, <1>2

LEMMA ReturnKeepsRest == RestInv /\ Return => RestInv'
<1> SUFFICES ASSUME RestInv, Return PROVE RestInv'
    OBVIOUS
<1>1. /\ UNCHANGED <<node, searchFailed, outcomes, submitted, daily, paused, mode>>
      /\ saved' = {Snapshot} /\ proc = "up"
    BY DEF Return, memory, cursor, tally
<1>2. MemoryRests
    BY <1>1 DEF RestInv, Unstarted
<1>3. MemoryRests'
    BY <1>1, <1>2 DEF MemoryRests, Resting, CapsOf
<1> QED BY <1>1, <1>2, <1>3, SavedNow

LEMMA StopKeepsRest == RestInv /\ (BreakOff \/ Kill) => RestInv'
<1> SUFFICES ASSUME RestInv, BreakOff \/ Kill PROVE RestInv'
    OBVIOUS
<1>1. Forget /\ saved' = saved /\ proc' \in {"closing", "off"}
    BY DEF BreakOff, Kill
<1>2. SavedRests'
    BY <1>1 DEF RestInv, SavedRests
<1>3. CASE saved = {} /\ UNCHANGED memory
    <2>1. UNCHANGED <<node, paused, searchFailed>>
        BY <1>3 DEF memory, cursor
    <2> QED BY <1>1, <1>2, <1>3, <2>1 DEF RestInv, Unstarted
<1>4. CASE saved # {}
    <2>1. PICK s \in saved :
            /\ node' = s.node /\ searchFailed' = s.searchFailed
            /\ outcomes' = s.outcomes /\ submitted' = s.submitted
            /\ daily' = s.daily /\ paused' = s.paused /\ mode' = s.mode
        BY <1>1, <1>4 DEF Forget
    <2>2. MemoryRests'
        BY <2>1 DEF RestInv, SavedRests, MemoryRests
    <2> QED BY <1>1, <1>2, <1>4, <2>2 DEF RestInv
<1> QED BY <1>1, <1>3, <1>4 DEF Forget

LEMMA OthersKeepRest == RestInv /\ (Resume \/ Finalize \/ OtherRun) => RestInv'
<1> SUFFICES ASSUME RestInv, Resume \/ Finalize \/ OtherRun PROVE RestInv'
    OBVIOUS
<1>1. UNCHANGED <<memory, saved>>
    BY DEF Resume, Finalize, OtherRun
<1>2. proc' = "up" => saved # {}
    BY DEF Resume, Finalize, OtherRun, invoked, RestInv, Unstarted
<1> QED BY <1>1, <1>2, IdleRests

LEMMA RestInit == Init => RestInv
    BY DEF Init, RestInv, SavedRests, Unstarted

LEMMA RestNext == RestInv /\ [Next]_vars => RestInv'
<1>1. RestInv /\ UNCHANGED vars => RestInv'
    <2> SUFFICES ASSUME RestInv, UNCHANGED vars PROVE RestInv'
        OBVIOUS
    <2>1. UNCHANGED <<memory, saved>> /\ proc' = proc
        BY DEF vars, invoked
    <2>2. proc' = "up" => saved # {}
        BY <2>1 DEF RestInv, Unstarted
    <2> QED BY <2>1, <2>2, IdleRests
<1> QED BY <1>1, NodeKeepsRest, StartKeepsRest, ReturnKeepsRest, StopKeepsRest,
           OthersKeepRest DEF Next

(* An account-safety pause, a reached cap and a failed search end the run, however
   many kills and resumptions come between: no state this run has started from
   holds one of them and has browser or LLM work ahead. *)
THEOREM StoppedRunsStayAtRest == Spec => []StoppedRunsRest
<1>1. RestInv => StoppedRunsRest
    BY CapsAreCapsOf DEF RestInv, MemoryRests, Resting, StoppedRunsRest
<1> QED BY <1>1, RestInit, RestNext, PTL DEF Spec

-----------------------------------------------------------------------------
(* The summary *)

(* While an invocation is under way nothing is published and run() is not back;
   the workflow of one that is closing came to its end or says what broke it. *)
SummaryInv ==
    /\ SummaryIsTrue
    /\ proc \in {"off", "up", "closing"}
    /\ proc # "off" => summary = "none" /\ exit = "none"
    /\ proc = "closing" => ending \in {"result", "failed", "interrupted", "cancelled"}
    /\ proc = "closing" /\ ending = "result" => node = "end"

LEMMA SummaryInit == Init => SummaryInv
    BY DEF Init, SummaryInv, SummaryIsTrue

(* A step within an invocation. *)
LEMMA SummaryWaits ==
    ASSUME proc' \in {"up", "closing"}, summary' = "none", exit' = "none",
           proc' = "closing" => ending' \in {"failed", "interrupted", "cancelled"}
    PROVE  SummaryInv'
    BY DEF SummaryInv, SummaryIsTrue

LEMMA FinalizeTellsTheTruth == SummaryInv /\ Finalize => SummaryInv'
<1> SUFFICES ASSUME SummaryInv, Finalize PROVE SummaryInv'
    OBVIOUS
<1>1. /\ proc = "closing" /\ proc' = "off" /\ node' = node /\ paused' = paused
      /\ ending \in {"result", "failed", "interrupted", "cancelled"}
    BY DEF Finalize, memory, SummaryInv
<1>2. PICK cleanupFails, publishFails \in BOOLEAN :
        /\ summary' = IF publishFails THEN "none" ELSE TerminalStatus(cleanupFails)
        /\ exit' = IF ComesBack(cleanupFails, publishFails) THEN "returned" ELSE "raised"
    BY DEF Finalize
<1>3. exit' = "returned" => summary' # "none"
    BY <1>1, <1>2 DEF ComesBack, TerminalStatus
<1>4. summary' \in {"completed", "paused"} =>
        node' = "end" /\ (summary' = "paused" <=> paused')
    <2>1. CASE ending = "result"
        <3>1. node = "end"
            BY <1>1, <2>1 DEF SummaryInv
        <3>2. summary' \in {"none", "failed", IF paused THEN "paused" ELSE "completed"}
            BY <1>2, <2>1 DEF TerminalStatus
        <3> QED BY <1>1, <3>1, <3>2
    <2>2. CASE ending # "result"
        BY <1>1, <1>2, <2>2 DEF TerminalStatus
    <2> QED BY <2>1, <2>2
<1> QED BY <1>1, <1>3, <1>4 DEF SummaryInv, SummaryIsTrue

LEMMA SummaryNext == SummaryInv /\ [Next]_vars => SummaryInv'
<1> SUFFICES ASSUME SummaryInv, [Next]_vars PROVE SummaryInv'
    OBVIOUS
<1>1. CASE Start \/ Resume
    BY <1>1, SummaryWaits DEF Start, Resume
<1>2. CASE Node
    <2>1. proc = "up" /\ UNCHANGED invoked
        BY <1>2 DEF Node, Search, SearchFindsCards, SearchFindsNothing, SearchFails,
                    SearchMeetsBarrier, Searched, SelectNextJob, IncrementPage, IncrementQuery,
                    Qualify, Generate, Execute, Notify
    <2>2. proc' = "up" /\ summary' = "none" /\ exit' = "none"
        BY <2>1 DEF SummaryInv, invoked
    <2> QED BY <2>2, SummaryWaits
<1>3. CASE Return
    <2>1. /\ proc = "up" /\ node = "end" /\ proc' = "closing" /\ ending' = "result"
          /\ node' = node /\ summary' = summary /\ exit' = exit
        BY <1>3 DEF Return, memory
    <2> QED BY <2>1 DEF SummaryInv, SummaryIsTrue
<1>4. CASE BreakOff
    BY <1>4, SummaryWaits DEF BreakOff, SummaryInv
<1>5. CASE Finalize
    BY <1>5, FinalizeTellsTheTruth
<1>6. CASE Kill
    <2>1. proc # "off" /\ proc' = "off" /\ exit' = "killed" /\ summary' = summary
        BY <1>6 DEF Kill
    <2> QED BY <2>1 DEF SummaryInv, SummaryIsTrue
<1>7. CASE OtherRun \/ UNCHANGED vars
    <2>1. UNCHANGED <<node, paused, proc, ending, summary, exit>>
        BY <1>7 DEF OtherRun, vars, memory, invoked
    <2> QED BY <2>1 DEF SummaryInv, SummaryIsTrue
<1> QED BY <1>1, <1>2, <1>3, <1>4, <1>5, <1>6, <1>7 DEF Next

(* run() never comes back as if all were well without the summary of this
   invocation, and that summary says completed or paused only of a run that
   is (_finalize_run). *)
THEOREM SummaryAlwaysTrue == Spec => []SummaryIsTrue
<1>1. SummaryInv => SummaryIsTrue
    BY DEF SummaryInv
<1> QED BY <1>1, SummaryInit, SummaryNext, PTL DEF Spec

-----------------------------------------------------------------------------
(* Limits *)

Rehearsed(out) == {i \in DOMAIN out : out[i].dryRun}

(* WithinLimits, of any state; only a dry run rehearses, and no job goes to the
   LLM when the last allowed one has been there. *)
Limited(s) ==
    /\ s.submitted \in Nat
    /\ ~s.mode.dryRun => Rehearsed(s.outcomes) = {}
    /\ s.submitted + Cardinality(Rehearsed(s.outcomes)) <= s.mode.maxApplications
    /\ s.mode.maxJobs # Unlimited =>
          /\ s.evaluated <= s.mode.maxJobs
          /\ s.node = "qualify" => s.evaluated < s.mode.maxJobs

Own == Clicked({"this_run"})

LimitsInv ==
    /\ mode \in Modes /\ ledger \in [Jobs -> Holder]
    /\ Limited(Snapshot)
    /\ \A s \in saved : Limited(s) /\ s.mode = mode
    /\ IsFiniteSet(Own) /\ Cardinality(Own) <= mode.maxApplications

LEMMA LimitFields ==
    /\ Snapshot.node = node /\ Snapshot.evaluated = evaluated
    /\ Snapshot.outcomes = outcomes /\ Snapshot.submitted = submitted
    /\ Snapshot.mode = mode
    BY DEF Snapshot

LEMMA LimitFieldsNext ==
    /\ (Snapshot').node = node' /\ (Snapshot').evaluated = evaluated'
    /\ (Snapshot').outcomes = outcomes' /\ (Snapshot').submitted = submitted'
    /\ (Snapshot').mode = mode'
    BY DEF Snapshot

LEMMA ModeTypes ==
    ASSUME LimitsInv
    PROVE  mode.maxApplications \in Nat /\ mode.dryRun \in BOOLEAN
           /\ (mode.maxJobs # Unlimited => mode.maxJobs \in Nat)
    BY ModeAssumption DEF LimitsInv, Mode

LEMMA RehearsedFinite ==
    ASSUME NEW out \in Seq(Outcome)
    PROVE  IsFiniteSet(Rehearsed(out)) /\ Cardinality(Rehearsed(out)) \in Nat
<1>1. Rehearsed(out) \in SUBSET (1..Len(out)) /\ Len(out) \in Nat
    BY DEF Rehearsed
<1>2. IsFiniteSet(1..Len(out))
    BY <1>1, FS_Interval
<1>3. IsFiniteSet(Rehearsed(out))
    BY <1>1, <1>2, FS_Subset
<1> QED BY <1>3, FS_CardinalityType

(* One more element is at most one more to count. *)
LEMMA AddOne ==
    ASSUME NEW S, IsFiniteSet(S), NEW x
    PROVE  /\ IsFiniteSet(S \cup {x}) /\ Cardinality(S \cup {x}) \in Nat
           /\ Cardinality(S \cup {x}) <= Cardinality(S) + 1
<1> DEFINE more == S \cup {x}
<1>1. /\ IsFiniteSet(more)
      /\ Cardinality(more) = IF x \in S THEN Cardinality(S) ELSE Cardinality(S) + 1
    BY FS_AddElement
<1> HIDE DEF more
<1>2. Cardinality(S) \in Nat /\ Cardinality(more) \in Nat
    BY <1>1, FS_CardinalityType
<1>3. Cardinality(more) = Cardinality(S) \/ Cardinality(more) = Cardinality(S) + 1
    BY <1>1
<1>4. Cardinality(more) <= Cardinality(S) + 1
    BY <1>2, <1>3
<1> QED BY <1>1, <1>2, <1>4 DEF more

(* One more outcome is at most one more rehearsal. *)
LEMMA RehearsedAppend ==
    ASSUME NEW out \in Seq(Outcome), NEW o \in Outcome
    PROVE  /\ ~o.dryRun => Rehearsed(Append(out, o)) = Rehearsed(out)
           /\ Cardinality(Rehearsed(Append(out, o))) <= Cardinality(Rehearsed(out)) + 1
<1> DEFINE new == Append(out, o)
<1>1. /\ DOMAIN new = 1..(Len(out) + 1) /\ DOMAIN out = 1..Len(out) /\ Len(out) \in Nat
      /\ \A i \in 1..Len(out) : new[i] = out[i]
      /\ new[Len(out) + 1] = o
    BY DEF Outcome
<1> HIDE DEF new
<1>2. \A i \in 1..(Len(out) + 1) : i \in 1..Len(out) \/ i = Len(out) + 1
    BY <1>1
<1>3. ~o.dryRun => Rehearsed(new) = Rehearsed(out)
    BY <1>1, <1>2 DEF Rehearsed
<1>4. Rehearsed(new) \in SUBSET (Rehearsed(out) \cup {Len(out) + 1})
    BY <1>1, <1>2 DEF Rehearsed
<1>5. IsFiniteSet(Rehearsed(out)) /\ Cardinality(Rehearsed(out)) \in Nat
    BY RehearsedFinite
<1>6. /\ IsFiniteSet(Rehearsed(out) \cup {Len(out) + 1})
      /\ Cardinality(Rehearsed(out) \cup {Len(out) + 1}) <= Cardinality(Rehearsed(out)) + 1
      /\ Cardinality(Rehearsed(out) \cup {Len(out) + 1}) \in Nat
    BY <1>5, AddOne
<1>7. /\ IsFiniteSet(Rehearsed(new))
      /\ Cardinality(Rehearsed(new)) <= Cardinality(Rehearsed(out) \cup {Len(out) + 1})
    BY <1>4, <1>6, FS_Subset
<1>8. Cardinality(Rehearsed(new)) \in Nat
    BY <1>7, FS_CardinalityType
<1>9. Cardinality(Rehearsed(new)) <= Cardinality(Rehearsed(out)) + 1
    BY <1>5, <1>6, <1>7, <1>8
<1> QED BY <1>3, <1>9 DEF new

(* Steps that report nothing and evaluate nothing. *)
LEMMA QuietLimits ==
    ASSUME LimitsInv, evaluated \in Nat,
           UNCHANGED <<outcomes, submitted, evaluated, mode, ledger>>,
           saved' = saved \/ saved' = {Snapshot} \/ saved' = {Snapshot'},
           node' = "qualify" => node = "qualify" \/ ~JobLimitReached
    PROVE  LimitsInv'
<1>1. /\ outcomes' = outcomes /\ submitted' = submitted /\ evaluated' = evaluated
      /\ mode' = mode /\ ledger' = ledger
    OBVIOUS
<1>2. Limited(Snapshot')
    <2>1. Limited(Snapshot)
        BY DEF LimitsInv
    <2>2. node' = "qualify" /\ mode.maxJobs # Unlimited => evaluated < mode.maxJobs
        <3>1. CASE node = "qualify"
            BY <2>1, <3>1, LimitFields DEF Limited
        <3>2. CASE ~JobLimitReached
            <4>1. (evaluated <= mode.maxJobs /\ ~(evaluated >= mode.maxJobs))
                    \/ mode.maxJobs = Unlimited
                BY <2>1, <3>2, LimitFields DEF Limited, JobLimitReached
            <4>2. ASSUME mode.maxJobs # Unlimited, evaluated <= mode.maxJobs,
                         ~(evaluated >= mode.maxJobs)
                  PROVE  evaluated < mode.maxJobs
                <5>1. evaluated # mode.maxJobs
                    <6>1. mode.maxJobs \in Nat
                        BY <4>2, ModeTypes
                    <6>2. mode.maxJobs >= mode.maxJobs
                        BY <6>1
                    <6> QED BY <4>2, <6>2
                <5>2. mode.maxJobs \in Nat
                    BY <4>2, ModeTypes
                <5> QED BY <4>2, <5>1, <5>2
            <4> QED BY <4>1, <4>2
        <3> QED BY <3>1, <3>2
    <2> QED BY <1>1, <2>1, <2>2, LimitFields, LimitFieldsNext DEF Limited
<1>3. Own' = Own
    BY <1>1 DEF Own, Clicked
<1>4. \A s \in saved' : Limited(s) /\ s.mode = mode'
    BY <1>1, <1>2, LimitFields, LimitFieldsNext DEF LimitsInv
<1> QED BY <1>1, <1>2, <1>3, <1>4 DEF LimitsInv

LEMMA QualifyLimits == LimitsInv /\ BooksInv /\ Qualify => LimitsInv'
<1> SUFFICES ASSUME LimitsInv, BooksInv, Qualify PROVE LimitsInv'
    OBVIOUS
<1>1. /\ outcomes' = outcomes /\ submitted' = submitted /\ mode' = mode /\ ledger' = ledger
      /\ node = "qualify" /\ evaluated' = evaluated + 1
      /\ saved' = {Snapshot} \/ saved' = {Snapshot'}
    BY DEF Qualify, Judge, JudgeFails, Checkpointed
<1>2. node' # "qualify"
    BY DEF Qualify, RouteAfterQualification
<1>3. evaluated \in Nat
    BY DEF BooksInv, MemorySound, Sound, Typed
<1>4. Limited(Snapshot)
    BY DEF LimitsInv
<1>5. mode.maxJobs # Unlimited => evaluated + 1 <= mode.maxJobs
    BY <1>1, <1>3, <1>4, ModeTypes, LimitFields DEF Limited
<1>6. Limited(Snapshot')
    BY <1>1, <1>2, <1>4, <1>5, LimitFields, LimitFieldsNext DEF Limited
<1>7. Own' = Own
    BY <1>1 DEF Own, Clicked
<1>8. \A s \in saved' : Limited(s) /\ s.mode = mode'
    BY <1>1, <1>4, <1>6, LimitFields, LimitFieldsNext
<1> QED BY <1>1, <1>6, <1>7, <1>8 DEF LimitsInv

(* execution_node: what it reports, and what it adds to the counter. *)
LEMMA ExecuteCounts ==
    ASSUME Execute, submitted \in Nat
    PROVE  \E dry \in BOOLEAN :
             /\ outcomes' = Append(outcomes, [job |-> job, dryRun |-> dry])
             /\ submitted' = submitted \/ (submitted' = submitted + 1 /\ ~dry)
             /\ dry \/ submitted' # submitted => ~CapsReached
             /\ dry => mode.dryRun
             /\ submitted' # submitted => ~mode.dryRun
<1>1. ASSUME NEW result, Report(result), result # "dry_run", submitted' = submitted
      PROVE  \E dry \in BOOLEAN :
             /\ outcomes' = Append(outcomes, [job |-> job, dryRun |-> dry])
             /\ submitted' = submitted \/ (submitted' = submitted + 1 /\ ~dry)
             /\ dry \/ submitted' # submitted => ~CapsReached
             /\ dry => mode.dryRun
             /\ submitted' # submitted => ~mode.dryRun
    <2>1. (result = "dry_run") = FALSE
        BY <1>1
    <2>2. outcomes' = Append(outcomes, [job |-> job, dryRun |-> FALSE])
        BY <1>1, <2>1 DEF Report
    <2> QED BY <1>1, <2>2
<1>2. CASE CapsReached
    BY <1>1, <1>2 DEF Execute
<1>3. CASE ~CapsReached /\ (GiveUp \/ MeetBarrier \/ FindApplied \/ FindClaim \/ FindTaken)
    BY <1>1, <1>3 DEF GiveUp, MeetBarrier, FindApplied, FindClaim, FindTaken
<1>4. CASE ~CapsReached /\ Rehearse
    <2>1. mode.dryRun /\ Report("dry_run") /\ submitted' = submitted
        BY <1>4 DEF Rehearse
    <2>2. outcomes' = Append(outcomes, [job |-> job, dryRun |-> TRUE])
        BY <2>1 DEF Report
    <2> QED BY <1>4, <2>1, <2>2
<1>5. CASE ~CapsReached /\ Submit
    <2>1. CASE Report("submitted") /\ submitted' = submitted + 1
        <3>1. outcomes' = Append(outcomes, [job |-> job, dryRun |-> FALSE])
            BY <2>1 DEF Report
        <3>2. ~mode.dryRun
            BY <1>5 DEF Submit
        <3> QED BY <1>5, <2>1, <3>1, <3>2
    <2>2. CASE Report("set_aside") /\ submitted' = submitted
        BY <1>1, <2>2
    <2> QED BY <1>5, <2>1, <2>2 DEF Submit
<1> QED BY <1>2, <1>3, <1>4, <1>5 DEF Execute

(* A click of this run is within the cap of the quota. *)
LEMMA ExecuteClicks ==
    ASSUME LimitsInv, Execute
    PROVE  /\ ledger' \in [Jobs -> Holder] /\ IsFiniteSet(Own')
           /\ Cardinality(Own') <= mode.maxApplications
<1>1. /\ ledger \in [Jobs -> Holder] /\ IsFiniteSet(Own)
      /\ Cardinality(Own) <= mode.maxApplications
    BY DEF LimitsInv
<1>2. CASE ledger' = ledger
    <2>1. Own' = Own
        BY <1>2 DEF Own, Clicked
    <2> QED BY <1>1, <1>2, <2>1
<1>3. CASE SlotFree /\ ledger' = [ledger EXCEPT ![job] = "this_run"]
    <2>1. CASE job \in Jobs
        <3>1. Own' = Own \cup {job}
            BY <1>1, <1>3, <2>1 DEF Own, Clicked
        <3>2. Cardinality(Own) \in Nat /\ Cardinality(Own) < mode.maxApplications
            BY <1>1, <1>3, FS_CardinalityType DEF SlotFree, Own
        <3>3. IsFiniteSet(Own') /\ Cardinality(Own') <= Cardinality(Own) + 1
              /\ Cardinality(Own') \in Nat
            BY <1>1, <3>1, AddOne
        <3>4. Cardinality(Own') <= mode.maxApplications
            BY <3>2, <3>3, ModeTypes
        <3>5. ledger' \in [Jobs -> Holder]
            BY <1>1, <1>3 DEF Holder
        <3> QED BY <3>3, <3>4, <3>5
    <2>2. CASE job \notin Jobs
        <3>1. ledger' = ledger
            BY <1>1, <1>3, <2>2
        <3> QED BY <1>2, <3>1
    <2> QED BY <2>1, <2>2
<1>4. ledger' = ledger \/ (SlotFree /\ ledger' = [ledger EXCEPT ![job] = "this_run"])
    BY DEF Execute, GiveUp, MeetBarrier, FindApplied, FindClaim, FindTaken, Rehearse, Submit, store
<1> QED BY <1>2, <1>3, <1>4

LEMMA ExecuteLimits == LimitsInv /\ BooksInv /\ Execute => LimitsInv'
<1> SUFFICES ASSUME LimitsInv, BooksInv, Execute PROVE LimitsInv'
    OBVIOUS
<1>1. /\ mode' = mode /\ evaluated' = evaluated /\ node' # "qualify"
      /\ saved' = {Snapshot} \/ saved' = {Snapshot'}
    BY DEF Execute, RoutePostProcessing, Checkpointed
<1>2. Limited(Snapshot) /\ submitted \in Nat
    BY LimitFields DEF LimitsInv, Limited
<1>3. outcomes \in Seq(Outcome) /\ job \in Jobs
    BY DEF Execute, BooksInv, MemorySound, Sound, Typed, AtHand
<1>4. PICK dry \in BOOLEAN :
             /\ outcomes' = Append(outcomes, [job |-> job, dryRun |-> dry])
             /\ submitted' = submitted \/ (submitted' = submitted + 1 /\ ~dry)
             /\ dry \/ submitted' # submitted => ~CapsReached
             /\ dry => mode.dryRun
             /\ submitted' # submitted => ~mode.dryRun
    BY <1>2, ExecuteCounts
<1> DEFINE o == [job |-> job, dryRun |-> dry]
<1>5. o \in Outcome /\ o.dryRun = dry
    BY <1>3 DEF Outcome
<1>6. /\ ~dry => Rehearsed(outcomes') = Rehearsed(outcomes)
      /\ Cardinality(Rehearsed(outcomes')) <= Cardinality(Rehearsed(outcomes)) + 1
    BY <1>3, <1>4, <1>5, RehearsedAppend
<1>7. Cardinality(Rehearsed(outcomes)) \in Nat
    BY <1>3, RehearsedFinite
<1>8. outcomes' \in Seq(Outcome)
    <2> HIDE DEF o
    <2> QED BY <1>3, <1>4, <1>5 DEF o
<1>9. Cardinality(Rehearsed(outcomes')) \in Nat
    BY <1>8, RehearsedFinite
<1>10. submitted + Cardinality(Rehearsed(outcomes)) <= mode.maxApplications
       /\ (~mode.dryRun => Rehearsed(outcomes) = {})
    BY <1>2, LimitFields DEF Limited
<1>11. ~CapsReached => submitted + Cardinality(Rehearsed(outcomes)) < mode.maxApplications
    <2>1. ~CapsReached =>
             ~(submitted + (IF mode.dryRun THEN Cardinality(Rehearsed(outcomes)) ELSE 0)
                 >= mode.maxApplications)
        BY DEF CapsReached, SessionCount, CompletedDryRuns, Rehearsed
    <2>2. ~mode.dryRun => Cardinality(Rehearsed(outcomes)) = 0
        BY <1>10, FS_EmptySet
    <2>3. submitted + (IF mode.dryRun THEN Cardinality(Rehearsed(outcomes)) ELSE 0)
            = submitted + Cardinality(Rehearsed(outcomes))
        BY <1>2, <1>7, <2>2
    <2> QED BY <1>2, <1>7, <2>1, <2>3, ModeTypes
<1>12. submitted' \in Nat /\ (~mode.dryRun => Rehearsed(outcomes') = {})
    BY <1>2, <1>4, <1>6, <1>10
<1>13. submitted' + Cardinality(Rehearsed(outcomes')) <= mode.maxApplications
    <2>1. CASE dry
        BY <1>2, <1>4, <1>6, <1>7, <1>9, <1>11, <2>1, ModeTypes
    <2>2. CASE ~dry /\ submitted' = submitted
        BY <1>6, <1>10, <2>2
    <2>3. CASE ~dry /\ submitted' = submitted + 1
        <3>1. submitted' # submitted
            BY <1>2, <2>3
        <3>2. Cardinality(Rehearsed(outcomes')) = Cardinality(Rehearsed(outcomes))
            BY <1>6, <2>3
        <3> QED BY <1>2, <1>4, <1>7, <1>11, <2>3, <3>1, <3>2, ModeTypes
    <2> QED BY <1>4, <2>1, <2>2, <2>3
<1>14. Limited(Snapshot')
    BY <1>1, <1>2, <1>12, <1>13, LimitFields, LimitFieldsNext DEF Limited
<1>15. \A s \in saved' : Limited(s) /\ s.mode = mode'
    BY <1>1, <1>2, <1>14, LimitFields, LimitFieldsNext
<1> QED BY <1>1, <1>14, <1>15, ExecuteClicks DEF LimitsInv

LEMMA ForgetLimits ==
    ASSUME LimitsInv, evaluated \in Nat, Forget, saved' = saved, ledger' = ledger
    PROVE  LimitsInv'
<1>1. CASE saved = {} /\ UNCHANGED memory
    <2>1. UNCHANGED <<outcomes, submitted, evaluated, mode, ledger, node>>
        BY <1>1 DEF memory, tally
    <2> QED BY <2>1, QuietLimits
<1>2. CASE saved # {}
    <2>1. PICK s \in saved :
            /\ node' = s.node /\ evaluated' = s.evaluated /\ outcomes' = s.outcomes
            /\ submitted' = s.submitted /\ mode' = s.mode
        BY <1>2 DEF Forget
    <2>2. Limited(s) /\ mode' = mode
        BY <2>1 DEF LimitsInv
    <2>3. Limited(Snapshot')
        BY <2>1, <2>2, LimitFieldsNext DEF Limited
    <2>4. Own' = Own
        BY DEF Own, Clicked
    <2> QED BY <2>2, <2>3, <2>4 DEF LimitsInv
<1> QED BY <1>1, <1>2 DEF Forget

LEMMA OtherRunLimits ==
    ASSUME LimitsInv, OtherRun
    PROVE  LimitsInv'
<1>1. UNCHANGED <<outcomes, submitted, evaluated, mode, node>> /\ saved' = saved
    BY DEF OtherRun, memory, tally
<1>2. PICK j \in Contested : ledger[j] = "nobody" /\ ledger' = [ledger EXCEPT ![j] = "another_run"]
    BY DEF OtherRun
<1>3. ledger' \in [Jobs -> Holder] /\ Own' = Own
    BY <1>2, JobSetAssumption DEF LimitsInv, Holder, Own, Clicked
<1>4. Limited(Snapshot')
    BY <1>1, LimitFields, LimitFieldsNext DEF LimitsInv, Limited
<1> QED BY <1>1, <1>3, <1>4 DEF LimitsInv

LEMMA LimitsInit == Init => LimitsInv
<1> SUFFICES ASSUME Init PROVE LimitsInv
    OBVIOUS
<1>1. /\ node = "search" /\ evaluated = 0 /\ outcomes = <<>> /\ submitted = 0
      /\ mode \in Modes /\ saved = {} /\ ledger = [j \in Jobs |-> "nobody"]
    BY DEF Init
<1>2. mode.maxApplications \in Nat /\ (mode.maxJobs # Unlimited => mode.maxJobs \in Nat)
    BY <1>1, ModeAssumption DEF Mode
<1>3. Rehearsed(outcomes) = {}
    BY <1>1 DEF Rehearsed
<1>4. Limited(Snapshot)
    <2>1. Cardinality(Rehearsed(outcomes)) = 0
        BY <1>3, FS_EmptySet
    <2>2. submitted + Cardinality(Rehearsed(outcomes)) <= mode.maxApplications
        BY <1>1, <1>2, <2>1
    <2>3. mode.maxJobs # Unlimited => evaluated <= mode.maxJobs
        BY <1>1, <1>2
    <2>4. submitted \in Nat /\ node # "qualify"
        BY <1>1
    <2> QED BY <1>3, <2>2, <2>3, <2>4, LimitFields DEF Limited
<1>5. Own = {}
    BY <1>1 DEF Own, Clicked
<1> QED BY <1>1, <1>2, <1>4, <1>5, FS_EmptySet DEF LimitsInv, Holder

LEMMA LimitsNext == LimitsInv /\ BooksInv /\ [Next]_vars => LimitsInv'
<1> SUFFICES ASSUME LimitsInv, BooksInv, [Next]_vars PROVE LimitsInv'
    OBVIOUS
<1>0. evaluated \in Nat
    BY DEF BooksInv, MemorySound, Sound, Typed
<1>1. CASE Search \/ IncrementPage \/ IncrementQuery \/ Generate \/ Notify
    <2>1. /\ UNCHANGED <<outcomes, submitted, evaluated, mode, ledger>>
          /\ node' # "qualify" /\ (saved' = {Snapshot} \/ saved' = {Snapshot'})
        BY <1>1 DEF Search, SearchFindsCards, SearchFindsNothing, SearchFails, SearchMeetsBarrier,
                    Searched, IncrementPage, IncrementQuery, Generate, Notify, Checkpointed,
                    RouteAfterGeneration, tally, store
    <2> QED BY <1>0, <2>1, QuietLimits
<1>2. CASE SelectNextJob
    <2>1. /\ UNCHANGED <<outcomes, submitted, evaluated, mode, ledger>>
          /\ saved' = {Snapshot} \/ saved' = {Snapshot'}
        BY <1>2 DEF SelectNextJob, Checkpointed, tally, store
    <2>2. node' = "qualify" => ~JobLimitReached'
        BY <1>2 DEF SelectNextJob, RouteSelectNextJob
    <2>3. JobLimitReached' <=> JobLimitReached
        BY <2>1 DEF JobLimitReached
    <2> QED BY <1>0, <2>1, <2>2, <2>3, QuietLimits
<1>3. CASE Qualify
    BY <1>3, QualifyLimits
<1>4. CASE Execute
    BY <1>4, ExecuteLimits
<1>5. CASE Start
    <2>1. /\ UNCHANGED <<outcomes, submitted, evaluated, mode, ledger>>
          /\ node' = node \/ node' # "qualify"
        BY <1>5 DEF Start, RouteStart, store
    <2>2. saved' = saved \/ saved' = {Snapshot'}
        BY <1>5 DEF Start
    <2> QED BY <1>0, <2>1, <2>2, QuietLimits
<1>6. CASE Resume \/ Return \/ Finalize \/ UNCHANGED vars
    <2>1. /\ UNCHANGED <<outcomes, submitted, evaluated, mode, ledger, node>>
          /\ saved' = saved \/ saved' = {Snapshot}
        BY <1>6 DEF Resume, Return, Finalize, vars, memory, tally, store
    <2> QED BY <1>0, <2>1, QuietLimits
<1>7. CASE BreakOff \/ Kill
    BY <1>0, <1>7, ForgetLimits DEF BreakOff, Kill, store
<1>8. CASE OtherRun
    BY <1>8, OtherRunLimits
<1> QED BY <1>1, <1>2, <1>3, <1>4, <1>5, <1>6, <1>7, <1>8 DEF Next, Node

(* However a run is cut up by kills and resumptions, its submissions and
   rehearsals, its clicks and its evaluations stay within their limits. *)
THEOREM LimitsKept == Spec => []WithinLimits
<1>1. LimitsInv => WithinLimits
    <2> SUFFICES ASSUME LimitsInv PROVE WithinLimits
        OBVIOUS
    <2>1. Limited(Snapshot) /\ CompletedDryRuns = Rehearsed(outcomes)
        BY DEF LimitsInv, CompletedDryRuns, Rehearsed
    <2> QED BY <2>1, LimitFields DEF LimitsInv, Limited, WithinLimits, Own
<1> QED BY <1>1, LimitsInit, LimitsNext, BooksInductive, PTL DEF Spec

-----------------------------------------------------------------------------
(* Coverage *)

(* A page was searched, or lies behind an empty one. *)
Done(se, q, p) ==
    <<q, p>> \in se \/ \E k \in 1..p - 1 : <<q, k>> \in se /\ Shown[<<q, k>>] = <<>>

Whole(se, q) == \A p \in 1..PagesPerQuery : Done(se, q, p)

(* Places on a page count from 1; none is passed when a page is opened. *)
Places(li, ix) == ix \in Nat /\ \A i \in DOMAIN li : i \in Nat \ {0}

(* Everything before the page at hand was asked for. *)
Explored(se, qy, pg) ==
    /\ \A q \in 1..Queries : q < qy => Whole(se, q)
    /\ \A p \in 1..PagesPerQuery : p < pg => Done(se, qy, p)

(* Once the search answered so was the page at hand, and exhausted is an empty
   page; a barrier or a failed search does not lead to a further page. *)
Answered(se, nd, qy, pg, sf, ex, pa) ==
    /\ nd \in {"page", "query"} => ~pa /\ ~sf
    /\ nd \notin {"search", "notify", "end"} /\ ~pa /\ ~sf =>
          /\ Done(se, qy, pg)
          /\ ex => <<qy, pg>> \in se /\ Shown[<<qy, pg>>] = <<>>

AllDealt(li, dealt) == \A i \in DOMAIN li : li[i] \in dealt

(* The cursor leaves nothing behind but the job being judged. *)
Passed(nd, li, ix, jb, dealt) ==
    /\ nd \notin {"notify", "end"} =>
          \A i \in DOMAIN li : i <= ix => li[i] \in dealt \/ (nd = "qualify" /\ li[i] = jb)
    /\ nd \in {"page", "query"} => AllDealt(li, dealt)

(* The ends of a query and of the run. *)
Ended(se, nd, qy, li, dealt, halted) ==
    /\ nd = "query" => Whole(se, qy)
    /\ nd \in {"notify", "end"} /\ ~halted =>
          /\ AllDealt(li, dealt)
          /\ \A q \in 1..Queries : Whole(se, q)

(* Stopped, of any state. *)
Halted(s) ==
    \/ s.paused \/ s.searchFailed
    \/ CapsOf(s.outcomes, s.submitted, s.daily, s.mode)
    \/ s.mode.maxJobs # Unlimited /\ s.evaluated >= s.mode.maxJobs

Covered(s, tr, se) ==
    /\ Places(s.listings, s.index)
    /\ Explored(se, s.query, s.page)
    /\ Answered(se, s.node, s.query, s.page, s.searchFailed, s.exhausted, s.paused)
    /\ Passed(s.node, s.listings, s.index, s.job, s.seenIds \cup tr)
    /\ Ended(se, s.node, s.query, s.listings, s.seenIds \cup tr, Halted(s))

MemoryCovers ==
    /\ Places(listings, index)
    /\ Explored(searched, query, page)
    /\ Answered(searched, node, query, page, searchFailed, exhausted, paused)
    /\ Passed(node, listings, index, job, seenIds \cup tried)
    /\ Ended(searched, node, query, listings, seenIds \cup tried, Stopped)

CoverInv == MemoryCovers /\ \A s \in saved : Covered(s, tried, searched)

LEMMA CoverSnapshot == Covered(Snapshot, tried, searched) <=> MemoryCovers
<1>1. /\ Snapshot.node = node /\ Snapshot.query = query /\ Snapshot.page = page
      /\ Snapshot.listings = listings /\ Snapshot.index = index /\ Snapshot.job = job
      /\ Snapshot.searchFailed = searchFailed /\ Snapshot.exhausted = exhausted
      /\ Snapshot.seenIds = seenIds /\ Snapshot.evaluated = evaluated
      /\ Snapshot.outcomes = outcomes /\ Snapshot.submitted = submitted
      /\ Snapshot.daily = daily /\ Snapshot.paused = paused /\ Snapshot.mode = mode
    BY DEF Snapshot
<1>2. Halted(Snapshot) <=> Stopped
    BY <1>1, CapsAreCapsOf DEF Halted, Stopped, JobLimitReached
<1> QED BY <1>1, <1>2 DEF Covered, MemoryCovers, Ended

LEMMA CoverSnapshotNext == Covered(Snapshot', tried', searched') <=> MemoryCovers'
<1>1. /\ (Snapshot').node = node' /\ (Snapshot').query = query' /\ (Snapshot').page = page'
      /\ (Snapshot').listings = listings' /\ (Snapshot').index = index'
      /\ (Snapshot').job = job' /\ (Snapshot').searchFailed = searchFailed'
      /\ (Snapshot').exhausted = exhausted' /\ (Snapshot').seenIds = seenIds'
      /\ (Snapshot').evaluated = evaluated' /\ (Snapshot').outcomes = outcomes'
      /\ (Snapshot').submitted = submitted' /\ (Snapshot').daily = daily'
      /\ (Snapshot').paused = paused' /\ (Snapshot').mode = mode'
    BY DEF Snapshot
<1>2. Halted(Snapshot') <=> Stopped'
    BY <1>1, CapsAreCapsOfNext DEF Halted, Stopped, JobLimitReached
<1> QED BY <1>1, <1>2 DEF Covered, MemoryCovers, Ended

(* What was searched and tried stays so: history outlives the process. *)
LEMMA DoneStays ==
    ASSUME NEW se, NEW more, se \subseteq more, NEW q, NEW p, Done(se, q, p)
    PROVE  Done(more, q, p)
    BY DEF Done

LEMMA CoveredStays ==
    ASSUME NEW s, NEW tr, NEW moreTr, NEW se, NEW moreSe,
           tr \subseteq moreTr, se \subseteq moreSe, Covered(s, tr, se)
    PROVE  Covered(s, moreTr, moreSe)
<1>1. \A q, p : Done(se, q, p) => Done(moreSe, q, p)
    BY DoneStays
<1>2. \A q : Whole(se, q) => Whole(moreSe, q)
    BY <1>1 DEF Whole
<1>3. Explored(moreSe, s.query, s.page)
    BY <1>1, <1>2 DEF Covered, Explored
<1>4. Answered(moreSe, s.node, s.query, s.page, s.searchFailed, s.exhausted, s.paused)
    BY <1>1 DEF Covered, Answered
<1>5. Passed(s.node, s.listings, s.index, s.job, s.seenIds \cup moreTr)
    BY DEF Covered, Passed, AllDealt
<1>6. Ended(moreSe, s.node, s.query, s.listings, s.seenIds \cup moreTr, Halted(s))
    BY <1>2 DEF Covered, Ended, AllDealt
<1> QED BY <1>3, <1>4, <1>5, <1>6 DEF Covered

(* A step of the graph saves what it found or what it leaves. *)
LEMMA NodeCovers ==
    ASSUME MemoryCovers, MemoryCovers', Checkpointed,
           tried \subseteq tried', searched \subseteq searched'
    PROVE  CoverInv'
<1>1. Covered(Snapshot, tried, searched) /\ Covered(Snapshot', tried', searched')
    BY CoverSnapshot, CoverSnapshotNext
<1>2. Covered(Snapshot, tried', searched')
    BY <1>1, CoveredStays
<1> QED BY <1>1, <1>2 DEF Checkpointed, CoverInv

(* A page opened, at whose cards the cursor has not yet looked. *)
LEMMA SearchedCovers ==
    ASSUME MemoryCovers, NEW found, NEW failure, NEW empty,
           Searched(found, failure, empty),
           \A i \in DOMAIN found : i \in Nat \ {0},
           searched \subseteq searched',
           \/ failure \/ paused'
           \/ <<query, page>> \in searched' /\ (empty => Shown[<<query, page>>] = <<>>)
    PROVE  MemoryCovers'
<1>1. /\ listings' = found /\ index' = 0 /\ searchFailed' = failure /\ exhausted' = empty
      /\ node' = "select" /\ query' = query /\ page' = page
    BY DEF Searched
<1>2. Places(listings, index)'
    BY <1>1 DEF Places
<1>3. \A q, p : Done(searched, q, p) => Done(searched', q, p)
    BY DoneStays
<1>4. Explored(searched, query, page)'
    BY <1>1, <1>3 DEF MemoryCovers, Explored, Whole
<1>5. Answered(searched, node, query, page, searchFailed, exhausted, paused)'
    BY <1>1 DEF Answered, Done
<1>6. Passed(node, listings, index, job, seenIds \cup tried)'
    <2>1. \A i \in DOMAIN found : ~(i <= 0)
        OBVIOUS
    <2> QED BY <1>1, <2>1 DEF Passed
<1>7. Ended(searched, node, query, listings, seenIds \cup tried, Stopped)'
    BY <1>1 DEF Ended
<1> QED BY <1>2, <1>4, <1>5, <1>6, <1>7 DEF MemoryCovers

LEMMA SearchCovers ==
    MemoryCovers /\ MemorySound /\ Search => MemoryCovers' /\ searched \subseteq searched'
<1> SUFFICES ASSUME MemoryCovers, MemorySound, Search
             PROVE  MemoryCovers' /\ searched \subseteq searched'
    OBVIOUS
<1>1. query \in 1..Queries /\ page \in 1..PagesPerQuery
    BY DEF MemorySound, Sound, InScope
<1>2. Shown[<<query, page>>] \in Seq(Jobs)
    <2>1. <<query, page>> \in (1..Queries) \X (1..PagesPerQuery)
        BY <1>1
    <2> QED BY <2>1, ScopeAssumption
<1>3. \A i \in DOMAIN <<>> : i \in Nat \ {0}
    OBVIOUS
<1>4. CASE SearchFindsCards
    <2>1. PICK marked \in SUBSET Markable, lost \in SUBSET Fresh :
              LET over == marked \cup ((Fresh \cap Excluded) \ lost)
              IN  Searched(FirstShown(Fresh \ (lost \cup over)), FALSE, FALSE)
        BY <1>4 DEF SearchFindsCards
    <2>2. PICK keep : Searched(FirstShown(keep), FALSE, FALSE)
        BY <2>1
    <2>3. \A i \in DOMAIN FirstShown(keep) : i \in Nat \ {0}
        <3>1. DOMAIN FirstShown(keep) \subseteq DOMAIN Shown[<<query, page>>]
            BY DEF FirstShown
        <3>2. DOMAIN Shown[<<query, page>>] = 1..Len(Shown[<<query, page>>])
              /\ Len(Shown[<<query, page>>]) \in Nat
            BY <1>2
        <3> QED BY <3>1, <3>2
    <2>4. searched' = searched \cup {<<query, page>>}
        BY <1>4 DEF SearchFindsCards
    <2> QED BY <2>2, <2>3, <2>4, SearchedCovers
<1>5. CASE SearchFindsNothing
    <2>1. /\ Searched(<<>>, FALSE, TRUE)
          /\ searched' = searched \cup {<<query, page>>}
          /\ OnPage = {}
        BY <1>5 DEF SearchFindsNothing
    <2>2. Shown[<<query, page>>] = <<>>
        <3> DEFINE cards == Shown[<<query, page>>]
        <3>1. \A i \in DOMAIN cards : FALSE
            BY <2>1 DEF OnPage
        <3>2. cards \in Seq(Jobs)
            BY <1>2
        <3> HIDE DEF cards
        <3>3. Len(cards) \in Nat /\ DOMAIN cards = 1..Len(cards)
            BY <3>2
        <3>4. Len(cards) = 0
            BY <3>1, <3>3
        <3>5. cards = <<>>
            BY <3>2, <3>4
        <3> QED BY <3>5 DEF cards
    <2> QED BY <1>3, <2>1, <2>2, SearchedCovers
<1>6. CASE SearchFails
    <2>1. Searched(<<>>, TRUE, FALSE) /\ searched' = searched
        BY <1>6 DEF SearchFails
    <2> QED BY <1>3, <2>1, SearchedCovers
<1>7. CASE SearchMeetsBarrier
    <2>1. Searched(<<>>, FALSE, exhausted) /\ searched' = searched /\ paused'
        BY <1>7 DEF SearchMeetsBarrier
    <2> QED BY <1>3, <2>1, SearchedCovers
<1> QED BY <1>4, <1>5, <1>6, <1>7 DEF Search

(* Everything up to the cursor's new place was dealt with, by minimality. *)
LEMMA SelectCovers == MemoryCovers /\ MemorySound /\ SelectNextJob => MemoryCovers'
<1> SUFFICES ASSUME MemoryCovers, MemorySound, SelectNextJob PROVE MemoryCovers'
    OBVIOUS
<1>1. /\ node = "select" /\ node' = RouteSelectNextJob'
      /\ query' = query /\ page' = page /\ listings' = listings
      /\ searchFailed' = searchFailed /\ exhausted' = exhausted /\ seenIds' = seenIds
      /\ evaluated' = evaluated /\ outcomes' = outcomes /\ submitted' = submitted
      /\ daily' = daily /\ paused' = paused /\ mode' = mode
      /\ searched' = searched /\ tried' = tried
    BY DEF SelectNextJob, tally, history
<1> DEFINE dealt == seenIds \cup tried
<1>2. /\ Places(listings, index)
      /\ \A i \in DOMAIN listings : i <= index => listings[i] \in dealt
    BY <1>1 DEF MemoryCovers, Passed
<1>3. JobLimitReached' <=> JobLimitReached
    BY <1>1 DEF JobLimitReached
<1>4. /\ index' \in Nat
      /\ \A i \in DOMAIN listings : i <= index' => listings[i] \in dealt \/ listings[i] = job'
      /\ job' = NoJob =>
            /\ index' = index
            /\ paused \/ JobLimitReached \/ AllDealt(listings, dealt)
    <2>1. CASE paused \/ JobLimitReached \/ Unseen = {}
        <3>1. index' = index
            BY <2>1 DEF SelectNextJob
        <3>2. Unseen = {} => AllDealt(listings, dealt)
            BY <1>2 DEF Unseen, AllDealt, Places
        <3> QED BY <1>2, <2>1, <3>1, <3>2 DEF Places
    <2>2. CASE ~(paused \/ JobLimitReached \/ Unseen = {})
        <3>1. PICK i \in Unseen :
                /\ \A k \in Unseen : i <= k
                /\ job' = listings[i] /\ index' = i
            BY <2>2 DEF SelectNextJob
        <3>2. i \in DOMAIN listings /\ i \in Nat
            BY <1>2, <3>1 DEF Unseen, Places
        <3>3. job' # NoJob
            BY <3>1, <3>2, NoJobAssumption DEF MemorySound, Sound, Typed
        <3>4. ASSUME NEW k \in DOMAIN listings, k <= i
              PROVE  listings[k] \in dealt \/ listings[k] = job'
            <4>1. k \in Nat /\ index \in Nat
                BY <1>2 DEF Places
            <4>2. CASE k <= index
                BY <1>2, <4>2
            <4>3. CASE k > index /\ listings[k] \in seenIds
                BY <4>3
            <4>4. CASE k > index /\ listings[k] \notin seenIds
                <5>1. k \in Unseen
                    BY <4>4 DEF Unseen
                <5>2. k = i
                    BY <3>1, <3>2, <3>4, <4>1, <5>1
                <5> QED BY <3>1, <5>2
            <4> QED BY <4>1, <4>2, <4>3, <4>4
        <3> QED BY <3>1, <3>2, <3>3, <3>4
    <2> QED BY <2>1, <2>2
<1>5. /\ node' \in {"notify", "qualify", "page", "query"}
      /\ node' # "notify" => ~paused /\ ~searchFailed /\ ~JobLimitReached
      /\ node' \in {"page", "query"} => job' = NoJob
      /\ node' = "query" => exhausted \/ ~(page < PagesPerQuery)
      /\ node' = "notify" =>
            \/ Stopped'
            \/ /\ ~paused /\ ~searchFailed /\ ~JobLimitReached /\ job' = NoJob
               /\ exhausted \/ ~(page < PagesPerQuery)
               /\ ~(query < Queries)
    BY <1>1, <1>3 DEF RouteSelectNextJob, Stopped
<1>6. Places(listings, index)' /\ Explored(searched, query, page)'
    BY <1>1, <1>2, <1>4 DEF MemoryCovers, Places
<1>7. ~paused /\ ~searchFailed =>
         /\ Done(searched, query, page)
         /\ exhausted => <<query, page>> \in searched /\ Shown[<<query, page>>] = <<>>
    BY <1>1 DEF MemoryCovers, Answered
<1>8. Answered(searched, node, query, page, searchFailed, exhausted, paused)'
    <2>1. Answered(searched, node', query, page, searchFailed, exhausted, paused)
        BY <1>5, <1>7 DEF Answered
    <2> QED BY <1>1, <2>1
<1>9. job' = NoJob /\ ~paused /\ ~JobLimitReached => AllDealt(listings, dealt)
    BY <1>4
<1>10. Passed(node, listings, index, job, seenIds \cup tried)'
    <2>1. Passed(node', listings, index', job', dealt)
        <3>1. CASE node' = "qualify"
            BY <1>4, <3>1 DEF Passed
        <3>2. CASE node' \in {"page", "query"}
            BY <1>5, <1>9, <3>2 DEF Passed, AllDealt
        <3>3. CASE node' = "notify"
            BY <3>3 DEF Passed
        <3> QED BY <1>5, <3>1, <3>2, <3>3
    <2> QED BY <1>1, <2>1
<1>11. ~paused /\ ~searchFailed /\ (exhausted \/ ~(page < PagesPerQuery))
           => Whole(searched, query)
    <2> SUFFICES ASSUME ~paused, ~searchFailed, exhausted \/ ~(page < PagesPerQuery),
                        NEW p \in 1..PagesPerQuery
                 PROVE  Done(searched, query, p)
        BY DEF Whole
    <2>1. /\ page \in 1..PagesPerQuery /\ PagesPerQuery \in Nat
          /\ Done(searched, query, page)
          /\ p < page => Done(searched, query, p)
        BY <1>7, ScopeAssumption DEF MemoryCovers, Explored, MemorySound, Sound, InScope
    <2>2. CASE p <= page
        <3>1. p < page \/ p = page
            BY <2>1, <2>2
        <3> QED BY <2>1, <3>1
    <2>3. CASE ~(p <= page)
        <3>1. page \in 1..p - 1 /\ page < PagesPerQuery
            BY <2>1, <2>3
        <3>2. <<query, page>> \in searched /\ Shown[<<query, page>>] = <<>>
            BY <1>7, <3>1
        <3> QED BY <3>1, <3>2 DEF Done
    <2> QED BY <2>2, <2>3
<1>12. Ended(searched, node, query, listings, seenIds \cup tried, Stopped)'
    <2>1. node' = "query" => Whole(searched, query)
        BY <1>5, <1>11
    <2>2. ASSUME node' = "notify", ~(Stopped')
          PROVE  AllDealt(listings, dealt) /\ \A q \in 1..Queries : Whole(searched, q)
        <3>1. /\ ~paused /\ ~searchFailed /\ ~JobLimitReached /\ job' = NoJob
              /\ exhausted \/ ~(page < PagesPerQuery)
              /\ ~(query < Queries)
            BY <1>5, <2>2
        <3>2. AllDealt(listings, dealt) /\ Whole(searched, query)
            BY <1>9, <1>11, <3>1
        <3>3. query = Queries
            BY <3>1, ScopeAssumption DEF MemorySound, Sound, InScope
        <3>4. \A q \in 1..Queries : q < query => Whole(searched, q)
            BY DEF MemoryCovers, Explored
        <3>5. \A q \in 1..Queries : q < query \/ q = query
            BY <3>3, ScopeAssumption
        <3> QED BY <3>2, <3>4, <3>5
    <2>3. node' # "end"
        BY <1>5
    <2>4. Ended(searched, node', query, listings, dealt, Stopped')
        BY <2>1, <2>2, <2>3, <1>5 DEF Ended
    <2> QED BY <1>1, <2>4
<1> QED BY <1>6, <1>8, <1>10, <1>12 DEF MemoryCovers

(* The next page, and the first of the next query. *)
LEMMA IncrementCovers ==
    MemoryCovers /\ MemorySound /\ (IncrementPage \/ IncrementQuery) => MemoryCovers'
<1> SUFFICES ASSUME MemoryCovers, MemorySound, IncrementPage \/ IncrementQuery
             PROVE  MemoryCovers'
    OBVIOUS
<1>1. /\ listings' = listings /\ index' = index /\ job' = job /\ seenIds' = seenIds
      /\ searched' = searched /\ tried' = tried /\ node' = "search"
      /\ \/ node = "page" /\ page' = page + 1 /\ query' = query
         \/ node = "query" /\ page' = 1 /\ query' = query + 1
    BY DEF IncrementPage, IncrementQuery, history
<1>2. query \in 1..Queries /\ page \in 1..PagesPerQuery /\ Queries \in Nat /\ PagesPerQuery \in Nat
    BY ScopeAssumption DEF MemorySound, Sound, InScope
<1>3. /\ Places(listings, index)
      /\ \A q \in 1..Queries : q < query => Whole(searched, q)
      /\ \A p \in 1..PagesPerQuery : p < page => Done(searched, query, p)
      /\ Done(searched, query, page)
      /\ AllDealt(listings, seenIds \cup tried)
      /\ node = "query" => Whole(searched, query)
    BY <1>1 DEF MemoryCovers, Explored, Answered, Passed, Ended
<1>4. Explored(searched, query, page)'
    <2>1. CASE node = "page" /\ page' = page + 1 /\ query' = query
        <3>1. \A p \in 1..PagesPerQuery : p < page + 1 => p < page \/ p = page
            BY <1>2
        <3>2. Explored(searched, query, page + 1)
            BY <1>3, <3>1 DEF Explored
        <3> QED BY <1>1, <2>1, <3>2
    <2>2. CASE node = "query" /\ page' = 1 /\ query' = query + 1
        <3>1. \A q \in 1..Queries : q < query + 1 => q < query \/ q = query
            BY <1>2
        <3>2. \A p \in 1..PagesPerQuery : ~(p < 1)
            BY <1>2
        <3>3. Explored(searched, query + 1, 1)
            BY <1>3, <2>2, <3>1, <3>2 DEF Explored
        <3> QED BY <1>1, <2>2, <3>3
    <2> QED BY <1>1, <2>1, <2>2
<1>5. /\ Places(listings, index)'
      /\ Answered(searched, node, query, page, searchFailed, exhausted, paused)'
      /\ Ended(searched, node, query, listings, seenIds \cup tried, Stopped)'
    BY <1>1, <1>3 DEF Places, Answered, Ended
<1>6. Passed(node, listings, index, job, seenIds \cup tried)'
    BY <1>1, <1>3 DEF Passed, AllDealt
<1> QED BY <1>4, <1>5, <1>6 DEF MemoryCovers

(* The work on a job: the cursor stands still, and the job is dealt with. *)
LEMMA WorkCovers ==
    ASSUME MemoryCovers, UNCHANGED cursor, searched' = searched,
           node \in Work \ {"search"},
           node' \in (Work \ {"search", "qualify"}) \cup {"select", "notify"},
           seenIds \subseteq seenIds', tried \subseteq tried',
           node = "qualify" => job \in seenIds' \cup tried',
           paused => paused', node' = "notify" => Stopped'
    PROVE  MemoryCovers'
<1>1. /\ query' = query /\ page' = page /\ listings' = listings /\ index' = index
      /\ job' = job /\ searchFailed' = searchFailed /\ exhausted' = exhausted
      /\ searched' = searched
    BY DEF cursor
<1>2. Places(listings, index)' /\ Explored(searched, query, page)'
    BY <1>1 DEF MemoryCovers
<1>3. Answered(searched, node, query, page, searchFailed, exhausted, paused)'
    <2>1. Answered(searched, node', query, page, searchFailed, exhausted, paused')
        BY DEF MemoryCovers, Answered, Work
    <2> QED BY <1>1, <2>1
<1>4. Passed(node, listings, index, job, seenIds \cup tried)'
    <2>1. \A i \in DOMAIN listings : i <= index => listings[i] \in seenIds' \cup tried'
        BY DEF MemoryCovers, Passed, Work
    <2>2. Passed(node', listings, index, job, seenIds' \cup tried')
        BY <2>1 DEF Passed, Work
    <2> QED BY <1>1, <2>2
<1>5. Ended(searched, node, query, listings, seenIds \cup tried, Stopped)'
    BY DEF Ended, Work
<1> QED BY <1>2, <1>3, <1>4, <1>5 DEF MemoryCovers

LEMMA JobCovers == MemoryCovers /\ (Qualify \/ Generate \/ Execute) => MemoryCovers'
<1> SUFFICES ASSUME MemoryCovers, Qualify \/ Generate \/ Execute PROVE MemoryCovers'
    OBVIOUS
<1>1. CASE Qualify
    <2>1. /\ UNCHANGED cursor /\ searched' = searched /\ paused' = paused
          /\ node = "qualify" /\ node' = RouteAfterQualification'
        BY <1>1 DEF Qualify
    <2>2. /\ seenIds \subseteq seenIds' /\ tried \subseteq tried'
          /\ job \in seenIds' \cup tried'
        BY <1>1 DEF Qualify, Judge, JudgeFails, Remember
    <2>3. node' \in {"generate", "select", "notify"} /\ (node' = "notify" => Stopped')
        BY <2>1 DEF RouteAfterQualification, Stopped
    <2> QED BY <2>1, <2>2, <2>3, WorkCovers DEF Work
<1>2. CASE Generate
    <2>1. /\ UNCHANGED cursor /\ searched' = searched /\ paused' = paused
          /\ seenIds' = seenIds /\ tried' = tried
          /\ node = "generate" /\ node' = RouteAfterGeneration'
        BY <1>2 DEF Generate, history
    <2>2. node' \in {"execute", "select", "notify"} /\ (node' = "notify" => Stopped')
        BY <2>1 DEF RouteAfterGeneration, Stopped
    <2> QED BY <2>1, <2>2, WorkCovers DEF Work
<1>3. CASE Execute
    <2>1. /\ UNCHANGED cursor /\ searched' = searched
          /\ seenIds' = seenIds /\ tried' = tried
          /\ node = "execute" /\ node' = RoutePostProcessing'
        BY <1>3 DEF Execute
    <2>2. paused => paused'
        BY <1>3 DEF Execute, GiveUp, MeetBarrier, FindApplied, FindClaim, Rehearse, Submit, FindTaken
    <2>3. node' \in {"select", "notify"} /\ (node' = "notify" => Stopped')
        BY <2>1 DEF RoutePostProcessing, Stopped
    <2> QED BY <2>1, <2>2, <2>3, WorkCovers DEF Work
<1> QED BY <1>1, <1>2, <1>3

LEMMA CoverInit == Init => CoverInv
<1> SUFFICES ASSUME Init PROVE CoverInv
    OBVIOUS
<1>1. /\ node = "search" /\ query = 1 /\ page = 1 /\ listings = <<>> /\ index = 0
      /\ saved = {}
    BY DEF Init
<1>2. Places(listings, index) /\ Passed(node, listings, index, job, seenIds \cup tried)
    BY <1>1 DEF Places, Passed
<1>3. Explored(searched, query, page)
    BY <1>1, ScopeAssumption DEF Explored
<1>4. /\ Answered(searched, node, query, page, searchFailed, exhausted, paused)
      /\ Ended(searched, node, query, listings, seenIds \cup tried, Stopped)
    BY <1>1 DEF Answered, Ended
<1> QED BY <1>1, <1>2, <1>3, <1>4 DEF CoverInv, MemoryCovers

LEMMA StartCovers == CoverInv /\ BooksInv /\ Start => CoverInv'
<1> SUFFICES ASSUME CoverInv, BooksInv, Start PROVE CoverInv'
    OBVIOUS
<1>1. /\ UNCHANGED <<cursor, seenIds, searched, tried, paused>>
      /\ node = "search" /\ saved = {}
      /\ \/ proc' = "up" /\ node' = RouteStart' /\ saved' = {Snapshot'}
         \/ proc' = "closing" /\ node' = node /\ saved' = saved
    BY DEF Start, history, BooksInv, Untouched
<1>2. node' = "search" \/ (node' = "notify" /\ Stopped')
    BY <1>1 DEF RouteStart, Stopped
<1>3. /\ query' = query /\ page' = page /\ listings' = listings /\ index' = index
      /\ job' = job /\ searchFailed' = searchFailed /\ exhausted' = exhausted
      /\ seenIds' = seenIds /\ searched' = searched /\ tried' = tried /\ paused' = paused
    BY <1>1 DEF cursor
<1>4. MemoryCovers'
    <2>1. /\ Places(listings, index) /\ Explored(searched, query, page)
          /\ Answered(searched, node', query, page, searchFailed, exhausted, paused)
          /\ Passed(node', listings, index, job, seenIds \cup tried)
          /\ Ended(searched, node', query, listings, seenIds \cup tried, Stopped')
        BY <1>1, <1>2 DEF CoverInv, MemoryCovers, Answered, Passed, Ended
    <2> QED BY <1>3, <2>1 DEF MemoryCovers
<1>5. Covered(Snapshot', tried', searched')
    BY <1>4, CoverSnapshotNext
<1> QED BY <1>1, <1>4, <1>5 DEF CoverInv

(* Nothing that a listing or a page depends on changes. *)
LEMMA IdleCovers ==
    ASSUME MemoryCovers, UNCHANGED memory, searched' = searched, tried' = tried
    PROVE  MemoryCovers'
<1>1. /\ node' = node /\ query' = query /\ page' = page /\ listings' = listings
      /\ index' = index /\ job' = job /\ searchFailed' = searchFailed
      /\ exhausted' = exhausted /\ seenIds' = seenIds /\ paused' = paused
      /\ evaluated' = evaluated /\ outcomes' = outcomes /\ submitted' = submitted
      /\ daily' = daily /\ mode' = mode /\ searched' = searched /\ tried' = tried
    BY DEF memory, cursor, tally
<1>2. Stopped' <=> Stopped
    BY <1>1, CapsAreCapsOf, CapsAreCapsOfNext DEF Stopped, JobLimitReached
<1> QED BY <1>1, <1>2 DEF MemoryCovers, Ended

LEMMA NotifyCovers == MemoryCovers /\ Notify => MemoryCovers'
<1> SUFFICES ASSUME MemoryCovers, Notify PROVE MemoryCovers'
    OBVIOUS
<1>1. /\ node = "notify" /\ node' = "end"
      /\ query' = query /\ page' = page /\ listings' = listings
      /\ index' = index /\ job' = job /\ searchFailed' = searchFailed
      /\ exhausted' = exhausted /\ seenIds' = seenIds /\ paused' = paused
      /\ evaluated' = evaluated /\ outcomes' = outcomes /\ submitted' = submitted
      /\ daily' = daily /\ mode' = mode /\ searched' = searched /\ tried' = tried
    BY DEF Notify, cursor, tally, history
<1>2. Stopped' <=> Stopped
    BY <1>1, CapsAreCapsOf, CapsAreCapsOfNext DEF Stopped, JobLimitReached
<1>3. /\ Answered(searched, node', query, page, searchFailed, exhausted, paused)
      /\ Passed(node', listings, index, job, seenIds \cup tried)
      /\ Ended(searched, node', query, listings, seenIds \cup tried, Stopped')
    BY <1>1, <1>2 DEF MemoryCovers, Answered, Passed, Ended
<1> QED BY <1>1, <1>3 DEF MemoryCovers

LEMMA ForgetCovers ==
    ASSUME CoverInv, Forget, saved' = saved, searched' = searched, tried' = tried
    PROVE  CoverInv'
<1>1. \A s \in saved' : Covered(s, tried', searched')
    BY DEF CoverInv
<1>2. CASE saved = {} /\ UNCHANGED memory
    BY <1>1, <1>2, IdleCovers DEF CoverInv
<1>3. CASE saved # {}
    <2>1. PICK s \in saved :
            /\ node' = s.node /\ query' = s.query /\ page' = s.page
            /\ listings' = s.listings /\ index' = s.index /\ job' = s.job
            /\ searchFailed' = s.searchFailed /\ exhausted' = s.exhausted
            /\ seenIds' = s.seenIds /\ evaluated' = s.evaluated
            /\ outcomes' = s.outcomes /\ submitted' = s.submitted /\ daily' = s.daily
            /\ paused' = s.paused /\ mode' = s.mode
        BY <1>3 DEF Forget
    <2>2. Stopped' <=> Halted(s)
        BY <2>1, CapsAreCapsOfNext DEF Stopped, Halted, JobLimitReached
    <2>3. Covered(s, tried', searched')
        BY <1>1
    <2>4. MemoryCovers'
        BY <2>1, <2>2, <2>3 DEF Covered, MemoryCovers, Ended
    <2> QED BY <1>1, <2>4 DEF CoverInv
<1> QED BY <1>2, <1>3 DEF Forget

LEMMA CoverNext == CoverInv /\ BooksInv /\ [Next]_vars => CoverInv'
<1> SUFFICES ASSUME CoverInv, BooksInv, [Next]_vars PROVE CoverInv'
    OBVIOUS
<1>1. MemoryCovers /\ MemorySound
    BY DEF CoverInv, BooksInv
<1>2. CASE Node
    <2>1. Checkpointed
        BY <1>2 DEF Node, Search, SelectNextJob, IncrementPage, IncrementQuery, Qualify,
                    Generate, Execute, Notify
    <2>2. MemoryCovers' /\ searched \subseteq searched'
        <3>1. CASE Search
            BY <1>1, <3>1, SearchCovers
        <3>2. CASE ~Search
            <4>1. searched' = searched
                BY <1>2, <3>2 DEF Node, SelectNextJob, IncrementPage, IncrementQuery, Qualify,
                                  Generate, Execute, Notify, history
            <4> QED BY <1>1, <1>2, <3>2, <4>1, SelectCovers, IncrementCovers, JobCovers,
                       NotifyCovers DEF Node
        <3> QED BY <3>1, <3>2
    <2>3. tried \subseteq tried'
        BY <1>2 DEF Node, Search, SearchFindsCards, SearchFindsNothing, SearchFails,
                    SearchMeetsBarrier, Searched, SelectNextJob, IncrementPage, IncrementQuery,
                    Qualify, Judge, JudgeFails, Generate, Execute, Notify, history
    <2> QED BY <1>1, <2>1, <2>2, <2>3, NodeCovers
<1>3. CASE Start
    BY <1>3, StartCovers
<1>4. CASE Resume \/ Finalize \/ OtherRun \/ UNCHANGED vars
    <2>1. UNCHANGED memory /\ saved' = saved /\ searched' = searched /\ tried' = tried
        BY <1>4 DEF Resume, Finalize, OtherRun, vars, history
    <2> QED BY <1>1, <2>1, IdleCovers DEF CoverInv
<1>5. CASE Return
    <2>1. UNCHANGED memory /\ saved' = {Snapshot} /\ searched' = searched /\ tried' = tried
        BY <1>5 DEF Return, history
    <2> QED BY <1>1, <2>1, IdleCovers, CoverSnapshot DEF CoverInv
<1>6. CASE BreakOff \/ Kill
    BY <1>6, ForgetCovers DEF BreakOff, Kill
<1> QED BY <1>2, <1>3, <1>4, <1>5, <1>6 DEF Next

(* A page is left only when its listings are dealt with, and a run that ends by
   itself has asked for every page of every query, up to the first empty one,
   whatever the pages show and wherever it was killed and resumed. *)
THEOREM NothingPassedOver == Spec => []NothingIsPassedOver
<1>1. CoverInv => NothingIsPassedOver
    <2> SUFFICES ASSUME CoverInv PROVE NothingIsPassedOver
        OBVIOUS
    <2>1. PageIsFinished
        BY DEF CoverInv, MemoryCovers, Passed, Ended, AllDealt, PageIsFinished
    <2>2. ScopeIsCovered
        <3> SUFFICES ASSUME node \in {"notify", "end"}, ~Stopped,
                            NEW q \in 1..Queries, NEW p \in 1..PagesPerQuery
                     PROVE  \/ <<q, p>> \in searched
                            \/ \E k \in 1..p - 1 : <<q, k>> \in searched /\ Shown[<<q, k>>] = <<>>
            BY DEF ScopeIsCovered
        <3>1. Whole(searched, q)
            BY DEF CoverInv, MemoryCovers, Ended
        <3> QED BY <3>1 DEF Whole, Done
    <2> QED BY <2>1, <2>2 DEF NothingIsPassedOver
<1> QED BY <1>1, CoverInit, CoverNext, BooksInductive, PTL DEF Spec

-----------------------------------------------------------------------------
(* Types.  Those of the graph's state are stated of any state, like the rest. *)

Fits(s) ==
    /\ s.node \in Nodes /\ s.job \in Jobs \cup {NoJob}
    /\ s.searchFailed \in BOOLEAN /\ s.exhausted \in BOOLEAN /\ s.paused \in BOOLEAN
    /\ s.seenIds \subseteq Jobs /\ s.fit \in BOOLEAN /\ s.failed \in BOOLEAN
    /\ s.daily \in Nat

MemoryFits ==
    /\ node \in Nodes /\ job \in Jobs \cup {NoJob}
    /\ searchFailed \in BOOLEAN /\ exhausted \in BOOLEAN /\ paused \in BOOLEAN
    /\ seenIds \subseteq Jobs /\ fit \in BOOLEAN /\ failed \in BOOLEAN
    /\ daily \in Nat

(* Everyone who clicked, to be counted by Start. *)
Taken == Clicked({"this_run", "another_run"})

StoreFits == record \in [Jobs -> RecordStatus] /\ IsFiniteSet(Taken)

InvocationFits ==
    /\ proc \in {"off", "up", "closing"} /\ announced \in BOOLEAN
    /\ ending \in {"none", "result", "failed", "interrupted", "cancelled"}
    /\ summary \in {"none", "completed", "paused", "failed", "interrupted"}
    /\ exit \in {"none", "returned", "raised", "killed"}

HistoryFits ==
    /\ searched \subseteq (1..Queries) \X (1..PagesPerQuery)
    /\ tried \subseteq Jobs
    /\ clicks \subseteq [job: Jobs, announced: BOOLEAN]
    /\ stops \in 0..MaxStops

FitInv ==
    /\ MemoryFits /\ \A s \in saved : Fits(s)
    /\ StoreFits /\ InvocationFits /\ HistoryFits

LEMMA SnapshotFits == (Fits(Snapshot) <=> MemoryFits) /\ (Fits(Snapshot') <=> MemoryFits')
<1>1. /\ Snapshot.node = node /\ Snapshot.job = job
      /\ Snapshot.searchFailed = searchFailed /\ Snapshot.exhausted = exhausted
      /\ Snapshot.paused = paused /\ Snapshot.seenIds = seenIds /\ Snapshot.fit = fit
      /\ Snapshot.failed = failed /\ Snapshot.daily = daily
    BY DEF Snapshot
<1>2. /\ (Snapshot').node = node' /\ (Snapshot').job = job'
      /\ (Snapshot').searchFailed = searchFailed' /\ (Snapshot').exhausted = exhausted'
      /\ (Snapshot').paused = paused' /\ (Snapshot').seenIds = seenIds'
      /\ (Snapshot').fit = fit' /\ (Snapshot').failed = failed' /\ (Snapshot').daily = daily'
    BY DEF Snapshot
<1> QED BY <1>1, <1>2 DEF Fits, MemoryFits

LEMMA SavedFits ==
    ASSUME FitInv, MemoryFits', saved' = saved \/ saved' = {Snapshot} \/ saved' = {Snapshot'}
    PROVE  \A s \in saved' : Fits(s)
BY SnapshotFits DEF FitInv

LEMMA FreshAreJobs ==
    ASSUME BooksInv
    PROVE  Fresh \subseteq Jobs /\ PersistedSeen \subseteq Jobs
<1>1. OnPage \subseteq Jobs
    BY CardsAreJobs DEF BooksInv, MemorySound, Sound, InScope
<1> QED BY <1>1 DEF Fresh, PersistedSeen

LEMMA SearchFits ==
    ASSUME FitInv, BooksInv, Search
    PROVE  MemoryFits' /\ StoreFits' /\ InvocationFits' /\ HistoryFits'
<1>1. \E found, failure, empty :
         failure \in BOOLEAN /\ empty \in BOOLEAN /\ Searched(found, failure, empty)
    <2>1. exhausted \in BOOLEAN
        BY DEF FitInv, MemoryFits
    <2>2. CASE SearchFindsCards
        BY <2>2 DEF SearchFindsCards
    <2>3. CASE SearchFindsNothing \/ SearchFails \/ SearchMeetsBarrier
        BY <2>1, <2>3 DEF SearchFindsNothing, SearchFails, SearchMeetsBarrier
    <2> QED BY <2>2, <2>3 DEF Search
<1>2. /\ job' = NoJob /\ searchFailed' \in BOOLEAN /\ exhausted' \in BOOLEAN
      /\ node' = "select"
      /\ UNCHANGED <<fit, failed, daily, ledger, proc, announced, ending, summary, exit,
                     tried, clicks, stops>>
    BY <1>1 DEF Searched, tally, invoked
<1>3. Fresh \subseteq Jobs /\ PersistedSeen \subseteq Jobs
    BY FreshAreJobs
<1>4. seenIds' \subseteq Jobs
    BY <1>3 DEF Search, SearchFindsCards, SearchFindsNothing, SearchFails, SearchMeetsBarrier,
                FitInv, MemoryFits, Markable
<1>5. record' \in [Jobs -> RecordStatus]
    <2>1. record \in [Jobs -> RecordStatus]
        BY DEF FitInv, StoreFits
    <2>2. \A jobs : Closed(jobs) \in [Jobs -> RecordStatus]
        BY <2>1 DEF Closed, RecordStatus
    <2>3. record' = record \/ \E jobs : record' = Closed(jobs)
        BY DEF Search, SearchFindsCards, SearchFindsNothing, SearchFails, SearchMeetsBarrier
    <2> QED BY <2>1, <2>2, <2>3
<1>6. searched' \subseteq (1..Queries) \X (1..PagesPerQuery)
    <2>1. <<query, page>> \in (1..Queries) \X (1..PagesPerQuery)
        BY DEF BooksInv, MemorySound, Sound, InScope
    <2>2. searched' = searched \/ searched' = searched \cup {<<query, page>>}
        BY DEF Search, SearchFindsCards, SearchFindsNothing, SearchFails, SearchMeetsBarrier
    <2> QED BY <2>1, <2>2 DEF FitInv, HistoryFits
<1>7. paused' \in BOOLEAN
    BY DEF Search, SearchFindsCards, SearchFindsNothing, SearchFails, SearchMeetsBarrier,
           FitInv, MemoryFits
<1>8. MemoryFits'
    BY <1>2, <1>4, <1>7 DEF FitInv, MemoryFits, Nodes, Work
<1>9. StoreFits'
    BY <1>2, <1>5 DEF FitInv, StoreFits, Taken, Clicked
<1>10. InvocationFits' /\ HistoryFits'
    BY <1>2, <1>6 DEF FitInv, InvocationFits, HistoryFits
<1> QED BY <1>8, <1>9, <1>10

(* Nodes that touch neither the database nor the invocation. *)
LEMMA QuietFits ==
    ASSUME FitInv, BooksInv,
           SelectNextJob \/ IncrementPage \/ IncrementQuery \/ Generate \/ Notify
    PROVE  MemoryFits' /\ StoreFits' /\ InvocationFits' /\ HistoryFits'
<1>1. /\ UNCHANGED <<record, ledger, proc, announced, ending, summary, exit,
                     searched, tried, clicks, stops, seenIds, fit, daily, paused>>
    BY DEF SelectNextJob, IncrementPage, IncrementQuery, Generate, Notify, store, invoked,
           history, tally
<1>2. StoreFits' /\ InvocationFits' /\ HistoryFits'
    BY <1>1 DEF FitInv, StoreFits, InvocationFits, HistoryFits, Taken, Clicked
<1>3. node' \in Nodes
    BY DEF SelectNextJob, IncrementPage, IncrementQuery, Generate, Notify, RouteSelectNextJob,
           RouteAfterGeneration, Nodes, Work
<1>4. job' \in Jobs \cup {NoJob}
    <2>1. \A i \in DOMAIN listings : listings[i] \in Jobs
        BY DEF BooksInv, MemorySound, Sound, Typed
    <2> QED BY <2>1 DEF SelectNextJob, IncrementPage, IncrementQuery, Generate, Notify, cursor,
                        Unseen, FitInv, MemoryFits
<1>5. searchFailed' \in BOOLEAN /\ exhausted' \in BOOLEAN /\ failed' \in BOOLEAN
    BY DEF SelectNextJob, IncrementPage, IncrementQuery, Generate, Notify, cursor,
           FitInv, MemoryFits
<1> QED BY <1>1, <1>2, <1>3, <1>4, <1>5 DEF FitInv, MemoryFits

LEMMA QualifyFits ==
    ASSUME FitInv, BooksInv, Qualify
    PROVE  MemoryFits' /\ StoreFits' /\ InvocationFits' /\ HistoryFits'
<1>1. job \in Jobs
    BY DEF Qualify, BooksInv, MemorySound, Sound, AtHand
<1>2. /\ UNCHANGED <<job, searchFailed, exhausted, failed, daily, paused, ledger, proc,
                     announced, ending, summary, exit, searched, clicks, stops>>
    BY DEF Qualify, cursor, invoked
<1>3. node' \in Nodes
    BY DEF Qualify, RouteAfterQualification, Nodes, Work
<1>4. fit' \in BOOLEAN /\ seenIds' \subseteq Jobs /\ tried' \subseteq Jobs
    BY <1>1 DEF Qualify, Judge, JudgeFails, Remember, FitInv, MemoryFits, HistoryFits
<1>5. record' \in [Jobs -> RecordStatus]
    <2>1. record \in [Jobs -> RecordStatus]
        BY DEF FitInv, StoreFits
    <2>2. \/ record' = record
          \/ \E status \in RecordStatus : record' = [record EXCEPT ![job] = status]
        BY DEF Qualify, Judge, JudgeFails, RecordStatus
    <2> QED BY <2>1, <2>2
<1>6. MemoryFits'
    BY <1>2, <1>3, <1>4 DEF FitInv, MemoryFits
<1>7. StoreFits'
    BY <1>2, <1>5 DEF FitInv, StoreFits, Taken, Clicked
<1>8. InvocationFits' /\ HistoryFits'
    BY <1>2, <1>4 DEF FitInv, InvocationFits, HistoryFits
<1> QED BY <1>6, <1>7, <1>8

(* One more click leaves as many as can be counted. *)
LEMMA TakenGrows ==
    ASSUME IsFiniteSet(Taken), ledger \in [Jobs -> Holder], NEW j, NEW h,
           ledger' = [ledger EXCEPT ![j] = h]
    PROVE  IsFiniteSet(Taken')
<1>1. Taken' \subseteq Taken \cup {j}
    BY DEF Taken, Clicked
<1>2. IsFiniteSet(Taken \cup {j})
    BY FS_AddElement
<1> QED BY <1>1, <1>2, FS_Subset

LEMMA ExecuteFits ==
    ASSUME FitInv, BooksInv, LimitsInv, Execute
    PROVE  MemoryFits' /\ StoreFits' /\ InvocationFits' /\ HistoryFits'
<1>1. job \in Jobs
    BY DEF Execute, BooksInv, MemorySound, Sound, AtHand
<1>2. /\ UNCHANGED <<job, searchFailed, exhausted, seenIds, fit, proc, announced, ending,
                     summary, exit, searched, tried, stops>>
    BY DEF Execute, cursor, invoked
<1>3. node' \in Nodes
    BY DEF Execute, RoutePostProcessing, Nodes, Work
<1>4. failed' \in BOOLEAN
    BY DEF Execute, GiveUp, MeetBarrier, FindApplied, FindClaim, Rehearse, Submit, FindTaken, Report
<1>5. paused' \in BOOLEAN /\ (daily' = daily \/ daily' = daily + 1)
    BY DEF Execute, GiveUp, MeetBarrier, FindApplied, FindClaim, Rehearse, Submit, FindTaken,
           FitInv, MemoryFits
<1>6. MemoryFits'
    BY <1>2, <1>3, <1>4, <1>5 DEF FitInv, MemoryFits
<1>7. record' \in [Jobs -> RecordStatus]
    <2>1. record \in [Jobs -> RecordStatus]
        BY DEF FitInv, StoreFits
    <2>2. \/ record' = record
          \/ \E status \in RecordStatus : record' = [record EXCEPT ![job] = status]
        BY DEF Execute, GiveUp, MeetBarrier, FindApplied, FindClaim, Rehearse, Submit, FindTaken,
               RecordStatus, store
    <2> QED BY <2>1, <2>2
<1>8. IsFiniteSet(Taken')
    <2>1. ledger' = ledger \/ ledger' = [ledger EXCEPT ![job] = "this_run"]
        BY DEF Execute, GiveUp, MeetBarrier, FindApplied, FindClaim, Rehearse, Submit, FindTaken, store
    <2>2. CASE ledger' = ledger
        BY <2>2 DEF FitInv, StoreFits, Taken, Clicked
    <2>3. CASE ledger' = [ledger EXCEPT ![job] = "this_run"]
        BY <2>3, TakenGrows DEF FitInv, StoreFits, LimitsInv
    <2> QED BY <2>1, <2>2, <2>3
<1>9. clicks' \subseteq [job: Jobs, announced: BOOLEAN]
    <2>1. [job |-> job, announced |-> announced] \in [job: Jobs, announced: BOOLEAN]
        BY <1>1 DEF FitInv, InvocationFits
    <2>2. clicks' = clicks \/ clicks' = clicks \cup {[job |-> job, announced |-> announced]}
        BY DEF Execute, GiveUp, MeetBarrier, FindApplied, FindClaim, Rehearse, Submit, FindTaken
    <2> QED BY <2>1, <2>2 DEF FitInv, HistoryFits
<1>10. InvocationFits' /\ HistoryFits'
    BY <1>2, <1>9 DEF FitInv, InvocationFits, HistoryFits
<1> QED BY <1>6, <1>7, <1>8, <1>10 DEF StoreFits

LEMMA ForgetFits ==
    ASSUME FitInv, Forget
    PROVE  MemoryFits'
<1>1. CASE saved = {} /\ UNCHANGED memory
    BY <1>1 DEF memory, cursor, tally, FitInv, MemoryFits
<1>2. CASE saved # {}
    <2>1. PICK s \in saved :
            /\ node' = s.node /\ job' = s.job /\ searchFailed' = s.searchFailed
            /\ exhausted' = s.exhausted /\ seenIds' = s.seenIds /\ fit' = s.fit
            /\ failed' = s.failed /\ daily' = s.daily /\ paused' = s.paused
        BY <1>2 DEF Forget
    <2>2. Fits(s)
        BY <2>1 DEF FitInv
    <2> QED BY <2>1, <2>2 DEF Fits, MemoryFits
<1> QED BY <1>1, <1>2 DEF Forget

LEMMA StartFits ==
    ASSUME FitInv, Start
    PROVE  MemoryFits' /\ StoreFits' /\ InvocationFits' /\ HistoryFits'
<1>1. /\ UNCHANGED <<job, searchFailed, exhausted, seenIds, fit, failed, paused, record,
                     ledger, announced, searched, tried, clicks, stops>>
    BY DEF Start, cursor, store, history
<1>2. node' \in Nodes
    BY DEF Start, RouteStart, Nodes, Work, FitInv, MemoryFits
<1>3. daily' \in Nat
    <2>1. Cardinality(Taken) \in Nat
        BY FS_CardinalityType DEF FitInv, StoreFits
    <2> QED BY <2>1 DEF Start, Taken, FitInv, MemoryFits
<1>4. MemoryFits'
    BY <1>1, <1>2, <1>3 DEF FitInv, MemoryFits
<1>5. InvocationFits'
    BY <1>1 DEF Start, FitInv, InvocationFits
<1> QED BY <1>1, <1>4, <1>5 DEF FitInv, StoreFits, HistoryFits, Taken, Clicked

LEMMA StopFits ==
    ASSUME FitInv, BreakOff \/ Kill
    PROVE  MemoryFits' /\ StoreFits' /\ InvocationFits' /\ HistoryFits'
<1>1. MemoryFits'
    BY ForgetFits DEF BreakOff, Kill
<1>2. UNCHANGED <<record, ledger, announced, summary, searched, tried, clicks>>
    BY DEF BreakOff, Kill, store
<1>3. stops' \in 0..MaxStops
    <2>1. stops \in 0..MaxStops /\ stops < MaxStops /\ stops' = stops + 1
        BY DEF BreakOff, Kill, FitInv, HistoryFits
    <2> QED BY <2>1, ModeAssumption
<1>4. InvocationFits'
    BY <1>2 DEF BreakOff, Kill, FitInv, InvocationFits
<1> QED BY <1>1, <1>2, <1>3, <1>4 DEF FitInv, StoreFits, HistoryFits, Taken, Clicked

LEMMA RunnerFits ==
    ASSUME FitInv, Resume \/ Return \/ Finalize \/ UNCHANGED vars
    PROVE  MemoryFits' /\ StoreFits' /\ InvocationFits' /\ HistoryFits'
<1>1. UNCHANGED <<memory, store, history>>
    BY DEF Resume, Return, Finalize, vars
<1>2. MemoryFits'
    BY <1>1 DEF memory, cursor, tally, FitInv, MemoryFits
<1>3. StoreFits' /\ HistoryFits'
    BY <1>1 DEF store, history, FitInv, StoreFits, HistoryFits, Taken, Clicked
<1>4. InvocationFits'
    <2>1. CASE Resume \/ Return \/ UNCHANGED vars
        BY <2>1, ModeAssumption DEF Resume, Return, vars, invoked, FitInv, InvocationFits
    <2>2. CASE Finalize
        BY <2>2 DEF Finalize, TerminalStatus, FitInv, InvocationFits
    <2> QED BY <2>1, <2>2
<1> QED BY <1>2, <1>3, <1>4

LEMMA OtherRunFits ==
    ASSUME FitInv, LimitsInv, OtherRun
    PROVE  MemoryFits' /\ StoreFits' /\ InvocationFits' /\ HistoryFits'
<1>1. PICK j \in Contested :
        /\ ledger' = [ledger EXCEPT ![j] = "another_run"]
        /\ record' \in {record, [record EXCEPT ![j] = "closed"]}
    BY DEF OtherRun
<1>2. UNCHANGED <<memory, invoked, history>>
    BY DEF OtherRun
<1>3. IsFiniteSet(Taken')
    BY <1>1, TakenGrows DEF FitInv, StoreFits, LimitsInv
<1>4. record' \in [Jobs -> RecordStatus]
    BY <1>1 DEF FitInv, StoreFits, RecordStatus
<1>5. MemoryFits'
    BY <1>2 DEF memory, cursor, tally, FitInv, MemoryFits
<1>6. InvocationFits' /\ HistoryFits'
    BY <1>2 DEF invoked, history, FitInv, InvocationFits, HistoryFits
<1> QED BY <1>3, <1>4, <1>5, <1>6 DEF StoreFits

LEMMA FitInit == Init => FitInv
<1> SUFFICES ASSUME Init PROVE FitInv
    OBVIOUS
<1>1. MemoryFits /\ saved = {}
    BY DEF Init, MemoryFits, Nodes, Work
<1>2. record \in [Jobs -> RecordStatus]
    BY DEF Init, RecordStatus
<1>3. IsFiniteSet(Taken)
    <2>1. Taken = {}
        BY DEF Init, Taken, Clicked
    <2> QED BY <2>1, FS_EmptySet
<1>4. InvocationFits
    <2>1. mode.dryRun \in BOOLEAN
        BY ModeAssumption DEF Init, Mode
    <2> QED BY <2>1 DEF Init, InvocationFits
<1>5. HistoryFits
    BY ModeAssumption DEF Init, HistoryFits
<1> QED BY <1>1, <1>2, <1>3, <1>4, <1>5 DEF FitInv, StoreFits

LEMMA FitNext == FitInv /\ BooksInv /\ LimitsInv /\ [Next]_vars => FitInv'
<1> SUFFICES ASSUME FitInv, BooksInv, LimitsInv, [Next]_vars PROVE FitInv'
    OBVIOUS
<1>1. MemoryFits' /\ StoreFits' /\ InvocationFits' /\ HistoryFits'
    BY SearchFits, QuietFits, QualifyFits, ExecuteFits, StartFits, StopFits, RunnerFits,
       OtherRunFits DEF Next, Node
<1>2. saved' = saved \/ saved' = {Snapshot} \/ saved' = {Snapshot'}
    BY DEF Next, Node, Search, SelectNextJob, IncrementPage, IncrementQuery, Qualify, Generate,
           Execute, Notify, Checkpointed, Start, Resume, Return, BreakOff, Finalize, Kill,
           OtherRun, vars
<1> QED BY <1>1, <1>2, SavedFits DEF FitInv

(* The state of the graph has its types however it was cut up by kills and put
   together again from checkpoints, and so have the records of the database. *)
THEOREM WorkflowTypeCorrect == Spec => []TypeOK
<1>1. ASSUME FitInv, BooksInv, LimitsInv, CoverInv
      PROVE  TypeOK
    <2>1. /\ InScope(node, query, page)
          /\ Typed(listings, evaluated, qualified, notQualified, outcomes, errors)
        BY <1>1 DEF BooksInv, MemorySound, Sound
    <2>2. index \in Nat /\ \A i \in DOMAIN listings : i \in Nat
        BY <1>1 DEF CoverInv, MemoryCovers, Places
    <2>3. submitted \in Nat /\ mode \in Modes /\ ledger \in [Jobs -> Holder]
        BY <1>1, LimitFields DEF LimitsInv, Limited
    <2> QED BY <1>1, <2>1, <2>2, <2>3
            DEF TypeOK, FitInv, MemoryFits, StoreFits, InvocationFits, HistoryFits, InScope,
                Typed, Outcome
<1>2. Init => CoverInv
    BY CoverInit
<1>3. BooksInv /\ CoverInv /\ [Next]_vars => CoverInv'
    BY CoverNext
<1> QED BY <1>1, <1>2, <1>3, FitInit, FitNext, LimitsInit, LimitsNext, BooksInductive, PTL DEF Spec
=============================================================================
