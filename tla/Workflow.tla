------------------------------- MODULE Workflow -------------------------------
(***************************************************************************)
(* One run of the agent: the graph of graph.py, whose nodes search, select,*)
(* qualify, generate, execute and notify, and the invocations of main.run  *)
(* that start it, are interrupted or killed, and resume it from its        *)
(* checkpoint.  An action is one node together with the routing function   *)
(* that follows it, as LangGraph runs them.  What LinkedIn shows on a page *)
(* is fixed; what the browser, the LLM and the database make of it is not. *)
(* execution_node is reduced to what LiveSubmission says it leaves behind. *)
(***************************************************************************)
EXTENDS Integers, Sequences, FiniteSets

CONSTANTS
    Jobs,            \* canonical job ids
    Queries,         \* the number of search queries
    PagesPerQuery,   \* pages_per_query
    Shown,           \* the job cards of a query's page, in order
    Excluded,        \* jobs whose title or location the settings rule out
    Modes,           \* what a run is started with: see Mode
    ResumeFlags,     \* the dry-run settings a resumed invocation may have
    Earlier,         \* jobs an earlier run found qualified, and left at that
    Contested,       \* jobs another run may apply for
    DailyCap,        \* daily_application_cap
    MaxStops,        \* bound on the kills and the workflows broken off
    Unlimited,       \* max_jobs_to_evaluate is None
    NoJob

ASSUME ScopeAssumption ==
    /\ Queries \in Nat \ {0} /\ PagesPerQuery \in Nat \ {0}
    /\ Shown \in [(1..Queries) \X (1..PagesPerQuery) -> Seq(Jobs)]
    /\ Excluded \subseteq Jobs
(* dry_run, max_applications and max_jobs_to_evaluate *)
Mode == [dryRun: BOOLEAN, maxApplications: Nat, maxJobs: Nat \cup {Unlimited}]

ASSUME ModeAssumption ==
    /\ Modes \subseteq Mode /\ ResumeFlags \subseteq BOOLEAN
    /\ DailyCap \in Nat /\ MaxStops \in Nat
ASSUME JobSetAssumption == Earlier \subseteq Jobs /\ Contested \subseteq Jobs
ASSUME NoJobAssumption == NoJob \notin Jobs

VARIABLES
    \* JobApplyState, in memory
    node,            \* the node about to run
    query, page,     \* current_query_index (from 1), current_page
    listings,        \* job_listings, by their place on the page
    index,           \* current_job_index: the last place passed
    job,             \* current_job
    searchFailed,    \* search_failed
    exhausted,       \* query_exhausted
    seenIds,         \* seen_job_ids
    fit,             \* qualification_result["qualified"]
    failed,          \* application_status = "failed"
    evaluated,       \* jobs_evaluated_count
    qualified,       \* qualified_jobs_count
    notQualified,    \* not_qualified_jobs_count
    outcomes,        \* application_outcomes: the job, and whether as a dry run
    submitted,       \* applications_count
    daily,           \* daily_applications_count
    errors,          \* errors: how many evaluations and letters failed
    paused,          \* account_safety_paused
    mode,            \* dry_run, max_applications, max_jobs_to_evaluate
    \* MongoDB
    saved,           \* the checkpoint of the run: at most one
    record,          \* applied_jobs (DeduplicationStore): status by job
    ledger,          \* application_attempts: who clicked Submit, by job
    \* the invocation
    proc,            \* "off", "up" or "closing"
    announced,       \* effective_dry_run, what the operator was told
    ending,          \* how the workflow of this invocation ended
    summary,         \* the terminal status this invocation published
    exit,            \* how run() came back
    \* history
    searched,        \* pages a search has answered for
    tried,           \* jobs whose evaluation raised
    clicks,          \* Submit clicks of this run: the job, the announced mode
    stops            \* kills and workflows broken off

cursor  == <<query, page, listings, index, job, searchFailed, exhausted>>
tally   == <<evaluated, qualified, notQualified, outcomes, submitted, daily, errors>>
memory  == <<node, cursor, seenIds, fit, failed, tally, paused, mode>>
store   == <<record, ledger>>
invoked == <<proc, announced, ending, summary, exit>>
history == <<searched, tried, clicks, stops>>
vars    == <<memory, saved, store, invoked, history>>

Work == {"search", "qualify", "generate", "execute"}
Nodes == Work \cup {"select", "page", "query", "notify", "end"}

(* What the deduplication store says of a job: nothing, "open" for qualified and
   dry_run, which a live run may take up again, "closed" for all the rest. *)
RecordStatus == {"unseen", "open", "closed"}

(* Who clicked Submit for a job; the click may be confirmed or unknown. *)
Holder == {"nobody", "this_run", "another_run"}

(* The outcomes execution_node reports; "set_aside" is skipped or manual review. *)
Results == {"submitted", "dry_run", "failed", "set_aside"}

(* The whole state as the checkpointer stores it, with the node to run next. *)
Snapshot ==
    [ node |-> node, query |-> query, page |-> page, listings |-> listings,
      index |-> index, job |-> job, searchFailed |-> searchFailed,
      exhausted |-> exhausted, seenIds |-> seenIds, fit |-> fit,
      failed |-> failed, evaluated |-> evaluated, qualified |-> qualified,
      notQualified |-> notQualified, outcomes |-> outcomes,
      submitted |-> submitted, daily |-> daily, errors |-> errors,
      paused |-> paused, mode |-> mode ]

(* Checkpoints are written while the next node runs: at the end of a node the
   state before it is certainly stored, the state after it perhaps. *)
Checkpointed == saved' = {Snapshot} \/ saved' = {Snapshot'}

-----------------------------------------------------------------------------
(* Caps and limits *)

CompletedDryRuns == {i \in DOMAIN outcomes : outcomes[i].dryRun}

(* Mutation: forms completed in a dry run are not counted. *)
BugSessionCount == submitted

(* session_application_count *)
SessionCount ==
    submitted + (IF mode.dryRun THEN Cardinality(CompletedDryRuns) ELSE 0)

CapsReached ==
    \/ SessionCount >= mode.maxApplications
    \/ ~mode.dryRun /\ daily >= DailyCap

JobLimitReached == mode.maxJobs # Unlimited /\ evaluated >= mode.maxJobs

-----------------------------------------------------------------------------
(* Routing: the conditional edges, evaluated on the state a node leaves. *)

RouteStart == IF paused \/ CapsReached THEN "notify" ELSE "search"

(* The listings the cursor has yet to reach. *)
Unseen == {i \in DOMAIN listings : i > index /\ listings[i] \notin seenIds}

(* Mutation: the listings after the cursor decide, not the selected job. *)
BugRouteSelectNextJob ==
    IF paused \/ CapsReached \/ searchFailed \/ JobLimitReached THEN "notify"
    ELSE IF Unseen # {} THEN "qualify"
    ELSE IF ~exhausted /\ page < PagesPerQuery THEN "page"
    ELSE IF query < Queries THEN "query"
    ELSE "notify"

(* Mutation: a failed search is an empty page. *)
BugRoutePastFailure ==
    IF paused \/ CapsReached \/ JobLimitReached THEN "notify"
    ELSE IF job # NoJob THEN "qualify"
    ELSE IF ~exhausted /\ page < PagesPerQuery THEN "page"
    ELSE IF query < Queries THEN "query"
    ELSE "notify"

RouteSelectNextJob ==
    IF paused \/ CapsReached \/ searchFailed \/ JobLimitReached THEN "notify"
    ELSE IF job # NoJob THEN "qualify"
    ELSE IF ~exhausted /\ page < PagesPerQuery THEN "page"
    ELSE IF query < Queries THEN "query"
    ELSE "notify"

RouteAfterQualification ==
    IF paused THEN "notify" ELSE IF fit THEN "generate" ELSE "select"

RouteAfterGeneration ==
    IF paused THEN "notify" ELSE IF failed THEN "select" ELSE "execute"

RoutePostProcessing == IF paused \/ CapsReached THEN "notify" ELSE "select"

-----------------------------------------------------------------------------
(* search_node *)

(* find_seen_ids: a live run passes over no job that was only rehearsed. *)
PersistedSeen ==
    {j \in Jobs :
        record[j] \notin {"unseen"} \cup
            (IF mode.dryRun THEN {} ELSE {"open"})}

OnPage == {Shown[query, page][i] : i \in DOMAIN Shown[query, page]}

(* Each card once, where it appears first. *)
FirstShown(keep) ==
    LET cards == Shown[query, page]
        First(i) == cards[i] \in keep /\ \A k \in 1..i - 1 : cards[k] # cards[i]
    IN  [i \in {n \in DOMAIN cards : First(n)} |-> cards[i]]

(* mark_seen_many: one bulk write, which may fail. *)
Closed(jobs) == [j \in Jobs |-> IF j \in jobs THEN "closed" ELSE record[j]]

(* What every return of search_node has in common. *)
Searched(found, failure, empty) ==
    /\ listings' = found
    /\ index' = 0
    /\ job' = NoJob
    /\ searchFailed' = failure
    /\ exhausted' = empty
    /\ node' = "select"
    /\ UNCHANGED <<query, page, fit, failed, tally, mode, ledger, invoked,
                   tried, clicks, stops>>

Fresh == OnPage \ (seenIds \cup PersistedSeen)

(* LinkedIn may mark the jobs somebody applied for. *)
Markable == {j \in Fresh : ledger[j] # "nobody"}

(* Cards in "lost" fail to load; those in "marked" carry LinkedIn's own mark of
   an application, and are passed over like the ones a title or place rules out. *)
SearchFindsCards ==
    /\ \E marked \in SUBSET Markable :
       \E lost \in SUBSET (Fresh \ marked) :
          LET over == marked \cup ((Fresh \cap Excluded) \ lost)
          IN  /\ Searched(FirstShown(Fresh \ (lost \cup over)), FALSE, FALSE)
              /\ seenIds' = seenIds \cup (PersistedSeen \cap OnPage) \cup over
              /\ record' \in {record, Closed(over)}
    /\ searched' = searched \cup {<<query, page>>}
    /\ UNCHANGED paused

SearchFindsNothing ==
    /\ OnPage = {}
    /\ Searched(<<>>, FALSE, TRUE)
    /\ searched' = searched \cup {<<query, page>>}
    /\ UNCHANGED <<seenIds, paused, record>>

(* Navigation, scrolling, the database or closing the page fails; by then the
   exclusions may be stored. *)
SearchFails ==
    /\ Searched(<<>>, TRUE, FALSE)
    /\ \E over \in SUBSET (Markable \cup (Fresh \cap Excluded)) : record' = Closed(over)
    /\ UNCHANGED <<seenIds, paused, searched>>

(* _account_safety_search_update *)
SearchMeetsBarrier ==
    /\ Searched(<<>>, FALSE, exhausted)
    /\ paused' = TRUE
    /\ UNCHANGED <<seenIds, record, searched>>

Search ==
    /\ proc = "up" /\ node = "search"
    /\ \/ SearchFindsCards
       \/ SearchFindsNothing
       \/ SearchFails
       \/ SearchMeetsBarrier
    /\ Checkpointed

-----------------------------------------------------------------------------
(* select_next_job_node *)

SelectNextJob ==
    /\ proc = "up" /\ node = "select"
    /\ IF paused \/ JobLimitReached \/ Unseen = {}
       THEN /\ job' = NoJob
            /\ UNCHANGED index
       ELSE \E i \in Unseen :
                /\ \A k \in Unseen : i <= k
                /\ job' = listings[i]
                /\ index' = i
    /\ UNCHANGED <<query, page, listings, searchFailed, exhausted, seenIds, fit,
                   failed, tally, paused, mode, store, invoked, history>>
    /\ node' = RouteSelectNextJob'
    /\ Checkpointed

IncrementQuery ==
    /\ proc = "up" /\ node = "query"
    /\ query' = query + 1
    /\ page' = 1
    /\ searchFailed' = FALSE
    /\ exhausted' = FALSE
    /\ UNCHANGED <<listings, index, job, seenIds, fit, failed, tally,
                   paused, mode, store, invoked, history>>
    /\ node' = "search"
    /\ Checkpointed

(* Mutation: the page is searched again. *)
BugIncrementPage ==
    /\ proc = "up" /\ node = "page"
    /\ searchFailed' = FALSE
    /\ exhausted' = FALSE
    /\ UNCHANGED <<query, page, listings, index, job, seenIds, fit, failed, tally,
                   paused, mode, store, invoked, history>>
    /\ node' = "search"
    /\ Checkpointed

IncrementPage ==
    /\ proc = "up" /\ node = "page"
    /\ page' = page + 1
    /\ searchFailed' = FALSE
    /\ exhausted' = FALSE
    /\ UNCHANGED <<query, listings, index, job, seenIds, fit, failed, tally,
                   paused, mode, store, invoked, history>>
    /\ node' = "search"
    /\ Checkpointed

-----------------------------------------------------------------------------
(* qualification_node *)

(* Mutation: a qualified job is only remembered once it was applied for. *)
BugRemember(verdict) == IF verdict THEN seenIds ELSE seenIds \cup {job}

Remember(verdict) == seenIds \cup {job}

(* The exclusion or the LLM's verdict; its record may fail to be stored. *)
Judge(verdict) ==
    /\ fit' = verdict
    /\ seenIds' = Remember(verdict)
    /\ evaluated' = evaluated + 1
    /\ qualified' = qualified + (IF verdict THEN 1 ELSE 0)
    /\ notQualified' = notQualified + (IF verdict THEN 0 ELSE 1)
    /\ \/ record' = [record EXCEPT ![job] = IF verdict THEN "open" ELSE "closed"]
       \/ record' = record
    /\ UNCHANGED <<errors, tried>>

(* The LLM call or its answer fails: the job counts, and stays unseen. *)
JudgeFails ==
    /\ fit' = FALSE
    /\ evaluated' = evaluated + 1
    /\ errors' = [errors EXCEPT !.evaluations = @ + 1]
    /\ tried' = tried \cup {job}
    /\ UNCHANGED <<seenIds, qualified, notQualified, record>>

Qualify ==
    /\ proc = "up" /\ node = "qualify"
    /\ (\E verdict \in BOOLEAN : Judge(verdict)) \/ JudgeFails
    /\ UNCHANGED <<cursor, failed, outcomes, submitted, daily, paused, mode,
                   ledger, invoked, searched, clicks, stops>>
    /\ node' = RouteAfterQualification'
    /\ Checkpointed

-----------------------------------------------------------------------------
(* generation_node *)

(* Mutation: application_status of the job before is not reset. *)
BugGenerate ==
    /\ proc = "up" /\ node = "generate"
    /\ \/ UNCHANGED <<failed, errors>>
       \/ /\ failed' = TRUE
          /\ errors' = [errors EXCEPT !.letters = @ + 1]
    /\ UNCHANGED <<cursor, seenIds, fit, evaluated, qualified, notQualified, outcomes,
                   submitted, daily, paused, mode, store, invoked, history>>
    /\ node' = RouteAfterGeneration'
    /\ Checkpointed

Generate ==
    /\ proc = "up" /\ node = "generate"
    /\ \/ /\ failed' = FALSE
          /\ UNCHANGED errors
       \/ /\ failed' = TRUE
          /\ errors' = [errors EXCEPT !.letters = @ + 1]
    /\ UNCHANGED <<cursor, seenIds, fit, evaluated, qualified, notQualified, outcomes,
                   submitted, daily, paused, mode, store, invoked, history>>
    /\ node' = RouteAfterGeneration'
    /\ Checkpointed

-----------------------------------------------------------------------------
(* execution_node *)

Report(result) ==
    /\ failed' = (result = "failed")
    /\ outcomes' = Append(outcomes, [job |-> job, dryRun |-> result = "dry_run"])

(* A form that ends before Submit, in either mode. *)
GiveUp ==
    /\ \E result \in {"failed", "set_aside"} : Report(result)
    /\ UNCHANGED <<submitted, daily, paused, store, clicks>>

(* account_safety_execution_update before Submit. *)
MeetBarrier ==
    /\ Report("set_aside")
    /\ paused' = TRUE
    /\ UNCHANGED <<submitted, daily, store, clicks>>

(* LinkedIn says the job was applied for already. *)
FindApplied ==
    /\ Report("set_aside")
    /\ record' \in {record, [record EXCEPT ![job] = "closed"]}
    /\ UNCHANGED <<submitted, daily, paused, ledger, clicks>>

(* The page's text claims a submission nobody clicked for. *)
FindClaim ==
    /\ Report("submitted")
    /\ UNCHANGED <<submitted, daily, paused, store, clicks>>

(* A dry run stops at the Submit button. *)
Rehearse ==
    /\ mode.dryRun
    /\ Report("dry_run")
    /\ record' \in {record, [record EXCEPT ![job] = "open"]}
    /\ UNCHANGED <<submitted, daily, paused, ledger, clicks>>

Clicked(holders) == {j \in Jobs : ledger[j] \in holders}

(* reserve_quota: the durable counters, not the ones in the checkpoint. *)
SlotFree ==
    /\ Cardinality(Clicked({"this_run"})) < mode.maxApplications
    /\ Cardinality(Clicked({"this_run", "another_run"})) < DailyCap

(* A live run claims the job and a slot and clicks Submit: confirmed, unknown,
   or unknown behind an account-safety barrier. *)
Submit ==
    /\ ~mode.dryRun /\ ledger[job] = "nobody" /\ SlotFree
    /\ ledger' = [ledger EXCEPT ![job] = "this_run"]
    /\ clicks' = clicks \cup {[job |-> job, announced |-> announced]}
    /\ \/ /\ Report("submitted")
          /\ record' \in {record, [record EXCEPT ![job] = "closed"]}
          /\ submitted' = submitted + 1
          /\ daily' = daily + 1
          /\ UNCHANGED paused
       \/ /\ Report("set_aside")
          /\ paused' \in {paused, TRUE}
          /\ UNCHANGED <<submitted, daily, record>>

(* preflight_check or the claim finds the job taken. *)
FindTaken ==
    /\ ~mode.dryRun /\ ledger[job] # "nobody"
    /\ Report("set_aside")
    /\ UNCHANGED <<submitted, daily, paused, store, clicks>>

Execute ==
    /\ proc = "up" /\ node = "execute"
    /\ IF CapsReached
       THEN /\ Report("set_aside")
            /\ UNCHANGED <<submitted, daily, paused, store, clicks>>
       ELSE \/ GiveUp
            \/ MeetBarrier
            \/ FindApplied
            \/ FindClaim
            \/ Rehearse
            \/ Submit
            \/ FindTaken
    /\ UNCHANGED <<cursor, seenIds, fit, evaluated, qualified, notQualified, errors,
                   mode, invoked, searched, tried, stops>>
    /\ node' = RoutePostProcessing'
    /\ Checkpointed

(* notification_node: its outbox and review queue are modules of their own. *)
Notify ==
    /\ proc = "up" /\ node = "notify"
    /\ UNCHANGED <<cursor, seenIds, fit, failed, tally, paused, mode, store,
                   invoked, history>>
    /\ node' = "end"
    /\ Checkpointed

Node ==
    \/ Search \/ SelectNextJob \/ IncrementPage \/ IncrementQuery
    \/ Qualify \/ Generate \/ Execute \/ Notify

-----------------------------------------------------------------------------
(* main.run *)

Init ==
    /\ node = "search" /\ query = 1 /\ page = 1
    /\ listings = <<>> /\ index = 0 /\ job = NoJob
    /\ searchFailed = FALSE /\ exhausted = FALSE
    /\ seenIds = {} /\ fit = FALSE /\ failed = FALSE
    /\ evaluated = 0 /\ qualified = 0 /\ notQualified = 0
    /\ outcomes = <<>> /\ submitted = 0 /\ daily = 0
    /\ errors = [evaluations |-> 0, letters |-> 0]
    /\ paused = FALSE
    /\ mode \in Modes
    /\ saved = {}
    /\ record = [j \in Jobs |-> IF j \in Earlier THEN "open" ELSE "unseen"]
    /\ ledger = [j \in Jobs |-> "nobody"]
    /\ proc = "off" /\ announced = mode.dryRun
    /\ ending = "none" /\ summary = "none" /\ exit = "none"
    /\ searched = {} /\ tried = {} /\ clicks = {} /\ stops = 0

(* A fresh run, or a run id nothing is saved under: the initial state of run(),
   then the conditional edge of START; or the daily count cannot be read. *)
Start ==
    /\ proc = "off" /\ saved = {}
    /\ exit' = "none" /\ summary' = "none"
    /\ \/ /\ proc' = "up" /\ ending' = "none"
          /\ daily' = Cardinality(Clicked({"this_run", "another_run"}))
          /\ UNCHANGED <<submitted, outcomes, paused, mode>>
          /\ node' = RouteStart'
       \/ /\ proc' = "closing" /\ ending' = "failed"
          /\ UNCHANGED <<submitted, outcomes, paused, mode, daily, node>>
    /\ UNCHANGED <<cursor, seenIds, fit, failed, evaluated, qualified, notQualified,
                   errors, store, announced, history>>
    /\ saved' = IF proc' = "up" THEN {Snapshot'} ELSE saved

(* run(run_id): the checkpoint, not this invocation's flags, makes the state of
   the graph; the flags make the log and the summary. *)
Resume ==
    /\ proc = "off" /\ saved # {}
    /\ proc' = "up"
    /\ announced' \in ResumeFlags
    /\ ending' = "none" /\ exit' = "none" /\ summary' = "none"
    /\ UNCHANGED <<memory, saved, store, history>>

(* ainvoke returns once every checkpoint is written; for a run with no node left
   resolve_graph_input hands back the saved result. *)
Return ==
    /\ proc = "up" /\ node = "end"
    /\ proc' = "closing"
    /\ ending' = "result"
    /\ saved' = {Snapshot}
    /\ UNCHANGED <<memory, store, announced, summary, exit, history>>

(* What is left of a workflow that broke off is its checkpoint. *)
Forget ==
    \/ saved = {} /\ UNCHANGED memory
    \/ \E s \in saved :
        /\ node' = s.node /\ query' = s.query /\ page' = s.page
        /\ listings' = s.listings /\ index' = s.index /\ job' = s.job
        /\ searchFailed' = s.searchFailed /\ exhausted' = s.exhausted
        /\ seenIds' = s.seenIds /\ fit' = s.fit /\ failed' = s.failed
        /\ evaluated' = s.evaluated /\ qualified' = s.qualified
        /\ notQualified' = s.notQualified /\ outcomes' = s.outcomes
        /\ submitted' = s.submitted /\ daily' = s.daily
        /\ errors' = s.errors /\ paused' = s.paused /\ mode' = s.mode

(* An exception escapes the graph, Ctrl+C, or /stop cancels the task;
   _read_checkpoint_state finds the state for the summary. *)
BreakOff ==
    /\ proc = "up" /\ stops < MaxStops
    /\ proc' = "closing" /\ stops' = stops + 1
    /\ ending' \in {"failed", "interrupted", "cancelled"}
    /\ Forget
    /\ UNCHANGED <<saved, store, announced, summary, exit, searched, tried, clicks>>

(* Mutation: a summary that could not be written is only logged. *)
BugComesBack(cleanupFails, publishFails) ==
    /\ ending \notin {"cancelled", "failed"}
    /\ cleanupFails => ending = "interrupted"

(* run() returns, or re-raises what went wrong first. *)
ComesBack(cleanupFails, publishFails) ==
    /\ ending \notin {"cancelled", "failed"}
    /\ cleanupFails => ending = "interrupted"
    /\ ~publishFails

TerminalStatus(cleanupFails) ==
    CASE ending = "failed" -> "failed"
      [] ending \in {"interrupted", "cancelled"} -> "interrupted"
      [] OTHER -> IF cleanupFails THEN "failed"
                  ELSE IF paused THEN "paused" ELSE "completed"

(* _finalize_run *)
Finalize ==
    /\ proc = "closing"
    /\ proc' = "off"
    /\ \E cleanupFails, publishFails \in BOOLEAN :
        /\ summary' = IF publishFails THEN "none" ELSE TerminalStatus(cleanupFails)
        /\ exit' = IF ComesBack(cleanupFails, publishFails) THEN "returned" ELSE "raised"
    /\ ending' = "none"
    /\ UNCHANGED <<memory, saved, store, announced, history>>

(* The process dies. *)
Kill ==
    /\ proc # "off" /\ stops < MaxStops
    /\ proc' = "off" /\ stops' = stops + 1
    /\ exit' = "killed" /\ ending' = "none"
    /\ Forget
    /\ UNCHANGED <<saved, store, announced, summary, searched, tried, clicks>>

(* Another run clicks Submit for a job nobody holds, and may record it. *)
OtherRun ==
    /\ \E j \in Contested :
        /\ ledger[j] = "nobody"
        /\ ledger' = [ledger EXCEPT ![j] = "another_run"]
        /\ record' \in {record, [record EXCEPT ![j] = "closed"]}
    /\ UNCHANGED <<memory, saved, invoked, history>>

Next ==
    \/ Start \/ Resume \/ Node \/ Return \/ BreakOff \/ Finalize \/ Kill
    \/ OtherRun

Spec == Init /\ [][Next]_vars

(* Every await of a node has a timeout, and the event loop runs what is ready. *)
FairSpec == Spec /\ WF_vars(Node) /\ WF_vars(Return) /\ WF_vars(Finalize)

-----------------------------------------------------------------------------
TypeOK ==
    /\ node \in Nodes
    /\ query \in 1..Queries /\ page \in 1..PagesPerQuery
    /\ \A i \in DOMAIN listings : i \in Nat /\ listings[i] \in Jobs
    /\ index \in Nat
    /\ job \in Jobs \cup {NoJob}
    /\ searchFailed \in BOOLEAN /\ exhausted \in BOOLEAN
    /\ seenIds \subseteq Jobs /\ fit \in BOOLEAN
    /\ failed \in BOOLEAN
    /\ evaluated \in Nat /\ qualified \in Nat /\ notQualified \in Nat
    /\ outcomes \in Seq([job: Jobs, dryRun: BOOLEAN])
    /\ submitted \in Nat /\ daily \in Nat
    /\ errors \in [evaluations: Nat, letters: Nat]
    /\ paused \in BOOLEAN
    /\ mode \in Modes
    /\ record \in [Jobs -> RecordStatus]
    /\ ledger \in [Jobs -> Holder]
    /\ proc \in {"off", "up", "closing"} /\ announced \in BOOLEAN
    /\ ending \in {"none", "result", "failed", "interrupted", "cancelled"}
    /\ summary \in {"none", "completed", "paused", "failed", "interrupted"}
    /\ exit \in {"none", "returned", "raised", "killed"}
    /\ searched \subseteq (1..Queries) \X (1..PagesPerQuery)
    /\ tried \subseteq Jobs
    /\ clicks \subseteq [job: Jobs, announced: BOOLEAN]
    /\ stops \in 0..MaxStops

(* Nothing but the summary is left to do. *)
Stopped == paused \/ CapsReached \/ searchFailed \/ JobLimitReached

(* An account-safety pause, a reached cap and a failed search end the run: once
   one is in the state, no browser or LLM work is ahead, whatever crashes and
   resumptions come between (README "Safety defaults", graph.py's routing). *)
StoppedRunsRest ==
    saved # {} /\ (paused \/ CapsReached \/ searchFailed) =>
        node \in {"select", "notify", "end"}

(* However the run is cut up by crashes, its submissions and rehearsals stay
   within max_applications, its real clicks too, and the jobs it has the LLM
   evaluate within max_jobs_to_evaluate. *)
WithinLimits ==
    /\ submitted + Cardinality(CompletedDryRuns) <= mode.maxApplications
    /\ Cardinality(Clicked({"this_run"})) <= mode.maxApplications
    /\ mode.maxJobs # Unlimited => evaluated <= mode.maxJobs

(* The counters of the summary add up: every evaluated job is qualified, not
   qualified or an error, and every qualified one has its outcome, a failed
   letter, or is the one being worked on. *)
BooksBalance ==
    /\ evaluated = qualified + notQualified + errors.evaluations
    /\ qualified = Len(outcomes) + errors.letters
                   + (IF node \in {"generate", "execute"} THEN 1 ELSE 0)

(* A run reports at most one outcome for a job, on however many pages, queries
   and resumptions it meets it. *)
OneOutcomePerJob ==
    \A i, k \in DOMAIN outcomes : outcomes[i].job = outcomes[k].job => i = k

(* The summary adds up job by job: every qualified job has one outcome, and no
   job two, over pages, queries, failures and resumptions. *)
OutcomesAddUp == BooksBalance /\ OneOutcomePerJob

(* A page is left only when all its listings are dealt with. *)
PageIsFinished ==
    (node \in {"page", "query"} \/ (node \in {"notify", "end"} /\ ~Stopped)) =>
        \A i \in DOMAIN listings : listings[i] \in seenIds \cup tried

(* A run that ends by itself has asked for every page of every query, up to
   the first empty one. *)
ScopeIsCovered ==
    node \in {"notify", "end"} /\ ~Stopped =>
        \A q \in 1..Queries, p \in 1..PagesPerQuery :
            \/ <<q, p>> \in searched
            \/ \E k \in 1..p - 1 : <<q, k>> \in searched /\ Shown[q, k] = <<>>

(* Exhaustion means exhaustion: no listing is skipped by the cursor and no page
   or query left out (route_select_next_job, "three-tier exhaustion"). *)
NothingIsPassedOver == PageIsFinished /\ ScopeIsCovered

(* A run never comes back as if all were well without the summary of this very
   invocation, and that summary says completed or paused only of a run that is
   (_finalize_run). *)
SummaryIsTrue ==
    /\ exit = "returned" => summary # "none"
    /\ proc = "off" /\ summary \in {"completed", "paused"} =>
            node = "end" /\ (summary = "paused" <=> paused)

(* Every invocation ends: the graph's loops over jobs, pages and queries all
   come to a close. *)
RunEnds == proc # "off" ~> proc = "off"

(* README: "Dry-run mode is enabled by default and never clicks Submit."  The
   operator is told so whenever the invocation's own flag says dry run. *)
DryRunIsKept == \A c \in clicks : ~c.announced
=============================================================================
