---------------------------- MODULE IndexLifecycle ----------------------------
(***************************************************************************)
(* The process-wide MongoDB client (MongoClientManager, utils/mongo.py) and *)
(* the once-per-lifecycle index initialisation that every repository       *)
(* performs before its first operation (ensure_indexes).  The repositories *)
(* carry the same code over separate class variables; one of them is       *)
(* modelled.  Callers may be tasks of one event loop or of several         *)
(* threads, so an action ends where a lock is released or a result is      *)
(* awaited.                                                                 *)
(***************************************************************************)
EXTENDS Naturals, FiniteSets

CONSTANTS
    Callers,    \* calls of repository operations
    Closers,    \* calls of MongoClientManager.close
    MaxCloses   \* bound: calls of close

ASSUME ClosesAssumption == MaxCloses \in Nat

Futures == 1..(MaxCloses + 1)
Clients == 1..(MaxCloses + 1)

VARIABLES
    \* MongoClientManager
    client,     \* _client, 0 for None
    made,       \* clients constructed so far
    closing,    \* _is_closing
    \* the repository class
    current,    \* _init_future, 0 for None
    ready,      \* _index_succeeded
    failed,     \* _index_error is not None
    future,     \* the state of every future
    \* a call of ensure_indexes
    pc,
    fut,        \* the future it initiated or awaits
    handle,     \* the client its repository was constructed with
    \* a call of close
    at,
    victim,     \* client_to_close
    \* the database, and history
    built,      \* the index exists
    served,     \* an operation went on to use it
    begun,      \* calls of close
    resets,     \* reset hooks run
    issued,     \* create_index requests, by future
    orphans,    \* futures whose initiator was cancelled
    closed      \* close() calls, by client

manager == <<client, made, closing>>
repository == <<current, ready, failed>>
calls == <<pc, fut, handle>>
closers == <<at, victim>>
vars == <<manager, repository, future, calls, closers, built, served, begun, resets, issued,
          orphans, closed>>

Points == {"idle", "enter", "create", "record", "resolve", "record_error", "resolve_error",
           "await", "check"}
ClosePoints == {"idle", "wait", "woken", "hooks", "close", "notify"}

Goto(c, point) == pc' = [pc EXCEPT ![c] = point]

Stay(c, point) == Goto(c, point) /\ UNCHANGED <<fut, handle, served>>

(* The call is over; its locals are gone. *)
Leave(c) ==
    /\ Goto(c, "idle")
    /\ fut' = [fut EXCEPT ![c] = 0]
    /\ handle' = [handle EXCEPT ![c] = 0]

(* ensure_indexes returned True, or raised. *)
Serve(c) == Leave(c) /\ served' = TRUE

Raise(c) == Leave(c) /\ UNCHANGED served

-----------------------------------------------------------------------------
Init ==
    /\ client = 0 /\ made = 0 /\ closing = FALSE
    /\ current = 0 /\ ready = FALSE /\ failed = FALSE
    /\ future = [f \in Futures |-> "pending"]
    /\ pc = [c \in Callers |-> "idle"]
    /\ fut = [c \in Callers |-> 0]
    /\ handle = [c \in Callers |-> 0]
    /\ at = [k \in Closers |-> "idle"]
    /\ victim = [k \in Closers |-> 0]
    /\ built = FALSE /\ served = FALSE
    /\ begun = 0 /\ resets = 0
    /\ issued = [f \in Futures |-> 0]
    /\ orphans = {}
    /\ closed = [g \in Clients |-> 0]

(* get_client, by the constructor of the repository. *)
Construct(c) ==
    /\ pc[c] = "idle"
    /\ ~closing
    /\ IF client = 0
       THEN /\ made' = made + 1
            /\ client' = made + 1
       ELSE UNCHANGED <<made, client>>
    /\ handle' = [handle EXCEPT ![c] = client']
    /\ Goto(c, "enter")
    /\ UNCHANGED <<closing, repository, future, fut, closers, built, served, begun, resets, issued,
                   orphans, closed>>

-----------------------------------------------------------------------------
(* ensure_indexes *)

(* Mutation: the future is not published. *)
BugInitiate(c) ==
    /\ current = 0
    /\ fut' = [fut EXCEPT ![c] = resets + 1]
    /\ issued' = [issued EXCEPT ![resets + 1] = @ + 1]
    /\ Goto(c, "create")
    /\ UNCHANGED <<current, handle, served>>

Initiate(c) ==
    /\ current = 0
    /\ current' = resets + 1
    /\ fut' = [fut EXCEPT ![c] = resets + 1]
    /\ issued' = [issued EXCEPT ![resets + 1] = @ + 1]
    /\ Goto(c, "create")
    /\ UNCHANGED <<handle, served>>

(* The first block under the lock: answered already, or the first caller of the
   lifecycle, or one that waits for it. *)
Enter(c) ==
    /\ pc[c] = "enter"
    /\ \/ ready /\ Serve(c) /\ UNCHANGED <<current, issued>>
       \/ ~ready /\ failed /\ Raise(c) /\ UNCHANGED <<current, issued>>
       \/ ~ready /\ ~failed /\ Initiate(c)
       \/ /\ ~ready /\ ~failed /\ current # 0
          /\ fut' = [fut EXCEPT ![c] = current]
          /\ Goto(c, "await")
          /\ UNCHANGED <<handle, served, current, issued>>
    /\ UNCHANGED <<manager, ready, failed, future, closers, built, begun, resets, orphans, closed>>

(* create_index: done; failed, whether or not the server got to do it; a closed
   client refuses. *)
Create(c) ==
    /\ pc[c] = "create"
    /\ \/ closed[handle[c]] = 0 /\ built' = TRUE /\ Stay(c, "record")
       \/ built' \in {built, built \/ closed[handle[c]] = 0} /\ Stay(c, "record_error")
    /\ UNCHANGED <<manager, repository, future, closers, begun, resets, issued, orphans, closed>>

(* The task is cancelled while it awaits create_index: CancelledError is no
   Exception, so the future and the flags stay as they are. *)
CancelCreate(c) ==
    /\ pc[c] = "create"
    /\ built' \in {built, TRUE}
    /\ orphans' = orphans \cup {fut[c]}
    /\ Raise(c)
    /\ UNCHANGED <<manager, repository, future, closers, begun, resets, issued, closed>>

Record(c) ==
    /\ pc[c] = "record"
    /\ ready' = TRUE
    /\ failed' = FALSE
    /\ Stay(c, "resolve")
    /\ UNCHANGED <<manager, current, future, closers, built, begun, resets, issued, orphans, closed>>

(* set_result(True) raises if a waiter cancelled the future, and the handler of
   the try block takes that for a failed initialisation. *)
Resolve(c) ==
    /\ pc[c] = "resolve"
    /\ IF future[fut[c]] = "pending"
       THEN /\ future' = [future EXCEPT ![fut[c]] = "resolved"]
            /\ Serve(c)
       ELSE /\ Stay(c, "record_error")
            /\ UNCHANGED future
    /\ UNCHANGED <<manager, repository, closers, built, begun, resets, issued, orphans, closed>>

RecordError(c) ==
    /\ pc[c] = "record_error"
    /\ ready' = FALSE
    /\ failed' = TRUE
    /\ Stay(c, "resolve_error")
    /\ UNCHANGED <<manager, current, future, closers, built, begun, resets, issued, orphans, closed>>

(* Mutation: only a success resolves the future. *)
BugResolveError(c) ==
    /\ pc[c] = "resolve_error"
    /\ Raise(c)
    /\ UNCHANGED <<manager, repository, future, closers, built, begun, resets, issued, orphans, closed>>

(* set_result(False), which may raise for the same reason; the caller gets an
   exception either way. *)
ResolveError(c) ==
    /\ pc[c] = "resolve_error"
    /\ future' = [future EXCEPT ![fut[c]] = IF @ = "pending" THEN "resolved" ELSE @]
    /\ Raise(c)
    /\ UNCHANGED <<manager, repository, closers, built, begun, resets, issued, orphans, closed>>

(* wrap_future: a cancelled future cancels whoever awaits it. *)
Await(c) ==
    /\ pc[c] = "await"
    /\ \/ future[fut[c]] = "resolved" /\ Stay(c, "check")
       \/ future[fut[c]] = "cancelled" /\ Raise(c)
    /\ UNCHANGED <<manager, repository, future, closers, built, begun, resets, issued, orphans, closed>>

(* The waiting task is cancelled, and with it the future it shares, unless that
   is done. *)
CancelAwait(c) ==
    /\ pc[c] = "await"
    /\ future' = [future EXCEPT ![fut[c]] = IF @ = "pending" THEN "cancelled" ELSE @]
    /\ Raise(c)
    /\ UNCHANGED <<manager, repository, closers, built, begun, resets, issued, orphans, closed>>

(* Mutation: the waiter trusts the future. *)
BugCheck(c) ==
    /\ pc[c] = "check"
    /\ Serve(c)
    /\ UNCHANGED <<manager, repository, future, closers, built, begun, resets, issued, orphans, closed>>

Check(c) ==
    /\ pc[c] = "check"
    /\ (IF ready THEN Serve(c) ELSE Raise(c))
    /\ UNCHANGED <<manager, repository, future, closers, built, begun, resets, issued, orphans, closed>>

-----------------------------------------------------------------------------
(* MongoClientManager.close *)

At(k, point) == at' = [at EXCEPT ![k] = point]

(* Mutation: the client stays in place until it is closed. *)
BugTake(k) ==
    /\ closing' = TRUE
    /\ victim' = [victim EXCEPT ![k] = client]
    /\ At(k, "hooks")
    /\ UNCHANGED client

Take(k) ==
    /\ closing' = TRUE
    /\ victim' = [victim EXCEPT ![k] = client]
    /\ client' = 0
    /\ At(k, "hooks")

CloseBegin(k) ==
    /\ at[k] = "idle"
    /\ begun < MaxCloses
    /\ begun' = begun + 1
    /\ IF closing
       THEN At(k, "wait") /\ UNCHANGED <<client, closing, victim>>
       ELSE Take(k)
    /\ UNCHANGED <<made, repository, future, calls, built, served, resets, issued, orphans, closed>>

(* The condition was notified: somebody finished a close. *)
CloseWoken(k) ==
    /\ at[k] = "woken"
    /\ IF client = 0
       THEN At(k, "idle") /\ UNCHANGED <<client, closing, victim>>
       ELSE IF closing
            THEN At(k, "wait") /\ UNCHANGED <<client, closing, victim>>
            ELSE Take(k)
    /\ UNCHANGED <<made, repository, future, calls, built, served, begun, resets, issued, orphans, closed>>

(* _reset_state of the repository. *)
RunHooks(k) ==
    /\ at[k] = "hooks"
    /\ current' = 0 /\ ready' = FALSE /\ failed' = FALSE
    /\ resets' = resets + 1
    /\ At(k, "close")
    /\ UNCHANGED <<manager, future, calls, victim, built, served, begun, issued, orphans, closed>>

CloseClient(k) ==
    /\ at[k] = "close"
    /\ closed' = IF victim[k] = 0 THEN closed ELSE [closed EXCEPT ![victim[k]] = @ + 1]
    /\ At(k, "notify")
    /\ UNCHANGED <<manager, repository, future, calls, victim, built, served, begun, resets, issued, orphans>>

(* Mutation: whoever waits for the close is not told. *)
BugCloseNotify(k) ==
    /\ at[k] = "notify"
    /\ closing' = FALSE
    /\ At(k, "idle")
    /\ victim' = [victim EXCEPT ![k] = 0]
    /\ UNCHANGED <<client, made, repository, future, calls, built, served, begun, resets, issued, orphans, closed>>

CloseNotify(k) ==
    /\ at[k] = "notify"
    /\ closing' = FALSE
    /\ at' = [j \in Closers |-> IF j = k THEN "idle" ELSE IF at[j] = "wait" THEN "woken" ELSE at[j]]
    /\ victim' = [victim EXCEPT ![k] = 0]
    /\ UNCHANGED <<client, made, repository, future, calls, built, served, begun, resets, issued, orphans, closed>>

CloserStep(k) == CloseWoken(k) \/ RunHooks(k) \/ CloseClient(k) \/ CloseNotify(k)

-----------------------------------------------------------------------------
CallerStep(c) ==
    \/ Enter(c) \/ Create(c) \/ Record(c) \/ Resolve(c) \/ RecordError(c) \/ ResolveError(c)
    \/ Await(c) \/ Check(c)

Next ==
    \/ \E c \in Callers : Construct(c) \/ CallerStep(c) \/ CancelCreate(c) \/ CancelAwait(c)
    \/ \E k \in Closers : CloseBegin(k) \/ CloserStep(k)

(* The event loop and the threads run on, and the database answers; nobody has
   to call, close or cancel. *)
Fairness ==
    /\ \A c \in Callers : WF_vars(CallerStep(c))
    /\ \A k \in Closers : WF_vars(CloserStep(k))

Spec == Init /\ [][Next]_vars

FairSpec == Spec /\ Fairness

-----------------------------------------------------------------------------
(* Properties *)

TypeOK ==
    /\ client \in Clients \cup {0} /\ made \in 0..(MaxCloses + 1) /\ closing \in BOOLEAN
    /\ current \in Futures \cup {0} /\ ready \in BOOLEAN /\ failed \in BOOLEAN
    /\ future \in [Futures -> {"pending", "resolved", "cancelled"}]
    /\ pc \in [Callers -> Points]
    /\ fut \in [Callers -> Futures \cup {0}]
    /\ handle \in [Callers -> Clients \cup {0}]
    /\ at \in [Closers -> ClosePoints]
    /\ victim \in [Closers -> Clients \cup {0}]
    /\ built \in BOOLEAN /\ served \in BOOLEAN /\ begun \in 0..MaxCloses /\ resets \in 0..MaxCloses
    /\ issued \in [Futures -> Nat] /\ orphans \subseteq Futures
    /\ closed \in [Clients -> Nat]

(* No operation of a repository proceeds before its unique index exists, whatever
   closes, failures and cancellations happen around it: the attempt ledger and
   the quota ledger count on that index for their atomicity. *)
ReadyIsBuilt == ready \/ served => built

(* create_index is requested once per lifecycle, however many callers race. *)
OnceALifecycle == \A f \in Futures : issued[f] <= 1

(* A client is closed once, and no closed client is handed out. *)
ClosedOnce ==
    /\ \A g \in Clients : closed[g] <= 1
    /\ client # 0 => closed[client] = 0

(* Whoever waits for an initialisation is answered, across failures of it, closes
   of the manager and cancellations of other waiters, unless the task that had
   started it was cancelled. *)
WaitersAnswered ==
    \A c \in Callers : pc[c] = "await" ~> (pc[c] # "await" \/ fut[c] \in orphans)

(* Every close ends, and a caller that waits for another's close is woken. *)
ClosesEnd == \A k \in Closers : at[k] # "idle" ~> at[k] = "idle"

(* Everyone who waits, for the index or for the end of a close, is answered. *)
EveryoneIsAnswered == WaitersAnswered /\ ClosesEnd

(* Concurrent callers share the in-flight initialisation, on success and on
   failure: everyone who awaits it is answered. *)
InitialisationIsShared == \A c \in Callers : pc[c] = "await" ~> pc[c] # "await"
=============================================================================
