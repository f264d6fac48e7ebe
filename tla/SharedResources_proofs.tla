------------------------- MODULE SharedResources_proofs -------------------------
(***************************************************************************)
(* Proofs about the two resources that every JobApply process of a machine *)
(* sets up at need and shares: the MongoDB client with its indexes         *)
(* (IndexLifecycle) and the browser (BrowserOwnership).  The index exists  *)
(* before it is relied on and is asked for once, whatever the callers, the *)
(* closers and the number of closes; the browser is one the agent          *)
(* launched, and its marker is true of it, whatever the agents, the        *)
(* programs, the process ids and the troubles.                             *)
(***************************************************************************)
EXTENDS IndexLifecycle, BrowserOwnership, FiniteSetTheorems, TLAPS

-----------------------------------------------------------------------------
(* The index: the inductive invariant *)

IndexTypes ==
    /\ pc \in [Callers -> Points]
    /\ built \in BOOLEAN /\ ready \in BOOLEAN /\ served \in BOOLEAN
    /\ resets \in Nat /\ current \in Nat
    /\ issued \in [Futures -> Nat]

(* The index exists for whoever has seen create_index return, or relies on it. *)
BuiltOK ==
    /\ ready \/ served => built
    /\ \A c \in Callers : pc[c] \in {"record", "resolve"} => built

(* The future of this lifecycle, if there is one, is the only one asked for since
   the last reset; those of lifecycles to come are not. *)
LifecycleOK ==
    /\ current \in {0, resets + 1}
    /\ \A f \in Futures :
          /\ issued[f] <= 1
          /\ f > resets + 1 => issued[f] = 0
          /\ current = 0 /\ f = resets + 1 => issued[f] = 0

IndexInv == IndexTypes /\ BuiltOK /\ LifecycleOK

-----------------------------------------------------------------------------
LEMMA FuturesAreNumbers == Futures \subseteq Nat
BY ClosesAssumption DEF Futures

(* A step of caller c that asks for no index. *)
LEMMA CallerMoves ==
    ASSUME IndexInv, NEW c \in Callers, NEW point \in Points, Goto(c, point),
           built' \in BOOLEAN, built => built', ready' \in BOOLEAN, served' \in BOOLEAN,
           ready' \/ served' \/ point \in {"record", "resolve"} => built',
           UNCHANGED <<current, resets, issued>>
    PROVE  IndexInv'
<1>1. \A d \in Callers : pc'[d] = IF d = c THEN point ELSE pc[d]
    BY DEF IndexInv, IndexTypes, Goto
<1>2. IndexTypes'
    BY DEF IndexInv, IndexTypes, Goto
<1>3. BuiltOK'
    BY <1>1 DEF IndexInv, BuiltOK
<1>4. LifecycleOK'
    BY DEF IndexInv, LifecycleOK
<1>. QED BY <1>2, <1>3, <1>4 DEF IndexInv

(* A step that leaves the index and its callers alone. *)
LEMMA OthersMove ==
    ASSUME IndexInv, UNCHANGED <<pc, built, ready, served, current, resets, issued>>
    PROVE  IndexInv'
BY DEF IndexInv, IndexTypes, BuiltOK, LifecycleOK

-----------------------------------------------------------------------------
LEMMA InitiateStep ==
    ASSUME IndexInv, NEW c \in Callers, Initiate(c), UNCHANGED <<built, ready, resets>>
    PROVE  IndexInv'
<1>. USE FuturesAreNumbers
<1>1. /\ current = 0 /\ current' = resets + 1
      /\ issued' = [issued EXCEPT ![resets + 1] = @ + 1]
      /\ pc' = [pc EXCEPT ![c] = "create"] /\ served' = served
    BY DEF Initiate, Goto
<1>2. \A f \in Futures : issued'[f] = IF f = resets + 1 THEN issued[f] + 1 ELSE issued[f]
    BY <1>1 DEF IndexInv, IndexTypes
<1>3. issued' \in [Futures -> Nat]
    <2>1. issued' = [f \in Futures |-> IF f = resets + 1 THEN issued[f] + 1 ELSE issued[f]]
        BY <1>1 DEF IndexInv, IndexTypes
    <2>2. \A f \in Futures : issued[f] \in Nat /\ issued[f] + 1 \in Nat
        BY DEF IndexInv, IndexTypes
    <2>. QED BY <2>1, <2>2
<1>4. IndexTypes'
    BY <1>1, <1>3 DEF IndexInv, IndexTypes, Points
<1>5. BuiltOK'
    BY <1>1 DEF IndexInv, IndexTypes, BuiltOK
<1>6. LifecycleOK'
    BY <1>1, <1>2 DEF IndexInv, IndexTypes, LifecycleOK
<1>. QED BY <1>4, <1>5, <1>6 DEF IndexInv

LEMMA EnterStep ==
    ASSUME IndexInv, NEW c \in Callers, Enter(c)
    PROVE  IndexInv'
<1>1. UNCHANGED <<built, ready, resets>>
    BY DEF Enter
<1>2. CASE ready /\ Serve(c) /\ UNCHANGED <<current, issued>>
    BY <1>1, <1>2, CallerMoves DEF Serve, Leave, Points, IndexInv, IndexTypes, BuiltOK
<1>3. CASE Raise(c) /\ UNCHANGED <<current, issued>>
    BY <1>1, <1>3, CallerMoves DEF Raise, Leave, Points, IndexInv, IndexTypes, BuiltOK
<1>4. CASE Initiate(c)
    BY <1>1, <1>4, InitiateStep
<1>5. CASE Goto(c, "await") /\ UNCHANGED <<served, current, issued>>
    BY <1>1, <1>5, CallerMoves DEF Points, IndexInv, IndexTypes, BuiltOK
<1>. QED BY <1>2, <1>3, <1>4, <1>5 DEF Enter

LEMMA CreateStep ==
    ASSUME IndexInv, NEW c \in Callers, Create(c) \/ CancelCreate(c)
    PROVE  IndexInv'
<1>1. UNCHANGED <<current, ready, resets, issued>>
    BY DEF Create, CancelCreate, repository
<1>2. CASE built' = TRUE /\ Stay(c, "record")
    BY <1>1, <1>2, CallerMoves DEF Stay, Points, IndexInv, IndexTypes, BuiltOK
<1>3. CASE built' \in {built, built \/ closed[handle[c]] = 0} /\ Stay(c, "record_error")
    BY <1>1, <1>3, CallerMoves DEF Stay, Points, IndexInv, IndexTypes, BuiltOK
<1>4. CASE built' \in {built, TRUE} /\ Raise(c)
    <2>1. Goto(c, "idle") /\ UNCHANGED served /\ "idle" \in Points
        BY <1>4 DEF Raise, Leave, Points
    <2>2. built' \in BOOLEAN /\ (built => built')
        <3>1. CASE built' = built
            BY <3>1 DEF IndexInv, IndexTypes
        <3>2. CASE built' = TRUE
            BY <3>2
        <3>. QED BY <1>4, <3>1, <3>2
    <2>3. ready' \in BOOLEAN /\ served' \in BOOLEAN /\ (ready' \/ served' => built')
        BY <1>1, <2>1, <2>2 DEF IndexInv, IndexTypes, BuiltOK
    <2>. QED BY <1>1, <2>1, <2>2, <2>3, CallerMoves
<1>. QED BY <1>2, <1>3, <1>4 DEF Create, CancelCreate

LEMMA SettleStep ==
    ASSUME IndexInv, NEW c \in Callers,
           Record(c) \/ Resolve(c) \/ RecordError(c) \/ ResolveError(c)
    PROVE  IndexInv'
<1>1. UNCHANGED <<built, current, resets, issued>>
    BY DEF Record, Resolve, RecordError, ResolveError, repository
<1>2. CASE Record(c)
    <2>1. built
        BY <1>2 DEF Record, IndexInv, BuiltOK
    <2>. QED BY <1>1, <1>2, <2>1, CallerMoves DEF Record, Stay, Points, IndexInv, IndexTypes
<1>3. CASE Resolve(c)
    <2>1. built /\ UNCHANGED ready
        BY <1>3 DEF Resolve, repository, IndexInv, BuiltOK
    <2>2. CASE Serve(c)
        BY <1>1, <2>1, <2>2, CallerMoves DEF Serve, Leave, Points, IndexInv, IndexTypes
    <2>3. CASE Stay(c, "record_error")
        BY <1>1, <2>1, <2>3, CallerMoves DEF Stay, Points, IndexInv, IndexTypes
    <2>. QED BY <1>3, <2>2, <2>3 DEF Resolve
<1>4. CASE RecordError(c)
    <2>1. Goto(c, "resolve_error") /\ ready' = FALSE /\ UNCHANGED served /\ "resolve_error" \in Points
        BY <1>4 DEF RecordError, Stay, Points
    <2>2. built' \in BOOLEAN /\ served' \in BOOLEAN /\ (served' => built')
        BY <1>1, <2>1 DEF IndexInv, IndexTypes, BuiltOK
    <2>. QED BY <1>1, <2>1, <2>2, CallerMoves
<1>5. CASE ResolveError(c)
    BY <1>1, <1>5, CallerMoves
       DEF ResolveError, Raise, Leave, repository, Points, IndexInv, IndexTypes, BuiltOK
<1>. QED BY <1>2, <1>3, <1>4, <1>5

LEMMA WaiterStep ==
    ASSUME IndexInv, NEW c \in Callers,
           Construct(c) \/ Await(c) \/ CancelAwait(c) \/ Check(c)
    PROVE  IndexInv'
<1>1. UNCHANGED <<built, ready, current, resets, issued>>
    BY DEF Construct, Await, CancelAwait, Check, repository
<1>2. CASE \E point \in {"enter", "check"} : Goto(c, point) /\ UNCHANGED served
    BY <1>1, <1>2, CallerMoves DEF Points, IndexInv, IndexTypes, BuiltOK
<1>3. CASE Raise(c)
    BY <1>1, <1>3, CallerMoves DEF Raise, Leave, Points, IndexInv, IndexTypes, BuiltOK
<1>4. CASE ready /\ Serve(c)
    BY <1>1, <1>4, CallerMoves DEF Serve, Leave, Points, IndexInv, IndexTypes, BuiltOK
<1>. QED BY <1>2, <1>3, <1>4 DEF Construct, Await, CancelAwait, Check, Stay

LEMMA HooksStep ==
    ASSUME IndexInv, NEW k \in Closers, RunHooks(k)
    PROVE  IndexInv'
<1>. USE FuturesAreNumbers
<1>1. current' = 0 /\ ready' = FALSE /\ resets' = resets + 1 /\ UNCHANGED <<pc, built, served, issued>>
    BY DEF RunHooks, calls
<1>2. IndexTypes'
    <2>1. resets' \in Nat /\ current' \in Nat
        BY <1>1 DEF IndexInv, IndexTypes
    <2>2. ready' \in BOOLEAN /\ built' \in BOOLEAN /\ served' \in BOOLEAN
        BY <1>1 DEF IndexInv, IndexTypes
    <2>. QED BY <1>1, <2>1, <2>2 DEF IndexInv, IndexTypes
<1>3. BuiltOK'
    BY <1>1 DEF IndexInv, BuiltOK
<1>4. LifecycleOK'
    BY <1>1 DEF IndexInv, IndexTypes, LifecycleOK
<1>. QED BY <1>2, <1>3, <1>4 DEF IndexInv

-----------------------------------------------------------------------------
LEMMA IndexInit == Init => IndexInv
<1>. SUFFICES ASSUME Init PROVE IndexInv
    OBVIOUS
<1>1. IndexTypes
    BY DEF Init, IndexTypes, Points
<1>2. BuiltOK /\ LifecycleOK
    BY FuturesAreNumbers DEF Init, BuiltOK, LifecycleOK
<1>. QED BY <1>1, <1>2 DEF IndexInv

LEMMA IndexNext == IndexInv /\ [Next]_vars => IndexInv'
<1>. SUFFICES ASSUME IndexInv, [Next]_vars PROVE IndexInv'
    OBVIOUS
<1>1. ASSUME NEW c \in Callers, Construct(c) \/ CallerStep(c) \/ CancelCreate(c) \/ CancelAwait(c)
      PROVE  IndexInv'
    BY <1>1, EnterStep, CreateStep, SettleStep, WaiterStep DEF CallerStep
<1>2. ASSUME NEW k \in Closers, RunHooks(k)
      PROVE  IndexInv'
    BY <1>2, HooksStep
<1>3. ASSUME NEW k \in Closers, CloseBegin(k) \/ CloseWoken(k) \/ CloseClient(k) \/ CloseNotify(k)
      PROVE  IndexInv'
    BY <1>3, OthersMove DEF CloseBegin, CloseWoken, CloseClient, CloseNotify, repository, calls
<1>4. CASE UNCHANGED vars
    BY <1>4, OthersMove DEF vars, repository, calls
<1>. QED BY <1>1, <1>2, <1>3, <1>4 DEF Next, CloserStep

LEMMA IndexAlways == Spec => []IndexInv
BY IndexInit, IndexNext, PTL DEF Spec

(* No operation proceeds before the unique index exists, whatever is closed,
   cancelled or fails on the way. *)
THEOREM IndexBeforeUse == Spec => []ReadyIsBuilt
<1>1. IndexInv => ReadyIsBuilt
    BY DEF IndexInv, BuiltOK, ReadyIsBuilt
<1>. QED BY <1>1, IndexAlways, PTL

(* However many callers race for it, a lifecycle asks for its index once. *)
THEOREM IndexedOnce == Spec => []OnceALifecycle
<1>1. IndexInv => OnceALifecycle
    BY DEF IndexInv, LifecycleOK, OnceALifecycle
<1>. QED BY <1>1, IndexAlways, PTL

-----------------------------------------------------------------------------
(* The client of MongoDB: types, and closing once *)

(* Who is at work in a close, and whose reset is still to come. *)
AtClosing == {"hooks", "close", "notify"}
Coming == {k \in Closers : at[k] \in {"wait", "woken", "hooks"}}

(* A close excludes every other, and there is no client while it runs. *)
OneCloses ==
    /\ \A k \in Closers : at[k] \in AtClosing => closing
    /\ \A j, k \in Closers : at[j] \in AtClosing /\ at[k] \in AtClosing => j = k
    /\ closing => client = 0

(* A reset belongs to a close of its own, and a client to the lifecycle that ends with    *)
(* the next reset.                                                                        *)
InHooks == IF \E k \in Closers : at[k] = "hooks" THEN 1 ELSE 0
InPlace == IF client # 0 THEN 1 ELSE 0
Counted ==
    /\ IsFiniteSet(Coming) /\ resets + Cardinality(Coming) <= begun
    /\ made <= resets + InHooks + InPlace

(* Only the client that is taken out of place is closed, and it has not been before. *)
ClosedAreGone ==
    /\ client <= made
    /\ \A g \in Clients : closed[g] <= 1 /\ (g > made => closed[g] = 0)
    /\ client # 0 => closed[client] = 0
    /\ \A k \in Closers : victim[k] <= made
    /\ \A k \in Closers :
          at[k] \in {"hooks", "close"} /\ victim[k] # 0 => closed[victim[k]] = 0

(* The future a caller works on is one that was published. *)
OnFuture == {"create", "record", "resolve", "record_error", "resolve_error", "await"}
FutureAtHand == \A c \in Callers : pc[c] \in OnFuture => fut[c] \in Futures

ClientInv == TypeOK /\ OneCloses /\ Counted /\ ClosedAreGone /\ FutureAtHand

(* What the counts allow: a future and a client are there for every lifecycle. *)
LEMMA Room ==
    ASSUME ClientInv
    PROVE  /\ resets \in Nat /\ resets <= begun /\ resets + 1 \in Futures
           /\ Cardinality(Coming) \in Nat
           /\ ~closing /\ client = 0 => made + 1 \in Clients /\ made <= resets
<1>1. /\ MaxCloses \in Nat /\ begun \in 0..MaxCloses /\ resets \in 0..MaxCloses
      /\ made \in 0..(MaxCloses + 1)
  BY ClosesAssumption DEF ClientInv, TypeOK
<1>2. Cardinality(Coming) \in Nat /\ resets + Cardinality(Coming) <= begun
  BY FS_CardinalityType DEF ClientInv, Counted
<1>3. resets <= begun /\ resets + 1 \in Futures
  BY <1>1, <1>2 DEF Futures
<1>4. ASSUME ~closing, client = 0 PROVE made + 1 \in Clients /\ made <= resets
  <2>1. InHooks = 0 /\ InPlace = 0
    BY <1>4 DEF ClientInv, OneCloses, AtClosing, InHooks, InPlace
  <2>2. made <= resets
    BY <1>1, <2>1 DEF ClientInv, Counted
  <2>3. QED
    BY <1>1, <2>2 DEF Clients
<1>5. QED
  BY <1>1, <1>2, <1>3, <1>4

(* Where a step of caller c leads: to a future wherever it is about to work on one. *)
Lands(c) ==
    \E point \in Points, f \in Futures \cup {0}, h \in Clients \cup {0} :
        /\ pc' = [pc EXCEPT ![c] = point]
        /\ fut' = [fut EXCEPT ![c] = f] /\ handle' = [handle EXCEPT ![c] = h]
        /\ point \in OnFuture => f \in Futures

LEMMA StayLands ==
    ASSUME ClientInv, NEW c \in Callers, NEW point \in Points, Stay(c, point),
           point \in OnFuture => fut[c] \in Futures
    PROVE  Lands(c)
<1>1. fut[c] \in Futures \cup {0} /\ handle[c] \in Clients \cup {0}
  BY DEF ClientInv, TypeOK
<1>2. fut' = [fut EXCEPT ![c] = fut[c]] /\ handle' = [handle EXCEPT ![c] = handle[c]]
  BY DEF Stay, ClientInv, TypeOK
<1>3. QED
  BY <1>1, <1>2 DEF Stay, Goto, Lands

LEMMA CallerLands ==
    ASSUME ClientInv, NEW c \in Callers,
           CallerStep(c) \/ CancelCreate(c) \/ CancelAwait(c)
    PROVE  Lands(c)
<1>1. CASE Serve(c) \/ Raise(c)
  BY <1>1 DEF Serve, Raise, Leave, Goto, Points, Lands, OnFuture
<1>2. CASE Initiate(c)
  <2>1. resets + 1 \in Futures /\ handle[c] \in Clients \cup {0}
        /\ handle' = [handle EXCEPT ![c] = handle[c]]
    BY <1>2, Room DEF Initiate, ClientInv, TypeOK
  <2>2. QED
    BY <1>2, <2>1 DEF Initiate, Goto, Points, Lands
<1>3. CASE current # 0 /\ fut' = [fut EXCEPT ![c] = current] /\ Goto(c, "await")
           /\ UNCHANGED handle
  <2>1. current \in Futures /\ handle[c] \in Clients \cup {0}
        /\ handle' = [handle EXCEPT ![c] = handle[c]]
    BY <1>3 DEF ClientInv, TypeOK
  <2>2. QED
    BY <1>3, <2>1 DEF Goto, Points, Lands
<1>4. CASE Stay(c, "check")
  BY <1>4, StayLands DEF Points, OnFuture
<1>5. CASE /\ pc[c] \in OnFuture
           /\ \E point \in {"record", "record_error", "resolve", "resolve_error"} : Stay(c, point)
  <2>1. fut[c] \in Futures
    BY <1>5 DEF ClientInv, FutureAtHand
  <2>2. QED
    BY <1>5, <2>1, StayLands DEF Points
<1>6. CASE Enter(c)
  BY <1>1, <1>2, <1>3, <1>6 DEF Enter
<1>7. CASE Create(c) \/ Record(c) \/ Resolve(c) \/ RecordError(c)
  BY <1>1, <1>5, <1>7 DEF Create, Record, Resolve, RecordError, OnFuture
<1>8. CASE ResolveError(c) \/ Await(c) \/ Check(c) \/ CancelCreate(c) \/ CancelAwait(c)
  BY <1>1, <1>4, <1>8 DEF ResolveError, Await, Check, CancelCreate, CancelAwait
<1>9. QED
  BY <1>6, <1>7, <1>8 DEF CallerStep

(* A step of a caller that constructs no client. *)
LEMMA CallerKeepsClient ==
    ASSUME ClientInv, NEW c \in Callers,
           CallerStep(c) \/ CancelCreate(c) \/ CancelAwait(c)
    PROVE  ClientInv'
<1>1. UNCHANGED <<client, made, closing, at, victim, begun, resets, closed>>
  BY DEF CallerStep, CancelCreate, CancelAwait, Enter, Create, Record, Resolve, RecordError,
     ResolveError, Await, Check, manager, closers
<1>2. OneCloses' /\ Counted' /\ ClosedAreGone'
  <2>1. Coming' = Coming /\ InHooks' = InHooks /\ InPlace' = InPlace
    BY <1>1 DEF Coming, InHooks, InPlace
  <2>2. QED
    BY <1>1, <2>1 DEF ClientInv, OneCloses, Counted, ClosedAreGone
<1>3. /\ future' \in [Futures -> {"pending", "resolved", "cancelled"}]
      /\ current' \in Futures \cup {0} /\ ready' \in BOOLEAN /\ failed' \in BOOLEAN
  <2>1. resets + 1 \in Futures
    BY Room
  <2>2. future' \in [Futures -> {"pending", "resolved", "cancelled"}]
    BY DEF CallerStep, CancelCreate, CancelAwait, Enter, Create, Record, Resolve, RecordError,
       ResolveError, Await, Check, ClientInv, TypeOK
  <2>3. QED
    BY <2>1, <2>2 DEF CallerStep, CancelCreate, CancelAwait, Enter, Initiate, Create, Record,
       Resolve, RecordError, ResolveError, Await, Check, repository, ClientInv, TypeOK
<1>4. built' \in BOOLEAN /\ served' \in BOOLEAN /\ orphans' \subseteq Futures
  <2>1. built' \in BOOLEAN /\ served' \in BOOLEAN
    BY DEF CallerStep, CancelCreate, CancelAwait, Enter, Initiate, Create, Record, Resolve,
       RecordError, ResolveError, Await, Check, Stay, Serve, Raise, ClientInv, TypeOK
  <2>2. CASE CancelCreate(c)
    BY <2>1, <2>2 DEF CancelCreate, ClientInv, TypeOK, FutureAtHand, OnFuture
  <2>3. CASE CallerStep(c) \/ CancelAwait(c)
    <3>1. orphans' = orphans
      BY <2>3 DEF CallerStep, CancelAwait, Enter, Create, Record, Resolve, RecordError,
         ResolveError, Await, Check
    <3>2. QED
      BY <2>1, <3>1 DEF ClientInv, TypeOK
  <2>4. QED
    BY <2>1, <2>2, <2>3
<1>5. issued' \in [Futures -> Nat]
  <2>1. CASE issued' = issued
    BY <2>1 DEF ClientInv, TypeOK
  <2>2. CASE issued' = [issued EXCEPT ![resets + 1] = @ + 1]
    <3>1. \A f \in Futures : issued[f] \in Nat /\ issued[f] + 1 \in Nat
      BY DEF ClientInv, TypeOK
    <3>2. issued' = [f \in Futures |-> IF f = resets + 1 THEN issued[f] + 1 ELSE issued[f]]
      BY <2>2 DEF ClientInv, TypeOK
    <3>3. QED
      BY <3>1, <3>2
  <2>3. QED
    BY <2>1, <2>2 DEF CallerStep, CancelCreate, CancelAwait, Enter, Initiate, Create, Record,
       Resolve, RecordError, ResolveError, Await, Check
<1>6. Lands(c)
  BY CallerLands
<1>7. PICK point \in Points, f \in Futures \cup {0}, h \in Clients \cup {0} :
         /\ pc' = [pc EXCEPT ![c] = point]
         /\ fut' = [fut EXCEPT ![c] = f] /\ handle' = [handle EXCEPT ![c] = h]
         /\ point \in OnFuture => f \in Futures
  BY <1>6 DEF Lands
<1>8. /\ pc' \in [Callers -> Points] /\ fut' \in [Callers -> Futures \cup {0}]
      /\ handle' \in [Callers -> Clients \cup {0}]
  BY <1>7 DEF ClientInv, TypeOK
<1>9. TypeOK'
  BY <1>1, <1>3, <1>4, <1>5, <1>8 DEF ClientInv, TypeOK
<1>10. FutureAtHand'
  BY <1>7 DEF ClientInv, TypeOK, FutureAtHand
<1>11. QED
  BY <1>2, <1>9, <1>10 DEF ClientInv

(* get_client: the client is one that was not closed, since it is new. *)
LEMMA ConstructKeepsClient ==
    ASSUME ClientInv, NEW c \in Callers, Construct(c)
    PROVE  ClientInv'
<1>1. /\ ~closing /\ pc' = [pc EXCEPT ![c] = "enter"] /\ handle' = [handle EXCEPT ![c] = client']
      /\ UNCHANGED <<closing, current, ready, failed, future, fut, at, victim, built, served,
                     begun, resets, issued, orphans, closed>>
  BY DEF Construct, Goto, repository, closers
<1>2. \/ client = 0 /\ made' = made + 1 /\ client' = made + 1
      \/ client # 0 /\ UNCHANGED <<made, client>>
  BY DEF Construct
<1>3. /\ MaxCloses \in Nat /\ made \in 0..(MaxCloses + 1) /\ client \in Clients \cup {0}
      /\ Clients = 1..(MaxCloses + 1)
  BY ClosesAssumption DEF ClientInv, TypeOK, Clients
<1>4. client' \in Clients /\ client' # 0 /\ made' \in 0..(MaxCloses + 1) /\ made <= made'
  BY <1>1, <1>2, <1>3, Room
<1>5. TypeOK'
  <2>1. handle' \in [Callers -> Clients \cup {0}] /\ pc' \in [Callers -> Points]
    BY <1>1, <1>4 DEF ClientInv, TypeOK, Points
  <2>2. QED
    BY <1>1, <1>4, <2>1 DEF ClientInv, TypeOK
<1>6. OneCloses'
  BY <1>1 DEF ClientInv, OneCloses
<1>7. Counted'
  <2>1. Coming' = Coming /\ InHooks' = InHooks
    BY <1>1 DEF Coming, InHooks
  <2>2. made' <= resets + InHooks + InPlace'
    <3>1. InPlace' = 1 /\ InHooks \in {0, 1}
      BY <1>4 DEF InPlace, InHooks
    <3>2. CASE client = 0
      <4>1. made <= resets /\ resets \in Nat
        BY <1>1, <3>2, Room
      <4>2. QED
        BY <1>2, <1>3, <3>1, <3>2, <4>1
    <3>3. CASE client # 0
      BY <1>2, <3>1, <3>3 DEF ClientInv, Counted, InPlace
    <3>4. QED
      BY <3>2, <3>3
  <2>3. QED
    BY <1>1, <2>1, <2>2 DEF ClientInv, Counted
<1>8. ClosedAreGone'
  <2>1. client' <= made' /\ closed'[client'] = 0
    BY <1>1, <1>2, <1>3, <1>4 DEF ClientInv, ClosedAreGone
  <2>2. \A k \in Closers : victim[k] \in Clients \cup {0}
    BY DEF ClientInv, TypeOK
  <2>3. \A k \in Closers : victim[k] <= made'
    BY <1>3, <1>4, <2>2 DEF ClientInv, ClosedAreGone
  <2>4. \A g \in Clients : closed[g] <= 1 /\ (g > made' => closed[g] = 0)
    BY <1>3, <1>4 DEF ClientInv, ClosedAreGone
  <2>5. QED
    BY <1>1, <2>1, <2>3, <2>4 DEF ClientInv, ClosedAreGone
<1>9. FutureAtHand'
  BY <1>1 DEF ClientInv, TypeOK, FutureAtHand, OnFuture
<1>10. QED
  BY <1>5, <1>6, <1>7, <1>8, <1>9 DEF ClientInv

(* Taking the client out of place and closing it are steps of the one who closes. *)
LEMMA TakeKeepsClient ==
    ASSUME ClientInv, NEW k \in Closers, at[k] \in {"idle", "woken"}, ~closing, Take(k),
           IsFiniteSet(Coming'), begun' \in 0..MaxCloses,
           resets + Cardinality(Coming') <= begun',
           UNCHANGED <<made, repository, future, calls, built, served, resets, issued, orphans,
                       closed>>
    PROVE  ClientInv'
<1>1. /\ closing' = TRUE /\ client' = 0
      /\ victim' = [victim EXCEPT ![k] = client] /\ at' = [at EXCEPT ![k] = "hooks"]
  BY DEF Take, At
<1>2. \A j \in Closers : /\ at'[j] = IF j = k THEN "hooks" ELSE at[j]
                         /\ victim'[j] = IF j = k THEN client ELSE victim[j]
  BY <1>1 DEF ClientInv, TypeOK
<1>3. \A j \in Closers : at[j] \notin AtClosing
  BY DEF ClientInv, OneCloses
<1>4. TypeOK'
  <2>1. at' \in [Closers -> ClosePoints] /\ victim' \in [Closers -> Clients \cup {0}]
    BY <1>1 DEF ClientInv, TypeOK, ClosePoints
  <2>2. QED
    BY <1>1, <2>1 DEF ClientInv, TypeOK, repository, calls
<1>5. OneCloses'
  BY <1>1, <1>2, <1>3 DEF OneCloses, AtClosing
<1>6. Counted'
  <2>1. InHooks = 0 /\ InHooks' = 1 /\ InPlace' = 0 /\ InPlace \in {0, 1}
    BY <1>1, <1>2, <1>3 DEF InHooks, InPlace, AtClosing
  <2>2. made <= resets + 1 + 0
    BY <2>1 DEF ClientInv, Counted, TypeOK
  <2>3. QED
    BY <2>1, <2>2 DEF Counted
<1>7. ClosedAreGone'
  BY <1>1, <1>2, <1>3 DEF ClientInv, TypeOK, ClosedAreGone, AtClosing
<1>8. FutureAtHand'
  BY DEF ClientInv, FutureAtHand, calls
<1>9. QED
  BY <1>4, <1>5, <1>6, <1>7, <1>8 DEF ClientInv

(* The reset to come of one more, or one less, close. *)
LEMMA OneMoreComes ==
    ASSUME ClientInv, NEW k \in Closers, at[k] = "idle", NEW point \in {"wait", "hooks"},
           at' = [at EXCEPT ![k] = point]
    PROVE  IsFiniteSet(Coming') /\ Cardinality(Coming') = Cardinality(Coming) + 1
<1>1. Coming' = Coming \cup {k} /\ k \notin Coming
  BY DEF Coming, ClientInv, TypeOK
<1>2. QED
  BY <1>1, FS_AddElement DEF ClientInv, Counted

LEMMA OneLessComes ==
    ASSUME ClientInv, NEW k \in Closers, at[k] \in {"woken", "hooks"},
           NEW point \in {"idle", "close"}, at' = [at EXCEPT ![k] = point]
    PROVE  /\ IsFiniteSet(Coming')
           /\ Cardinality(Coming') = Cardinality(Coming) - 1 /\ Cardinality(Coming) \in Nat
<1>1. Coming' = Coming \ {k} /\ k \in Coming
  BY DEF Coming, ClientInv, TypeOK
<1>2. QED
  BY <1>1, FS_RemoveElement, FS_CardinalityType DEF ClientInv, Counted

(* Who waits for the close of another, or is through without one. *)
LEMMA WaitKeepsClient ==
    ASSUME ClientInv, NEW k \in Closers, at[k] \in {"idle", "woken"},
           NEW point \in {"wait", "idle"}, at' = [at EXCEPT ![k] = point],
           IsFiniteSet(Coming'), begun' \in 0..MaxCloses,
           resets + Cardinality(Coming') <= begun',
           UNCHANGED <<manager, victim, repository, future, calls, built, served, resets, issued,
                       orphans, closed>>
    PROVE  ClientInv'
<1>1. \A j \in Closers : at'[j] = IF j = k THEN point ELSE at[j]
  BY DEF ClientInv, TypeOK
<1>2. TypeOK'
  BY DEF ClientInv, TypeOK, ClosePoints, manager, repository, calls
<1>3. OneCloses'
  BY <1>1 DEF ClientInv, OneCloses, AtClosing, manager
<1>4. Counted'
  <2>1. InHooks' = InHooks /\ InPlace' = InPlace
    BY <1>1 DEF InHooks, InPlace, manager
  <2>2. QED
    BY <2>1 DEF ClientInv, Counted, manager
<1>5. ClosedAreGone'
  BY <1>1 DEF ClientInv, ClosedAreGone, manager
<1>6. FutureAtHand'
  BY DEF ClientInv, FutureAtHand, calls
<1>7. QED
  BY <1>2, <1>3, <1>4, <1>5, <1>6 DEF ClientInv

LEMMA BeginKeepsClient ==
    ASSUME ClientInv, NEW k \in Closers, CloseBegin(k)
    PROVE  ClientInv'
<1>1. /\ at[k] = "idle" /\ begun < MaxCloses /\ begun' = begun + 1
      /\ UNCHANGED <<made, repository, future, calls, built, served, resets, issued, orphans,
                     closed>>
  BY DEF CloseBegin
<1>2. \E point \in {"wait", "hooks"} : at' = [at EXCEPT ![k] = point]
  BY DEF CloseBegin, Take, At
<1>3. /\ IsFiniteSet(Coming') /\ begun' \in 0..MaxCloses
      /\ resets + Cardinality(Coming') <= begun'
  <2>1. IsFiniteSet(Coming') /\ Cardinality(Coming') = Cardinality(Coming) + 1
    BY <1>1, <1>2, OneMoreComes
  <2>2. begun \in 0..MaxCloses /\ MaxCloses \in Nat /\ resets \in Nat
        /\ Cardinality(Coming) \in Nat /\ resets + Cardinality(Coming) <= begun
    BY ClosesAssumption, Room DEF ClientInv, TypeOK, Counted
  <2>3. QED
    BY <1>1, <2>1, <2>2
<1>4. CASE ~closing
  BY <1>1, <1>3, <1>4, TakeKeepsClient DEF CloseBegin
<1>5. CASE closing
  <2>1. at' = [at EXCEPT ![k] = "wait"] /\ UNCHANGED <<manager, victim>>
    BY <1>1, <1>5 DEF CloseBegin, At, manager
  <2>2. QED
    BY <1>1, <1>3, <2>1, WaitKeepsClient
<1>6. QED
  BY <1>4, <1>5

LEMMA WokenKeepsClient ==
    ASSUME ClientInv, NEW k \in Closers, CloseWoken(k)
    PROVE  ClientInv'
<1>1. /\ at[k] = "woken" /\ begun \in 0..MaxCloses
      /\ UNCHANGED <<made, repository, future, calls, built, served, begun, resets, issued,
                     orphans, closed>>
  BY DEF CloseWoken, ClientInv, TypeOK
<1>2. /\ IsFiniteSet(Coming) /\ resets + Cardinality(Coming) <= begun
      /\ Cardinality(Coming) \in Nat /\ resets \in Nat /\ begun \in Nat
  BY Room DEF ClientInv, Counted, TypeOK
<1>3. CASE client = 0
  <2>1. at' = [at EXCEPT ![k] = "idle"] /\ UNCHANGED <<manager, victim>>
    BY <1>1, <1>3 DEF CloseWoken, At, manager
  <2>2. IsFiniteSet(Coming') /\ Cardinality(Coming') = Cardinality(Coming) - 1
    BY <1>1, <2>1, OneLessComes
  <2>3. resets + Cardinality(Coming') <= begun
    BY <1>2, <2>2
  <2>4. QED
    BY <1>1, <2>1, <2>2, <2>3, WaitKeepsClient
<1>4. ASSUME NEW point \in {"wait", "hooks"}, at' = [at EXCEPT ![k] = point]
      PROVE  Coming' = Coming
  BY <1>1, <1>4 DEF Coming, ClientInv, TypeOK
<1>5. CASE client # 0 /\ closing
  <2>1. at' = [at EXCEPT ![k] = "wait"] /\ UNCHANGED <<manager, victim>>
    BY <1>1, <1>5 DEF CloseWoken, At, manager
  <2>2. QED
    BY <1>1, <1>2, <1>4, <2>1, WaitKeepsClient
<1>6. CASE client # 0 /\ ~closing
  <2>1. Take(k) /\ at' = [at EXCEPT ![k] = "hooks"]
    BY <1>1, <1>6 DEF CloseWoken, Take, At
  <2>2. QED
    BY <1>1, <1>2, <1>4, <1>6, <2>1, TakeKeepsClient
<1>7. QED
  BY <1>3, <1>5, <1>6

LEMMA HooksKeepClient ==
    ASSUME ClientInv, NEW k \in Closers, RunHooks(k)
    PROVE  ClientInv'
<1>1. /\ at[k] = "hooks" /\ at' = [at EXCEPT ![k] = "close"]
      /\ current' = 0 /\ ready' = FALSE /\ failed' = FALSE /\ resets' = resets + 1
      /\ UNCHANGED <<client, made, closing, future, pc, fut, handle, victim, built, served, begun,
                     issued, orphans, closed>>
  BY DEF RunHooks, At, manager, calls
<1>2. \A j \in Closers : at'[j] = IF j = k THEN "close" ELSE at[j]
  BY <1>1 DEF ClientInv, TypeOK
<1>3. /\ IsFiniteSet(Coming') /\ resets' + Cardinality(Coming') <= begun
      /\ resets' \in 0..MaxCloses
  <2>1. /\ IsFiniteSet(Coming') /\ Cardinality(Coming') = Cardinality(Coming) - 1
        /\ Cardinality(Coming') \in Nat
    BY <1>1, OneLessComes, FS_CardinalityType
  <2>2. /\ resets \in Nat /\ Cardinality(Coming) \in Nat /\ begun \in 0..MaxCloses
        /\ MaxCloses \in Nat /\ resets + Cardinality(Coming) <= begun
    BY Room, ClosesAssumption DEF ClientInv, Counted, TypeOK
  <2>3. QED
    BY <1>1, <2>1, <2>2
<1>4. TypeOK'
  BY <1>1, <1>3 DEF ClientInv, TypeOK, ClosePoints
<1>5. OneCloses'
  BY <1>1, <1>2 DEF ClientInv, OneCloses, AtClosing
<1>6. Counted'
  <2>1. InHooks = 1 /\ InHooks' = 0 /\ InPlace' = InPlace /\ InPlace \in {0, 1}
    BY <1>1, <1>2 DEF ClientInv, OneCloses, AtClosing, InHooks, InPlace
  <2>2. made <= (resets + 1) + 0 + InPlace
    BY <2>1 DEF ClientInv, Counted, TypeOK
  <2>3. QED
    BY <1>1, <1>3, <2>1, <2>2 DEF Counted
<1>7. ClosedAreGone'
  BY <1>1, <1>2 DEF ClientInv, ClosedAreGone
<1>8. FutureAtHand'
  BY <1>1 DEF ClientInv, FutureAtHand
<1>9. QED
  BY <1>4, <1>5, <1>6, <1>7, <1>8 DEF ClientInv

LEMMA CloseKeepsClient ==
    ASSUME ClientInv, NEW k \in Closers, CloseClient(k)
    PROVE  ClientInv'
<1>1. /\ at[k] = "close" /\ at' = [at EXCEPT ![k] = "notify"]
      /\ closed' = IF victim[k] = 0 THEN closed ELSE [closed EXCEPT ![victim[k]] = @ + 1]
      /\ UNCHANGED <<client, made, closing, current, ready, failed, future, pc, fut, handle,
                     victim, built, served, begun, resets, issued, orphans>>
  BY DEF CloseClient, At, manager, repository, calls
<1>2. \A j \in Closers : at'[j] = IF j = k THEN "notify" ELSE at[j]
  BY <1>1 DEF ClientInv, TypeOK
<1>3. client = 0 /\ \A j \in Closers \ {k} : at[j] \notin AtClosing
  BY <1>1 DEF ClientInv, OneCloses, AtClosing
<1>4. \A g \in Clients : closed[g] \in Nat
                         /\ closed'[g] = IF g = victim[k] THEN closed[g] + 1 ELSE closed[g]
  <2>1. 0 \notin Clients
    BY DEF Clients
  <2>2. QED
    BY <1>1, <2>1 DEF ClientInv, TypeOK
<1>5. closed' \in [Clients -> Nat]
  <2>1. closed' = [g \in Clients |-> closed'[g]]
    BY <1>1 DEF ClientInv, TypeOK
  <2>2. \A g \in Clients : closed'[g] \in Nat
    BY <1>4
  <2>3. QED
    BY <2>1, <2>2
<1>6. TypeOK'
  BY <1>1, <1>5 DEF ClientInv, TypeOK, ClosePoints
<1>7. OneCloses'
  BY <1>1, <1>2 DEF ClientInv, OneCloses, AtClosing
<1>8. Counted'
  <2>1. Coming' = Coming /\ InHooks' = InHooks /\ InPlace' = InPlace
    BY <1>1, <1>2 DEF Coming, InHooks, InPlace
  <2>2. QED
    BY <1>1, <2>1 DEF ClientInv, Counted
<1>9. ClosedAreGone'
  <2>1. ASSUME NEW g \in Clients
        PROVE  closed'[g] <= 1 /\ (g > made => closed'[g] = 0)
    <3>1. CASE g = victim[k]
      <4>1. closed[g] = 0 /\ g <= made
        BY <1>1, <3>1 DEF ClientInv, ClosedAreGone, Clients
      <4>2. g \in Nat /\ made \in Nat
        BY ClosesAssumption DEF ClientInv, TypeOK, Clients
      <4>3. QED
        BY <1>4, <3>1, <4>1, <4>2
    <3>2. CASE g # victim[k]
      BY <1>4, <3>2 DEF ClientInv, ClosedAreGone
    <3>3. QED
      BY <3>1, <3>2
  <2>2. \A j \in Closers : at'[j] \notin {"hooks", "close"}
    BY <1>2, <1>3 DEF AtClosing
  <2>3. QED
    BY <1>1, <1>3, <2>1, <2>2 DEF ClientInv, ClosedAreGone
<1>10. FutureAtHand'
  BY <1>1 DEF ClientInv, FutureAtHand
<1>11. QED
  BY <1>6, <1>7, <1>8, <1>9, <1>10 DEF ClientInv

LEMMA NotifyKeepsClient ==
    ASSUME ClientInv, NEW k \in Closers, CloseNotify(k)
    PROVE  ClientInv'
<1>1. /\ at[k] = "notify" /\ closing' = FALSE /\ victim' = [victim EXCEPT ![k] = 0]
      /\ at' = [j \in Closers |-> IF j = k THEN "idle"
                                  ELSE IF at[j] = "wait" THEN "woken" ELSE at[j]]
      /\ UNCHANGED <<client, made, current, ready, failed, future, pc, fut, handle, built, served,
                     begun, resets, issued, orphans, closed>>
  BY DEF CloseNotify, repository, calls
<1>2. /\ \A j \in Closers : victim'[j] \in {victim[j], 0}
      /\ \A j \in Closers \ {k} : at[j] \notin AtClosing
  BY <1>1 DEF ClientInv, TypeOK, OneCloses, AtClosing
<1>3. \A j \in Closers : at'[j] \notin AtClosing
  BY <1>1, <1>2 DEF AtClosing
<1>4. TypeOK'
  BY <1>1 DEF ClientInv, TypeOK, ClosePoints
<1>5. OneCloses'
  BY <1>1, <1>3 DEF OneCloses
<1>6. Counted'
  <2>1. Coming' = Coming
    BY <1>1 DEF Coming
  <2>2. InHooks = 0 /\ InHooks' = 0 /\ InPlace' = InPlace
    BY <1>1, <1>2, <1>3 DEF InHooks, InPlace, AtClosing
  <2>3. QED
    BY <1>1, <2>1, <2>2 DEF ClientInv, Counted
<1>7. ClosedAreGone'
  <2>1. \A j \in Closers : victim'[j] <= made
    BY <1>2 DEF ClientInv, ClosedAreGone, TypeOK
  <2>2. QED
    BY <1>1, <1>3, <2>1 DEF ClientInv, ClosedAreGone, AtClosing
<1>8. FutureAtHand'
  BY <1>1 DEF ClientInv, FutureAtHand
<1>9. QED
  BY <1>4, <1>5, <1>6, <1>7, <1>8 DEF ClientInv

LEMMA ClientInit == Init => ClientInv
<1> SUFFICES ASSUME Init PROVE ClientInv
  OBVIOUS
<1>1. TypeOK
  <2>1. 0 \in 0..MaxCloses /\ 0 \in 0..(MaxCloses + 1)
    BY ClosesAssumption
  <2>2. /\ future \in [Futures -> {"pending", "resolved", "cancelled"}]
        /\ issued \in [Futures -> Nat] /\ closed \in [Clients -> Nat]
    BY DEF Init
  <2>3. /\ pc \in [Callers -> Points] /\ at \in [Closers -> ClosePoints]
        /\ fut \in [Callers -> Futures \cup {0}] /\ handle \in [Callers -> Clients \cup {0}]
        /\ victim \in [Closers -> Clients \cup {0}]
    BY DEF Init, Points, ClosePoints
  <2>4. QED
    BY <2>1, <2>2, <2>3 DEF Init, TypeOK
<1>2. OneCloses /\ ClosedAreGone /\ FutureAtHand
  BY DEF Init, OneCloses, AtClosing, ClosedAreGone, FutureAtHand, OnFuture
<1>3. Counted
  <2>1. Coming = {} /\ InHooks = 0 /\ InPlace = 0
    BY DEF Init, Coming, InHooks, InPlace
  <2>2. QED
    BY <2>1, FS_EmptySet DEF Init, Counted
<1>4. QED
  BY <1>1, <1>2, <1>3 DEF ClientInv

LEMMA ClientNext == ClientInv /\ [Next]_vars => ClientInv'
<1> SUFFICES ASSUME ClientInv, [Next]_vars PROVE ClientInv'
  OBVIOUS
<1>1. ASSUME NEW c \in Callers, Construct(c) \/ CallerStep(c) \/ CancelCreate(c) \/ CancelAwait(c)
      PROVE  ClientInv'
  BY <1>1, ConstructKeepsClient, CallerKeepsClient
<1>2. ASSUME NEW k \in Closers, CloseBegin(k) \/ CloserStep(k)
      PROVE  ClientInv'
  BY <1>2, BeginKeepsClient, WokenKeepsClient, HooksKeepClient, CloseKeepsClient,
     NotifyKeepsClient DEF CloserStep
<1>3. CASE UNCHANGED vars
  BY <1>3 DEF vars, manager, repository, calls, closers, ClientInv, TypeOK, OneCloses, Counted,
     Coming, InHooks, InPlace, ClosedAreGone, FutureAtHand
<1>4. QED
  BY <1>1, <1>2, <1>3 DEF Next

LEMMA ClientAlways == Spec => []ClientInv
  BY ClientInit, ClientNext, PTL DEF Spec

(* Every variable of the index lifecycle has its type; in particular there are a client   *)
(* and a future for every lifecycle, and never more.                                       *)
THEOREM IndexTypeCorrect == Spec => []TypeOK
<1>1. ClientInv => TypeOK
  BY DEF ClientInv
<1>2. QED
  BY <1>1, ClientAlways, PTL

(* However many calls of close race with one another and with the callers, no client is   *)
(* closed twice and no closed one is handed out.                                           *)
THEOREM ClientsClosedOnce == Spec => []ClosedOnce
<1>1. ClientInv => ClosedOnce
  BY DEF ClientInv, ClosedAreGone, ClosedOnce
<1>2. QED
  BY <1>1, ClientAlways, PTL

-----------------------------------------------------------------------------
(* The browser: the inductive invariant *)

Stages == {"idle", "reading", "checking", "unlinking", "launching", "present", "port", "spawn",
           "truncate", "write", "connecting", "again", "connected", "failed"}

Markers == [kind : {"absent", "torn", "owner"}, pid : Pids \cup {Nobody},
            birth : Programs \cup {Nobody}]

BrowserTypes ==
    /\ state \in [Programs -> {"unborn", "starting", "open", "leaving", "dead"}]
    /\ launcher \in [Programs -> {"nobody", "agent", "other"}]
    /\ pidOf \in [Programs -> Pids \cup {Nobody}]
    /\ port \in Programs \cup {Nobody}
    /\ marker \in Markers
    /\ stage \in [Agents -> Stages]
    /\ purpose \in [Agents -> {"first", "attach", "retry", "launch"}]
    /\ seen \in [Agents -> Markers] /\ mine \in [Agents -> Markers]
    /\ verified \in [Agents -> Programs \cup {Nobody}]
    /\ unmarked \subseteq Programs /\ overlapped \in BOOLEAN

(* Only what the agent launched is ever named by a marker or verified; what is not born   *)
(* has no launcher, so that nothing is named before its time.                             *)
NamesBrowsers ==
    /\ \A i \in Programs : state[i] = "unborn" => launcher[i] = "nobody"
    /\ marker.birth \in Browsers \cup {Nobody}
    /\ \A a \in Agents :
          {seen[a].birth, mine[a].birth, verified[a]} \subseteq Browsers \cup {Nobody}

(* One agent at a time, until two overlap. *)
OneAtWork ==
    ~overlapped => \A a, b \in Agents : a = b \/ stage[a] \in Resting \/ stage[b] \in Resting

(* The marker an agent is about to write names its browser, while that lives. *)
MineIsTrue ==
    \A a \in Agents :
        /\ \A i \in Programs : Alive(i) /\ mine[a].birth = i => mine[a].pid = pidOf[i]
        /\ stage[a] \in {"truncate", "write"} => mine[a].kind = "owner"

(* What an agent at this stage knows of the marker, as long as it is the only one at work. *)
Knows(a) ==
    /\ stage[a] = "checking" => seen[a] = marker
    /\ stage[a] = "unlinking" => \A i \in Living : marker # Naming(pidOf[i], i)
    /\ stage[a] \in {"port", "spawn", "truncate"} => marker = Absent
    /\ stage[a] = "write" => marker = Torn

(* A living browser is the one the marker names, or known to have none. *)
MarkerIsTrue ==
    ~overlapped =>
        /\ \A i \in Living \ unmarked : marker = Naming(pidOf[i], i)
        /\ \A a \in Agents : Knows(a)

BrowserInv == BrowserTypes /\ NamesBrowsers /\ OneAtWork /\ MineIsTrue /\ MarkerIsTrue

-----------------------------------------------------------------------------
(* How the stages move *)

LEMMA MarkersTyped ==
    /\ Absent \in Markers /\ Torn \in Markers
    /\ \A p \in Pids \cup {Nobody}, i \in Programs \cup {Nobody} : Naming(p, i) \in Markers
    /\ Absent.birth = Nobody /\ Torn.birth = Nobody
    /\ \A p, i : /\ Naming(p, i).pid = p /\ Naming(p, i).birth = i
                 /\ Naming(p, i).kind = "owner"
                 /\ Naming(p, i) # Absent /\ Naming(p, i) # Torn
    /\ Nobody \notin Programs
  BY DEF Markers, Absent, Torn, Naming, Nobody, Programs

(* Where a verification leads. *)
LEMMA Verdicts ==
    ASSUME BrowserTypes, NEW a \in Agents, Owned(a) \/ NotOwned(a)
    PROVE  /\ \E point \in {"reading", "connecting", "failed", "launching", "present", "again"} :
                 stage' = [stage EXCEPT ![a] = point]
           /\ purpose' \in [Agents -> {"first", "attach", "retry", "launch"}]
<1>1. purpose[a] \in {"first", "attach", "retry", "launch"}
  BY DEF BrowserTypes
<1>2. CASE Owned(a)
  BY <1>1, <1>2 DEF Owned, Verify, Proceed, BrowserTypes
<1>3. CASE NotOwned(a)
  BY <1>1, <1>3 DEF NotOwned, Verify, Proceed, BrowserTypes
<1>4. QED
  BY <1>2, <1>3

(* The stages at which an agent knows something of the marker. *)
Knowing == {"checking", "unlinking", "port", "spawn", "truncate", "write"}

(* A step of one agent that leaves the machine and the marker alone, and is not on the    *)
(* way to write one.                                                                       *)
QuietStep(a) ==
    /\ \E point \in Stages \ {"truncate", "write"} :
          /\ stage' = [stage EXCEPT ![a] = point]
          /\ stage[a] \notin Resting \/ point \in Resting
    /\ purpose' \in [Agents -> {"first", "attach", "retry", "launch"}]
    /\ seen' = seen \/ seen' = [seen EXCEPT ![a] = Absent] \/ seen' = [seen EXCEPT ![a] = marker]
    /\ mine' = mine \/ mine' = [mine EXCEPT ![a] = Absent]
    /\ \/ verified' = verified \/ verified' = [verified EXCEPT ![a] = Nobody]
       \/ port \in Browsers /\ verified' = [verified EXCEPT ![a] = port]
    /\ UNCHANGED <<machine, marker, unmarked, overlapped>>

LEMMA QuietTypes ==
    ASSUME BrowserInv, NEW a \in Agents, QuietStep(a)
    PROVE  BrowserTypes' /\ NamesBrowsers'
<1>1. UNCHANGED <<state, launcher, pidOf, port, marker, unmarked, overlapped>>
  BY DEF QuietStep, machine
<1>2. stage' \in [Agents -> Stages]
  BY DEF QuietStep, BrowserInv, BrowserTypes
<1>3. seen' \in [Agents -> Markers] /\ mine' \in [Agents -> Markers]
  BY MarkersTyped DEF QuietStep, BrowserInv, BrowserTypes
<1>4. verified' \in [Agents -> Programs \cup {Nobody}]
  BY DEF QuietStep, BrowserInv, BrowserTypes, Browsers
<1>5. BrowserTypes'
  BY <1>1, <1>2, <1>3, <1>4 DEF QuietStep, BrowserInv, BrowserTypes
<1>6. Browsers' = Browsers
  BY <1>1 DEF Browsers
<1>7. ASSUME NEW b \in Agents
      PROVE  {seen'[b].birth, mine'[b].birth, verified'[b]} \subseteq Browsers \cup {Nobody}
  <2>1. seen'[b] \in {seen[b], Absent, marker}
    BY DEF QuietStep, BrowserInv, BrowserTypes
  <2>2. mine'[b] \in {mine[b], Absent}
    BY DEF QuietStep, BrowserInv, BrowserTypes
  <2>3. verified'[b] \in {verified[b], Nobody} \cup Browsers
    BY DEF QuietStep, BrowserInv, BrowserTypes
  <2>4. QED
    BY <2>1, <2>2, <2>3, MarkersTyped DEF BrowserInv, NamesBrowsers
<1>8. QED
  BY <1>1, <1>5, <1>6, <1>7 DEF BrowserInv, NamesBrowsers

(* No step of an agent at work, and no rest, puts a second one to work. *)
LEMMA StillOneAtWork ==
    ASSUME BrowserTypes, OneAtWork, NEW a \in Agents, NEW point \in Stages,
           stage' = [stage EXCEPT ![a] = point], stage[a] \notin Resting \/ point \in Resting,
           overlapped' = overlapped
    PROVE  OneAtWork'
<1> SUFFICES ASSUME ~overlapped, NEW b \in Agents, NEW d \in Agents, b # d
             PROVE  stage'[b] \in Resting \/ stage'[d] \in Resting
  BY DEF OneAtWork
<1>1. \A e \in Agents : stage'[e] = IF e = a THEN point ELSE stage[e]
  BY DEF BrowserTypes
<1>2. QED
  BY <1>1 DEF OneAtWork

(* Whoever is at work is alone. *)
LEMMA OthersRest ==
    ASSUME OneAtWork, ~overlapped, NEW a \in Agents, stage[a] \notin Resting,
           NEW b \in Agents, b # a
    PROVE  stage[b] \in Resting /\ stage[b] \notin Knowing
  BY DEF OneAtWork, Resting, Knowing

LEMMA QuietKeeps ==
    ASSUME BrowserInv, NEW a \in Agents, QuietStep(a), ~overlapped => Knows(a)'
    PROVE  BrowserInv'
<1>1. UNCHANGED <<state, launcher, pidOf, port, marker, unmarked, overlapped>>
  BY DEF QuietStep, machine
<1>2. PICK point \in Stages \ {"truncate", "write"} :
         /\ stage' = [stage EXCEPT ![a] = point]
         /\ stage[a] \notin Resting \/ point \in Resting
  BY DEF QuietStep
<1>3. \A b \in Agents : stage'[b] = IF b = a THEN point ELSE stage[b]
  BY <1>2 DEF BrowserInv, BrowserTypes
<1>4. OneAtWork'
  BY <1>1, <1>2, StillOneAtWork DEF BrowserInv
<1>5. \A i \in Programs : Alive(i)' <=> Alive(i)
  BY <1>1 DEF Alive
<1>6. Living' = Living
  BY <1>1 DEF Living, Browsers, Alive
<1>7. MineIsTrue'
  <2>1. \A b \in Agents : mine'[b] \in {mine[b], Absent} /\ (b # a => mine'[b] = mine[b])
    BY DEF QuietStep, BrowserInv, BrowserTypes
  <2>2. \A b \in Agents : stage'[b] \in {"truncate", "write"} => b # a /\ stage[b] = stage'[b]
    BY <1>3
  <2>3. \A b \in Agents, i \in Programs :
            Alive(i)' /\ mine'[b].birth = i => mine'[b].pid = pidOf'[i]
    BY <1>1, <1>5, <2>1, MarkersTyped DEF BrowserInv, MineIsTrue
  <2>4. QED
    BY <2>1, <2>2, <2>3 DEF BrowserInv, MineIsTrue
<1>8. MarkerIsTrue'
  <2>1. ASSUME NEW b \in Agents, b # a, Knows(b) PROVE Knows(b)'
    <3>1. seen'[b] = seen[b]
      BY <2>1 DEF QuietStep, BrowserInv, BrowserTypes
    <3>2. QED
      BY <1>1, <1>3, <1>6, <2>1, <3>1 DEF Knows
  <2>2. QED
    BY <1>1, <1>6, <2>1 DEF BrowserInv, MarkerIsTrue
<1>9. QED
  BY <1>4, <1>7, <1>8, QuietTypes DEF BrowserInv

-----------------------------------------------------------------------------
(* The steps of the verification *)

LEMMA ReadMarkerStep ==
    ASSUME BrowserInv, NEW a \in Agents, ReadMarker(a)
    PROVE  BrowserInv'
<1>1. /\ stage[a] = "reading" /\ seen' = [seen EXCEPT ![a] = marker]
      /\ UNCHANGED <<machine, marker, mine, verified, unmarked, overlapped>>
  BY DEF ReadMarker
<1>2. CASE stage' = [stage EXCEPT ![a] = "checking"] /\ purpose' = purpose
  <2>1. QuietStep(a)
    BY <1>1, <1>2 DEF QuietStep, Stages, Resting, BrowserInv, BrowserTypes
  <2>2. Knows(a)'
    BY <1>1, <1>2 DEF Knows, BrowserInv, BrowserTypes
  <2>3. QED
    BY <2>1, <2>2, QuietKeeps
<1>3. CASE NotOwned(a)
  <2>1. PICK point \in {"reading", "connecting", "failed", "launching", "present", "again"} :
           stage' = [stage EXCEPT ![a] = point]
    BY <1>3, Verdicts DEF BrowserInv
  <2>2. QuietStep(a)
    BY <1>1, <1>3, <2>1, Verdicts DEF QuietStep, Stages, Resting, BrowserInv
  <2>3. Knows(a)'
    BY <2>1 DEF Knows, BrowserInv, BrowserTypes
  <2>4. QED
    BY <2>2, <2>3, QuietKeeps
<1>4. QED
  BY <1>2, <1>3 DEF ReadMarker, Proceed

(* A marker whose process is gone names no living browser. *)
LEMMA NobodyNamed ==
    ASSUME BrowserTypes, NEW a \in Agents, Holders(a) = {}, seen[a] = marker
    PROVE  \A i \in Living : marker # Naming(pidOf[i], i)
  BY MarkersTyped DEF Holders, Living, Browsers

LEMMA CheckProcessStep ==
    ASSUME BrowserInv, NEW a \in Agents, CheckProcess(a)
    PROVE  BrowserInv'
<1>1. /\ stage[a] = "checking" /\ seen' = [seen EXCEPT ![a] = Absent]
      /\ UNCHANGED <<machine, marker, mine, unmarked, overlapped>>
  BY DEF CheckProcess
<1>2. ASSUME Owned(a) \/ NotOwned(a),
             \/ verified' = verified
             \/ port \in Browsers /\ verified' = [verified EXCEPT ![a] = port]
      PROVE  BrowserInv'
  <2>1. PICK point \in {"reading", "connecting", "failed", "launching", "present", "again"} :
           stage' = [stage EXCEPT ![a] = point]
    BY <1>2, Verdicts DEF BrowserInv
  <2>2. QuietStep(a)
    BY <1>1, <1>2, <2>1, Verdicts DEF QuietStep, Stages, Resting, BrowserInv
  <2>3. Knows(a)'
    BY <2>1 DEF Knows, BrowserInv, BrowserTypes
  <2>4. QED
    BY <2>2, <2>3, QuietKeeps
<1>3. CASE (\E i \in Holders(a) : IsOurs(a, i)) /\ Owned(a)
           /\ verified' = [verified EXCEPT ![a] = port]
  <2>1. port \in Browsers
    BY <1>3, MarkersTyped DEF Holders, IsOurs, Listens, BrowserInv, NamesBrowsers
  <2>2. QED
    BY <1>2, <1>3, <2>1
<1>4. CASE NotOwned(a) /\ verified' = verified
  BY <1>2, <1>4
<1>5. CASE /\ Holders(a) = {} /\ stage' = [stage EXCEPT ![a] = "unlinking"]
           /\ purpose' = purpose /\ verified' = verified
  <2>1. QuietStep(a)
    BY <1>1, <1>5 DEF QuietStep, Stages, Resting, BrowserInv, BrowserTypes
  <2>2. ~overlapped => Knows(a)'
    <3>1. Living' = Living /\ marker' = marker /\ pidOf' = pidOf
      BY <1>1 DEF Living, Browsers, Alive, machine
    <3>2. ~overlapped => \A i \in Living : marker # Naming(pidOf[i], i)
      BY <1>1, <1>5, NobodyNamed DEF BrowserInv, MarkerIsTrue, Knows
    <3>3. stage'[a] = "unlinking"
      BY <1>5 DEF BrowserInv, BrowserTypes
    <3>4. QED
      BY <3>1, <3>2, <3>3 DEF Knows
  <2>3. QED
    BY <2>1, <2>2, QuietKeeps
<1>6. QED
  BY <1>3, <1>4, <1>5 DEF CheckProcess, Proceed

(* What an agent at work may do with the marker leaves the browsers' names in order. *)
LEMMA UnlinkStep ==
    ASSUME BrowserInv, NEW a \in Agents, Unlink(a)
    PROVE  BrowserInv'
<1>1. /\ stage[a] = "unlinking" /\ marker' = Absent
      /\ UNCHANGED <<state, launcher, pidOf, port, seen, mine, verified, unmarked, overlapped>>
  BY DEF Unlink, machine
<1>2. PICK point \in {"reading", "connecting", "failed", "launching", "present", "again"} :
         stage' = [stage EXCEPT ![a] = point]
  BY Verdicts DEF BrowserInv, Unlink
<1>3. \A b \in Agents : stage'[b] = IF b = a THEN point ELSE stage[b]
  BY <1>2 DEF BrowserInv, BrowserTypes
<1>4. BrowserTypes'
  <2>1. stage' \in [Agents -> Stages]
    BY <1>2 DEF BrowserInv, BrowserTypes, Stages
  <2>2. purpose' \in [Agents -> {"first", "attach", "retry", "launch"}]
    BY Verdicts DEF BrowserInv, Unlink
  <2>3. QED
    BY <1>1, <2>1, <2>2, MarkersTyped DEF BrowserInv, BrowserTypes
<1>5. NamesBrowsers'
  BY <1>1, MarkersTyped DEF BrowserInv, NamesBrowsers, Browsers
<1>6. OneAtWork'
  BY <1>1, <1>2, StillOneAtWork DEF BrowserInv, Stages, Resting
<1>7. MineIsTrue'
  BY <1>1, <1>3 DEF BrowserInv, MineIsTrue, Alive
<1>8. MarkerIsTrue'
  <2>1. SUFFICES ASSUME ~overlapped
                 PROVE  /\ \A i \in (Living \ unmarked)' : marker' = Naming(pidOf'[i], i)
                        /\ \A b \in Agents : Knows(b)'
    BY <1>1 DEF MarkerIsTrue
  <2>2. \A i \in Living : i \in unmarked
    BY <1>1, <2>1 DEF BrowserInv, MarkerIsTrue, Knows
  <2>3. Living' = Living /\ unmarked' = unmarked
    BY <1>1 DEF Living, Browsers, Alive
  <2>4. \A b \in Agents : stage'[b] \notin Knowing
    BY <1>1, <1>3, <2>1, OthersRest DEF BrowserInv, Resting, Knowing
  <2>5. QED
    BY <2>2, <2>3, <2>4 DEF Knows, Knowing
<1>9. QED
  BY <1>4, <1>5, <1>6, <1>7, <1>8 DEF BrowserInv

-----------------------------------------------------------------------------
(* The steps of the launch *)

LEMMA CheckMarkerStep ==
    ASSUME BrowserInv, NEW a \in Agents,
           CheckMarker(a) \/ StillPresent(a) \/ CheckPort(a) \/ SpawnFails(a)
    PROVE  BrowserInv'
<1>1. UNCHANGED <<machine, marker, seen, mine, verified, unmarked, overlapped>>
  BY DEF CheckMarker, StillPresent, CheckPort, SpawnFails, locals
<1>2. /\ stage[a] \in {"launching", "present", "port", "spawn"}
      /\ purpose' \in [Agents -> {"first", "attach", "retry", "launch"}]
  BY DEF CheckMarker, StillPresent, CheckPort, SpawnFails, locals, Verify, BrowserInv, BrowserTypes
<1>3. PICK point \in {"port", "reading", "failed", "spawn"} :
         /\ stage' = [stage EXCEPT ![a] = point]
         /\ point = "port" => marker = Absent
         /\ point = "spawn" => stage[a] = "port"
  BY DEF CheckMarker, StillPresent, CheckPort, SpawnFails, Verify, Proceed
<1>4. QuietStep(a)
  BY <1>1, <1>2, <1>3 DEF QuietStep, Stages, Resting
<1>5. ~overlapped => Knows(a)'
  <2>1. stage'[a] = point
    BY <1>3 DEF BrowserInv, BrowserTypes
  <2>2. ~overlapped /\ point = "spawn" => marker = Absent
    BY <1>3 DEF BrowserInv, MarkerIsTrue, Knows
  <2>3. QED
    BY <1>1, <1>3, <2>1, <2>2 DEF Knows
<1>6. QED
  BY <1>4, <1>5, QuietKeeps

(* A program is born: what had a name before keeps it. *)
LEMMA Births ==
    ASSUME BrowserInv, NEW i \in Programs, NEW who \in {"agent", "other"}, Born(i, who)
    PROVE  /\ state' \in [Programs -> {"unborn", "starting", "open", "leaving", "dead"}]
           /\ launcher' \in [Programs -> {"nobody", "agent", "other"}]
           /\ pidOf' \in [Programs -> Pids \cup {Nobody}] /\ port' = port
           /\ \A j \in Programs : state'[j] = "unborn" => launcher'[j] = "nobody"
           /\ i \notin Browsers /\ Browsers \subseteq Browsers'
           /\ \A j \in Programs \ {i} : /\ Alive(j)' <=> Alive(j)
                                        /\ pidOf'[j] = pidOf[j]
                                        /\ j \in Browsers' <=> j \in Browsers
           /\ i \in Browsers' <=> who = "agent"
<1>1. /\ state[i] = "unborn" /\ state' = [state EXCEPT ![i] = "starting"]
      /\ launcher' = [launcher EXCEPT ![i] = who] /\ port' = port
  BY DEF Born, Unborn
<1>2. PICK p \in Pids : pidOf' = [pidOf EXCEPT ![i] = p]
  BY DEF Born, FreePids
<1>3. \A j \in Programs : /\ state'[j] = IF j = i THEN "starting" ELSE state[j]
                          /\ launcher'[j] = IF j = i THEN who ELSE launcher[j]
                          /\ pidOf'[j] = IF j = i THEN p ELSE pidOf[j]
  BY <1>1, <1>2 DEF BrowserInv, BrowserTypes
<1>4. state' \in [Programs -> {"unborn", "starting", "open", "leaving", "dead"}]
  BY <1>1 DEF BrowserInv, BrowserTypes
<1>5. launcher' \in [Programs -> {"nobody", "agent", "other"}]
  BY <1>1 DEF BrowserInv, BrowserTypes
<1>6. pidOf' \in [Programs -> Pids \cup {Nobody}]
  BY <1>2 DEF BrowserInv, BrowserTypes
<1>7. launcher[i] = "nobody"
  BY <1>1 DEF BrowserInv, NamesBrowsers
<1>8. \A j \in Programs : state'[j] = "unborn" => launcher'[j] = "nobody"
  BY <1>3 DEF BrowserInv, NamesBrowsers
<1>9. QED
  BY <1>1, <1>3, <1>4, <1>5, <1>6, <1>7, <1>8 DEF Browsers, Alive

(* Nothing that has a name already is born. *)
LEMMA NamesSurviveBirth ==
    ASSUME BrowserInv, NEW i \in Programs, NEW who \in {"agent", "other"}, Born(i, who)
    PROVE  /\ marker.birth # i
           /\ \A a \in Agents : seen[a].birth # i /\ mine[a].birth # i /\ verified[a] # i
<1>1. i \notin Browsers /\ i # Nobody
  BY Births, MarkersTyped
<1>2. QED
  BY <1>1 DEF BrowserInv, NamesBrowsers

LEMMA SpawnStep ==
    ASSUME BrowserInv, NEW a \in Agents, Spawn(a)
    PROVE  BrowserInv'
<1>1. PICK i \in Programs :
         /\ Born(i, "agent")
         /\ \/ mine' = [mine EXCEPT ![a] = Naming(pidOf'[i], i)]
            \/ mine' = [mine EXCEPT ![a] = Naming(pidOf'[i], Nobody)]
         /\ unmarked' = unmarked \cup {i}
  BY DEF Spawn
<1>2. /\ stage[a] = "spawn" /\ stage' = [stage EXCEPT ![a] = "truncate"]
      /\ UNCHANGED <<marker, purpose, seen, verified, overlapped>>
  BY DEF Spawn, Proceed
<1>3. \A b \in Agents : stage'[b] = IF b = a THEN "truncate" ELSE stage[b]
  BY <1>2 DEF BrowserInv, BrowserTypes
<1>4. PICK birth \in {i, Nobody} : mine' = [mine EXCEPT ![a] = Naming(pidOf'[i], birth)]
  BY <1>1
<1>5. \A b \in Agents : mine'[b] = IF b = a THEN Naming(pidOf'[i], birth) ELSE mine[b]
  BY <1>4 DEF BrowserInv, BrowserTypes
<1>6. i \in Browsers' /\ pidOf'[i] \in Pids \cup {Nobody}
  <2>1. i \in Browsers' /\ pidOf' \in [Programs -> Pids \cup {Nobody}]
    BY <1>1, Births
  <2>2. QED
    BY <2>1
<1>7. BrowserTypes'
  <2>1. mine' \in [Agents -> Markers]
    BY <1>4, <1>6, MarkersTyped DEF BrowserInv, BrowserTypes
  <2>2. stage' \in [Agents -> Stages]
    BY <1>2 DEF BrowserInv, BrowserTypes, Stages
  <2>3. QED
    BY <1>1, <1>2, <2>1, <2>2, Births DEF BrowserInv, BrowserTypes
<1>8. NamesBrowsers'
  <2>1. \A b \in Agents : mine'[b].birth \in Browsers' \cup {Nobody}
    BY <1>1, <1>5, <1>6, Births, MarkersTyped DEF BrowserInv, NamesBrowsers
  <2>2. Browsers \subseteq Browsers'
    BY <1>1, Births
  <2>3. \A j \in Programs : state'[j] = "unborn" => launcher'[j] = "nobody"
    BY <1>1, Births
  <2>4. QED
    BY <1>2, <2>1, <2>2, <2>3 DEF BrowserInv, NamesBrowsers
<1>9. OneAtWork'
  BY <1>2, StillOneAtWork DEF BrowserInv, Stages, Resting
<1>10. MineIsTrue'
  <2>1. ASSUME NEW b \in Agents, NEW j \in Programs, Alive(j)', mine'[b].birth = j
        PROVE  mine'[b].pid = pidOf'[j]
    <3>1. CASE b = a
      BY <1>5, <2>1, <3>1, MarkersTyped
    <3>2. CASE b # a
      <4>1. j # i /\ mine[b].birth = j
        BY <1>1, <1>5, <2>1, <3>2, NamesSurviveBirth
      <4>2. Alive(j) /\ pidOf'[j] = pidOf[j]
        BY <1>1, <2>1, <4>1, Births
      <4>3. QED
        BY <1>5, <3>2, <4>1, <4>2 DEF BrowserInv, MineIsTrue
    <3>3. QED
      BY <3>1, <3>2
  <2>2. \A b \in Agents : stage'[b] \in {"truncate", "write"} => mine'[b].kind = "owner"
    BY <1>3, <1>5, MarkersTyped DEF BrowserInv, MineIsTrue
  <2>3. QED
    BY <2>1, <2>2 DEF MineIsTrue
<1>11. MarkerIsTrue'
  <2>1. SUFFICES ASSUME ~overlapped
                 PROVE  /\ \A j \in (Living \ unmarked)' : marker' = Naming(pidOf'[j], j)
                        /\ \A b \in Agents : Knows(b)'
    BY <1>2 DEF MarkerIsTrue
  <2>2. \A j \in (Living \ unmarked)' : j \in Living \ unmarked /\ pidOf'[j] = pidOf[j]
    BY <1>1, Births DEF Living, Browsers
  <2>3. marker = Absent
    BY <1>2, <2>1 DEF BrowserInv, MarkerIsTrue, Knows
  <2>4. \A b \in Agents \ {a} : stage'[b] \notin Knowing
    BY <1>2, <1>3, <2>1, OthersRest DEF BrowserInv, Resting
  <2>5. QED
    BY <1>2, <1>3, <2>1, <2>2, <2>3, <2>4 DEF BrowserInv, MarkerIsTrue, Knows, Knowing
<1>12. QED
  BY <1>7, <1>8, <1>9, <1>10, <1>11 DEF BrowserInv

LEMMA TruncateStep ==
    ASSUME BrowserInv, NEW a \in Agents, Truncate(a)
    PROVE  BrowserInv'
<1>1. /\ stage[a] = "truncate" /\ stage' = [stage EXCEPT ![a] = "write"] /\ marker' = Torn
      /\ UNCHANGED <<state, launcher, pidOf, port, purpose, seen, mine, verified, unmarked,
                     overlapped>>
  BY DEF Truncate, Proceed, machine, locals
<1>2. \A b \in Agents : stage'[b] = IF b = a THEN "write" ELSE stage[b]
  BY <1>1 DEF BrowserInv, BrowserTypes
<1>3. BrowserTypes'
  BY <1>1, MarkersTyped DEF BrowserInv, BrowserTypes, Stages
<1>4. NamesBrowsers'
  BY <1>1, MarkersTyped DEF BrowserInv, NamesBrowsers, Browsers
<1>5. OneAtWork'
  BY <1>1, StillOneAtWork DEF BrowserInv, Stages, Resting
<1>6. MineIsTrue'
  BY <1>1, <1>2 DEF BrowserInv, MineIsTrue, Alive
<1>7. MarkerIsTrue'
  <2>1. SUFFICES ASSUME ~overlapped
                 PROVE  /\ \A i \in (Living \ unmarked)' : marker' = Naming(pidOf'[i], i)
                        /\ \A b \in Agents : Knows(b)'
    BY <1>1 DEF MarkerIsTrue
  <2>2. Living' = Living /\ unmarked' = unmarked
    BY <1>1 DEF Living, Browsers, Alive
  <2>3. Living \ unmarked = {}
    BY <1>1, <2>1, MarkersTyped DEF BrowserInv, MarkerIsTrue, Knows
  <2>4. \A b \in Agents \ {a} : stage'[b] \notin Knowing
    BY <1>1, <1>2, <2>1, OthersRest DEF BrowserInv, Resting
  <2>5. QED
    BY <1>1, <1>2, <2>2, <2>3, <2>4 DEF Knows, Knowing
<1>8. QED
  BY <1>3, <1>4, <1>5, <1>6, <1>7 DEF BrowserInv

LEMMA WriteMarkerStep ==
    ASSUME BrowserInv, NEW a \in Agents, WriteMarker(a)
    PROVE  BrowserInv'
<1>1. /\ stage[a] = "write" /\ stage' = [stage EXCEPT ![a] = "reading"]
      /\ marker' = mine[a] /\ unmarked' = unmarked \ {mine[a].birth}
      /\ mine' = [mine EXCEPT ![a] = Absent] /\ purpose' = [purpose EXCEPT ![a] = "retry"]
      /\ UNCHANGED <<state, launcher, pidOf, port, seen, verified, overlapped>>
  BY DEF WriteMarker, Verify, Proceed, machine
<1>2. \A b \in Agents : /\ stage'[b] = IF b = a THEN "reading" ELSE stage[b]
                        /\ mine'[b] = IF b = a THEN Absent ELSE mine[b]
  BY <1>1 DEF BrowserInv, BrowserTypes
<1>3. BrowserTypes'
  <2>1. purpose' \in [Agents -> {"first", "attach", "retry", "launch"}]
    BY <1>1 DEF BrowserInv, BrowserTypes
  <2>2. stage' \in [Agents -> Stages] /\ mine' \in [Agents -> Markers] /\ marker' \in Markers
    BY <1>1, MarkersTyped DEF BrowserInv, BrowserTypes, Stages
  <2>3. QED
    BY <1>1, <2>1, <2>2 DEF BrowserInv, BrowserTypes
<1>4. NamesBrowsers'
  BY <1>1, <1>2, MarkersTyped DEF BrowserInv, NamesBrowsers, Browsers
<1>5. OneAtWork'
  BY <1>1, StillOneAtWork DEF BrowserInv, Stages, Resting
<1>6. MineIsTrue'
  BY <1>1, <1>2, MarkersTyped DEF BrowserInv, MineIsTrue, Alive
<1>7. MarkerIsTrue'
  <2>1. SUFFICES ASSUME ~overlapped
                 PROVE  /\ \A i \in (Living \ unmarked)' : marker' = Naming(pidOf'[i], i)
                        /\ \A b \in Agents : Knows(b)'
    BY <1>1 DEF MarkerIsTrue
  <2>2. Living' = Living
    BY <1>1 DEF Living, Browsers, Alive
  <2>3. Living \ unmarked = {}
    BY <1>1, <2>1, MarkersTyped DEF BrowserInv, MarkerIsTrue, Knows
  <2>4. ASSUME NEW i \in (Living \ unmarked)' PROVE marker' = Naming(pidOf'[i], i)
    <3>1. i \in Living /\ i \in Programs /\ i = mine[a].birth
      BY <1>1, <2>2, <2>3 DEF Living, Browsers
    <3>2. mine[a].pid = pidOf[i] /\ mine[a].kind = "owner"
      BY <1>1, <3>1 DEF BrowserInv, MineIsTrue, Living
    <3>3. mine[a] = [kind |-> "owner", pid |-> pidOf[i], birth |-> i]
      BY <3>1, <3>2 DEF BrowserInv, BrowserTypes, Markers
    <3>4. QED
      BY <1>1, <3>3 DEF Naming
  <2>5. \A b \in Agents : stage'[b] \notin Knowing
    BY <1>1, <1>2, <2>1, OthersRest DEF BrowserInv, Resting, Knowing
  <2>6. QED
    BY <2>4, <2>5 DEF Knows, Knowing
<1>8. QED
  BY <1>3, <1>4, <1>5, <1>6, <1>7 DEF BrowserInv

-----------------------------------------------------------------------------
(* managed_browser and the death of an agent *)

(* The first agent begins alone, or the work overlaps from now on. *)
LEMMA BeginStep ==
    ASSUME BrowserInv, NEW a \in Agents, Begin(a)
    PROVE  BrowserInv'
<1>1. /\ stage[a] = "idle" /\ stage' = [stage EXCEPT ![a] = "reading"]
      /\ purpose' = [purpose EXCEPT ![a] = "first"]
      /\ UNCHANGED <<state, launcher, pidOf, port, marker, seen, mine, verified, unmarked>>
  BY DEF Begin, Verify, Proceed, machine
<1>2. \A b \in Agents : stage'[b] = IF b = a THEN "reading" ELSE stage[b]
  BY <1>1 DEF BrowserInv, BrowserTypes
<1>3. \/ overlapped' = TRUE
      \/ overlapped' = overlapped /\ \A b \in Agents \ {a} : stage[b] \in Resting
  BY DEF Begin
<1>4. BrowserTypes'
  <2>1. overlapped' \in BOOLEAN
    BY <1>3 DEF BrowserInv, BrowserTypes
  <2>2. stage' \in [Agents -> Stages]
    BY <1>1 DEF BrowserInv, BrowserTypes, Stages
  <2>3. purpose' \in [Agents -> {"first", "attach", "retry", "launch"}]
    BY <1>1 DEF BrowserInv, BrowserTypes
  <2>4. QED
    BY <1>1, <2>1, <2>2, <2>3 DEF BrowserInv, BrowserTypes
<1>5. NamesBrowsers'
  BY <1>1 DEF BrowserInv, NamesBrowsers, Browsers
<1>6. OneAtWork'
  BY <1>2, <1>3 DEF OneAtWork
<1>7. MineIsTrue'
  BY <1>1, <1>2 DEF BrowserInv, MineIsTrue, Alive
<1>8. MarkerIsTrue'
  <2>1. SUFFICES ASSUME ~overlapped'
                 PROVE  /\ \A i \in (Living \ unmarked)' : marker' = Naming(pidOf'[i], i)
                        /\ \A b \in Agents : Knows(b)'
    BY DEF MarkerIsTrue
  <2>2. ~overlapped
    BY <1>3, <2>1
  <2>3. Living' = Living
    BY <1>1 DEF Living, Browsers, Alive
  <2>4. \A b \in Agents : stage'[b] \in Knowing => stage'[b] = stage[b]
    BY <1>2 DEF Knowing
  <2>5. \A b \in Agents : Knows(b)'
    BY <1>1, <2>2, <2>3, <2>4 DEF BrowserInv, MarkerIsTrue, Knows, Knowing
  <2>6. QED
    BY <1>1, <2>2, <2>3, <2>5 DEF BrowserInv, MarkerIsTrue
<1>9. QED
  BY <1>4, <1>5, <1>6, <1>7, <1>8 DEF BrowserInv

LEMMA ConnectionStep ==
    ASSUME BrowserInv, NEW a \in Agents,
           Connect(a) \/ TryAgain(a) \/ Finish(a) \/ Crash(a)
    PROVE  BrowserInv'
<1>1. UNCHANGED <<machine, marker, unmarked, overlapped>>
  BY DEF Connect, TryAgain, Finish, Crash
<1>2. /\ seen' \in {seen, [seen EXCEPT ![a] = Absent]}
      /\ mine' \in {mine, [mine EXCEPT ![a] = Absent]}
      /\ verified' \in {verified, [verified EXCEPT ![a] = Nobody]}
  BY DEF Connect, TryAgain, Finish, Crash, locals
<1>3. purpose' \in [Agents -> {"first", "attach", "retry", "launch"}]
  BY DEF Connect, TryAgain, Finish, Crash, locals, Verify, BrowserInv, BrowserTypes
<1>4. PICK point \in {"connected", "again", "launching", "reading", "failed", "idle"} :
         /\ stage' = [stage EXCEPT ![a] = point]
         /\ stage[a] \notin Resting \/ point = "idle"
  BY DEF Connect, TryAgain, Finish, Crash, Verify, Proceed, Resting
<1>5. QuietStep(a)
  BY <1>1, <1>2, <1>3, <1>4 DEF QuietStep, Stages, Resting
<1>6. Knows(a)'
  BY <1>4 DEF Knows, BrowserInv, BrowserTypes
<1>7. QED
  BY <1>5, <1>6, QuietKeeps

-----------------------------------------------------------------------------
(* The machine *)

(* A program that changes on its own: no browser comes to life and none changes its id    *)
(* while it lives.                                                                         *)
LEMMA MachineKeeps ==
    ASSUME BrowserInv,
           state' \in [Programs -> {"unborn", "starting", "open", "leaving", "dead"}],
           pidOf' \in [Programs -> Pids \cup {Nobody}], port' \in Programs \cup {Nobody},
           \A i \in Programs : state'[i] = "unborn" => state[i] = "unborn",
           \A i \in Programs : Alive(i)' => Alive(i) /\ pidOf'[i] = pidOf[i],
           UNCHANGED <<launcher, marker, stage, locals, verified, unmarked, overlapped>>
    PROVE  BrowserInv'
<1>1. BrowserTypes'
  BY DEF BrowserInv, BrowserTypes, locals
<1>2. NamesBrowsers'
  BY DEF BrowserInv, NamesBrowsers, Browsers, locals
<1>3. OneAtWork'
  BY DEF BrowserInv, OneAtWork
<1>4. MineIsTrue'
  BY DEF BrowserInv, MineIsTrue, locals
<1>5. MarkerIsTrue'
  <2>1. \A i \in Living' : i \in Living /\ pidOf'[i] = pidOf[i]
    BY DEF Living, Browsers
  <2>2. \A b \in Agents : Knows(b) => Knows(b)'
    BY <2>1 DEF Knows, locals
  <2>3. QED
    BY <2>1, <2>2 DEF BrowserInv, MarkerIsTrue
<1>6. QED
  BY <1>1, <1>2, <1>3, <1>4, <1>5 DEF BrowserInv

LEMMA MachineMoves ==
    ASSUME BrowserInv, NEW i \in Programs, Start(i) \/ CloseDown(i) \/ End(i)
    PROVE  BrowserInv'
<1>1. UNCHANGED <<launcher, marker, stage, locals, verified, unmarked, overlapped>>
  BY DEF Start, CloseDown, End
<1>2. PICK s \in {"open", "leaving", "dead"} : state' = [state EXCEPT ![i] = s]
  BY DEF Start, CloseDown, End
<1>3. /\ state[i] \in {"starting", "open", "leaving"}
      /\ pidOf' = pidOf \/ (pidOf' = [pidOf EXCEPT ![i] = Nobody] /\ s = "dead")
  <2>1. CASE Start(i) \/ CloseDown(i)
    BY <2>1 DEF Start, CloseDown
  <2>2. CASE End(i)
    BY <1>2, <2>2 DEF End, BrowserInv, BrowserTypes
  <2>3. QED
    BY <2>1, <2>2
<1>4. \A j \in Programs : state'[j] = IF j = i THEN s ELSE state[j]
  BY <1>2 DEF BrowserInv, BrowserTypes
<1>5. state' \in [Programs -> {"unborn", "starting", "open", "leaving", "dead"}]
  BY <1>2 DEF BrowserInv, BrowserTypes
<1>6. pidOf' \in [Programs -> Pids \cup {Nobody}]
  BY <1>3 DEF BrowserInv, BrowserTypes
<1>7. port' \in Programs \cup {Nobody}
  BY DEF Start, CloseDown, End, BrowserInv, BrowserTypes
<1>8. \A j \in Programs : Alive(j)' => Alive(j) /\ pidOf'[j] = pidOf[j]
  BY <1>3, <1>4 DEF Alive, BrowserInv, BrowserTypes
<1>9. \A j \in Programs : state'[j] = "unborn" => state[j] = "unborn"
  BY <1>4
<1>10. QED
  BY <1>1, <1>5, <1>6, <1>7, <1>8, <1>9, MachineKeeps

(* Another program is born: it is no browser. *)
LEMMA OtherStep ==
    ASSUME BrowserInv, Other
    PROVE  BrowserInv'
<1>1. PICK i \in Programs : Born(i, "other")
  BY DEF Other, Unborn
<1>2. UNCHANGED <<marker, stage, purpose, seen, mine, verified, unmarked, overlapped>>
  BY DEF Other, locals
<1>3. Browsers' = Browsers
  <2>1. Browsers \subseteq Programs /\ Browsers' \subseteq Programs
    BY DEF Browsers
  <2>2. QED
    BY <1>1, <2>1, Births
<1>4. \A j \in Browsers : (Alive(j)' <=> Alive(j)) /\ pidOf'[j] = pidOf[j]
  <2>1. Browsers \subseteq Programs \ {i}
    BY <1>1, Births DEF Browsers
  <2>2. QED
    BY <1>1, <2>1, Births
<1>5. Living' = Living
  BY <1>3, <1>4 DEF Living
<1>6. BrowserTypes'
  BY <1>1, <1>2, Births DEF BrowserInv, BrowserTypes
<1>7. NamesBrowsers'
  BY <1>1, <1>2, <1>3, Births DEF BrowserInv, NamesBrowsers
<1>8. OneAtWork'
  BY <1>2 DEF BrowserInv, OneAtWork
<1>9. MineIsTrue'
  <2>1. ASSUME NEW b \in Agents, NEW j \in Programs, Alive(j)', mine[b].birth = j
        PROVE  mine[b].pid = pidOf'[j]
    <3>1. j # i
      BY <1>1, <2>1, NamesSurviveBirth
    <3>2. Alive(j) /\ pidOf'[j] = pidOf[j]
      BY <1>1, <2>1, <3>1, Births
    <3>3. QED
      BY <2>1, <3>2 DEF BrowserInv, MineIsTrue
  <2>2. QED
    BY <1>2, <2>1 DEF BrowserInv, MineIsTrue
<1>10. MarkerIsTrue'
  <2>1. \A j \in Living : pidOf'[j] = pidOf[j]
    BY <1>4 DEF Living
  <2>2. \A b \in Agents : Knows(b) => Knows(b)'
    BY <1>2, <1>5, <2>1 DEF Knows
  <2>3. QED
    BY <1>2, <1>5, <2>1, <2>2 DEF BrowserInv, MarkerIsTrue
<1>11. QED
  BY <1>6, <1>7, <1>8, <1>9, <1>10 DEF BrowserInv

-----------------------------------------------------------------------------
LEMMA BrowserStarts == BrowserInit => BrowserInv
<1> SUFFICES ASSUME BrowserInit PROVE BrowserInv
  OBVIOUS
<1>1. BrowserTypes
  BY MarkersTyped DEF BrowserInit, BrowserTypes, Stages
<1>2. NamesBrowsers
  BY MarkersTyped DEF BrowserInit, NamesBrowsers
<1>3. OneAtWork /\ MineIsTrue
  BY DEF BrowserInit, OneAtWork, MineIsTrue, Alive, Resting
<1>4. MarkerIsTrue
  BY DEF BrowserInit, MarkerIsTrue, Knows, Living, Alive, Browsers
<1>5. QED
  BY <1>1, <1>2, <1>3, <1>4 DEF BrowserInv

LEMMA BrowserGoesOn == BrowserInv /\ [BrowserNext]_browserVars => BrowserInv'
<1> SUFFICES ASSUME BrowserInv, [BrowserNext]_browserVars PROVE BrowserInv'
  OBVIOUS
<1>1. ASSUME NEW a \in Agents, AgentStep(a) \/ Crash(a) PROVE BrowserInv'
  BY <1>1, ReadMarkerStep, CheckProcessStep, UnlinkStep, CheckMarkerStep, SpawnStep,
     TruncateStep, WriteMarkerStep, BeginStep, ConnectionStep DEF AgentStep
<1>2. ASSUME NEW i \in Programs, MachineStep(i) \/ CloseDown(i) PROVE BrowserInv'
  BY <1>2, MachineMoves DEF MachineStep
<1>3. CASE Other
  BY <1>3, OtherStep
<1>4. CASE UNCHANGED browserVars
  <2>1. /\ UNCHANGED <<state, pidOf, port, launcher, marker, stage, locals, verified, unmarked,
                       overlapped>>
        /\ \A i \in Programs : Alive(i)' <=> Alive(i)
    BY <1>4 DEF browserVars, machine, Alive
  <2>2. QED
    BY <2>1, MachineKeeps DEF BrowserInv, BrowserTypes
<1>5. QED
  BY <1>1, <1>2, <1>3, <1>4 DEF BrowserNext

LEMMA BrowserAlways == BrowserSpec => []BrowserInv
  BY BrowserStarts, BrowserGoesOn, PTL DEF BrowserSpec

(* Whatever listens on the port and whichever process ids are used again, what a           *)
(* verification took for the browser is one the agent launched.                            *)
THEOREM OnlyItsOwnIsDriven == BrowserSpec => []DrivesItsOwn
<1>1. BrowserInv => DrivesItsOwn
  BY DEF BrowserInv, NamesBrowsers, DrivesItsOwn
<1>2. QED
  BY <1>1, BrowserAlways, PTL

(* One agent at a time: the marker of a living browser stays, and no second browser is     *)
(* launched beside one that has its marker.                                                *)
THEOREM OneBrowserIsMarked == BrowserSpec => OneMarkedBrowser
<1>1. ASSUME BrowserInv, [BrowserNext]_browserVars, NEW i \in Living,
             marker = Naming(pidOf[i], i), marker' # marker
      PROVE  overlapped'
  <2>1. BrowserNext
    BY <1>1 DEF browserVars
  <2>2. overlapped
    <3>1. SUFFICES ASSUME ~overlapped PROVE FALSE
      BY DEF BrowserInv, BrowserTypes
    <3>2. PICK a \in Agents : Unlink(a) \/ Truncate(a) \/ WriteMarker(a)
      BY <1>1, <2>1 DEF BrowserNext, AgentStep, MachineStep, ReadMarker, CheckProcess,
         CheckMarker, StillPresent, CheckPort, Spawn, SpawnFails, Begin, Connect, TryAgain,
         Finish, Crash, Start, CloseDown, End, Other
    <3>3. stage[a] \in {"unlinking", "truncate", "write"}
      BY <3>2 DEF Unlink, Truncate, WriteMarker
    <3>4. QED
      BY <1>1, <3>1, <3>3, MarkersTyped DEF BrowserInv, MarkerIsTrue, Knows
  <2>3. overlapped' = overlapped \/ overlapped' = TRUE
    BY <2>1 DEF BrowserNext, AgentStep, MachineStep, ReadMarker, CheckProcess, Unlink,
       CheckMarker, StillPresent, CheckPort, Spawn, SpawnFails, Truncate, WriteMarker, Begin,
       Connect, TryAgain, Finish, Crash, Start, CloseDown, End, Other
  <2>4. QED
    BY <2>2, <2>3
<1>2. ASSUME BrowserInv, NEW a \in Agents, stage[a] = "spawn"
      PROVE  overlapped \/ Living \subseteq unmarked
  BY <1>2, MarkersTyped DEF BrowserInv, MarkerIsTrue, Knows
<1>3. BrowserSpec => MarkerOutlivesItsBrowser
  <2>1. BrowserInv /\ [BrowserNext]_browserVars
          => [\A i \in Living : marker = Naming(pidOf[i], i) /\ marker' # marker
                                   => overlapped']_browserVars
    BY <1>1
  <2>2. QED
    BY <2>1, BrowserAlways, PTL DEF BrowserSpec, MarkerOutlivesItsBrowser
<1>4. BrowserSpec => LaunchesOne
  <2>1. BrowserInv /\ [BrowserNext]_browserVars
          => [\A a \in Agents : stage[a] = "spawn" /\ stage'[a] = "truncate"
                                   => overlapped \/ Living \subseteq unmarked]_browserVars
    BY <1>2
  <2>2. QED
    BY <2>1, BrowserAlways, PTL DEF BrowserSpec, LaunchesOne
<1>5. QED
  BY <1>3, <1>4 DEF OneMarkedBrowser
=============================================================================
