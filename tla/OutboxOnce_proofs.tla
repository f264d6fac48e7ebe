-------------------------- MODULE OutboxOnce_proofs --------------------------
(***************************************************************************)
(* No chunk of a notification is delivered twice: the argument.  A record  *)
(* is either settled (the chunks marked sent are exactly those delivered)  *)
(* or in doubt about one chunk, which is marked in flight (RecordOK).      *)
(* Every claim has a lease id of its own (UniqueClaims), and only the      *)
(* newest one can be the record's (LeaseOK), so what a call knows of a     *)
(* record it still holds is true (WaitingOK, CurrentOK).  A request is     *)
(* under way only for the newest claim of a record that is still being     *)
(* sent or was left in doubt meanwhile, which is never sent again.         *)
(***************************************************************************)
EXTENDS NotificationOutbox, TLAPS

Sending == {"flight", "send", "chunk_sent", "record_sent", "reject", "unknown"}

Settled(k) ==
    /\ inFlight[k] = {}
    /\ sent[k] = 1..Len(delivered[k])

(* Whether chunk i was delivered is not known. *)
InDoubt(k, i) ==
    /\ inFlight[k] = {i}
    /\ sent[k] = 1..(i - 1)
    /\ Len(delivered[k]) \in {i - 1, i}

LeaseOK ==
    \A k \in Keys :
        /\ lease[k] \in {0, issued[k]}
        /\ status[k] = "sending" <=> lease[k] # 0

TriesOK ==
    \A k \in Keys : status[k] \in {"absent", "pending", "sending"} => tries[k] < MaxAttempts

RecordOK ==
    \A k \in Keys :
        /\ Settled(k) \/ \E i \in Chunks : InDoubt(k, i)
        /\ status[k] \in {"absent", "pending", "failed"} => Settled(k)
        /\ status[k] = "sent" => sent[k] = Chunks

SameClaim(c, d) == c.key = d.key /\ c.lease = d.lease

UniqueClaims ==
    /\ \A v, w \in Workers : \A c \in batch[v], d \in batch[w] :
          SameClaim(c, d) => v = w /\ c = d
    /\ \A v, w \in Workers : pc[w] \in Sending =>
          \A c \in batch[v] : ~SameClaim(c, cur[w])
    /\ \A v, w \in Workers :
          pc[v] \in Sending /\ pc[w] \in Sending /\ SameClaim(cur[v], cur[w]) => v = w

IssuedClaim(c) == c.lease \in 1..issued[c.key]

WaitingFor(w) ==
    \A c \in batch[w] :
        /\ IssuedClaim(c)
        /\ Holds(c) => Settled(c.key) /\ c.sent = sent[c.key]

WaitingOK == \A w \in Workers : WaitingFor(w)

(* What a call knows of the record it is sending, while it holds it. *)
Knows(w, k, i) ==
    /\ pc[w] = "flight" => Settled(k) /\ Len(delivered[k]) = i - 1
    /\ pc[w] = "chunk_sent" => InDoubt(k, i) /\ Len(delivered[k]) = i
    /\ pc[w] = "reject" => InDoubt(k, i) /\ Len(delivered[k]) = i - 1

(* A request is under way: nobody else touches the record. *)
Requested(c, i) ==
    /\ c.lease = issued[c.key]
    /\ status[c.key] \in {"sending", "delivery_unknown"}
    /\ InDoubt(c.key, i)
    /\ Len(delivered[c.key]) = i - 1

CurrentFor(w) ==
    pc[w] \in Sending =>
        /\ cur[w] \in Claims
        /\ IssuedClaim(cur[w])
        /\ pc[w] \in {"flight", "send", "chunk_sent", "reject"} => chunk[w] \in Chunks
        /\ Holds(cur[w]) =>
              /\ Knows(w, cur[w].key, chunk[w])
              /\ pc[w] \in {"flight", "send", "chunk_sent"} => cur[w].sent = sent[cur[w].key]
        /\ pc[w] = "send" => Requested(cur[w], chunk[w])

CurrentOK == \A w \in Workers : CurrentFor(w)

KeysOK == \A w \in Workers : pc[w] # "idle" => key[w] \in Keys

ToldOK == \A k \in told : Len(delivered[k]) = NChunks

OutboxInv ==
    /\ TypeOK
    /\ LeaseOK
    /\ TriesOK
    /\ RecordOK
    /\ UniqueClaims
    /\ WaitingOK
    /\ CurrentOK
    /\ KeysOK
    /\ ToldOK
    /\ DeliveredIsPrefix

-----------------------------------------------------------------------------
(* What a step leaves alone.                                                 *)

LEMMA Intervals ==
    ASSUME NEW m \in Nat, NEW n \in Nat, 1..m = 1..n
    PROVE  m = n
OBVIOUS

LEMMA IntervalNext ==
    ASSUME NEW i \in Nat \ {0}
    PROVE  1..(i - 1) \cup {i} = 1..i
OBVIOUS

SameLocals(v) ==
    /\ pc'[v] = pc[v] /\ key'[v] = key[v] /\ batch'[v] = batch[v]
    /\ cur'[v] = cur[v] /\ chunk'[v] = chunk[v]

SameRecord(k) ==
    /\ status'[k] = status[k] /\ lease'[k] = lease[k] /\ issued'[k] = issued[k]
    /\ sent'[k] = sent[k] /\ inFlight'[k] = inFlight[k]
    /\ delivered'[k] = delivered[k] /\ tries'[k] = tries[k]

(* The claims a call has not finished with. *)
Mine(v) == batch[v] \cup {c \in {cur[v]} : pc[v] \in Sending}

(* A call that did not move: the records that changed are no longer its own. *)
LEMMA OtherCall ==
    ASSUME OutboxInv, NEW v \in Workers, SameLocals(v), NEW S \in SUBSET Keys,
           \A k \in Keys \ S : SameRecord(k),
           \A k \in S : issued'[k] \in Nat /\ issued'[k] >= issued[k],
           pc[v] = "send" /\ cur[v].key \in S => Requested(cur[v], chunk[v])',
           \A c \in Mine(v) : c.key \in S => ~Holds(c)'
    PROVE  WaitingFor(v)' /\ CurrentFor(v)'
<1> USE DEF SameLocals, SameRecord, OutboxInv, TypeOK, LocalsOK, HistoryOK
<1>1. ASSUME NEW c \in Mine(v)
      PROVE  /\ c \in Claims
             /\ IssuedClaim(c) => IssuedClaim(c)'
             /\ c.key \notin S => SameRecord(c.key)
             /\ Holds(c)' => Holds(c) /\ c.key \notin S /\ SameRecord(c.key)
    <2>1. CurrentFor(v) /\ batch[v] \subseteq Claims
        BY DEF CurrentOK
    <2>2. c \in Claims
        BY <1>1, <2>1 DEF Mine, CurrentFor
    <2>3. c.key \in Keys /\ c.lease \in Nat
        BY <2>2 DEF Claims
    <2>4. c.key \notin S => SameRecord(c.key)
        BY <2>3
    <2> QED
        BY <1>1, <2>2, <2>3, <2>4 DEF IssuedClaim, Holds
<1>2. WaitingFor(v)'
    BY <1>1 DEF WaitingOK, WaitingFor, Mine, Settled
<1>3. CurrentFor(v)'
    <2> SUFFICES ASSUME pc[v] \in Sending
                 PROVE  CurrentFor(v)'
        BY DEF CurrentFor, Sending
    <2>1. cur[v] \in Mine(v) /\ CurrentFor(v)
        BY DEF Mine, CurrentOK
    <2>2. pc[v] = "send" => SameRecord(cur[v].key) \/ Requested(cur[v], chunk[v])'
        BY <1>1, <2>1
    <2> QED
        BY <1>1, <2>1, <2>2 DEF CurrentFor, Knows, Requested, Settled, InDoubt, Sending
<1> QED
    BY <1>2, <1>3

(* One call moves and gains no claim. *)
LEMMA UniqueKept ==
    ASSUME UniqueClaims, NEW w \in Workers, \A v \in Workers \ {w} : SameLocals(v),
           batch'[w] \subseteq batch[w],
           pc'[w] \in Sending => pc[w] \in Sending /\ SameClaim(cur'[w], cur[w])
    PROVE  UniqueClaims'
BY DEF UniqueClaims, SameLocals, SameClaim

(* A record that did not change is as good as it was. *)
LEMMA SameRecordKept ==
    ASSUME OutboxInv, NEW k \in Keys, SameRecord(k)
    PROVE  /\ Settled(k)' <=> Settled(k)
           /\ \A i \in Chunks : InDoubt(k, i)' <=> InDoubt(k, i)
BY DEF SameRecord, Settled, InDoubt

RecordFor(k) ==
    /\ lease[k] \in {0, issued[k]}
    /\ status[k] = "sending" <=> lease[k] # 0
    /\ status[k] \in {"absent", "pending", "sending"} => tries[k] < MaxAttempts
    /\ Settled(k) \/ \E i \in Chunks : InDoubt(k, i)
    /\ status[k] \in {"absent", "pending", "failed"} => Settled(k)
    /\ status[k] = "sent" => sent[k] = Chunks
    /\ \A n \in DOMAIN delivered[k] : delivered[k][n] = n

LEMMA RecordParts ==
    (\A k \in Keys : RecordFor(k)) <=> LeaseOK /\ TriesOK /\ RecordOK /\ DeliveredIsPrefix
BY DEF RecordFor, LeaseOK, TriesOK, RecordOK, DeliveredIsPrefix

LEMMA RecordKept ==
    ASSUME OutboxInv, NEW k \in Keys, SameRecord(k)
    PROVE  RecordFor(k)'
<1>1. RecordFor(k)
    BY RecordParts DEF OutboxInv
<1> QED
    BY <1>1 DEF RecordFor, SameRecord, Settled, InDoubt

(* What is to be shown of a step of call w that changes the records in S. *)
LEMMA CallStep ==
    ASSUME OutboxInv, NEW w \in Workers, \A v \in Workers \ {w} : SameLocals(v),
           NEW S \in SUBSET Keys,
           \A k \in Keys \ S : SameRecord(k),
           \A k \in S : RecordFor(k)' /\ issued'[k] >= issued[k],
           \A v \in Workers \ {w} :
               /\ pc[v] = "send" /\ cur[v].key \in S => Requested(cur[v], chunk[v])'
               /\ \A c \in Mine(v) : c.key \in S => ~Holds(c)',
           TypeOK', UniqueClaims', WaitingFor(w)', CurrentFor(w)', KeysOK', ToldOK'
    PROVE  OutboxInv'
<1>1. \A k \in Keys : RecordFor(k)'
    BY RecordKept
<1>2. LeaseOK' /\ TriesOK' /\ RecordOK' /\ DeliveredIsPrefix'
    BY <1>1 DEF RecordFor, LeaseOK, TriesOK, RecordOK, DeliveredIsPrefix
<1>3. \A k \in S : issued'[k] \in Nat
    BY DEF TypeOK, HistoryOK
<1>4. WaitingOK' /\ CurrentOK'
    BY <1>3, OtherCall DEF WaitingOK, CurrentOK
<1> QED
    BY <1>2, <1>4 DEF OutboxInv

SameQueue == UNCHANGED <<queue, issued, delivered>>

(* A step of call w that changes no record. *)
LEMMA LocalStep ==
    ASSUME OutboxInv, NEW w \in Workers, \A v \in Workers \ {w} : SameLocals(v),
           SameQueue, told' = told \/ (ToldOK' /\ told' \subseteq Keys),
           LocalsOK', KeysOK', UniqueClaims', WaitingFor(w)', CurrentFor(w)'
    PROVE  OutboxInv'
<1>1. \A k \in Keys : SameRecord(k)
    BY DEF SameQueue, queue, SameRecord
<1>2. QueueOK' /\ HistoryOK' /\ ToldOK'
    BY DEF SameQueue, queue, OutboxInv, TypeOK, QueueOK, HistoryOK, ToldOK
<1>3. TypeOK'
    BY <1>2 DEF TypeOK
<1>4. {} \in SUBSET Keys /\ \A k \in Keys \ {} : SameRecord(k)
    BY <1>1
<1> QED
    BY <1>2, <1>3, <1>4, CallStep

(* Claims a call keeps, of records that did not change, are as good as before. *)
LEMMA WaitingKept ==
    ASSUME OutboxInv, SameQueue, NEW w \in Workers, batch'[w] \subseteq batch[w]
    PROVE  WaitingFor(w)'
<1>1. WaitingFor(w)
    BY DEF OutboxInv, WaitingOK
<1> QED
    BY <1>1 DEF WaitingFor, SameQueue, queue, IssuedClaim, Holds, Settled

(* A record whose chunks are all marked sent was delivered whole. *)
LEMMA WholeRecord ==
    ASSUME OutboxInv, NEW k \in Keys, sent[k] = 1..NChunks
    PROVE  Len(delivered[k]) = NChunks /\ Settled(k)
<1>1. delivered[k] \in Seq(Chunks) /\ Len(delivered[k]) \in Nat
    BY DEF OutboxInv, TypeOK, HistoryOK
<1>2. ASSUME NEW i \in Chunks, InDoubt(k, i)
      PROVE  FALSE
    <2>1. i - 1 \in Nat /\ NChunks \in Nat /\ i - 1 < NChunks
        BY <1>2, ChunksAssumption DEF Chunks
    <2>2. 1..(i - 1) = 1..NChunks
        BY <1>2 DEF InDoubt
    <2> QED
        BY <2>1, <2>2, Intervals
<1>3. Settled(k)
    BY <1>2 DEF OutboxInv, RecordOK
<1> QED
    BY <1>1, <1>3, Intervals, ChunksAssumption DEF Settled

(* A step of call w that changes no record and after which it is sending none. *)
LEMMA IdleStep ==
    ASSUME OutboxInv, NEW w \in Workers, \A v \in Workers \ {w} : SameLocals(v),
           SameQueue, told' = told \/ (ToldOK' /\ told' \subseteq Keys),
           LocalsOK', KeysOK', batch'[w] \subseteq batch[w], pc'[w] \notin Sending
    PROVE  OutboxInv'
<1>1. UniqueClaims'
    BY UniqueKept DEF OutboxInv
<1>2. CurrentFor(w)'
    BY DEF CurrentFor
<1> QED
    BY <1>1, <1>2, WaitingKept, LocalStep

LEMMA LeaveStep ==
    ASSUME OutboxInv, NEW w \in Workers, Leave(w), SameQueue,
           told' = told \/ (ToldOK' /\ told' \subseteq Keys)
    PROVE  OutboxInv'
<1>1. \A v \in Workers \ {w} : SameLocals(v)
    BY DEF SameLocals, OutboxInv, TypeOK, LocalsOK, Leave, Goto
<1>2. LocalsOK'
    BY ChunksAssumption DEF Points, OutboxInv, TypeOK, LocalsOK, Leave, Goto
<1>3. KeysOK' /\ batch'[w] \subseteq batch[w] /\ pc'[w] \notin Sending
    BY DEF KeysOK, Sending, OutboxInv, TypeOK, LocalsOK, Leave, Goto
<1> QED
    BY <1>1, <1>2, <1>3, IdleStep

(* The steps of a call that change no record and hold no claim to send. *)
LEMMA LocalActions ==
    ASSUME OutboxInv, NEW w \in Workers,
           \/ \E k \in Keys : Call(w, k)
           \/ EnqueueRead(w) \/ EnqueueReread(w) \/ FindDue(w) \/ Claimed(w)
           \/ Report(w) \/ Abandon(w)
    PROVE  OutboxInv'
<1>1. ASSUME NEW k \in Keys, Call(w, k)
      PROVE  OutboxInv'
    <2>1. /\ LocalsOK' /\ KeysOK' /\ \A v \in Workers \ {w} : SameLocals(v)
          /\ SameQueue /\ told' = told /\ batch'[w] \subseteq batch[w] /\ pc'[w] \notin Sending
        BY <1>1 DEF Call, Goto, Points, Sending, KeysOK, SameLocals, SameQueue, OutboxInv, TypeOK,
                    LocalsOK
    <2> QED
        BY <2>1, IdleStep
<1>2. CASE EnqueueRead(w)
    <2>1. /\ LocalsOK' /\ KeysOK' /\ \A v \in Workers \ {w} : SameLocals(v)
          /\ SameQueue /\ told' = told /\ batch'[w] \subseteq batch[w] /\ pc'[w] \notin Sending
        BY <1>2 DEF EnqueueRead, Goto, Points, Sending, KeysOK, SameLocals, SameQueue, OutboxInv,
                    TypeOK, LocalsOK
    <2> QED
        BY <2>1, IdleStep
<1>3. CASE EnqueueReread(w)
    <2>1. SameQueue /\ told' = told
        BY <1>3 DEF EnqueueReread, SameQueue
    <2>2. CASE Leave(w)
        BY <2>1, <2>2, LeaveStep
    <2>3. CASE Goto(w, "reconcile") /\ UNCHANGED <<key, todo, batch, cur, chunk>>
        <3>1. /\ LocalsOK' /\ KeysOK' /\ \A v \in Workers \ {w} : SameLocals(v)
              /\ batch'[w] \subseteq batch[w] /\ pc'[w] \notin Sending
            BY <1>3, <2>3 DEF EnqueueReread, Goto, Points, Sending, KeysOK, SameLocals, OutboxInv,
                              TypeOK, LocalsOK
        <3> QED
            BY <2>1, <3>1, IdleStep
    <2> QED
        BY <1>3, <2>2, <2>3 DEF EnqueueReread
<1>4. CASE FindDue(w)
    <2>1. /\ LocalsOK' /\ KeysOK' /\ \A v \in Workers \ {w} : SameLocals(v)
          /\ SameQueue /\ told' = told /\ batch'[w] \subseteq batch[w] /\ pc'[w] \notin Sending
        BY <1>4 DEF FindDue, Goto, Points, Sending, KeysOK, SameLocals, SameQueue, OutboxInv,
                    TypeOK, LocalsOK
    <2> QED
        BY <2>1, IdleStep
<1>5. CASE Claimed(w)
    <2>1. /\ LocalsOK' /\ KeysOK' /\ \A v \in Workers \ {w} : SameLocals(v)
          /\ SameQueue /\ told' = told /\ batch'[w] \subseteq batch[w] /\ pc'[w] \notin Sending
        BY <1>5 DEF Claimed, Goto, Points, Sending, KeysOK, SameLocals, SameQueue, OutboxInv,
                    TypeOK, LocalsOK
    <2> QED
        BY <2>1, IdleStep
<1>6. CASE Report(w)
    <2>1. key[w] \in Keys
        BY <1>6 DEF Report, OutboxInv, KeysOK
    <2>2. told \subseteq Keys /\ told' \subseteq Keys
        BY <1>6, <2>1 DEF Report, OutboxInv, TypeOK, HistoryOK
    <2>3. status[key[w]] = "sent" => Len(delivered[key[w]]) = NChunks
        <3>1. status[key[w]] = "sent" => sent[key[w]] = 1..NChunks
            BY <2>1 DEF OutboxInv, RecordOK, Chunks
        <3> QED
            BY <2>1, <3>1, WholeRecord
    <2>4. ToldOK'
        BY <1>6, <2>3 DEF Report, ToldOK, OutboxInv
    <2> QED
        BY <1>6, <2>2, <2>4, LeaveStep DEF Report, SameQueue
<1>7. CASE Abandon(w)
    BY <1>7, LeaveStep DEF Abandon, SameQueue
<1> QED
    BY <1>1, <1>2, <1>3, <1>4, <1>5, <1>6, <1>7

-----------------------------------------------------------------------------
(* Sending a claimed record.                                                 *)

(* A claim as good as the record, or no longer the record's, is sent on from the
   first chunk it does not know to be sent. *)
LEMMA AdvanceCurrent ==
    ASSUME LocalsOK, NEW w \in Workers, NEW c \in Claims, Advance(w, c),
           delivered' \in [Keys -> Seq(Chunks)],
           IssuedClaim(c)',
           Holds(c)' => Settled(c.key)' /\ c.sent = sent'[c.key]
    PROVE  /\ CurrentFor(w)'
           /\ cur' \in [Workers -> Claims \cup {NoClaim}]
           /\ chunk' \in [Workers -> 0..NChunks]
           /\ pc' \in [Workers -> Points]
<1>1. /\ cur' = [cur EXCEPT ![w] = c]
      /\ \/ pc' = [pc EXCEPT ![w] = "record_sent"] /\ chunk' = [chunk EXCEPT ![w] = 0]
         \/ \E i \in Chunks \ c.sent :
              /\ \A j \in Chunks \ c.sent : i <= j
              /\ pc' = [pc EXCEPT ![w] = "flight"] /\ chunk' = [chunk EXCEPT ![w] = i]
    BY DEF Advance, Goto
<1>2. /\ cur' \in [Workers -> Claims \cup {NoClaim}]
      /\ chunk' \in [Workers -> 0..NChunks]
      /\ pc' \in [Workers -> Points]
      /\ cur'[w] = c
    <2>1. cur' \in [Workers -> Claims \cup {NoClaim}] /\ cur'[w] = c
        BY <1>1 DEF LocalsOK
    <2>2. \E i \in 0..NChunks : chunk' = [chunk EXCEPT ![w] = i]
        <3>1. 0 \in 0..NChunks /\ Chunks \subseteq 0..NChunks
            BY ChunksAssumption DEF Chunks
        <3> QED
            BY <1>1, <3>1
    <2>3. \E point \in Points : pc' = [pc EXCEPT ![w] = point]
        BY <1>1 DEF Points
    <2> QED
        BY <2>1, <2>2, <2>3 DEF LocalsOK
<1>3. CASE pc'[w] = "record_sent"
    BY <1>2, <1>3 DEF CurrentFor, Knows
<1>4. ASSUME NEW i \in Chunks \ c.sent, \A j \in Chunks \ c.sent : i <= j,
             pc' = [pc EXCEPT ![w] = "flight"], chunk' = [chunk EXCEPT ![w] = i]
      PROVE  CurrentFor(w)'
    <2>1. pc'[w] = "flight" /\ chunk'[w] = i
        BY <1>4 DEF LocalsOK
    <2>2. ASSUME Holds(c)'
          PROVE  Len(delivered'[c.key]) = i - 1
        <3> DEFINE L == Len(delivered'[c.key])
        <3>1. L \in Nat /\ c.sent = 1..L
            BY <2>2 DEF Settled, Claims
        <3>2. i > L
            BY <3>1 DEF Chunks
        <3>3. i > L + 1 => L + 1 \in Chunks \ c.sent
            BY <3>1, ChunksAssumption DEF Chunks
        <3> HIDE DEF L
        <3>4. i \in Nat /\ (i > L + 1 => i <= L + 1)
            BY <1>4, <3>3 DEF Chunks
        <3>5. i = L + 1
            BY <3>1, <3>2, <3>4
        <3> QED
            BY <3>1, <3>5 DEF L
    <2> QED
        BY <1>2, <2>1, <2>2 DEF CurrentFor, Knows
<1>5. CurrentFor(w)'
    <2>1. pc' = [pc EXCEPT ![w] = "record_sent"] => pc'[w] = "record_sent"
        BY DEF LocalsOK
    <2> QED
        BY <1>1, <1>3, <1>4, <2>1
<1> QED
    BY <1>2, <1>5

LEMMA NextRecordKeeps ==
    ASSUME OutboxInv, NEW w \in Workers, NextRecord(w)
    PROVE  OutboxInv'
<1>1. /\ pc[w] = "next" /\ SameQueue /\ told' = told
      /\ UNCHANGED <<key, todo>>
    BY DEF NextRecord, SameQueue
<1>2. CASE batch[w] = {} /\ Goto(w, "report") /\ UNCHANGED <<batch, cur, chunk>>
    <2>1. /\ LocalsOK' /\ KeysOK' /\ \A v \in Workers \ {w} : SameLocals(v)
          /\ batch'[w] \subseteq batch[w] /\ pc'[w] \notin Sending
        BY <1>1, <1>2 DEF Goto, Points, Sending, KeysOK, SameLocals, OutboxInv, TypeOK, LocalsOK
    <2> QED
        BY <1>1, <2>1, IdleStep
<1>3. ASSUME NEW c \in batch[w], batch' = [batch EXCEPT ![w] = batch[w] \ {c}], Advance(w, c)
      PROVE  OutboxInv'
    <2>1. c \in Claims /\ WaitingFor(w) /\ LocalsOK
        BY DEF OutboxInv, TypeOK, LocalsOK, WaitingOK
    <2>2. /\ IssuedClaim(c)'
          /\ Holds(c)' => Settled(c.key)' /\ c.sent = sent'[c.key]
        BY <1>1, <2>1 DEF SameQueue, queue, WaitingFor, IssuedClaim, Holds, Settled
    <2>3. delivered' \in [Keys -> Seq(Chunks)]
        BY <1>1 DEF SameQueue, OutboxInv, TypeOK, HistoryOK
    <2>4. /\ CurrentFor(w)'
          /\ cur' \in [Workers -> Claims \cup {NoClaim}]
          /\ chunk' \in [Workers -> 0..NChunks]
          /\ pc' \in [Workers -> Points]
        BY <1>3, <2>1, <2>2, <2>3, AdvanceCurrent
    <2>5. /\ batch' \in [Workers -> SUBSET Claims]
          /\ batch'[w] = batch[w] \ {c}
        BY <1>3, <2>1 DEF LocalsOK
    <2>6. cur'[w] = c /\ \A v \in Workers \ {w} : SameLocals(v)
        BY <1>1, <1>3, <2>1 DEF LocalsOK, SameLocals, Goto, Advance
    <2>7. LocalsOK' /\ KeysOK'
        BY <1>1, <2>1, <2>4, <2>5, <2>6 DEF LocalsOK, KeysOK, SameLocals, OutboxInv
    <2>8. UniqueClaims'
        BY <1>1, <2>1, <2>5, <2>6 DEF OutboxInv, UniqueClaims, SameClaim, SameLocals, Sending
    <2>9. WaitingFor(w)'
        BY <1>1, <2>5, WaitingKept
    <2> QED
        BY <1>1, <2>4, <2>6, <2>7, <2>8, <2>9, LocalStep
<1> QED
    BY <1>2, <1>3 DEF NextRecord

(* A call that holds a record shares the claim with no other call. *)
LEMMA OnlyHolder ==
    ASSUME OutboxInv, NEW w \in Workers, pc[w] \in Sending, Holds(cur[w])
    PROVE  /\ cur[w] \in Claims /\ cur[w].key \in Keys
           /\ lease[cur[w].key] = issued[cur[w].key]
           /\ \A v \in Workers \ {w} : \A c \in Mine(v) : c.key = cur[w].key => ~Holds(c)
           /\ \A v \in Workers \ {w} : pc[v] = "send" => cur[v].key # cur[w].key
           /\ \A c \in batch[w] : c.key = cur[w].key => ~Holds(c)
<1>1. cur[w] \in Claims /\ cur[w].key \in Keys /\ IssuedClaim(cur[w])
    BY DEF OutboxInv, CurrentOK, CurrentFor, Claims
<1>2. lease[cur[w].key] = cur[w].lease /\ lease[cur[w].key] = issued[cur[w].key]
    BY <1>1 DEF Holds, OutboxInv, LeaseOK
<1>3. ASSUME NEW v \in Workers \ {w}, NEW c \in Mine(v), c.key = cur[w].key, Holds(c)
      PROVE  FALSE
    <2>1. SameClaim(c, cur[w])
        BY <1>2, <1>3 DEF Holds, SameClaim
    <2>2. CASE c \in batch[v]
        BY <2>1, <2>2 DEF OutboxInv, UniqueClaims
    <2>3. CASE c = cur[v] /\ pc[v] \in Sending
        BY <2>1, <2>3 DEF OutboxInv, UniqueClaims
    <2> QED
        BY <1>3, <2>2, <2>3 DEF Mine
<1>4. ASSUME NEW v \in Workers \ {w}, pc[v] = "send", cur[v].key = cur[w].key
      PROVE  FALSE
    <2>1. cur[v].lease = issued[cur[w].key]
        BY <1>4 DEF OutboxInv, CurrentOK, CurrentFor, Requested, Sending
    <2> QED
        BY <1>2, <1>4, <2>1 DEF OutboxInv, UniqueClaims, SameClaim, Sending
<1>5. \A c \in batch[w] : c.key = cur[w].key => ~Holds(c)
    BY <1>2 DEF OutboxInv, UniqueClaims, SameClaim, Holds
<1> QED
    BY <1>1, <1>2, <1>3, <1>4, <1>5

(* A step of a call on the one record it holds and is sending. *)
LEMMA HolderStep ==
    ASSUME OutboxInv, NEW w \in Workers, pc[w] \in Sending, Holds(cur[w]),
           NEW k \in Keys, k = cur[w].key,
           \A v \in Workers \ {w} : SameLocals(v), issued' = issued, told' = told,
           key' = key, batch' = batch,
           \A j \in Keys \ {k} : SameRecord(j), RecordFor(k)',
           Len(delivered'[k]) = Len(delivered[k]), lease'[k] \in {0, lease[k]},
           QueueOK', LocalsOK', HistoryOK', CurrentFor(w)',
           pc'[w] \in Sending => SameClaim(cur'[w], cur[w])
    PROVE  OutboxInv'
<1>1. /\ cur[w] \in Claims /\ k \in Keys /\ lease[k] = issued[k]
      /\ \A v \in Workers \ {w} : \A c \in Mine(v) : c.key = k => ~Holds(c)
      /\ \A v \in Workers \ {w} : pc[v] = "send" => cur[v].key # k
      /\ \A c \in batch[w] : c.key = k => ~Holds(c)
    BY OnlyHolder
<1>2. lease[k] \in Nat \ {0} /\ status[k] = "sending" /\ cur[w].lease = lease[k]
    BY <1>1 DEF Holds, OutboxInv, LeaseOK, TypeOK, QueueOK
<1>3. ASSUME NEW v \in Workers, NEW c \in Mine(v), v = w => c \in batch[w],
             c.key = k, Holds(c)'
      PROVE  FALSE
    <2>1. c.lease # lease[k]
        BY <1>1, <1>2, <1>3 DEF Holds
    <2>2. IssuedClaim(c) /\ c.lease # 0
        BY <1>3 DEF OutboxInv, WaitingOK, WaitingFor, CurrentOK, CurrentFor, Mine, IssuedClaim
    <2> QED
        BY <1>3, <2>1, <2>2 DEF Holds
<1>4. UniqueClaims'
    BY UniqueKept DEF OutboxInv
<1>5. WaitingFor(w)'
    <2> SUFFICES ASSUME NEW c \in batch[w]
                 PROVE  /\ IssuedClaim(c)'
                        /\ Holds(c)' => Settled(c.key)' /\ c.sent = sent'[c.key]
        BY DEF WaitingFor
    <2>1. IssuedClaim(c) /\ (Holds(c) => Settled(c.key) /\ c.sent = sent[c.key]) /\ c.key \in Keys
        BY DEF OutboxInv, WaitingOK, WaitingFor, TypeOK, LocalsOK, Claims
    <2>2. c.key = k => ~Holds(c)'
        BY <1>3 DEF Mine
    <2>3. c.key # k => SameRecord(c.key)
        BY <2>1
    <2> QED
        BY <2>1, <2>2, <2>3 DEF SameRecord, IssuedClaim, Holds, Settled
<1>6. KeysOK' /\ ToldOK'
    <2>1. \A j \in Keys : Len(delivered'[j]) = Len(delivered[j])
        BY <1>1 DEF SameRecord
    <2>2. ToldOK'
        BY <2>1 DEF OutboxInv, TypeOK, HistoryOK, ToldOK
    <2>3. key[w] \in Keys
        BY DEF OutboxInv, KeysOK, Sending
    <2>4. KeysOK'
        BY <2>3 DEF OutboxInv, KeysOK, SameLocals
    <2> QED
        BY <2>2, <2>4
<1>7. \A v \in Workers \ {w} :
          /\ pc[v] = "send" => cur[v].key \notin {k}
          /\ \A c \in Mine(v) : c.key \in {k} => ~Holds(c)'
    BY <1>1, <1>3
<1>8. TypeOK' /\ \A j \in {k} : RecordFor(j)' /\ issued'[j] >= issued[j]
    <2>1. issued[k] \in Nat
        BY <1>1 DEF OutboxInv, TypeOK, HistoryOK
    <2>2. TypeOK'
        BY DEF TypeOK
    <2> QED
        BY <2>1, <2>2
<1>9. {k} \in SUBSET Keys
    BY <1>1
<1> QED
    BY <1>4, <1>5, <1>6, <1>7, <1>8, <1>9, CallStep

(* A call that finds the record gone, or has no more to do with it, goes on to
   the next one. *)
LEMMA DismissLocals ==
    ASSUME OutboxInv, NEW w \in Workers, pc[w] \in Sending, Dismiss(w),
           UNCHANGED <<key, todo, batch>>
    PROVE  /\ \A v \in Workers \ {w} : SameLocals(v)
           /\ LocalsOK' /\ KeysOK' /\ batch'[w] \subseteq batch[w] /\ pc'[w] \notin Sending
<1>1. /\ \A v \in Workers \ {w} : SameLocals(v)
      /\ pc'[w] = "next"
    BY DEF SameLocals, OutboxInv, TypeOK, LocalsOK, Dismiss, Goto
<1>2. LocalsOK'
    BY ChunksAssumption DEF Points, OutboxInv, TypeOK, LocalsOK, Dismiss, Goto
<1>3. KeysOK' /\ batch'[w] \subseteq batch[w] /\ pc'[w] \notin Sending
    BY <1>1 DEF KeysOK, Sending, OutboxInv, TypeOK, LocalsOK, Dismiss, SameLocals
<1> QED
    BY <1>1, <1>2, <1>3

(* Going on with the same claim to another point. *)
LEMMA GotoLocals ==
    ASSUME OutboxInv, NEW w \in Workers, pc[w] \in Sending, NEW point \in Points \ {"idle"},
           Goto(w, point), UNCHANGED <<key, todo, batch, cur, chunk>>
    PROVE  /\ \A v \in Workers \ {w} : SameLocals(v)
           /\ LocalsOK' /\ KeysOK' /\ pc'[w] = point
<1>1. /\ \A v \in Workers \ {w} : SameLocals(v)
      /\ pc'[w] = point /\ LocalsOK'
    BY DEF SameLocals, OutboxInv, TypeOK, LocalsOK, Goto
<1>2. KeysOK'
    BY <1>1 DEF KeysOK, Sending, OutboxInv, SameLocals
<1> QED
    BY <1>1, <1>2

(* The record is no longer this call's, or an answer is out of doubt: the call
   reports the record as unknown. *)
LEMMA GotoUnknown ==
    ASSUME OutboxInv, NEW w \in Workers, pc[w] \in Sending, Goto(w, "unknown"),
           UNCHANGED <<key, todo, batch, cur, chunk, told>>, SameQueue
    PROVE  OutboxInv'
<1>1. /\ \A v \in Workers \ {w} : SameLocals(v)
      /\ LocalsOK' /\ KeysOK' /\ pc'[w] = "unknown"
    <2>1. "unknown" \in Points \ {"idle"}
        BY DEF Points
    <2> QED
        BY <2>1, GotoLocals
<1>2. UniqueClaims'
    <2>1. SameClaim(cur'[w], cur[w])
        BY DEF SameClaim
    <2> QED
        BY <1>1, <2>1, UniqueKept DEF OutboxInv
<1>3. cur[w] \in Claims /\ IssuedClaim(cur[w])
    BY DEF OutboxInv, CurrentOK, CurrentFor
<1>4. CurrentFor(w)'
    BY <1>1, <1>3 DEF CurrentFor, Knows, IssuedClaim, SameQueue
<1> QED
    BY <1>1, <1>2, <1>4, WaitingKept, LocalStep

(* What a call knows of the record it holds. *)
LEMMA HeldRecord ==
    ASSUME OutboxInv, NEW w \in Workers, pc[w] \in Sending, Holds(cur[w])
    PROVE  \E c \in Claims, k \in Keys :
              /\ c = cur[w] /\ k = c.key /\ c.lease = lease[k] /\ c.lease = issued[k]
              /\ IssuedClaim(c) /\ status[k] = "sending" /\ RecordFor(k) /\ Knows(w, k, chunk[w])
              /\ pc[w] \in {"flight", "send", "chunk_sent"} => c.sent = sent[k]
              /\ pc[w] \in {"flight", "send", "chunk_sent", "reject"} => chunk[w] \in Chunks
              /\ delivered[k] \in Seq(Chunks)
<1>1. /\ cur[w] \in Claims /\ cur[w].key \in Keys /\ lease[cur[w].key] = issued[cur[w].key]
    BY OnlyHolder
<1>2. RecordFor(cur[w].key) /\ delivered[cur[w].key] \in Seq(Chunks)
    BY <1>1, RecordParts DEF OutboxInv, TypeOK, HistoryOK
<1> QED
    BY <1>1, <1>2 DEF OutboxInv, CurrentOK, CurrentFor, Holds

LEMMA MarkInFlightKeeps ==
    ASSUME OutboxInv, NEW w \in Workers, MarkInFlight(w)
    PROVE  OutboxInv'
<1>1. /\ pc[w] = "flight" /\ pc[w] \in Sending
      /\ UNCHANGED <<status, lease, expired, due, tries, sent, key, todo, batch,
                     issued, delivered, told>>
    BY DEF MarkInFlight, Sending
<1>2. CASE Dismiss(w) /\ UNCHANGED inFlight
    <2>1. SameQueue /\ told' = told
        BY <1>1, <1>2 DEF SameQueue, queue
    <2> QED
        BY <1>1, <1>2, <2>1, DismissLocals, IdleStep
<1>3. CASE Holds(cur[w]) /\ ~(Dismiss(w) /\ UNCHANGED inFlight)
    <2>1. PICK c \in Claims, k \in Keys, i \in Chunks :
              /\ c = cur[w] /\ k = c.key /\ i = chunk[w]
              /\ IssuedClaim(c) /\ c.lease = issued[k] /\ status[k] = "sending"
              /\ RecordFor(k) /\ Settled(k) /\ Len(delivered[k]) = i - 1 /\ c.sent = sent[k]
        BY <1>1, <1>3, HeldRecord DEF Knows
    <2>2. /\ inFlight' = [inFlight EXCEPT ![k] = inFlight[k] \cup {i}]
          /\ Goto(w, "send") /\ UNCHANGED <<cur, chunk>>
        BY <1>3, <2>1 DEF MarkInFlight
    <2>3. /\ \A v \in Workers \ {w} : SameLocals(v)
          /\ LocalsOK' /\ KeysOK' /\ pc'[w] = "send"
        <3>1. "send" \in Points \ {"idle"}
            BY DEF Points
        <3> QED
            BY <1>1, <2>2, <3>1, GotoLocals
    <2>4. inFlight \in [Keys -> SUBSET Chunks]
        BY DEF OutboxInv, TypeOK, QueueOK
    <2>5. InDoubt(k, i)' /\ inFlight' \in [Keys -> SUBSET Chunks]
        BY <1>1, <2>1, <2>2, <2>4 DEF Settled, InDoubt
    <2>6. RecordFor(k)'
        BY <1>1, <2>1, <2>5 DEF RecordFor
    <2>7. CurrentFor(w)'
        BY <1>1, <2>1, <2>2, <2>3, <2>5 DEF CurrentFor, Requested, Knows, IssuedClaim
    <2>8. \A j \in Keys \ {k} : SameRecord(j)
        BY <1>1, <2>2, <2>4 DEF SameRecord
    <2>9. QueueOK' /\ HistoryOK'
        BY <1>1, <2>5 DEF QueueOK, HistoryOK, OutboxInv, TypeOK
    <2>10. SameClaim(cur'[w], cur[w]) /\ lease'[k] \in {0, lease[k]}
             /\ Len(delivered'[k]) = Len(delivered[k])
        BY <1>1, <2>2 DEF SameClaim
    <2> QED
        BY <1>1, <1>3, <2>1, <2>3, <2>6, <2>7, <2>8, <2>9, <2>10, HolderStep
<1> QED
    BY <1>2, <1>3 DEF MarkInFlight

LEMMA SendKeeps ==
    ASSUME OutboxInv, NEW w \in Workers, Send(w)
    PROVE  OutboxInv'
<1>1. pc[w] = "send" /\ pc[w] \in Sending /\ CurrentFor(w)
    BY DEF Send, Sending, OutboxInv, CurrentOK
<1>2. PICK c \in Claims, k \in Keys, i \in Chunks :
          /\ c = cur[w] /\ k = c.key /\ i = chunk[w]
          /\ IssuedClaim(c) /\ c.lease = issued[k] /\ InDoubt(k, i)
          /\ status[k] \in {"sending", "delivery_unknown"} /\ Len(delivered[k]) = i - 1
          /\ Holds(c) => c.sent = sent[k]
    BY <1>1 DEF CurrentFor, Requested, Claims
<1>3. /\ \/ /\ delivered' = [delivered EXCEPT ![k] = Append(delivered[k], i)]
            /\ (Goto(w, "chunk_sent") \/ Goto(w, "unknown"))
         \/ delivered' = delivered /\ (Goto(w, "reject") \/ Goto(w, "unknown"))
      /\ UNCHANGED <<queue, key, todo, batch, cur, chunk, issued, told>>
    BY <1>2 DEF Send, Deliver
<1>4. PICK point \in {"chunk_sent", "reject", "unknown"} : Goto(w, point)
    BY <1>3
<1>5. /\ \A v \in Workers \ {w} : SameLocals(v)
      /\ LocalsOK' /\ KeysOK' /\ pc'[w] = point
    <2>1. point \in Points \ {"idle"}
        BY DEF Points
    <2> QED
        BY <1>1, <1>3, <1>4, <2>1, GotoLocals
<1>6. delivered[k] \in Seq(Chunks) /\ delivered \in [Keys -> Seq(Chunks)]
    BY DEF OutboxInv, TypeOK, HistoryOK
<1>7. /\ delivered'[k] \in {delivered[k], Append(delivered[k], i)}
      /\ delivered' \in [Keys -> Seq(Chunks)]
      /\ \A j \in Keys \ {k} : SameRecord(j)
    <2>1. Append(delivered[k], i) \in Seq(Chunks)
        BY <1>2, <1>6
    <2>2. PICK s \in {delivered[k], Append(delivered[k], i)} :
              delivered' = [delivered EXCEPT ![k] = s]
        BY <1>3, <1>6
    <2>3. s \in Seq(Chunks)
        BY <1>6, <2>1, <2>2
    <2>4. /\ delivered'[k] = s /\ delivered' \in [Keys -> Seq(Chunks)]
          /\ \A j \in Keys \ {k} : delivered'[j] = delivered[j]
        BY <1>6, <2>2, <2>3
    <2> QED
        BY <1>3, <2>2, <2>4 DEF SameRecord, queue
<1>8. /\ pc'[w] = "chunk_sent" => delivered'[k] = Append(delivered[k], i)
      /\ pc'[w] = "reject" => delivered'[k] = delivered[k]
    BY <1>3, <1>6 DEF Goto, OutboxInv, TypeOK, LocalsOK
<1>9. Len(delivered[k]) \in Nat /\ Len(Append(delivered[k], i)) = i
    BY <1>2, <1>6 DEF Chunks
<1>10. InDoubt(k, i)'
    BY <1>2, <1>3, <1>7, <1>9 DEF InDoubt, queue
<1>11. RecordFor(k) /\ \A n \in DOMAIN delivered'[k] : delivered'[k][n] = n
    <2>1. RecordFor(k)
        BY RecordParts DEF OutboxInv
    <2>2. \A n \in DOMAIN delivered[k] : delivered[k][n] = n
        BY <2>1 DEF RecordFor
    <2>3. \A n \in DOMAIN Append(delivered[k], i) : Append(delivered[k], i)[n] = n
        BY <1>2, <1>6, <2>2 DEF Chunks
    <2> QED
        BY <1>7, <2>1, <2>2, <2>3
<1>12. RecordFor(k)'
    BY <1>2, <1>3, <1>10, <1>11 DEF RecordFor, queue
<1>13. CurrentFor(w)'
    BY <1>2, <1>3, <1>5, <1>8, <1>9, <1>10 DEF CurrentFor, Knows, IssuedClaim, Holds, queue
<1>14. /\ \A v \in Workers \ {w} : \A d \in Mine(v) : d.key = k => ~Holds(d)
       /\ \A d \in batch[w] : d.key = k => ~Holds(d)
       /\ \A v \in Workers \ {w} : pc[v] = "send" => cur[v].key # k
    <2>1. lease[k] \in {0, issued[k]} /\ (status[k] = "sending" => lease[k] = c.lease)
        BY <1>2 DEF OutboxInv, LeaseOK
    <2>2. \A d : Holds(d) /\ d.key = k => SameClaim(d, c)
        BY <1>2, <2>1 DEF Holds, SameClaim
    <2>3. \A v \in Workers : pc[v] = "send" /\ cur[v].key = k => SameClaim(cur[v], c)
        BY <1>2 DEF SameClaim, OutboxInv, CurrentOK, CurrentFor, Requested, Sending
    <2> QED
        BY <1>1, <1>2, <2>2, <2>3 DEF OutboxInv, UniqueClaims, Mine, SameClaim, Sending
<1>15. UniqueClaims' /\ WaitingFor(w)'
    <2>1. SameClaim(cur'[w], cur[w]) /\ batch'[w] = batch[w]
        BY <1>3 DEF SameClaim
    <2>2. UniqueClaims'
        BY <1>1, <1>5, <2>1, UniqueKept DEF OutboxInv
    <2>3. \A d \in batch[w] : d.key # k => SameRecord(d.key)
        BY <1>7 DEF OutboxInv, TypeOK, LocalsOK, Claims
    <2>4. WaitingFor(w)
        BY DEF OutboxInv, WaitingOK
    <2>5. \A d \in batch[w] : Holds(d)' <=> Holds(d)
        BY <1>3 DEF Holds, queue
    <2>6. WaitingFor(w)'
        BY <1>3, <1>14, <2>1, <2>3, <2>4, <2>5 DEF WaitingFor, IssuedClaim, Settled, SameRecord
    <2> QED
        BY <2>2, <2>6
<1>16. TypeOK' /\ ToldOK'
    <2>1. QueueOK' /\ HistoryOK'
        BY <1>3, <1>7 DEF QueueOK, HistoryOK, OutboxInv, TypeOK, queue
    <2>2. k \notin told
        BY <1>2, ChunksAssumption DEF OutboxInv, ToldOK, Chunks
    <2>3. ToldOK'
        BY <1>3, <1>7, <2>2 DEF ToldOK, OutboxInv, SameRecord, TypeOK, HistoryOK
    <2> QED
        BY <1>5, <2>1, <2>3 DEF TypeOK
<1>17. /\ {k} \in SUBSET Keys
       /\ \A j \in {k} : RecordFor(j)' /\ issued'[j] >= issued[j]
       /\ \A v \in Workers \ {w} :
            /\ pc[v] = "send" => cur[v].key \notin {k}
            /\ \A d \in Mine(v) : d.key \in {k} => ~Holds(d)'
    BY <1>2, <1>3, <1>12, <1>14 DEF Holds, queue, OutboxInv, TypeOK, HistoryOK
<1> QED
    BY <1>5, <1>7, <1>13, <1>15, <1>16, <1>17, CallStep

LEMMA MarkChunkSentKeeps ==
    ASSUME OutboxInv, NEW w \in Workers, MarkChunkSent(w)
    PROVE  OutboxInv'
<1>1. /\ pc[w] = "chunk_sent" /\ pc[w] \in Sending
      /\ UNCHANGED <<status, lease, expired, due, tries, key, todo, batch,
                     issued, delivered, told>>
    BY DEF MarkChunkSent, Sending
<1>2. CASE Goto(w, "unknown") /\ UNCHANGED <<sent, inFlight, cur, chunk>>
    <2>1. SameQueue
        BY <1>1, <1>2 DEF SameQueue, queue
    <2> QED
        BY <1>1, <1>2, <2>1, GotoUnknown
<1>3. CASE Holds(cur[w]) /\ ~(Goto(w, "unknown") /\ UNCHANGED <<sent, inFlight, cur, chunk>>)
    <2>1. PICK c \in Claims, k \in Keys, i \in Chunks :
              /\ c = cur[w] /\ k = c.key /\ i = chunk[w]
              /\ IssuedClaim(c) /\ c.lease = lease[k] /\ c.lease = issued[k]
              /\ status[k] = "sending" /\ RecordFor(k)
              /\ InDoubt(k, i) /\ Len(delivered[k]) = i /\ c.sent = sent[k]
        BY <1>1, <1>3, HeldRecord DEF Knows
    <2> DEFINE d == [c EXCEPT !.sent = c.sent \cup {i}]
    <2>2. /\ sent' = [sent EXCEPT ![k] = sent[k] \cup {i}]
          /\ inFlight' = [inFlight EXCEPT ![k] = inFlight[k] \ {i}]
          /\ Advance(w, d)
        BY <1>3, <2>1 DEF MarkChunkSent
    <2>3. /\ d \in Claims /\ d.key = k /\ d.lease = c.lease
          /\ d.sent = c.sent \cup {i}
        BY <2>1 DEF Claims
    <2> HIDE DEF d
    <2>4. sent \in [Keys -> SUBSET Chunks] /\ inFlight \in [Keys -> SUBSET Chunks]
        BY DEF OutboxInv, TypeOK, QueueOK
    <2>5. sent' \in [Keys -> SUBSET Chunks] /\ inFlight' \in [Keys -> SUBSET Chunks]
        BY <2>2, <2>4
    <2>6. sent'[k] = 1..i /\ inFlight'[k] = {}
        <3>1. sent'[k] = 1..(i - 1) \cup {i} /\ inFlight'[k] = {}
            BY <2>1, <2>2, <2>4 DEF InDoubt
        <3> QED
            BY <3>1, IntervalNext DEF Chunks
    <2>7. Settled(k)' /\ d.sent = sent'[k]
        BY <1>1, <2>1, <2>2, <2>3, <2>4, <2>6 DEF Settled
    <2>8. RecordFor(k)'
        BY <1>1, <2>1, <2>7 DEF RecordFor
    <2>9. QueueOK' /\ HistoryOK'
        BY <1>1, <2>5 DEF QueueOK, HistoryOK, OutboxInv, TypeOK
    <2>10. /\ CurrentFor(w)'
           /\ cur' \in [Workers -> Claims \cup {NoClaim}]
           /\ chunk' \in [Workers -> 0..NChunks]
           /\ pc' \in [Workers -> Points]
        <3>1. LocalsOK /\ delivered' \in [Keys -> Seq(Chunks)]
            BY <1>1 DEF OutboxInv, TypeOK, HistoryOK
        <3>2. IssuedClaim(d)' /\ (Holds(d)' => Settled(d.key)' /\ d.sent = sent'[d.key])
            BY <1>1, <2>1, <2>3, <2>7 DEF IssuedClaim
        <3> QED
            BY <2>2, <2>3, <3>1, <3>2, AdvanceCurrent
    <2>11. LocalsOK'
        BY <1>1, <2>10 DEF LocalsOK, OutboxInv, TypeOK
    <2>12. /\ \A v \in Workers \ {w} : SameLocals(v)
           /\ SameClaim(cur'[w], cur[w])
        BY <1>1, <2>1, <2>2, <2>3 DEF SameLocals, Advance, Goto, SameClaim, OutboxInv, TypeOK, LocalsOK
    <2>13. \A j \in Keys \ {k} : SameRecord(j)
        BY <1>1, <2>2, <2>4 DEF SameRecord
    <2>14. Len(delivered'[k]) = Len(delivered[k]) /\ lease'[k] \in {0, lease[k]}
        BY <1>1
    <2> QED
        BY <1>1, <1>3, <2>1, <2>8, <2>9, <2>10, <2>11, <2>12, <2>13, <2>14, HolderStep
<1> QED
    BY <1>2, <1>3 DEF MarkChunkSent

(* The record leaves the call's hands: what is to be shown of how it does. *)
LEMMA CloseStep ==
    ASSUME OutboxInv, NEW w \in Workers, pc[w] \in Sending, Holds(cur[w]),
           NEW k \in Keys, k = cur[w].key, NEW s \in Statuses \ {"sending"}, Close(k, s),
           \A j \in Keys \ {k} : inFlight'[j] = inFlight[j] /\ tries'[j] = tries[j],
           inFlight' \in [Keys -> SUBSET Chunks], due' \in [Keys -> BOOLEAN],
           tries' \in [Keys -> 0..MaxAttempts],
           Dismiss(w), UNCHANGED <<sent, key, todo, batch, issued, delivered, told>>,
           s \in {"absent", "pending"} => tries'[k] < MaxAttempts,
           s \in {"absent", "pending", "failed"} => Settled(k)',
           s = "sent" => sent[k] = Chunks,
           Settled(k)' \/ \E i \in Chunks : InDoubt(k, i)'
    PROVE  OutboxInv'
<1>1. QueueOK /\ HistoryOK
    BY DEF OutboxInv, TypeOK
<1>2. /\ status'[k] = s /\ lease'[k] = 0
      /\ \A j \in Keys \ {k} : status'[j] = status[j] /\ lease'[j] = lease[j]
      /\ status' \in [Keys -> Statuses] /\ lease' \in [Keys -> Nat]
      /\ expired' \in [Keys -> BOOLEAN]
    BY <1>1 DEF QueueOK, Close
<1>3. \A j \in Keys \ {k} : SameRecord(j)
    BY <1>2 DEF SameRecord
<1>4. RecordFor(k)'
    <2>1. \A n \in DOMAIN delivered[k] : delivered[k][n] = n
        BY DEF OutboxInv, DeliveredIsPrefix
    <2> QED
        BY <1>2, <2>1 DEF RecordFor
<1>5. QueueOK' /\ HistoryOK'
    BY <1>1, <1>2 DEF QueueOK, HistoryOK
<1>6. /\ \A v \in Workers \ {w} : SameLocals(v)
      /\ LocalsOK' /\ pc'[w] \notin Sending
    BY DismissLocals
<1>7. CurrentFor(w)'
    BY <1>6 DEF CurrentFor
<1>8. Len(delivered'[k]) = Len(delivered[k]) /\ lease'[k] \in {0, lease[k]}
    BY <1>2
<1> QED
    BY <1>3, <1>4, <1>5, <1>6, <1>7, <1>8, HolderStep

LEMMA MarkRecordSentKeeps ==
    ASSUME OutboxInv, NEW w \in Workers, MarkRecordSent(w)
    PROVE  OutboxInv'
<1>1. /\ pc[w] = "record_sent" /\ pc[w] \in Sending
      /\ UNCHANGED <<due, tries, sent, inFlight, key, todo, batch, issued, delivered, told>>
    BY DEF MarkRecordSent, Sending
<1>2. CASE Goto(w, "unknown") /\ UNCHANGED <<status, lease, expired, cur, chunk>>
    <2>1. SameQueue
        BY <1>1, <1>2 DEF SameQueue, queue
    <2> QED
        BY <1>1, <1>2, <2>1, GotoUnknown
<1>3. CASE /\ Holds(cur[w]) /\ sent[cur[w].key] = Chunks
           /\ Close(cur[w].key, "sent") /\ Dismiss(w)
    <2>1. PICK k \in Keys : k = cur[w].key /\ RecordFor(k)
        BY <1>1, <1>3, HeldRecord
    <2>2. Settled(k)' \/ \E i \in Chunks : InDoubt(k, i)'
        BY <1>1, <2>1 DEF RecordFor, Settled, InDoubt
    <2>3. /\ inFlight' \in [Keys -> SUBSET Chunks] /\ due' \in [Keys -> BOOLEAN]
          /\ tries' \in [Keys -> 0..MaxAttempts] /\ "sent" \in Statuses \ {"sending"}
        BY <1>1 DEF OutboxInv, TypeOK, QueueOK, Statuses
    <2> QED
        BY <1>1, <1>3, <2>1, <2>2, <2>3, CloseStep
<1> QED
    BY <1>2, <1>3 DEF MarkRecordSent

LEMMA MarkRecordFailedKeeps ==
    ASSUME OutboxInv, NEW w \in Workers, MarkRecordFailed(w)
    PROVE  OutboxInv'
<1>1. /\ pc[w] = "reject" /\ pc[w] \in Sending /\ Dismiss(w)
      /\ UNCHANGED <<sent, key, todo, batch, issued, delivered, told>>
    BY DEF MarkRecordFailed, Sending
<1>2. CASE ~MayReject(cur[w], chunk[w])
    <2>1. SameQueue
        BY <1>1, <1>2 DEF MarkRecordFailed, SameQueue, queue
    <2> QED
        BY <1>1, <2>1, DismissLocals, IdleStep
<1>3. CASE MayReject(cur[w], chunk[w])
    <2>1. PICK c \in Claims, k \in Keys, i \in Chunks :
              /\ c = cur[w] /\ k = c.key /\ i = chunk[w]
              /\ InDoubt(k, i) /\ Len(delivered[k]) = i - 1
              /\ status[k] = "sending" /\ RecordFor(k)
        BY <1>1, <1>3, HeldRecord DEF Knows, MayReject
    <2>2. PICK s \in {"failed", "pending"} :
              /\ Close(k, s) /\ (s = "pending" => ~GiveUp(c))
              /\ due' = [due EXCEPT ![k] = FALSE]
              /\ tries' = [tries EXCEPT ![k] = tries[k] + 1]
              /\ inFlight' = [inFlight EXCEPT ![k] = inFlight[k] \ {i}]
        BY <1>3, <2>1 DEF MarkRecordFailed
    <2>3. /\ inFlight \in [Keys -> SUBSET Chunks] /\ due \in [Keys -> BOOLEAN]
          /\ tries \in [Keys -> 0..MaxAttempts] /\ s \in Statuses \ {"sending"}
        BY DEF OutboxInv, TypeOK, QueueOK, Statuses
    <2>4. tries[k] < MaxAttempts /\ tries[k] = c.tries /\ tries[k] \in Nat
        BY <1>3, <2>1, <2>3, AttemptsAssumption DEF RecordFor, MayReject
    <2>5. /\ inFlight' \in [Keys -> SUBSET Chunks] /\ due' \in [Keys -> BOOLEAN]
          /\ tries' \in [Keys -> 0..MaxAttempts]
          /\ \A j \in Keys \ {k} : inFlight'[j] = inFlight[j] /\ tries'[j] = tries[j]
          /\ inFlight'[k] = {} /\ tries'[k] = tries[k] + 1
        BY <2>1, <2>2, <2>3, <2>4, AttemptsAssumption DEF InDoubt
    <2>6. s = "pending" => tries'[k] < MaxAttempts
        BY <2>2, <2>4, <2>5, AttemptsAssumption DEF GiveUp
    <2>7. Settled(k)'
        BY <1>1, <2>1, <2>5 DEF Settled, InDoubt
    <2> QED
        BY <1>1, <1>3, <2>1, <2>2, <2>3, <2>5, <2>6, <2>7, CloseStep DEF MayReject
<1> QED
    BY <1>2, <1>3

LEMMA MarkDeliveryUnknownKeeps ==
    ASSUME OutboxInv, NEW w \in Workers, MarkDeliveryUnknown(w)
    PROVE  OutboxInv'
<1>1. /\ pc[w] = "unknown" /\ pc[w] \in Sending /\ Dismiss(w)
      /\ UNCHANGED <<due, tries, sent, inFlight, key, todo, batch, issued, delivered, told>>
    BY DEF MarkDeliveryUnknown, Sending
<1>2. CASE UNCHANGED <<status, lease, expired>>
    <2>1. SameQueue
        BY <1>1, <1>2 DEF SameQueue, queue
    <2> QED
        BY <1>1, <2>1, DismissLocals, IdleStep
<1>3. CASE Holds(cur[w]) /\ Close(cur[w].key, "delivery_unknown")
    <2>1. PICK k \in Keys : k = cur[w].key /\ RecordFor(k)
        BY <1>1, <1>3, HeldRecord
    <2>2. Settled(k)' \/ \E i \in Chunks : InDoubt(k, i)'
        BY <1>1, <2>1 DEF RecordFor, Settled, InDoubt
    <2>3. /\ inFlight' \in [Keys -> SUBSET Chunks] /\ due' \in [Keys -> BOOLEAN]
          /\ tries' \in [Keys -> 0..MaxAttempts] /\ "delivery_unknown" \in Statuses \ {"sending"}
        BY <1>1 DEF OutboxInv, TypeOK, QueueOK, Statuses
    <2> QED
        BY <1>1, <1>3, <2>1, <2>2, <2>3, CloseStep
<1> QED
    BY <1>2, <1>3 DEF MarkDeliveryUnknown

-----------------------------------------------------------------------------
(* Steps that change records no call is sending.                             *)

LEMMA InsertKeeps ==
    ASSUME OutboxInv, NEW w \in Workers, EnqueueInsert(w)
    PROVE  OutboxInv'
<1>1. PICK k \in Keys : k = key[w] /\ pc[w] = "enqueue_insert"
    BY DEF EnqueueInsert, OutboxInv, KeysOK
<1>2. /\ \E point \in {"reconcile", "enqueue_reread"} : Goto(w, point)
      /\ UNCHANGED <<lease, expired, tries, sent, inFlight, key, todo, batch, cur, chunk,
                     issued, delivered, told>>
    BY DEF EnqueueInsert
<1>3. /\ LocalsOK' /\ KeysOK' /\ \A v \in Workers \ {w} : SameLocals(v)
      /\ pc'[w] \notin Sending
    <2>1. /\ LocalsOK' /\ \A v \in Workers \ {w} : SameLocals(v) /\ pc'[w] \notin Sending
        BY <1>2 DEF Goto, Points, Sending, SameLocals, OutboxInv, TypeOK, LocalsOK
    <2>2. KeysOK'
        BY <1>1, <1>2, <2>1 DEF SameLocals, OutboxInv, KeysOK
    <2>3. pc'[w] \notin Sending
        BY <1>2 DEF Goto, Sending, OutboxInv, TypeOK, LocalsOK
    <2> QED
        BY <2>1, <2>2, <2>3
<1>4. CASE UNCHANGED <<status, due>>
    <2>1. SameQueue /\ batch'[w] \subseteq batch[w]
        BY <1>2, <1>4 DEF SameQueue, queue
    <2> QED
        BY <1>2, <1>3, <2>1, IdleStep
<1>5. CASE /\ status[k] = "absent"
           /\ status' = [status EXCEPT ![k] = "pending"]
           /\ due' = [due EXCEPT ![k] = TRUE]
    <2>1. RecordFor(k) /\ QueueOK /\ HistoryOK
        BY RecordParts DEF OutboxInv, TypeOK
    <2>2. /\ status'[k] = "pending" /\ \A j \in Keys \ {k} : status'[j] = status[j]
          /\ status' \in [Keys -> Statuses] /\ due' \in [Keys -> BOOLEAN]
        BY <1>5, <2>1 DEF QueueOK, Statuses
    <2>3. TypeOK' /\ ToldOK'
        BY <1>2, <1>3, <2>1, <2>2 DEF TypeOK, QueueOK, HistoryOK, OutboxInv, ToldOK
    <2>4. RecordFor(k)' /\ lease[k] = 0
        BY <1>2, <1>5, <2>1, <2>2 DEF RecordFor, Settled
    <2>5. \A j \in Keys \ {k} : SameRecord(j)
        BY <1>2, <2>2 DEF SameRecord
    <2>6. \A v \in Workers \ {w} :
             /\ pc[v] = "send" => cur[v].key # k
             /\ \A c \in Mine(v) : c.key = k => ~Holds(c)'
        BY <1>5, <2>2 DEF OutboxInv, CurrentOK, CurrentFor, Requested, Sending, Holds
    <2>7. UniqueClaims' /\ CurrentFor(w)'
        <3>1. batch'[w] \subseteq batch[w]
            BY <1>2
        <3> QED
            BY <1>3, <3>1, UniqueKept DEF OutboxInv, CurrentFor
    <2>8. WaitingFor(w)'
        <3>1. WaitingFor(w)
            BY DEF OutboxInv, WaitingOK
        <3>2. \A c \in batch[w] : Holds(c)' => Holds(c)
            BY <1>2, <2>1, <2>2 DEF Holds, QueueOK, OutboxInv, TypeOK, LocalsOK, Claims
        <3> QED
            BY <1>2, <3>1, <3>2 DEF WaitingFor, IssuedClaim, Settled
    <2>9. /\ {k} \in SUBSET Keys
          /\ \A j \in {k} : RecordFor(j)' /\ issued'[j] >= issued[j]
          /\ \A v \in Workers \ {w} :
               /\ pc[v] = "send" => cur[v].key \notin {k}
               /\ \A c \in Mine(v) : c.key \in {k} => ~Holds(c)'
        BY <1>2, <2>1, <2>4, <2>6 DEF HistoryOK
    <2> QED
        BY <1>3, <2>3, <2>5, <2>7, <2>8, <2>9, CallStep
<1> QED
    BY <1>1, <1>4, <1>5 DEF EnqueueInsert

LEMMA ReconcileKeeps ==
    ASSUME OutboxInv, NEW w \in Workers, Reconcile(w)
    PROVE  OutboxInv'
<1>1. PICK done \in SUBSET Keys :
          /\ \A k \in done : Lapsed(k)
          /\ status' = [k \in Keys |-> IF k \in done THEN "delivery_unknown" ELSE status[k]]
          /\ lease' = [k \in Keys |-> IF k \in done THEN 0 ELSE lease[k]]
          /\ expired' = [k \in Keys |-> k \notin done /\ expired[k]]
          /\ \/ Goto(w, "find") /\ UNCHANGED <<key, todo, batch, cur, chunk>>
             \/ Leave(w)
    BY DEF Reconcile, Reconciled
<1>2. pc[w] = "reconcile" /\ UNCHANGED <<due, tries, sent, inFlight, issued, delivered, told>>
    BY DEF Reconcile
<1>3. /\ LocalsOK' /\ KeysOK' /\ \A v \in Workers \ {w} : SameLocals(v)
      /\ pc'[w] \notin Sending /\ batch'[w] \subseteq batch[w]
    BY <1>1, <1>2, ChunksAssumption DEF Goto, Leave, Points, Sending, SameLocals, KeysOK, OutboxInv,
                                        TypeOK, LocalsOK
<1>4. TypeOK /\ QueueOK /\ HistoryOK
    BY DEF OutboxInv, TypeOK
<1>5. status' \in [Keys -> Statuses] /\ lease' \in [Keys -> Nat] /\ expired' \in [Keys -> BOOLEAN]
    BY <1>1, <1>4 DEF QueueOK, Statuses
<1>6. TypeOK' /\ ToldOK'
    BY <1>2, <1>3, <1>4, <1>5 DEF TypeOK, QueueOK, HistoryOK, OutboxInv, ToldOK
<1>7. \A k \in Keys \ done : SameRecord(k)
    BY <1>1, <1>2 DEF SameRecord
<1>8. ASSUME NEW k \in done
      PROVE  /\ RecordFor(k)' /\ issued'[k] >= issued[k]
             /\ status[k] = "sending" /\ status'[k] = "delivery_unknown"
    <2>1. RecordFor(k) /\ Lapsed(k) /\ k \in Keys
        BY <1>1, RecordParts DEF OutboxInv
    <2>2. status'[k] = "delivery_unknown" /\ lease'[k] = 0
        BY <1>1, <2>1
    <2> QED
        BY <1>2, <1>4, <2>1, <2>2 DEF RecordFor, Settled, InDoubt, Lapsed, HistoryOK
<1>9. UniqueClaims' /\ CurrentFor(w)'
    BY <1>3, UniqueKept DEF OutboxInv, CurrentFor
<1>10. WaitingFor(w)'
    <2>1. WaitingFor(w) /\ batch[w] \subseteq Claims
        BY DEF OutboxInv, WaitingOK, TypeOK, LocalsOK
    <2>2. \A c \in batch[w] : Holds(c)' => Holds(c)
        BY <1>1, <1>4, <2>1 DEF Holds, QueueOK, Claims
    <2> QED
        BY <1>2, <1>3, <2>1, <2>2 DEF WaitingFor, IssuedClaim, Settled
<1>11. ASSUME NEW v \in Workers \ {w}
       PROVE  /\ pc[v] = "send" /\ cur[v].key \in done => Requested(cur[v], chunk[v])'
              /\ \A c \in Mine(v) : c.key \in done => ~Holds(c)'
    <2>1. \A c \in Mine(v) : c.key \in done => ~Holds(c)'
        BY <1>8 DEF Holds
    <2>2. ASSUME pc[v] = "send", cur[v].key \in done
          PROVE  Requested(cur[v], chunk[v])'
        <3>1. Requested(cur[v], chunk[v])
            BY <2>2 DEF OutboxInv, CurrentOK, CurrentFor, Sending
        <3>2. cur'[v] = cur[v] /\ chunk'[v] = chunk[v]
            BY <1>3 DEF SameLocals
        <3> QED
            BY <1>2, <1>8, <2>2, <3>1, <3>2 DEF Requested, InDoubt
    <2> QED
        BY <2>1, <2>2
<1> QED
    BY <1>3, <1>6, <1>7, <1>8, <1>9, <1>10, <1>11, CallStep

LEMMA ClaimKeeps ==
    ASSUME OutboxInv, NEW w \in Workers, Claim(w)
    PROVE  OutboxInv'
<1>1. PICK k \in todo[w] :
          /\ todo' = [todo EXCEPT ![w] = todo[w] \ {k}]
          /\ \/ UNCHANGED <<status, lease, issued, batch>>
             \/ /\ MayClaim(k)
                /\ status' = [status EXCEPT ![k] = "sending"]
                /\ lease' = [lease EXCEPT ![k] = issued[k] + 1]
                /\ issued' = [issued EXCEPT ![k] = issued[k] + 1]
                /\ batch' = [batch EXCEPT ![w] = batch[w] \cup
                       {[key |-> k, lease |-> issued[k] + 1, tries |-> tries[k],
                         sent |-> sent[k]]}]
    BY DEF Claim
<1>2. /\ pc[w] = "claim" /\ pc[w] \notin Sending
      /\ UNCHANGED <<expired, due, tries, sent, inFlight, pc, key, cur, chunk, delivered, told>>
    BY DEF Claim, Sending
<1>3. k \in Keys /\ QueueOK /\ LocalsOK /\ HistoryOK /\ KeysOK /\ ToldOK /\ RecordFor(k)
    BY RecordParts DEF OutboxInv, TypeOK, LocalsOK
<1>4. todo' \in [Workers -> SUBSET Keys]
    BY <1>1, <1>3 DEF LocalsOK
<1>5. CASE UNCHANGED <<status, lease, issued, batch>>
    <2>1. SameQueue /\ batch'[w] \subseteq batch[w]
        BY <1>2, <1>5 DEF SameQueue, queue
    <2>2. /\ LocalsOK' /\ KeysOK' /\ pc'[w] \notin Sending
          /\ \A v \in Workers \ {w} : SameLocals(v)
        BY <1>2, <1>3, <1>4, <1>5 DEF LocalsOK, KeysOK, SameLocals
    <2> QED
        BY <1>2, <2>1, <2>2, IdleStep
<1>6. CASE ~UNCHANGED <<status, lease, issued, batch>>
    <2>1. status[k] = "pending" /\ issued[k] \in Nat
        BY <1>1, <1>3, <1>6 DEF MayClaim, HistoryOK
    <2>2. [key |-> k, lease |-> issued[k] + 1, tries |-> tries[k], sent |-> sent[k]] \in Claims
        BY <1>3, <2>1 DEF QueueOK, Claims
    <2>3. PICK n \in Nat \ {0}, d \in Claims :
              /\ n > issued[k] /\ d.key = k /\ d.lease = n /\ d.sent = sent[k]
              /\ status' = [status EXCEPT ![k] = "sending"]
              /\ lease' = [lease EXCEPT ![k] = n]
              /\ issued' = [issued EXCEPT ![k] = n]
              /\ batch' = [batch EXCEPT ![w] = batch[w] \cup {d}]
        BY <1>1, <1>6, <2>1, <2>2
    <2>4. /\ status'[k] = "sending" /\ lease'[k] = n /\ issued'[k] = n
          /\ \A j \in Keys \ {k} : SameRecord(j)
        BY <1>2, <1>3, <2>3 DEF SameRecord, QueueOK, HistoryOK
    <2>5. QueueOK' /\ HistoryOK'
        BY <1>2, <1>3, <2>3 DEF QueueOK, HistoryOK, Statuses
    <2>6. /\ batch'[w] = batch[w] \cup {d}
          /\ batch' \in [Workers -> SUBSET Claims]
          /\ \A v \in Workers \ {w} : SameLocals(v)
        BY <1>2, <1>3, <2>3 DEF LocalsOK, SameLocals
    <2>7. TypeOK' /\ KeysOK' /\ ToldOK' /\ CurrentFor(w)'
        <3>1. LocalsOK' /\ KeysOK'
            BY <1>2, <1>3, <1>4, <2>6 DEF LocalsOK, KeysOK
        <3>2. ToldOK' /\ CurrentFor(w)'
            BY <1>2, <1>3 DEF ToldOK, CurrentFor
        <3> QED
            BY <2>5, <3>1, <3>2 DEF TypeOK
    <2>8. RecordFor(k)' /\ Settled(k)
        BY <1>2, <1>3, <2>1, <2>3, <2>4 DEF RecordFor, Settled, InDoubt
    <2>9. \A v \in Workers : \A c \in Mine(v) : c.key = k => c.lease < n /\ c.lease # n
        <3>1. \A v \in Workers : \A c \in Mine(v) : IssuedClaim(c)
            BY DEF OutboxInv, WaitingOK, WaitingFor, CurrentOK, CurrentFor, Mine
        <3> QED
            BY <2>1, <2>3, <3>1 DEF IssuedClaim
    <2>10. UniqueClaims'
        <3>1. \A v \in Workers : \A c \in Mine(v) : ~SameClaim(c, d) /\ ~SameClaim(d, c)
            BY <2>3, <2>9 DEF SameClaim
        <3>2. \A v \in Workers : batch'[v] \subseteq batch[v] \cup {c \in {d} : v = w}
            BY <2>6 DEF SameLocals
        <3> QED
            BY <1>2, <3>1, <3>2 DEF OutboxInv, UniqueClaims, Mine
    <2>11. WaitingFor(w)'
        <3>1. IssuedClaim(d)' /\ (Holds(d)' => Settled(k)' /\ d.sent = sent'[k])
            BY <1>2, <2>3, <2>4, <2>8 DEF IssuedClaim, Settled
        <3>2. ASSUME NEW c \in batch[w]
              PROVE  IssuedClaim(c)' /\ (Holds(c)' => Settled(c.key)' /\ c.sent = sent'[c.key])
            <4>1. /\ c \in Claims /\ IssuedClaim(c)
                  /\ Holds(c) => Settled(c.key) /\ c.sent = sent[c.key]
                BY DEF OutboxInv, TypeOK, LocalsOK, WaitingOK, WaitingFor
            <4>2. CASE c.key = k
                BY <2>1, <2>3, <2>4, <2>9, <4>1, <4>2 DEF Mine, Holds, IssuedClaim, Claims
            <4>3. CASE c.key # k
                BY <2>4, <4>1, <4>3 DEF SameRecord, Holds, IssuedClaim, Claims, Settled
            <4> QED
                BY <4>2, <4>3
        <3> QED
            BY <2>3, <2>6, <3>1, <3>2 DEF WaitingFor
    <2>12. /\ {k} \in SUBSET Keys
           /\ \A j \in {k} : RecordFor(j)' /\ issued'[j] >= issued[j]
        BY <1>3, <2>1, <2>3, <2>4, <2>8
    <2>13. ASSUME NEW v \in Workers \ {w}
           PROVE  /\ pc[v] = "send" /\ cur[v].key \in {k} => Requested(cur[v], chunk[v])'
                  /\ \A c \in Mine(v) : c.key \in {k} => ~Holds(c)'
        <3>1. ~(pc[v] = "send" /\ cur[v].key = k)
            BY <2>1 DEF OutboxInv, CurrentOK, CurrentFor, Requested, Sending
        <3>2. \A c \in Mine(v) : c.key = k => ~Holds(c)'
            BY <2>4, <2>9 DEF Holds
        <3> QED
            BY <3>1, <3>2
    <2> QED
        BY <2>4, <2>6, <2>7, <2>10, <2>11, <2>12, <2>13, CallStep
<1> QED
    BY <1>5, <1>6

LEMMA ClockKeeps ==
    ASSUME OutboxInv, NEW k \in Keys, LeaseExpires(k) \/ BecomesDue(k)
    PROVE  OutboxInv'
<1>1. UNCHANGED <<status, lease, tries, sent, inFlight, locals, issued, delivered, told>>
    BY DEF LeaseExpires, BecomesDue
<1>2. TypeOK' /\ ToldOK' /\ KeysOK'
    <2>1. expired' \in [Keys -> BOOLEAN] /\ due' \in [Keys -> BOOLEAN]
        BY DEF LeaseExpires, BecomesDue, OutboxInv, TypeOK, QueueOK
    <2> QED
        BY <1>1, <2>1 DEF OutboxInv, TypeOK, QueueOK, LocalsOK, HistoryOK, ToldOK, KeysOK, locals
<1>3. \A j \in Keys : SameRecord(j)
    BY <1>1 DEF SameRecord
<1>4. \A j \in Keys : RecordFor(j)'
    BY <1>3, RecordKept
<1>5. \A v \in Workers : WaitingFor(v)' /\ CurrentFor(v)'
    <2>1. \A v \in Workers : SameLocals(v)
        BY <1>1 DEF SameLocals, locals
    <2>2. {} \in SUBSET Keys /\ \A j \in Keys \ {} : SameRecord(j)
        BY <1>3
    <2> QED
        BY <2>1, <2>2, OtherCall
<1>6. UniqueClaims'
    BY <1>1 DEF OutboxInv, UniqueClaims, locals
<1> QED
    BY <1>2, <1>4, <1>5, <1>6 DEF OutboxInv, WaitingOK, CurrentOK, LeaseOK, TriesOK, RecordOK,
                                  DeliveredIsPrefix, RecordFor

-----------------------------------------------------------------------------
(* The theorems.                                                             *)

LEMMA InitOutbox == Init => OutboxInv
<1> SUFFICES ASSUME Init
             PROVE  OutboxInv
    OBVIOUS
<1>1. TypeOK
    BY AttemptsAssumption, ChunksAssumption
       DEF Init, TypeOK, QueueOK, LocalsOK, HistoryOK, Statuses, Points
<1>2. \A k \in Keys : RecordFor(k)
    BY AttemptsAssumption DEF Init, RecordFor, Settled
<1>3. UniqueClaims /\ WaitingOK /\ CurrentOK /\ KeysOK /\ ToldOK
    BY DEF Init, UniqueClaims, WaitingOK, WaitingFor, CurrentOK, CurrentFor, KeysOK, ToldOK, Sending
<1> QED
    BY <1>1, <1>2, <1>3, RecordParts DEF OutboxInv

LEMMA NextOutbox == OutboxInv /\ [Next]_vars => OutboxInv'
<1> SUFFICES ASSUME OutboxInv, [Next]_vars
             PROVE  OutboxInv'
    OBVIOUS
<1>1. ASSUME NEW w \in Workers, WorkerStep(w)
      PROVE  OutboxInv'
    BY <1>1, LocalActions, InsertKeeps, ReconcileKeeps, ClaimKeeps, NextRecordKeeps,
       MarkInFlightKeeps, SendKeeps, MarkChunkSentKeeps, MarkRecordSentKeeps,
       MarkRecordFailedKeeps, MarkDeliveryUnknownKeeps DEF WorkerStep
<1>2. ASSUME NEW w \in Workers, (\E k \in Keys : Call(w, k)) \/ Abandon(w)
      PROVE  OutboxInv'
    BY <1>2, LocalActions
<1>3. ASSUME NEW k \in Keys, LeaseExpires(k) \/ BecomesDue(k)
      PROVE  OutboxInv'
    BY <1>3, ClockKeeps
<1>4. CASE UNCHANGED vars
    <2>1. \A k \in Keys : SameRecord(k)
        BY <1>4 DEF vars, queue, SameRecord
    <2>2. {} \in SUBSET Keys /\ \A j \in Keys \ {} : SameRecord(j)
        BY <2>1
    <2>3. \A v \in Workers : SameLocals(v)
        BY <1>4 DEF vars, locals, SameLocals
    <2>4. \A v \in Workers : WaitingFor(v)' /\ CurrentFor(v)'
        BY <2>2, <2>3, OtherCall
    <2>5. \A k \in Keys : RecordFor(k)'
        BY <2>1, RecordKept
    <2>6. TypeOK' /\ ToldOK' /\ KeysOK' /\ UniqueClaims'
        BY <1>4 DEF OutboxInv, TypeOK, QueueOK, LocalsOK, HistoryOK, ToldOK, KeysOK, vars, locals,
                    queue, UniqueClaims
    <2> QED
        BY <2>4, <2>5, <2>6 DEF OutboxInv, WaitingOK, CurrentOK, LeaseOK, TriesOK, RecordOK,
                                DeliveredIsPrefix, RecordFor
<1> QED
    BY <1>1, <1>2, <1>3, <1>4 DEF Next

LEMMA OutboxInvariant == Spec => []OutboxInv
BY InitOutbox, NextOutbox, PTL DEF Spec

(* The variables of the outbox keep their types: no record is tried more often
   than outbox_max_attempts, which rests on what a call knows of the record. *)
THEOREM OutboxTypeCorrect == Spec => []TypeOK
<1>1. OutboxInv => TypeOK
    BY DEF OutboxInv
<1> QED
    BY <1>1, OutboxInvariant, PTL

(* Chunks arrive in order and none arrives twice (TelegramClient.drain_outbox). *)
THEOREM DeliveredOnce == Spec => []DeliveredIsPrefix
<1>1. OutboxInv => DeliveredIsPrefix
    BY DEF OutboxInv
<1> QED
    BY <1>1, OutboxInvariant, PTL

(* What may be sent again is known exactly (mark_record_failed). *)
THEOREM ResendsAreSafe == Spec => []ResendIsSafe
<1>1. OutboxInv => ResendIsSafe
    BY DEF OutboxInv, RecordOK, Settled, ResendIsSafe
<1> QED
    BY <1>1, OutboxInvariant, PTL

(* A record marked sent, and one a caller was told was sent, arrived whole
   (mark_record_sent, enqueue_and_deliver). *)
THEOREM SentArrived == Spec => []SentIsDelivered
<1>1. OutboxInv => SentIsDelivered
    <2> SUFFICES ASSUME OutboxInv, NEW k \in Keys, status[k] = "sent" \/ k \in told
                 PROVE  Len(delivered[k]) = NChunks
        BY DEF SentIsDelivered
    <2>1. status[k] = "sent" => sent[k] = 1..NChunks
        BY DEF OutboxInv, RecordOK, Chunks
    <2> QED
        BY <2>1, WholeRecord DEF OutboxInv, ToldOK
<1> QED
    BY <1>1, OutboxInvariant, PTL

LEMMA TerminalStep ==
    ASSUME OutboxInv, Next, NEW k \in Keys
    PROVE  /\ status[k] \in Terminal => status'[k] = status[k]
           /\ status[k] \in {"sent", "failed"} => delivered'[k] = delivered[k]
<1>1. /\ status \in [Keys -> Statuses]
      /\ \A w \in Workers : pc[w] # "idle" => key[w] \in Keys
    BY DEF OutboxInv, TypeOK, QueueOK, KeysOK
<1>2. CASE UNCHANGED <<status, delivered>>
    BY <1>2
<1>3. ASSUME NEW w \in Workers, EnqueueInsert(w)
      PROVE  status[k] \in Terminal => status'[k] = status[k]
    BY <1>1, <1>3 DEF EnqueueInsert, Terminal
<1>4. ASSUME NEW w \in Workers, Reconcile(w)
      PROVE  status[k] \in Terminal => status'[k] = status[k]
    BY <1>4 DEF Reconcile, Lapsed, Terminal
<1>5. ASSUME NEW w \in Workers, Claim(w)
      PROVE  status[k] \in Terminal => status'[k] = status[k]
    BY <1>1, <1>5 DEF Claim, MayClaim, Terminal
<1>6. ASSUME NEW w \in Workers, MarkRecordSent(w) \/ MarkRecordFailed(w) \/ MarkDeliveryUnknown(w)
      PROVE  status[k] \in Terminal => status'[k] = status[k]
    BY <1>1, <1>6 DEF MarkRecordSent, MarkRecordFailed, MarkDeliveryUnknown, MayReject, Holds,
                      Close, Terminal
<1>7. ASSUME NEW w \in Workers, Send(w)
      PROVE  status[k] \in {"sent", "failed"} => delivered'[k] = delivered[k]
    <2>1. status[cur[w].key] \in {"sending", "delivery_unknown"}
        BY <1>7 DEF Send, OutboxInv, CurrentOK, CurrentFor, Requested, Sending
    <2>2. delivered \in [Keys -> Seq(Chunks)]
        BY DEF OutboxInv, TypeOK, HistoryOK
    <2> QED
        BY <1>7, <2>1, <2>2 DEF Send, Deliver
<1>8. ASSUME NEW w \in Workers,
             \/ \E j \in Keys : Call(w, j)
             \/ EnqueueRead(w) \/ EnqueueReread(w) \/ FindDue(w) \/ Claimed(w)
             \/ NextRecord(w) \/ Report(w) \/ Abandon(w)
      PROVE  UNCHANGED <<status, delivered>>
    BY <1>8 DEF Call, EnqueueRead, EnqueueReread, FindDue, Claimed, NextRecord, Report, Abandon,
                queue
<1>9. ASSUME NEW w \in Workers, MarkInFlight(w) \/ MarkChunkSent(w)
      PROVE  UNCHANGED <<status, delivered>>
    BY <1>9 DEF MarkInFlight, MarkChunkSent
<1>10. ASSUME NEW j \in Keys, LeaseExpires(j) \/ BecomesDue(j)
       PROVE  UNCHANGED <<status, delivered>>
    BY <1>10 DEF LeaseExpires, BecomesDue
<1>11. ASSUME NEW w \in Workers,
              \/ EnqueueInsert(w) \/ Reconcile(w) \/ Claim(w)
              \/ MarkRecordSent(w) \/ MarkRecordFailed(w) \/ MarkDeliveryUnknown(w)
       PROVE  delivered' = delivered
    BY <1>11 DEF EnqueueInsert, Reconcile, Claim, MarkRecordSent, MarkRecordFailed,
                 MarkDeliveryUnknown
<1>12. ASSUME NEW w \in Workers, Send(w)
       PROVE  status' = status
    BY <1>12 DEF Send, queue
<1> QED
    BY <1>2, <1>3, <1>4, <1>5, <1>6, <1>7, <1>8, <1>9, <1>10, <1>11, <1>12 DEF Next, WorkerStep

(* A record that was sent, given up or left in doubt stays so, and one that was
   sent or given up is not delivered any further (drain_outbox). *)
THEOREM TerminalIsFinal == Spec => TerminalStays
<1>1. OutboxInv /\ [Next]_vars =>
         [\A k \in Keys :
             /\ status[k] \in Terminal => status'[k] = status[k]
             /\ status[k] \in {"sent", "failed"} => delivered'[k] = delivered[k]
         ]_<<queue, delivered>>
    BY TerminalStep DEF vars
<1> QED
    BY <1>1, OutboxInvariant, PTL DEF Spec, TerminalStays

(* What the outbox says of a record is true of the reader's screen: what it may
   send again has not arrived, what it calls sent has (drain_outbox). *)
THEOREM RecordsTrue == Spec => []RecordsAreTrue
<1>1. ResendIsSafe /\ SentIsDelivered => RecordsAreTrue
    BY DEF RecordsAreTrue
<1> QED
    BY <1>1, ResendsAreSafe, SentArrived, PTL
=============================================================================
