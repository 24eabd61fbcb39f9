-------------------------- MODULE OutboxProofs --------------------------
(* Proofs for any dispatchers, rows, batch limit, attempts and delays: that  *)
(* what is SENT was taken in, is final with one dispatcher, and that the     *)
(* POSTs of a row are bounded however stale the lists are.                   *)
EXTENDS WebhookOutbox, FiniteSums

-----------------------------------------------------------------------------
(* The helpers of the model. *)

First(todo) == CHOOSE i \in todo : \A j \in todo : i <= j

LEMMA FirstIn ==
  ASSUME NEW todo, todo \subseteq Rows, todo # {}
  PROVE  First(todo) \in todo
<1>1. todo \subseteq Nat
  BY OutboxAssumption
<1>2. \E i \in todo : \A j \in todo : i <= j
  BY <1>1, LeastNatural
<1> QED BY <1>2 DEF First

LEMMA ItemIsFirst ==
  ASSUME NEW d
  PROVE  Item(d) = First(dispatcher[d].todo)
BY DEF Item, First

ShiftedUpto(m, f) == f = [n \in 0 .. m |-> IF n = 0 THEN 1 ELSE 2 * f[n - 1]]

LEMMA ShiftedExists == \A m \in Nat : \E f \in [0 .. m -> Nat] : ShiftedUpto(m, f)
<1> DEFINE T == {m \in Nat : \E f \in [0 .. m -> Nat] : ShiftedUpto(m, f)}
<1>1. 0 \in T
  <2>1. [n \in 0 .. 0 |-> 1] \in [0 .. 0 -> Nat] /\ ShiftedUpto(0, [n \in 0 .. 0 |-> 1])
    BY DEF ShiftedUpto
  <2> QED BY <2>1
<1>2. ASSUME NEW m \in Nat, m \in T PROVE m + 1 \in T
  <2>1. PICK f \in [0 .. m -> Nat] : ShiftedUpto(m, f)
    BY <1>2
  <2> DEFINE g == [n \in 0 .. m + 1 |-> IF n = m + 1 THEN 2 * f[m] ELSE f[n]]
  <2>2. g \in [0 .. m + 1 -> Nat]
    <3>1. m \in 0 .. m /\ f[m] \in Nat
      OBVIOUS
    <3>2. \A n \in 0 .. m + 1 : n = m + 1 \/ n \in 0 .. m
      OBVIOUS
    <3> QED BY <3>1, <3>2
  <2>3. ASSUME NEW n \in 0 .. m + 1
        PROVE  g[n] = IF n = 0 THEN 1 ELSE 2 * g[n - 1]
    <3>1. CASE n = m + 1
      <4>1. n - 1 = m /\ m \in 0 .. m + 1 /\ m # m + 1 /\ n # 0
        BY <3>1
      <4> QED BY <3>1, <4>1
    <3>2. CASE n # m + 1
      <4>1. n \in 0 .. m /\ (n # 0 => n - 1 \in 0 .. m /\ n - 1 # m + 1 /\ n - 1 \in 0 .. m + 1)
        BY <3>2
      <4>2. f[n] = IF n = 0 THEN 1 ELSE 2 * f[n - 1]
        BY <2>1, <4>1 DEF ShiftedUpto
      <4>3. g[n] = f[n] /\ (n # 0 => g[n - 1] = f[n - 1])
        BY <3>2, <4>1
      <4> QED BY <4>2, <4>3
    <3> QED BY <3>1, <3>2
  <2>4. ShiftedUpto(m + 1, g)
    <3>1. g = [n \in 0 .. m + 1 |-> g[n]]
      OBVIOUS
    <3> HIDE DEF g
    <3> QED BY <2>3, <3>1 DEF ShiftedUpto
  <2> HIDE DEF g
  <2> QED BY <2>2, <2>4
<1> HIDE DEF T
<1>3. Nat \subseteq T
  BY <1>1, <1>2, NaturalsInduced
<1> QED BY <1>3 DEF T

LEMMA LimitsType ==
  /\ MaxAttempts \in Nat \ {0} /\ BatchLimit \in Nat \ {0} /\ MaxDelayTicks \in Nat \ {0}
  /\ GiveUpTicks \in Nat \ {0} /\ MaxPosts \in Nat \ {0}
BY OutboxAssumption

(* A shift leaves a natural number. *)
LEMMA ShiftedType == \A n \in 0 .. MaxAttempts + 1 : Shifted[n] \in Nat
<1> DEFINE m == MaxAttempts + 1
           T == {n \in Nat : n \in 0 .. m => Shifted[n] \in Nat}
<1>1. \E f : f = [n \in 0 .. m |-> IF n = 0 THEN 1 ELSE 2 * f[n - 1]]
  <2>1. m \in Nat
    BY LimitsType
  <2> HIDE DEF m
  <2> QED BY <2>1, ShiftedExists DEF ShiftedUpto
<1>2. Shifted = [n \in 0 .. m |-> IF n = 0 THEN 1 ELSE 2 * Shifted[n - 1]]
  BY <1>1 DEF Shifted
<1>3. m \in Nat
  BY LimitsType
<1> HIDE DEF m
<1>4. 0 \in T
  BY <1>2, <1>3
<1>5. ASSUME NEW n \in Nat, n \in T PROVE n + 1 \in T
  <2>1. n + 1 \in 0 .. m => n \in 0 .. m /\ Shifted[n + 1] = 2 * Shifted[n]
    BY <1>2, <1>3
  <2> QED BY <1>5, <2>1
<1> HIDE DEF T
<1>6. Nat \subseteq T
  BY <1>4, <1>5, NaturalsInduced
<1> QED BY <1>3, <1>6 DEF T, m

LEMMA DelayType ==
  ASSUME NEW n \in 0 .. MaxAttempts + 1
  PROVE  nextAttemptDelay(n) \in Nat
BY ShiftedType, LimitsType DEF nextAttemptDelay

LEMMA CountedType ==
  ASSUME NEW n \in 0 .. MaxAttempts + 1
  PROVE  Counted(n) \in 0 .. MaxAttempts + 1
BY LimitsType DEF Counted

-----------------------------------------------------------------------------
(* What a step does to the dispatchers and to the rows. *)

DispatcherType == [at : {"idle", "next", "sent", "failed"}, todo : SUBSET Rows,
                   seen : [Rows -> 0 .. MaxAttempts + 1]]
RowType == [status : {"NONE", "PENDING", "SENT", "FAILED"},
            attempts : 0 .. MaxAttempts + 1, wait : Nat]

Working(d) == dispatcher[d].at # "idle" => dispatcher[d].todo # {}

Hand(d) == First(dispatcher[d].todo)

LEMMA RestingType == Resting \in DispatcherType /\ Resting.at = "idle" /\ Resting.todo = {}
<1>1. [i \in Rows |-> 0] \in [Rows -> 0 .. MaxAttempts + 1]
  BY LimitsType
<1> QED BY <1>1 DEF Resting, DispatcherType

LEMMA HandInRows ==
  ASSUME TypeOK, NEW d \in Dispatchers, dispatcher[d].at # "idle"
  PROVE  /\ Hand(d) \in Rows
         /\ Hand(d) \in dispatcher[d].todo
         /\ Item(d) = Hand(d)
         /\ dispatcher[d] \in DispatcherType
         /\ Attempts(d) = dispatcher[d].seen[Hand(d)]
         /\ Attempts(d) \in 0 .. MaxAttempts + 1
<1>1. dispatcher[d] \in DispatcherType /\ dispatcher[d].todo # {}
  BY DEF TypeOK, DispatcherType
<1>2. dispatcher[d].todo \subseteq Rows /\ dispatcher[d].seen \in [Rows -> 0 .. MaxAttempts + 1]
  BY <1>1 DEF DispatcherType
<1>3. Hand(d) \in dispatcher[d].todo
  BY <1>1, <1>2, FirstIn DEF Hand
<1> QED BY <1>1, <1>2, <1>3, ItemIsFirst DEF Hand, Attempts

(* The end of a delivery: the row at hand leaves the list. *)
LEMMA NextItemStep ==
  ASSUME TypeOK, NEW d \in Dispatchers, dispatcher[d].at # "idle", NextItem(d)
  PROVE  /\ dispatcher' \in [Dispatchers -> DispatcherType]
         /\ dispatcher'[d].at \in {"idle", "next"}
         /\ dispatcher'[d].todo = dispatcher[d].todo \ {Hand(d)}
         /\ dispatcher'[d].at # "idle" => dispatcher'[d].todo # {}
         /\ dispatcher'[d].at # "idle" => dispatcher'[d].seen = dispatcher[d].seen
         /\ \A c \in Dispatchers : c # d => dispatcher'[c] = dispatcher[c]
<1> DEFINE rest == dispatcher[d].todo \ {Hand(d)}
           next == [at |-> "next", todo |-> rest, seen |-> dispatcher[d].seen]
           new == IF rest = {} THEN Resting ELSE next
<1>1. dispatcher[d] \in DispatcherType /\ Item(d) = Hand(d)
  BY HandInRows
<1>2. dispatcher' = [dispatcher EXCEPT ![d] = new]
  BY <1>1 DEF NextItem
<1>3. next \in DispatcherType /\ next.at = "next" /\ next.todo = rest
      /\ next.seen = dispatcher[d].seen
  BY <1>1 DEF DispatcherType
<1>4. dispatcher \in [Dispatchers -> DispatcherType]
  BY DEF TypeOK, DispatcherType
<1> HIDE DEF next, rest
<1>5. /\ new \in DispatcherType /\ new.at \in {"idle", "next"} /\ new.todo = rest
      /\ new.at # "idle" => new.todo # {} /\ new.seen = dispatcher[d].seen
  BY <1>3, RestingType
<1> HIDE DEF new
<1>6. dispatcher'[d] = new
  BY <1>2, <1>4
<1>7. dispatcher' \in [Dispatchers -> DispatcherType]
  BY <1>2, <1>4, <1>5
<1>8. \A c \in Dispatchers : c # d => dispatcher'[c] = dispatcher[c]
  BY <1>2, <1>4
<1> QED BY <1>5, <1>6, <1>7, <1>8 DEF rest

(* A mark: the row's status, attempts and wait, and no other row. *)
LEMMA MarkStep ==
  ASSUME TypeOK, NEW d \in Dispatchers, dispatcher[d].at # "idle",
         \/ MarkWebhookSent(Hand(d))
         \/ MarkWebhookRetry(Hand(d), nextAttemptDelay(Attempts(d)))
         \/ MarkWebhookRetry(Hand(d), GiveUpTicks)
  PROVE  /\ outbox' \in [Rows -> RowType]
         /\ outbox'[Hand(d)].attempts = Counted(outbox[Hand(d)].attempts)
         /\ outbox'[Hand(d)].status = IF MarkWebhookSent(Hand(d)) THEN "SENT" ELSE "FAILED"
         /\ \A i \in Rows : i # Hand(d) => outbox'[i] = outbox[i]
<1> DEFINE h == Hand(d)
           n == Counted(outbox[h].attempts)
           New(s, w) == [status |-> s, attempts |-> n, wait |-> w]
<1>1. h \in Rows /\ Attempts(d) \in 0 .. MaxAttempts + 1
  BY HandInRows
<1>2. outbox \in [Rows -> RowType]
  BY DEF TypeOK, RowType
<1>3. outbox[h] \in RowType
  BY <1>1, <1>2
<1>4. n \in 0 .. MaxAttempts + 1 /\ outbox[h].wait \in Nat
  BY <1>3, CountedType DEF RowType
<1>5. nextAttemptDelay(Attempts(d)) \in Nat /\ GiveUpTicks \in Nat
  BY <1>1, DelayType, LimitsType
<1>6. PICK s \in {"SENT", "FAILED"}, w \in Nat :
        /\ outbox' = [outbox EXCEPT ![h] = New(s, w)]
        /\ s = IF MarkWebhookSent(h) THEN "SENT" ELSE "FAILED"
  <2>1. CASE MarkWebhookSent(h)
    <3>1. outbox' = [outbox EXCEPT ![h] = New("SENT", outbox[h].wait)]
      BY <2>1 DEF MarkWebhookSent
    <3> HIDE DEF New, n, h
    <3> QED BY <2>1, <3>1, <1>4
  <2>2. CASE ~MarkWebhookSent(h) /\ MarkWebhookRetry(h, nextAttemptDelay(Attempts(d)))
    <3>1. outbox' = [outbox EXCEPT ![h] = New("FAILED", nextAttemptDelay(Attempts(d)))]
      BY <2>2 DEF MarkWebhookRetry
    <3> HIDE DEF New, n, h
    <3> QED BY <2>2, <3>1, <1>5
  <2>3. CASE ~MarkWebhookSent(h) /\ MarkWebhookRetry(h, GiveUpTicks)
    <3>1. outbox' = [outbox EXCEPT ![h] = New("FAILED", GiveUpTicks)]
      BY <2>3 DEF MarkWebhookRetry
    <3> HIDE DEF New, n, h
    <3> QED BY <2>3, <3>1, <1>5
  <2> QED BY <2>1, <2>2, <2>3
<1> HIDE DEF n
<1>7. New(s, w) \in RowType /\ New(s, w).status = s /\ New(s, w).attempts = n
  BY <1>4, <1>6 DEF RowType
<1> HIDE DEF New, h
<1>8. outbox'[h] = New(s, w)
  BY <1>1, <1>2, <1>6
<1>9. outbox' \in [Rows -> RowType] /\ \A i \in Rows : i # h => outbox'[i] = outbox[i]
  BY <1>1, <1>2, <1>6, <1>7
<1>10. outbox'[h].status = s /\ outbox'[h].attempts = n
  BY <1>7, <1>8
<1> QED BY <1>6, <1>9, <1>10 DEF h, n

(* A POST of the row at hand. *)
LEMMA PostStep ==
  ASSUME TypeOK, NEW d \in Dispatchers, deliverOne(d)
  PROVE  /\ dispatcher[d].at = "next" /\ dispatcher[d].seen[Hand(d)] < MaxAttempts
         /\ dispatcher' \in [Dispatchers -> DispatcherType]
         /\ dispatcher'[d].at \in {"sent", "failed"}
         /\ dispatcher'[d].todo = dispatcher[d].todo /\ dispatcher'[d].seen = dispatcher[d].seen
         /\ \A c \in Dispatchers : c # d => dispatcher'[c] = dispatcher[c]
         /\ posts' \in [Rows -> 0 .. MaxPosts] /\ posts'[Hand(d)] = posts[Hand(d)] + 1
         /\ received' \in [Rows -> Nat]
         /\ received'[Hand(d)] \in {received[Hand(d)], received[Hand(d)] + 1}
         /\ dispatcher'[d].at = "sent" => received'[Hand(d)] >= 1
         /\ \A i \in Rows : i # Hand(d) => posts'[i] = posts[i] /\ received'[i] = received[i]
         /\ outbox' = outbox
<1>1. dispatcher[d].at = "next" /\ dispatcher[d] \in DispatcherType /\ Item(d) = Hand(d)
      /\ Hand(d) \in Rows /\ ~(dispatcher[d].seen[Hand(d)] >= MaxAttempts)
      /\ Attempts(d) = dispatcher[d].seen[Hand(d)] /\ Attempts(d) \in 0 .. MaxAttempts + 1
  BY HandInRows DEF deliverOne, Exhausted
<1>2. dispatcher[d].seen[Hand(d)] < MaxAttempts
  BY <1>1, LimitsType
<1>3. PICK taken \in {0, 1} :
        /\ received' = [received EXCEPT ![Hand(d)] = @ + taken]
        /\ \E at \in (IF taken = 1 THEN {"sent", "failed"} ELSE {"failed"}) :
             dispatcher' = [dispatcher EXCEPT ![d].at = at]
  BY <1>1 DEF deliverOne
<1>4. PICK at \in {"sent", "failed"} :
        /\ dispatcher' = [dispatcher EXCEPT ![d].at = at]
        /\ at = "sent" => taken = 1
  BY <1>3
<1>5. dispatcher \in [Dispatchers -> DispatcherType]
  BY DEF TypeOK, DispatcherType
<1>6. /\ dispatcher' \in [Dispatchers -> DispatcherType] /\ dispatcher'[d].at = at
      /\ dispatcher'[d].todo = dispatcher[d].todo /\ dispatcher'[d].seen = dispatcher[d].seen
      /\ \A c \in Dispatchers : c # d => dispatcher'[c] = dispatcher[c]
  BY <1>4, <1>5 DEF DispatcherType
<1> DEFINE h == Hand(d)
<1>7. posts \in [Rows -> 0 .. MaxPosts] /\ received \in [Rows -> 0 .. MaxPosts]
  BY DEF TypeOK
<1>8. posts' = [posts EXCEPT ![h] = @ + 1] /\ posts[h] < MaxPosts /\ outbox' = outbox
  BY <1>1 DEF deliverOne
<1>9. received' = [received EXCEPT ![h] = @ + taken] /\ h \in Rows
  BY <1>1, <1>3
<1> HIDE DEF h
<1>10. /\ posts' \in [Rows -> 0 .. MaxPosts] /\ posts'[h] = posts[h] + 1
       /\ \A i \in Rows : i # h => posts'[i] = posts[i]
  BY <1>7, <1>8, <1>9, LimitsType
<1>11. /\ received' \in [Rows -> Nat] /\ received'[h] = received[h] + taken
       /\ \A i \in Rows : i # h => received'[i] = received[i]
  BY <1>7, <1>9, LimitsType
<1>12. received'[h] \in {received[h], received[h] + 1} /\ (at = "sent" => received'[h] >= 1)
  BY <1>4, <1>7, <1>9, <1>11
<1> QED BY <1>1, <1>2, <1>4, <1>6, <1>8, <1>10, <1>11, <1>12 DEF h

-----------------------------------------------------------------------------
(* Types, and that what is SENT was taken in. *)

OutboxInv ==
    /\ TypeOK
    /\ \A i \in Rows : received[i] <= posts[i]
    /\ SentWasReceived
    /\ \A d \in Dispatchers : dispatcher[d].at = "sent" => received[Hand(d)] >= 1

LEMMA OutboxInit == Init => OutboxInv
<1> SUFFICES ASSUME Init PROVE OutboxInv
  OBVIOUS
<1>1. outbox \in [Rows -> RowType] /\ \A i \in Rows : outbox[i].status = "NONE"
  BY LimitsType DEF Init, RowType
<1>2. dispatcher \in [Dispatchers -> DispatcherType]
      /\ \A d \in Dispatchers : dispatcher[d].at = "idle"
  BY RestingType DEF Init
<1>3. posts \in [Rows -> 0 .. MaxPosts] /\ received \in [Rows -> 0 .. MaxPosts]
      /\ \A i \in Rows : received[i] <= posts[i]
  BY LimitsType DEF Init
<1> QED BY <1>1, <1>2, <1>3
  DEF OutboxInv, TypeOK, RowType, DispatcherType, SentWasReceived

(* The rows stay typed, and no row goes back to NONE. *)
LEMMA EnqueueStep ==
  ASSUME TypeOK, NEW i \in Rows, EnqueueWebhook(i)
  PROVE  /\ outbox' \in [Rows -> RowType]
         /\ outbox[i].status = "NONE" /\ outbox'[i].status = "PENDING"
         /\ outbox'[i].attempts = outbox[i].attempts
         /\ \A j \in Rows : j # i => outbox'[j] = outbox[j]
BY DEF TypeOK, RowType, EnqueueWebhook

LEMMA TickStep ==
  ASSUME TypeOK, Tick
  PROVE  /\ outbox' \in [Rows -> RowType]
         /\ \A j \in Rows : /\ outbox'[j].status = outbox[j].status
                            /\ outbox'[j].attempts = outbox[j].attempts
<1>1. outbox \in [Rows -> RowType]
  BY DEF TypeOK, RowType
<1>2. \A r \in RowType : r.wait > 0 =>
        /\ [r EXCEPT !.wait = @ - 1] \in RowType
        /\ [r EXCEPT !.wait = @ - 1].status = r.status
        /\ [r EXCEPT !.wait = @ - 1].attempts = r.attempts
  BY DEF RowType
<1>3. outbox' = [j \in Rows |->
         IF outbox[j].wait > 0 THEN [outbox[j] EXCEPT !.wait = @ - 1] ELSE outbox[j]]
  BY DEF Tick
<1>4. ASSUME NEW j \in Rows
      PROVE  outbox'[j] \in RowType /\ outbox'[j].status = outbox[j].status
             /\ outbox'[j].attempts = outbox[j].attempts
  <2>1. CASE outbox[j].wait > 0
    BY <2>1, <1>1, <1>2, <1>3
  <2>2. CASE ~(outbox[j].wait > 0)
    BY <2>2, <1>1, <1>3
  <2> QED BY <2>1, <2>2
<1> QED BY <1>3, <1>4

(* A poll takes rows that are due, with the attempts they have now. *)
LEMMA PollStep ==
  ASSUME TypeOK, NEW d \in Dispatchers, processBatch(d)
  PROVE  /\ dispatcher' \in [Dispatchers -> DispatcherType]
         /\ dispatcher[d].at = "idle" /\ dispatcher'[d].at = "next"
         /\ dispatcher'[d].todo \subseteq Due /\ dispatcher'[d].todo # {}
         /\ \A i \in Rows : dispatcher'[d].seen[i] = outbox[i].attempts
         /\ \A c \in Dispatchers : c # d => dispatcher'[c] = dispatcher[c]
<1> DEFINE listed == ListDueWebhookOutbox
           read == [i \in Rows |-> outbox[i].attempts]
           new == [at |-> "next", todo |-> listed, seen |-> read]
<1>1. Due \subseteq Rows /\ listed \subseteq Due
  BY DEF Due, ListDueWebhookOutbox
<1>2. listed # {}
  <2>1. Due \subseteq Nat /\ Due # {}
    BY <1>1, OutboxAssumption DEF processBatch
  <2>2. PICK i \in Due : \A j \in Due : i <= j
    BY <2>1, LeastNatural
  <2>3. {j \in Due : j < i} = {}
    <3>1. ASSUME NEW j \in Due, j < i PROVE FALSE
      <4>1. i <= j /\ i \in Nat /\ j \in Nat
        BY <2>1, <2>2
      <4> QED BY <3>1, <4>1
    <3> QED BY <3>1
  <2>4. Cardinality({j \in Due : j < i}) = 0
    BY <2>3, FS_EmptySet
  <2>5. i \in ListDueWebhookOutbox
    BY <2>2, <2>4, LimitsType DEF ListDueWebhookOutbox
  <2> QED BY <2>5
<1>3. read \in [Rows -> 0 .. MaxAttempts + 1]
  BY DEF TypeOK
<1>4. dispatcher' = [dispatcher EXCEPT ![d] = new] /\ dispatcher[d].at = "idle"
  BY DEF processBatch
<1>5. dispatcher \in [Dispatchers -> DispatcherType]
  BY DEF TypeOK, DispatcherType
<1>6. \A i \in Rows : read[i] = outbox[i].attempts
  OBVIOUS
<1> HIDE DEF listed, read
<1>7. new \in DispatcherType /\ new.at = "next" /\ new.todo = listed /\ new.seen = read
  BY <1>1, <1>3 DEF DispatcherType
<1> HIDE DEF new
<1>8. dispatcher'[d] = new /\ dispatcher' \in [Dispatchers -> DispatcherType]
      /\ \A c \in Dispatchers : c # d => dispatcher'[c] = dispatcher[c]
  BY <1>4, <1>5, <1>7
<1> QED BY <1>1, <1>2, <1>4, <1>6, <1>7, <1>8

(* A row's status after a mark of the row at hand of d, and the state it     *)
(* comes from: at "sent" the endpoint has taken the row in.                  *)
LEMMA OutcomeStep ==
  ASSUME TypeOK, NEW d \in Dispatchers, Sent(d) \/ Failed(d) \/ GiveUp(d)
  PROVE  /\ dispatcher[d].at # "idle" /\ NextItem(d)
         /\ outbox' \in [Rows -> RowType]
         /\ outbox'[Hand(d)].attempts = Counted(outbox[Hand(d)].attempts)
         /\ outbox'[Hand(d)].status = "SENT" => dispatcher[d].at = "sent"
         /\ \A i \in Rows : i # Hand(d) => outbox'[i] = outbox[i]
         /\ posts' = posts /\ received' = received
<1>1. CASE Sent(d)
  <2>1. dispatcher[d].at = "sent" /\ dispatcher[d].at # "idle"
    BY <1>1 DEF Sent
  <2>2. Item(d) = Hand(d)
    BY <2>1, HandInRows
  <2>3. MarkWebhookSent(Hand(d))
    BY <1>1, <2>2 DEF Sent
  <2> QED BY <1>1, <2>1, <2>3, MarkStep DEF Sent
<1>2. CASE Failed(d)
  <2>1. dispatcher[d].at = "failed" /\ dispatcher[d].at # "idle"
    BY <1>2 DEF Failed
  <2>2. Item(d) = Hand(d) /\ Hand(d) \in Rows
    BY <2>1, HandInRows
  <2>3. MarkWebhookRetry(Hand(d), nextAttemptDelay(Attempts(d)))
    BY <1>2, <2>2 DEF Failed
  <2>4. outbox'[Hand(d)].status = "FAILED"
    BY <2>2, <2>3 DEF MarkWebhookRetry, TypeOK
  <2> QED BY <1>2, <2>1, <2>3, <2>4, MarkStep DEF Failed
<1>3. CASE GiveUp(d)
  <2>1. dispatcher[d].at = "next" /\ dispatcher[d].at # "idle"
    BY <1>3 DEF GiveUp
  <2>2. Item(d) = Hand(d) /\ Hand(d) \in Rows
    BY <2>1, HandInRows
  <2>3. MarkWebhookRetry(Hand(d), GiveUpTicks)
    BY <1>3, <2>2 DEF GiveUp
  <2>4. outbox'[Hand(d)].status = "FAILED"
    BY <2>2, <2>3 DEF MarkWebhookRetry, TypeOK
  <2> QED BY <1>3, <2>1, <2>3, <2>4, MarkStep DEF GiveUp
<1> QED BY <1>1, <1>2, <1>3

LEMMA MarkFailsStep ==
  ASSUME NEW d \in Dispatchers, MarkFails(d)
  PROVE  dispatcher[d].at # "idle" /\ NextItem(d) /\ UNCHANGED <<outbox, posts, received>>
BY DEF MarkFails

LEMMA CrashStep ==
  ASSUME TypeOK, NEW d \in Dispatchers, Crash(d)
  PROVE  /\ dispatcher' \in [Dispatchers -> DispatcherType]
         /\ dispatcher'[d].at = "idle" /\ dispatcher'[d].todo = {}
         /\ \A c \in Dispatchers : c # d => dispatcher'[c] = dispatcher[c]
         /\ UNCHANGED <<outbox, posts, received>>
<1>1. dispatcher \in [Dispatchers -> DispatcherType]
  BY DEF TypeOK, DispatcherType
<1>2. dispatcher' = [dispatcher EXCEPT ![d] = Resting] /\ UNCHANGED <<outbox, posts, received>>
  BY DEF Crash
<1>3. dispatcher'[d] = Resting
  BY <1>1, <1>2
<1>4. dispatcher' \in [Dispatchers -> DispatcherType]
      /\ \A c \in Dispatchers : c # d => dispatcher'[c] = dispatcher[c]
  BY <1>1, <1>2, RestingType
<1> QED BY <1>2, <1>3, <1>4, RestingType

(* The invariant from facts about the successor state. *)
LEMMA OutboxInvKept ==
  ASSUME OutboxInv,
         outbox' \in [Rows -> RowType], dispatcher' \in [Dispatchers -> DispatcherType],
         posts' \in [Rows -> 0 .. MaxPosts], received' \in [Rows -> Nat],
         \A i \in Rows : received'[i] <= posts'[i],
         \A i \in Rows : outbox'[i].status = "SENT" => received'[i] >= 1,
         \A d \in Dispatchers : dispatcher'[d].at # "idle" => dispatcher'[d].todo # {},
         \A d \in Dispatchers :
           dispatcher'[d].at = "sent" => received'[First(dispatcher'[d].todo)] >= 1
  PROVE  OutboxInv'
<1>1. received' \in [Rows -> 0 .. MaxPosts]
  <2>1. \A i \in Rows : received'[i] \in Nat /\ posts'[i] \in 0 .. MaxPosts
    OBVIOUS
  <2>2. \A i \in Rows : received'[i] \in 0 .. MaxPosts
    BY <2>1, LimitsType
  <2> QED BY <2>2
<1>2. TypeOK'
  BY <1>1 DEF TypeOK, RowType, DispatcherType
<1>3. SentWasReceived'
  BY DEF SentWasReceived
<1>4. \A d \in Dispatchers : (dispatcher[d].at)' = "sent" => (received[Hand(d)])' >= 1
  BY DEF Hand
<1> QED BY <1>2, <1>3, <1>4 DEF OutboxInv

LEMMA OutboxStep == OutboxInv /\ [Next]_vars => OutboxInv'
<1> SUFFICES ASSUME OutboxInv, [Next]_vars PROVE OutboxInv'
  OBVIOUS
<1>1. /\ TypeOK
      /\ outbox \in [Rows -> RowType] /\ dispatcher \in [Dispatchers -> DispatcherType]
      /\ posts \in [Rows -> 0 .. MaxPosts] /\ received \in [Rows -> Nat]
      /\ \A i \in Rows : received[i] <= posts[i]
      /\ \A i \in Rows : outbox[i].status = "SENT" => received[i] >= 1
      /\ \A d \in Dispatchers : dispatcher[d].at # "idle" => dispatcher[d].todo # {}
      /\ \A d \in Dispatchers :
           dispatcher[d].at = "sent" => received[First(dispatcher[d].todo)] >= 1
  BY LimitsType DEF OutboxInv, TypeOK, RowType, DispatcherType, SentWasReceived, Hand
<1>2. ASSUME NEW i \in Rows, EnqueueWebhook(i) PROVE OutboxInv'
  <2>1. \A j \in Rows : outbox'[j].status = "SENT" => outbox[j].status = "SENT"
    BY <1>1, <1>2, EnqueueStep
  <2>2. UNCHANGED <<dispatcher, posts, received>> /\ outbox' \in [Rows -> RowType]
    BY <1>1, <1>2, EnqueueStep DEF EnqueueWebhook
  <2> QED BY <1>1, <2>1, <2>2, OutboxInvKept
<1>3. ASSUME NEW d \in Dispatchers, processBatch(d) PROVE OutboxInv'
  <2>1. UNCHANGED <<outbox, posts, received>>
    BY <1>3 DEF processBatch
  <2>2. dispatcher' \in [Dispatchers -> DispatcherType]
        /\ dispatcher'[d].at = "next" /\ dispatcher'[d].todo # {}
        /\ \A c \in Dispatchers : c # d => dispatcher'[c] = dispatcher[c]
    BY <1>1, <1>3, PollStep
  <2>3. \A c \in Dispatchers :
          /\ dispatcher'[c].at # "idle" => dispatcher'[c].todo # {}
          /\ dispatcher'[c].at = "sent" => received'[First(dispatcher'[c].todo)] >= 1
    BY <1>1, <2>1, <2>2
  <2> QED BY <1>1, <2>1, <2>2, <2>3, OutboxInvKept
<1>4. ASSUME NEW d \in Dispatchers, deliverOne(d) PROVE OutboxInv'
  <2> DEFINE h == Hand(d)
  <2>1. /\ dispatcher' \in [Dispatchers -> DispatcherType]
        /\ dispatcher'[d].todo = dispatcher[d].todo
        /\ \A c \in Dispatchers : c # d => dispatcher'[c] = dispatcher[c]
        /\ posts' \in [Rows -> 0 .. MaxPosts] /\ posts'[h] = posts[h] + 1
        /\ received' \in [Rows -> Nat]
        /\ received'[h] \in {received[h], received[h] + 1}
        /\ dispatcher'[d].at = "sent" => received'[h] >= 1
        /\ \A i \in Rows : i # h => posts'[i] = posts[i] /\ received'[i] = received[i]
        /\ outbox' = outbox /\ dispatcher[d].at = "next"
    BY <1>1, <1>4, PostStep
  <2>2. h \in Rows
    BY <1>1, <2>1, HandInRows
  <2>3. \A c \in Dispatchers :
          dispatcher[c].at = "sent" => First(dispatcher[c].todo) \in Rows
    BY <1>1, HandInRows DEF Hand
  <2>4. h = First(dispatcher[d].todo)
    BY DEF Hand
  <2> HIDE DEF h
  <2>5. \A i \in Rows : received'[i] <= posts'[i] /\ received'[i] >= received[i]
    <3>1. received[h] \in Nat /\ posts[h] \in Nat /\ received[h] <= posts[h]
      BY <1>1, <2>2, LimitsType
    <3>2. received'[h] <= posts'[h] /\ received'[h] >= received[h]
      BY <2>1, <3>1
    <3>3. \A i \in Rows : received[i] \in Nat /\ received[i] <= posts[i]
      BY <1>1
    <3> QED BY <2>1, <3>2, <3>3
  <2>6. \A i \in Rows : received[i] \in Nat /\ received'[i] \in Nat
    BY <1>1, <2>1
  <2>7. \A i \in Rows : received[i] >= 1 => received'[i] >= 1
    BY <2>5, <2>6
  <2>8. ASSUME NEW c \in Dispatchers
        PROVE  /\ dispatcher'[c].at # "idle" => dispatcher'[c].todo # {}
               /\ dispatcher'[c].at = "sent" => received'[First(dispatcher'[c].todo)] >= 1
    <3>1. CASE c = d
      BY <1>1, <2>1, <2>4, <3>1
    <3>2. CASE c # d
      <4>1. dispatcher'[c] = dispatcher[c]
        BY <2>1, <3>2
      <4> QED BY <1>1, <2>3, <2>7, <4>1
    <3> QED BY <3>1, <3>2
  <2>9. \A i \in Rows : outbox'[i].status = "SENT" => received'[i] >= 1
    BY <1>1, <2>1, <2>7
  <2> QED BY <1>1, <2>1, <2>5, <2>8, <2>9, OutboxInvKept
<1>5. ASSUME NEW d \in Dispatchers, dispatcher[d].at # "idle", NextItem(d),
             UNCHANGED <<posts, received>>, outbox' \in [Rows -> RowType],
             \A i \in Rows : outbox'[i].status = "SENT" => received[i] >= 1
      PROVE  OutboxInv'
  <2>1. /\ dispatcher' \in [Dispatchers -> DispatcherType]
        /\ dispatcher'[d].at \in {"idle", "next"}
        /\ dispatcher'[d].at # "idle" => dispatcher'[d].todo # {}
        /\ \A c \in Dispatchers : c # d => dispatcher'[c] = dispatcher[c]
    BY <1>1, <1>5, NextItemStep
  <2>2. \A c \in Dispatchers :
          /\ dispatcher'[c].at # "idle" => dispatcher'[c].todo # {}
          /\ dispatcher'[c].at = "sent" => received'[First(dispatcher'[c].todo)] >= 1
    BY <1>1, <1>5, <2>1
  <2> QED BY <1>1, <1>5, <2>1, <2>2, OutboxInvKept
<1>6. ASSUME NEW d \in Dispatchers, Sent(d) \/ Failed(d) \/ GiveUp(d) PROVE OutboxInv'
  <2>1. /\ dispatcher[d].at # "idle" /\ NextItem(d)
        /\ outbox' \in [Rows -> RowType]
        /\ outbox'[Hand(d)].status = "SENT" => dispatcher[d].at = "sent"
        /\ \A i \in Rows : i # Hand(d) => outbox'[i] = outbox[i]
        /\ posts' = posts /\ received' = received
    BY <1>1, <1>6, OutcomeStep
  <2>2. \A i \in Rows : outbox'[i].status = "SENT" => received[i] >= 1
    BY <1>1, <2>1 DEF Hand
  <2> QED BY <1>5, <2>1, <2>2
<1>7. ASSUME NEW d \in Dispatchers, MarkFails(d) PROVE OutboxInv'
  <2>1. dispatcher[d].at # "idle" /\ NextItem(d) /\ UNCHANGED <<outbox, posts, received>>
    BY <1>7, MarkFailsStep
  <2> QED BY <1>1, <1>5, <2>1
<1>8. ASSUME NEW d \in Dispatchers, Crash(d) PROVE OutboxInv'
  <2>1. /\ dispatcher' \in [Dispatchers -> DispatcherType] /\ dispatcher'[d].at = "idle"
        /\ \A c \in Dispatchers : c # d => dispatcher'[c] = dispatcher[c]
        /\ UNCHANGED <<outbox, posts, received>>
    BY <1>1, <1>8, CrashStep
  <2>2. \A c \in Dispatchers :
          /\ dispatcher'[c].at # "idle" => dispatcher'[c].todo # {}
          /\ dispatcher'[c].at = "sent" => received'[First(dispatcher'[c].todo)] >= 1
    BY <1>1, <2>1
  <2> QED BY <1>1, <2>1, <2>2, OutboxInvKept
<1>9. CASE Tick
  <2>1. outbox' \in [Rows -> RowType] /\ \A j \in Rows : outbox'[j].status = outbox[j].status
    BY <1>1, <1>9, TickStep
  <2>2. UNCHANGED <<dispatcher, posts, received>>
    BY <1>9 DEF Tick
  <2>3. \A j \in Rows : outbox'[j].status = "SENT" => received'[j] >= 1
    BY <1>1, <2>1, <2>2
  <2> QED BY <1>1, <2>1, <2>2, <2>3, OutboxInvKept
<1>10. CASE UNCHANGED vars
  BY <1>1, <1>10, OutboxInvKept DEF vars
<1> QED BY <1>2, <1>3, <1>4, <1>6, <1>7, <1>8, <1>9, <1>10 DEF Next, DispatcherStep

LEMMA OutboxInvariant == Spec => []OutboxInv
BY OutboxInit, OutboxStep, PTL DEF Spec

(* Rows, dispatchers and counts keep their types, and a dispatcher at work   *)
(* has a row at hand: no list is walked past its end.                        *)
THEOREM OutboxTypes == Spec => []TypeOK
<1>1. OutboxInv => TypeOK
  BY DEF OutboxInv
<1> QED BY <1>1, OutboxInvariant, PTL

(* A row is shown as SENT only after the endpoint took the event in, for any *)
(* number of dispatchers, stale lists, crashes and lost marks.               *)
THEOREM SentRowsWereReceived == Spec => []SentWasReceived
<1>1. OutboxInv => SentWasReceived
  BY DEF OutboxInv
<1> QED BY <1>1, OutboxInvariant, PTL

-----------------------------------------------------------------------------
(* One dispatcher: no list holds a row that is SENT, as nobody else writes   *)
(* while a list is worked off, so that nothing touches such a row again.     *)

OneDispatcher == \A c, d \in Dispatchers : c = d

NothingSentListed ==
    \A d \in Dispatchers : \A i \in dispatcher[d].todo : outbox[i].status # "SENT"

FinalInv == OutboxInv /\ NothingSentListed

SentUntouched ==
    \A i \in Rows : outbox[i].status = "SENT" =>
      outbox'[i].status = "SENT" /\ posts'[i] = posts[i]

LEMMA FinalInit == Init => FinalInv
<1> SUFFICES ASSUME Init PROVE FinalInv
  OBVIOUS
<1>1. \A d \in Dispatchers : dispatcher[d].todo = {}
  BY RestingType DEF Init
<1> QED BY <1>1, OutboxInit DEF FinalInv, NothingSentListed

LEMMA FinalStep ==
  ASSUME OneDispatcher, FinalInv, [Next]_vars
  PROVE  NothingSentListed' /\ SentUntouched
<1>1. TypeOK /\ dispatcher \in [Dispatchers -> DispatcherType] /\ NothingSentListed
  BY DEF FinalInv, OutboxInv, TypeOK, DispatcherType
<1>2. \A d \in Dispatchers : dispatcher[d].todo \subseteq Rows
  BY <1>1 DEF DispatcherType
(* A dispatcher's list only shrinks, or a poll renews it. *)
<1>3. ASSUME NEW d \in Dispatchers, dispatcher'[d].todo \subseteq dispatcher[d].todo,
             \A i \in dispatcher'[d].todo : outbox'[i].status # "SENT"
      PROVE  NothingSentListed'
  <2>1. \A c \in Dispatchers : c = d
    BY DEF OneDispatcher
  <2> QED BY <1>3, <2>1 DEF NothingSentListed
<1>4. ASSUME UNCHANGED dispatcher,
             \A i \in Rows : outbox'[i].status = "SENT" => outbox[i].status = "SENT"
      PROVE  NothingSentListed'
  BY <1>1, <1>2, <1>4 DEF NothingSentListed
<1>5. ASSUME NEW i \in Rows, EnqueueWebhook(i) PROVE NothingSentListed' /\ SentUntouched
  <2>1. /\ outbox[i].status = "NONE" /\ outbox'[i].status = "PENDING"
        /\ \A j \in Rows : j # i => outbox'[j] = outbox[j]
    BY <1>1, <1>5, EnqueueStep
  <2>2. UNCHANGED <<dispatcher, posts, received>>
    BY <1>5 DEF EnqueueWebhook
  <2>3. \A j \in Rows : (outbox[j].status = "SENT") <=> (outbox'[j].status = "SENT")
    BY <2>1
  <2> QED BY <1>4, <2>2, <2>3 DEF SentUntouched
<1>6. ASSUME NEW d \in Dispatchers, processBatch(d) PROVE NothingSentListed' /\ SentUntouched
  <2>1. UNCHANGED <<outbox, posts, received>>
    BY <1>6 DEF processBatch
  <2>2. dispatcher'[d].todo \subseteq Due
    BY <1>1, <1>6, PollStep
  <2>3. \A i \in Due : outbox'[i].status # "SENT"
    BY <2>1 DEF Due
  <2>4. \A c \in Dispatchers : c = d
    BY DEF OneDispatcher
  <2> QED BY <2>1, <2>2, <2>3, <2>4 DEF NothingSentListed, SentUntouched
<1>7. ASSUME NEW d \in Dispatchers, deliverOne(d) PROVE NothingSentListed' /\ SentUntouched
  <2>1. /\ dispatcher[d].at # "idle"
        /\ dispatcher'[d].todo = dispatcher[d].todo
        /\ \A i \in Rows : i # Hand(d) => posts'[i] = posts[i]
        /\ outbox' = outbox
    BY <1>1, <1>7, PostStep
  <2>2. Hand(d) \in dispatcher[d].todo
    BY <1>1, <2>1, HandInRows
  <2>3. outbox[Hand(d)].status # "SENT"
    BY <1>1, <2>2 DEF NothingSentListed
  <2>4. SentUntouched
    BY <2>1, <2>3 DEF SentUntouched
  <2>5. \A i \in dispatcher'[d].todo : outbox'[i].status # "SENT"
    BY <1>1, <2>1 DEF NothingSentListed
  <2> QED BY <1>3, <2>1, <2>4, <2>5
<1>8. ASSUME NEW d \in Dispatchers, dispatcher[d].at # "idle", NextItem(d),
             UNCHANGED posts,
             \A i \in Rows : i # Hand(d) => outbox'[i] = outbox[i]
      PROVE  NothingSentListed' /\ SentUntouched
  <2>1. Hand(d) \in dispatcher[d].todo
    BY <1>1, <1>8, HandInRows
  <2>2. outbox[Hand(d)].status # "SENT"
    BY <1>1, <2>1 DEF NothingSentListed
  <2>3. SentUntouched
    BY <1>8, <2>2 DEF SentUntouched
  <2>4. dispatcher'[d].todo = dispatcher[d].todo \ {Hand(d)}
    BY <1>1, <1>8, NextItemStep
  <2>5. \A i \in dispatcher'[d].todo : outbox'[i].status # "SENT"
    BY <1>1, <1>2, <1>8, <2>4 DEF NothingSentListed
  <2> QED BY <1>3, <2>3, <2>4, <2>5
<1>9. ASSUME NEW d \in Dispatchers, Sent(d) \/ Failed(d) \/ GiveUp(d)
      PROVE  NothingSentListed' /\ SentUntouched
  BY <1>1, <1>8, <1>9, OutcomeStep
<1>10. ASSUME NEW d \in Dispatchers, MarkFails(d) PROVE NothingSentListed' /\ SentUntouched
  BY <1>8, <1>10, MarkFailsStep
<1>11. ASSUME NEW d \in Dispatchers, Crash(d) PROVE NothingSentListed' /\ SentUntouched
  <2>1. dispatcher'[d].todo = {} /\ UNCHANGED <<outbox, posts, received>>
    BY <1>1, <1>11, CrashStep
  <2> QED BY <1>3, <2>1 DEF SentUntouched
<1>12. CASE Tick
  <2>1. \A j \in Rows : outbox'[j].status = outbox[j].status
    BY <1>1, <1>12, TickStep
  <2>2. UNCHANGED <<dispatcher, posts, received>>
    BY <1>12 DEF Tick
  <2> QED BY <1>4, <2>1, <2>2 DEF SentUntouched
<1>13. CASE UNCHANGED vars
  BY <1>4, <1>13 DEF vars, SentUntouched
<1> QED BY <1>5, <1>6, <1>7, <1>9, <1>10, <1>11, <1>12, <1>13 DEF Next, DispatcherStep

(* With one dispatcher a row that is SENT is never POSTed or written again,  *)
(* whatever crashes and lost marks happen.                                   *)
THEOREM SentRowsStaySent ==
  ASSUME OneDispatcher
  PROVE  Spec => SentIsFinal
<1>1. Init => FinalInv
  BY FinalInit
<1>2. FinalInv /\ [Next]_vars => FinalInv'
  BY FinalStep, OutboxStep DEF FinalInv
<1>3. FinalInv /\ [Next]_vars => [SentUntouched]_vars
  BY FinalStep
<1>4. (SentIsFinal) <=> [][SentUntouched]_vars
  BY DEF SentIsFinal, SentUntouched
<1> QED BY <1>1, <1>2, <1>3, <1>4, PTL DEF Spec

-----------------------------------------------------------------------------
(* How often a row is POSTed without faults. A POST is either counted in the *)
(* row's attempts or its dispatcher still holds the outcome; once attempts   *)
(* is MaxAttempts, only the dispatchers that listed the row before can POST  *)
(* it, each once.                                                            *)

IsPosting(r, i) == r.at \in {"sent", "failed"} /\ First(r.todo) = i

IsStale(r, i) ==
    /\ r.at # "idle" /\ i \in r.todo /\ r.seen[i] < MaxAttempts
    /\ ~IsPosting(r, i)

PostingIn(D, i) == {d \in Dispatchers : IsPosting(D[d], i)}
StaleIn(D, i) == {d \in Dispatchers : IsStale(D[d], i)}

Bounded(a, p, F, S) ==
    /\ a < MaxAttempts => p <= a + Cardinality(F)
    /\ a >= MaxAttempts => p + Cardinality(S) <= MaxAttempts - 1 + Cardinality(Dispatchers)

BoundedPosts ==
    \A i \in Rows : Bounded(outbox[i].attempts, posts[i],
                            PostingIn(dispatcher, i), StaleIn(dispatcher, i))

BoundInv == OutboxInv /\ BoundedPosts

LEMMA CrewSizes ==
  ASSUME IsFiniteSet(Dispatchers), NEW S, S \subseteq Dispatchers
  PROVE  IsFiniteSet(S) /\ Cardinality(S) \in Nat
         /\ Cardinality(S) <= Cardinality(Dispatchers) /\ Cardinality(Dispatchers) \in Nat
BY FS_Subset, FS_CardinalityType

LEMMA DisjointCrews ==
  ASSUME IsFiniteSet(Dispatchers), NEW F, NEW S,
         F \subseteq Dispatchers, S \subseteq Dispatchers, F \cap S = {}
  PROVE  Cardinality(F) + Cardinality(S) <= Cardinality(Dispatchers)
<1>1. IsFiniteSet(F) /\ IsFiniteSet(S) /\ Cardinality(F) \in Nat /\ Cardinality(S) \in Nat
  BY CrewSizes
<1>2. F \cup S \subseteq Dispatchers
  OBVIOUS
<1>3. Cardinality(F \cup S) = Cardinality(F) + Cardinality(S) - Cardinality(F \cap S)
  BY <1>1, FS_Union
<1>4. Cardinality(F \cap S) = 0
  BY FS_EmptySet
<1>5. Cardinality(F \cup S) <= Cardinality(Dispatchers)
  BY <1>2, CrewSizes
<1> QED BY <1>1, <1>3, <1>4, <1>5

LEMMA BoundedKept ==
  ASSUME IsFiniteSet(Dispatchers), NEW a \in Nat, NEW p \in Nat, NEW F, NEW S, NEW T,
         S \subseteq Dispatchers, T \subseteq S \/ a < MaxAttempts, Bounded(a, p, F, S)
  PROVE  Bounded(a, p, F, T)
<1>1. CASE a < MaxAttempts
  BY <1>1, LimitsType DEF Bounded
<1>2. CASE ~(a < MaxAttempts)
  <2>1. T \subseteq S /\ IsFiniteSet(S) /\ T \subseteq Dispatchers
    BY <1>2, CrewSizes
  <2>2. Cardinality(T) <= Cardinality(S) /\ Cardinality(T) \in Nat /\ Cardinality(S) \in Nat
        /\ Cardinality(Dispatchers) \in Nat
    BY <2>1, FS_Subset, CrewSizes
  <2> QED BY <1>2, <2>2, LimitsType DEF Bounded
<1> QED BY <1>1, <1>2

LEMMA BoundedPosted ==
  ASSUME IsFiniteSet(Dispatchers), NEW a \in Nat, NEW p \in Nat, NEW F, NEW S,
         F \subseteq Dispatchers, S \subseteq Dispatchers,
         NEW d \in S, d \notin F, Bounded(a, p, F, S)
  PROVE  Bounded(a, p + 1, F \cup {d}, S \ {d})
<1>1. IsFiniteSet(F) /\ IsFiniteSet(S) /\ Cardinality(F) \in Nat /\ Cardinality(S) \in Nat
      /\ Cardinality(Dispatchers) \in Nat
  BY CrewSizes
<1>2. Cardinality(F \cup {d}) = Cardinality(F) + 1
  BY <1>1, FS_AddElement
<1>3. Cardinality(S \ {d}) = Cardinality(S) - 1
  BY <1>1, FS_RemoveElement
<1> QED BY <1>1, <1>2, <1>3, LimitsType DEF Bounded

LEMMA BoundedCounted ==
  ASSUME IsFiniteSet(Dispatchers), NEW a \in Nat, NEW p \in Nat, NEW F, NEW S, NEW T,
         F \subseteq Dispatchers, S \subseteq Dispatchers, T \subseteq S, T \cap F = {},
         NEW d, Bounded(a, p, F, S)
  PROVE  Bounded(Counted(a), p, F \ {d}, T)
<1>1. IsFiniteSet(F) /\ IsFiniteSet(S) /\ Cardinality(F) \in Nat /\ Cardinality(S) \in Nat
      /\ Cardinality(Dispatchers) \in Nat /\ Cardinality(T) \in Nat
  BY CrewSizes
<1>2. Cardinality(T) <= Cardinality(S)
  BY <1>1, FS_Subset
<1>3. Cardinality(F) + Cardinality(T) <= Cardinality(Dispatchers)
  <2>1. T \subseteq Dispatchers /\ F \cap T = {}
    OBVIOUS
  <2> QED BY <2>1, DisjointCrews
<1>4. Cardinality(F) <= Cardinality(F \ {d}) + 1 /\ Cardinality(F \ {d}) \in Nat
  <2>1. CASE d \in F
    <3>1. Cardinality(F \ {d}) = Cardinality(F) - 1
      BY <1>1, <2>1, FS_RemoveElement
    <3>2. Cardinality(F \ {d}) \in Nat
      BY <1>1, FS_RemoveElement, FS_CardinalityType
    <3> QED BY <1>1, <3>1, <3>2
  <2>2. CASE d \notin F
    <3>1. F \ {d} = F
      BY <2>2
    <3> QED BY <1>1, <3>1
  <2> QED BY <2>1, <2>2
<1> QED BY <1>1, <1>2, <1>3, <1>4, LimitsType DEF Bounded, Counted

(* What a step of d does to the sets, row by row. *)
LEMMA CrewsKept ==
  ASSUME NEW D, NEW E, NEW i, NEW d \in Dispatchers,
         \A c \in Dispatchers : c # d => E[c] = D[c],
         IsPosting(E[d], i) <=> IsPosting(D[d], i)
  PROVE  /\ PostingIn(E, i) = PostingIn(D, i)
         /\ (IsStale(E[d], i) => IsStale(D[d], i)) => StaleIn(E, i) \subseteq StaleIn(D, i)
<1>1. \A c \in Dispatchers : IsPosting(E[c], i) <=> IsPosting(D[c], i)
  <2> SUFFICES ASSUME NEW c \in Dispatchers PROVE IsPosting(E[c], i) <=> IsPosting(D[c], i)
    OBVIOUS
  <2>1. CASE c = d
    BY <2>1
  <2>2. CASE c # d
    <3>1. E[c] = D[c]
      BY <2>2
    <3> QED BY <3>1
  <2> QED BY <2>1, <2>2
<1>2. PostingIn(E, i) = PostingIn(D, i)
  BY <1>1 DEF PostingIn
<1>3. ASSUME IsStale(E[d], i) => IsStale(D[d], i), NEW c \in Dispatchers, IsStale(E[c], i)
      PROVE  IsStale(D[c], i)
  <2>1. CASE c = d
    BY <1>3, <2>1
  <2>2. CASE c # d
    <3>1. E[c] = D[c]
      BY <2>2
    <3> QED BY <1>3, <3>1
  <2> QED BY <2>1, <2>2
<1> QED BY <1>2, <1>3 DEF StaleIn

LEMMA CrewsType ==
  ASSUME NEW D, NEW i
  PROVE  /\ PostingIn(D, i) \subseteq Dispatchers /\ StaleIn(D, i) \subseteq Dispatchers
         /\ StaleIn(D, i) \cap PostingIn(D, i) = {}
BY DEF PostingIn, StaleIn, IsStale

(* A POST moves its dispatcher from the stale to the posting ones. *)
LEMMA CrewsPosted ==
  ASSUME NEW i, NEW d \in Dispatchers,
         \A c \in Dispatchers : c # d => dispatcher'[c] = dispatcher[c],
         IsStale(dispatcher[d], i), IsPosting(dispatcher'[d], i)
  PROVE  /\ PostingIn(dispatcher', i) = PostingIn(dispatcher, i) \cup {d}
         /\ StaleIn(dispatcher', i) = StaleIn(dispatcher, i) \ {d}
         /\ d \in StaleIn(dispatcher, i) /\ d \notin PostingIn(dispatcher, i)
<1> DEFINE D == dispatcher
           E == dispatcher'
<1>1. ~IsPosting(D[d], i) /\ ~IsStale(E[d], i)
  BY DEF IsStale
<1>2. \A c \in Dispatchers : c # d =>
        (IsPosting(E[c], i) <=> IsPosting(D[c], i)) /\ (IsStale(E[c], i) <=> IsStale(D[c], i))
  <2> SUFFICES ASSUME NEW c \in Dispatchers, c # d, E[c] = D[c]
               PROVE  (IsPosting(E[c], i) <=> IsPosting(D[c], i))
                      /\ (IsStale(E[c], i) <=> IsStale(D[c], i))
    OBVIOUS
  <2> QED OBVIOUS
<1>3. IsStale(D[d], i) /\ IsPosting(E[d], i)
  OBVIOUS
<1> HIDE DEF D, E
<1>4. PostingIn(E, i) = PostingIn(D, i) \cup {d}
  BY <1>1, <1>2, <1>3 DEF PostingIn
<1>5. StaleIn(E, i) = StaleIn(D, i) \ {d}
  BY <1>1, <1>2, <1>3 DEF StaleIn
<1>6. d \in StaleIn(D, i) /\ d \notin PostingIn(D, i)
  BY <1>1, <1>3 DEF PostingIn, StaleIn
<1> QED BY <1>4, <1>5, <1>6 DEF D, E

(* An outcome that is written ends its dispatcher's work on the row. *)
LEMMA CrewsCounted ==
  ASSUME NEW D, NEW E, NEW i, NEW d \in Dispatchers,
         \A c \in Dispatchers : c # d => E[c] = D[c],
         ~IsPosting(E[d], i), ~IsStale(E[d], i)
  PROVE  /\ PostingIn(E, i) = PostingIn(D, i) \ {d}
         /\ StaleIn(E, i) \subseteq StaleIn(D, i)
<1>1. \A c \in Dispatchers : c # d =>
        (IsPosting(E[c], i) <=> IsPosting(D[c], i)) /\ (IsStale(E[c], i) <=> IsStale(D[c], i))
  <2> SUFFICES ASSUME NEW c \in Dispatchers, c # d, E[c] = D[c]
               PROVE  (IsPosting(E[c], i) <=> IsPosting(D[c], i))
                      /\ (IsStale(E[c], i) <=> IsStale(D[c], i))
    OBVIOUS
  <2> QED OBVIOUS
<1> QED BY <1>1 DEF PostingIn, StaleIn

LEMMA BoundedInit == ASSUME IsFiniteSet(Dispatchers) PROVE Init => BoundInv
<1> SUFFICES ASSUME Init PROVE BoundInv
  OBVIOUS
<1>1. \A d \in Dispatchers : dispatcher[d].at = "idle"
  BY RestingType DEF Init
<1>2. ASSUME NEW i \in Rows
      PROVE  Bounded(outbox[i].attempts, posts[i],
                     PostingIn(dispatcher, i), StaleIn(dispatcher, i))
  <2>1. outbox[i].attempts = 0 /\ posts[i] = 0
    BY DEF Init
  <2>2. PostingIn(dispatcher, i) = {}
    BY <1>1 DEF PostingIn, IsPosting
  <2>3. Cardinality(PostingIn(dispatcher, i)) = 0
    BY <2>2, FS_EmptySet
  <2> HIDE DEF PostingIn, StaleIn
  <2> QED BY <2>1, <2>3, LimitsType DEF Bounded
<1> QED BY <1>2, OutboxInit DEF BoundInv, BoundedPosts

LEMMA BoundedStep ==
  ASSUME IsFiniteSet(Dispatchers), OutboxFaults = {}, BoundInv, [Next]_vars
  PROVE  BoundedPosts'
<1> DEFINE At(i) == Bounded(outbox'[i].attempts, posts'[i],
                            PostingIn(dispatcher', i), StaleIn(dispatcher', i))
<1> SUFFICES \A i \in Rows : At(i)
  BY DEF BoundedPosts
<1>1. /\ TypeOK /\ dispatcher \in [Dispatchers -> DispatcherType]
      /\ \A i \in Rows : outbox[i].attempts \in Nat /\ posts[i] \in Nat
      /\ \A i \in Rows : Bounded(outbox[i].attempts, posts[i],
                                 PostingIn(dispatcher, i), StaleIn(dispatcher, i))
  BY LimitsType DEF BoundInv, OutboxInv, BoundedPosts, TypeOK, DispatcherType
<1>2. ASSUME UNCHANGED <<dispatcher, posts>>,
             \A i \in Rows : outbox'[i].attempts = outbox[i].attempts
      PROVE  \A i \in Rows : At(i)
  BY <1>1, <1>2
(* A step of d that neither POSTs nor counts the row. *)
<1>3. ASSUME NEW d \in Dispatchers, NEW i \in Rows,
             \A c \in Dispatchers : c # d => dispatcher'[c] = dispatcher[c],
             ~IsPosting(dispatcher[d], i), ~IsPosting(dispatcher'[d], i),
             outbox'[i].attempts = outbox[i].attempts, posts'[i] = posts[i],
             \/ outbox[i].attempts < MaxAttempts
             \/ IsStale(dispatcher'[d], i) => IsStale(dispatcher[d], i)
      PROVE  At(i)
  <2>1. PostingIn(dispatcher', i) = PostingIn(dispatcher, i)
    BY <1>3, CrewsKept
  <2>2. \/ outbox[i].attempts < MaxAttempts
        \/ StaleIn(dispatcher', i) \subseteq StaleIn(dispatcher, i)
    BY <1>3, CrewsKept
  <2>3. StaleIn(dispatcher, i) \subseteq Dispatchers
    BY CrewsType
  <2>4. Bounded(outbox[i].attempts, posts[i],
                PostingIn(dispatcher, i), StaleIn(dispatcher', i))
    BY <1>1, <2>2, <2>3, BoundedKept
  <2> QED BY <1>3, <2>1, <2>4
<1>4. ASSUME NEW i \in Rows, EnqueueWebhook(i) PROVE \A j \in Rows : At(j)
  <2>1. \A j \in Rows : outbox'[j].attempts = outbox[j].attempts
    BY <1>1, <1>4, EnqueueStep
  <2>2. UNCHANGED <<dispatcher, posts>>
    BY <1>4 DEF EnqueueWebhook
  <2> QED BY <1>2, <2>1, <2>2
<1>5. ASSUME NEW d \in Dispatchers, processBatch(d), NEW i \in Rows PROVE At(i)
  <2>1. UNCHANGED <<outbox, posts>>
    BY <1>5 DEF processBatch
  <2>2. /\ dispatcher[d].at = "idle" /\ dispatcher'[d].at = "next"
        /\ dispatcher'[d].seen[i] = outbox[i].attempts
        /\ \A c \in Dispatchers : c # d => dispatcher'[c] = dispatcher[c]
    BY <1>1, <1>5, PollStep
  <2>3. ~IsPosting(dispatcher[d], i) /\ ~IsPosting(dispatcher'[d], i)
    BY <2>2 DEF IsPosting
  <2>4. IsStale(dispatcher'[d], i) => outbox[i].attempts < MaxAttempts
    BY <2>2 DEF IsStale
  <2> QED BY <1>3, <2>1, <2>2, <2>3, <2>4
<1>6. ASSUME NEW d \in Dispatchers, deliverOne(d), NEW i \in Rows PROVE At(i)
  <2>1. /\ dispatcher[d].at = "next" /\ dispatcher[d].seen[Hand(d)] < MaxAttempts
        /\ dispatcher'[d].at \in {"sent", "failed"}
        /\ dispatcher'[d].todo = dispatcher[d].todo /\ dispatcher'[d].seen = dispatcher[d].seen
        /\ \A c \in Dispatchers : c # d => dispatcher'[c] = dispatcher[c]
        /\ posts'[Hand(d)] = posts[Hand(d)] + 1
        /\ \A j \in Rows : j # Hand(d) => posts'[j] = posts[j]
        /\ outbox' = outbox
    BY <1>1, <1>6, PostStep
  <2>2. Hand(d) \in dispatcher[d].todo
    BY <1>1, <2>1, HandInRows
  <2>3. First(dispatcher[d].todo) = Hand(d) /\ First(dispatcher'[d].todo) = Hand(d)
    BY <2>1 DEF Hand
  <2>4. CASE i = Hand(d)
    <3>1. IsStale(dispatcher[d], i)
      BY <2>1, <2>2, <2>4 DEF IsStale, IsPosting
    <3>2. IsPosting(dispatcher'[d], i)
      BY <2>1, <2>3, <2>4 DEF IsPosting
    <3>3. /\ PostingIn(dispatcher', i) = PostingIn(dispatcher, i) \cup {d}
          /\ StaleIn(dispatcher', i) = StaleIn(dispatcher, i) \ {d}
          /\ d \in StaleIn(dispatcher, i) /\ d \notin PostingIn(dispatcher, i)
      <4>1. \A c \in Dispatchers : c # d => dispatcher'[c] = dispatcher[c]
        BY <2>1
      <4> QED BY <4>1, <3>1, <3>2, CrewsPosted
    <3>4. PostingIn(dispatcher, i) \subseteq Dispatchers /\ StaleIn(dispatcher, i) \subseteq Dispatchers
      BY CrewsType
    <3>5. Bounded(outbox[i].attempts, posts[i] + 1,
                  PostingIn(dispatcher, i) \cup {d}, StaleIn(dispatcher, i) \ {d})
      BY <1>1, <3>3, <3>4, BoundedPosted
    <3> QED BY <2>1, <2>4, <3>3, <3>5
  <2>5. CASE i # Hand(d)
    <3>1. ~IsPosting(dispatcher[d], i) /\ ~IsPosting(dispatcher'[d], i)
      BY <2>3, <2>5 DEF IsPosting
    <3>2. IsStale(dispatcher'[d], i) => IsStale(dispatcher[d], i)
      BY <2>1, <3>1 DEF IsStale
    <3> QED BY <1>3, <2>1, <2>5, <3>1, <3>2
  <2> QED BY <2>4, <2>5
<1>7. ASSUME NEW d \in Dispatchers, Sent(d) \/ Failed(d) \/ GiveUp(d), NEW i \in Rows
      PROVE  At(i)
  <2>1. /\ dispatcher[d].at # "idle" /\ NextItem(d)
        /\ outbox'[Hand(d)].attempts = Counted(outbox[Hand(d)].attempts)
        /\ \A j \in Rows : j # Hand(d) => outbox'[j] = outbox[j]
        /\ posts' = posts
    BY <1>1, <1>7, OutcomeStep
  <2>2. /\ dispatcher'[d].at \in {"idle", "next"}
        /\ dispatcher'[d].todo = dispatcher[d].todo \ {Hand(d)}
        /\ dispatcher'[d].at # "idle" => dispatcher'[d].seen = dispatcher[d].seen
        /\ \A c \in Dispatchers : c # d => dispatcher'[c] = dispatcher[c]
    BY <1>1, <2>1, NextItemStep
  <2>3. ~IsPosting(dispatcher'[d], i)
    BY <2>2 DEF IsPosting
  <2>4. CASE i = Hand(d)
    <3>1. ~IsStale(dispatcher'[d], i)
      BY <2>2, <2>4 DEF IsStale
    <3>2. /\ PostingIn(dispatcher', i) = PostingIn(dispatcher, i) \ {d}
          /\ StaleIn(dispatcher', i) \subseteq StaleIn(dispatcher, i)
      BY <2>2, <2>3, <3>1, CrewsCounted
    <3>3. /\ PostingIn(dispatcher, i) \subseteq Dispatchers /\ StaleIn(dispatcher, i) \subseteq Dispatchers
          /\ StaleIn(dispatcher, i) \cap PostingIn(dispatcher, i) = {}
      BY CrewsType
    <3>4. StaleIn(dispatcher', i) \cap PostingIn(dispatcher, i) = {}
      BY <3>2, <3>3
    <3>5. Bounded(Counted(outbox[i].attempts), posts[i],
                  PostingIn(dispatcher, i) \ {d}, StaleIn(dispatcher', i))
      BY <1>1, <3>2, <3>3, <3>4, BoundedCounted
    <3> QED BY <2>1, <2>4, <3>2, <3>5
  <2>5. CASE i # Hand(d)
    <3>1. ~IsPosting(dispatcher[d], i)
      BY <2>5 DEF IsPosting, Hand
    <3>2. IsStale(dispatcher'[d], i) => IsStale(dispatcher[d], i)
      BY <2>1, <2>2, <3>1 DEF IsStale
    <3> QED BY <1>3, <2>1, <2>2, <2>3, <2>5, <3>1, <3>2
  <2> QED BY <2>4, <2>5
<1>8. ASSUME NEW d \in Dispatchers, MarkFails(d) \/ Crash(d) PROVE FALSE
  BY <1>8 DEF MarkFails, Crash
<1>9. CASE Tick
  <2>1. \A j \in Rows : outbox'[j].attempts = outbox[j].attempts
    BY <1>1, <1>9, TickStep
  <2>2. UNCHANGED <<dispatcher, posts>>
    BY <1>9 DEF Tick
  <2> QED BY <1>2, <2>1, <2>2
<1>10. CASE UNCHANGED vars
  BY <1>2, <1>10 DEF vars
<1> HIDE DEF At
<1> QED BY <1>4, <1>5, <1>6, <1>7, <1>8, <1>9, <1>10 DEF Next, DispatcherStep

(* Without faults a row is POSTed at most MaxAttempts times, and once more   *)
(* for each further dispatcher: a list that is stale costs one POST, never a *)
(* series of them.                                                           *)
THEOREM PostsAreBounded ==
  ASSUME IsFiniteSet(Dispatchers), OutboxFaults = {}
  PROVE  Spec => []PostsBounded
<1>1. Init => BoundInv
  BY BoundedInit
<1>2. BoundInv /\ [Next]_vars => BoundInv'
  BY BoundedStep, OutboxStep DEF BoundInv
<1>3. BoundInv => PostsBounded
  <2> SUFFICES ASSUME BoundInv, NEW i \in Rows
               PROVE  posts[i] <= MaxAttempts + Cardinality(Dispatchers) - 1
    BY DEF PostsBounded
  <2>1. outbox[i].attempts \in Nat /\ posts[i] \in Nat
        /\ Bounded(outbox[i].attempts, posts[i],
                   PostingIn(dispatcher, i), StaleIn(dispatcher, i))
    BY LimitsType DEF BoundInv, OutboxInv, BoundedPosts, TypeOK
  <2>2. /\ Cardinality(PostingIn(dispatcher, i)) \in Nat
        /\ Cardinality(StaleIn(dispatcher, i)) \in Nat
        /\ Cardinality(PostingIn(dispatcher, i)) <= Cardinality(Dispatchers)
        /\ Cardinality(Dispatchers) \in Nat
    BY CrewsType, CrewSizes
  <2> QED BY <2>1, <2>2, LimitsType DEF Bounded
<1> QED BY <1>1, <1>2, <1>3, PTL DEF Spec

=============================================================================
