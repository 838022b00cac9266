------------------------- MODULE EventOrderProofs -------------------------
(***************************************************************************)
(* Proofs about EventOrder for any set of events, any priorities and any   *)
(* bound on ticks.  The inductive invariant is the conjunction of the      *)
(* three properties of the queue with its type: sortedness is preserved by *)
(* Reschedule only because the event's old entry has gone (QueuedOnce),    *)
(* and time can only move to the head's tick without leaving an event      *)
(* behind because the queue is sorted.                                     *)
(***************************************************************************)
EXTENDS EventOrder, TLAPS

IInv == TypeOK /\ Sorted /\ QueuedOnce /\ NoneInPast

(* f is s with e put in at k; f is s without its k-th entry. *)
Insertion(f, s, k, e) ==
    /\ f \in Seq(Event) /\ Len(f) = Len(s) + 1
    /\ \A i \in 1..Len(s) + 1 : /\ i < k => f[i] = s[i]
                                /\ i = k => f[i] = e
                                /\ i > k => f[i] = s[i - 1]

Deletion(f, s, k) ==
    /\ f \in Seq(Event) /\ Len(f) = Len(s) - 1
    /\ \A i \in 1..Len(s) - 1 : /\ i < k => f[i] = s[i]
                                /\ i >= k => f[i] = s[i + 1]

(* Inserting one entry: the result is a sequence one longer. *)
LEMMA InsertAtType ==
    ASSUME NEW s \in Seq(Event), NEW e \in Event, NEW k \in 1..Len(s) + 1
    PROVE  Insertion(InsertAt(s, k, e), s, k, e)
  <1> DEFINE f == InsertAt(s, k, e)
  <1>1. Len(s) \in Nat /\ \A i \in 1..Len(s) : s[i] \in Event
    OBVIOUS
  <1>2. f \in [1..Len(s) + 1 -> Event]
    BY <1>1 DEF InsertAt
  <1>3. f \in Seq(Event) /\ Len(f) = Len(s) + 1
    BY <1>1, <1>2
  <1> QED
    BY <1>1, <1>3 DEF InsertAt, Insertion

(* Dropping one entry: the result is a sequence one shorter. *)
LEMMA DropAtType ==
    ASSUME NEW s \in Seq(Event), NEW k \in 1..Len(s)
    PROVE  Deletion(DropAt(s, k), s, k)
  <1> DEFINE f == DropAt(s, k)
  <1>1. Len(s) \in Nat /\ \A i \in 1..Len(s) : s[i] \in Event
    OBVIOUS
  <1>2. f \in [1..Len(s) - 1 -> Event] /\ Len(s) - 1 \in Nat
    BY <1>1 DEF DropAt
  <1>3. f \in Seq(Event) /\ Len(f) = Len(s) - 1
    BY <1>1, <1>2
  <1> QED
    BY <1>1, <1>3 DEF DropAt, Deletion

(* A sequence is a good queue for the stamps w and the time c. *)
Good(s, w, c) ==
    /\ s \in Seq(Event)
    /\ \A i, j \in 1..Len(s) : i < j => ~Less(w, s[j], s[i])
    /\ \A i, j \in 1..Len(s) : s[i] = s[j] => i = j
    /\ \A i \in 1..Len(s) : w[s[i]] >= c

(* The order of events by tick and priority is asymmetric.                 *)
LEMMA LessAsymmetric ==
    ASSUME NEW w \in [Event -> Int], NEW x \in Event, NEW y \in Event, Less(w, x, y)
    PROVE  ~Less(w, y, x)
  <1>1. /\ w[x] \in Int /\ w[y] \in Int
        /\ Priority[x] \in Int /\ Priority[y] \in Int
    BY PriorityAssumption
  <1> QED
    BY <1>1 DEF Less

(* "Not before" is transitive.                                             *)
LEMMA NotLessTransitive ==
    ASSUME NEW w \in [Event -> Int], NEW x \in Event, NEW y \in Event, NEW z \in Event,
           ~Less(w, x, y), ~Less(w, y, z)
    PROVE  ~Less(w, x, z)
  <1>1. /\ w[x] \in Int /\ w[y] \in Int /\ w[z] \in Int
        /\ Priority[x] \in Int /\ Priority[y] \in Int /\ Priority[z] \in Int
    BY PriorityAssumption
  <1> QED
    BY <1>1 DEF Less

(* Two places of a good queue.                                             *)
LEMMA GoodPair ==
    ASSUME NEW s, NEW w, NEW c, Good(s, w, c), NEW a \in 1..Len(s), NEW b \in 1..Len(s)
    PROVE  /\ a < b => ~Less(w, s[b], s[a])
           /\ s[a] = s[b] => a = b
  BY DEF Good

(* The shift of positions past k that an insertion makes keeps their order. *)
LEMMA ShiftKeepsOrder ==
    ASSUME NEW i \in Int, NEW j \in Int, NEW k \in Int, NEW a \in Int, NEW b \in Int,
           (i < k /\ a = i) \/ (i > k /\ a = i - 1),
           (j < k /\ b = j) \/ (j > k /\ b = j - 1)
    PROVE  (i < j => a < b) /\ (a = b => i = j)
  OBVIOUS

(* Inserting an event that is not queued, at its place, keeps a queue good. *)
LEMMA InsertGood ==
    ASSUME NEW s, NEW w \in [Event -> Int], NEW c \in Int, NEW e \in Event,
           NEW k \in 1..Len(s) + 1,
           Good(s, w, c), e \notin Queued(s), w[e] >= c, IsPlace(s, w, e, k)
    PROVE  Good(InsertAt(s, k, e), w, c)
  <1> DEFINE f == InsertAt(s, k, e)
  <1>1. /\ s \in Seq(Event) /\ Len(s) \in Nat
        /\ \A i \in 1..Len(s) : s[i] \in Event
    BY DEF Good
  <1>0. Insertion(f, s, k, e)
    BY <1>1, InsertAtType
  <1> HIDE DEF f
  <1>2. /\ f \in Seq(Event) /\ Len(f) = Len(s) + 1
        /\ \A i \in 1..Len(s) + 1 : /\ i < k => f[i] = s[i]
                                    /\ i = k => f[i] = e
                                    /\ i > k => f[i] = s[i - 1]
    BY <1>0 DEF Insertion
  <1>4. \A i \in 1..Len(s) : s[i] # e
    BY DEF Queued
  <1>5. \A i \in k..Len(s) : ~Less(w, s[i], e)
    <2> TAKE i \in k..Len(s)
    <2>1. ~Less(w, s[k], e)
      BY <1>1 DEF IsPlace
    <2>2. i \in 1..Len(s) /\ k \in 1..Len(s) /\ (i = k \/ k < i)
      BY <1>1
    <2>3. i = k \/ ~Less(w, s[i], s[k])
      <3>1. \A a, b \in 1..Len(s) : a < b => ~Less(w, s[b], s[a])
        BY DEF Good
      <3> QED
        BY <2>2, <3>1
    <2>4. s[i] \in Event /\ s[k] \in Event
      BY <2>2, <1>1
    <2> QED
      BY <2>1, <2>3, <2>4, NotLessTransitive
  <1>6. ASSUME NEW i \in 1..Len(f), i # k
        PROVE  \E a \in 1..Len(s) : /\ f[i] = s[a]
                                    /\ (i < k /\ a = i) \/ (i > k /\ a = i - 1)
    <2>1. CASE i < k
      <3>1. i \in 1..Len(s) /\ f[i] = s[i]
        BY <2>1, <1>1, <1>2
      <3> QED
        BY <3>1, <2>1
    <2>2. CASE i > k
      <3>1. i \in 1..Len(s) + 1
        BY <1>2
      <3>2. f[i] = s[i - 1]
        BY <2>2, <3>1, <1>2
      <3>3. i - 1 \in 1..Len(s)
        BY <2>2, <3>1, <1>1
      <3> QED
        BY <3>2, <3>3, <2>2
    <2> QED
      BY <2>1, <2>2, <1>6, <1>1, <1>2
  <1>7. f[k] = e /\ Len(f) \in Nat /\ k \in Int
    BY <1>1, <1>2
  <1>8. ASSUME NEW i \in 1..Len(f), NEW j \in 1..Len(f)
        PROVE  /\ i < j => ~Less(w, f[j], f[i])
               /\ f[i] = f[j] => i = j
    <2>1. CASE i = k /\ j # k
      <3>1. PICK b \in 1..Len(s) : /\ f[j] = s[b]
                                   /\ (j < k /\ b = j) \/ (j > k /\ b = j - 1)
        BY <2>1, <1>6
      <3>2. i < j => b \in k..Len(s)
        BY <2>1, <3>1, <1>1
      <3> QED
        BY <2>1, <3>1, <3>2, <1>4, <1>5, <1>7
    <2>2. CASE i # k /\ j = k
      <3>1. PICK a \in 1..Len(s) : /\ f[i] = s[a]
                                   /\ (i < k /\ a = i) \/ (i > k /\ a = i - 1)
        BY <2>2, <1>6
      <3>2. i < j => a \in 1..k - 1
        BY <2>2, <3>1, <1>1, <1>7
      <3>3. i < j => Less(w, s[a], e)
        BY <3>2 DEF IsPlace
      <3>4. i < j => ~Less(w, e, s[a])
        <4>1. s[a] \in Event
          BY <1>1
        <4> QED
          BY <4>1, <3>3, LessAsymmetric
      <3>5. f[j] = e /\ s[a] # e
        BY <2>2, <1>4, <1>7
      <3> QED
        BY <3>1, <3>4, <3>5
    <2>3. CASE i # k /\ j # k
      <3>1. PICK a \in 1..Len(s) : /\ f[i] = s[a]
                                   /\ (i < k /\ a = i) \/ (i > k /\ a = i - 1)
        BY <2>3, <1>6, Zenon
      <3>2. PICK b \in 1..Len(s) : /\ f[j] = s[b]
                                   /\ (j < k /\ b = j) \/ (j > k /\ b = j - 1)
        BY <2>3, <1>6, Zenon
      <3>3. /\ i < j => a < b
            /\ a = b => i = j
        <4>1. i \in Int /\ j \in Int /\ a \in Int /\ b \in Int
          BY <1>1, <1>7
        <4> QED
          BY <4>1, <3>1, <3>2, <1>7, ShiftKeepsOrder, Zenon
      <3>4. /\ a < b => ~Less(w, s[b], s[a])
            /\ s[a] = s[b] => a = b
        BY GoodPair
      <3> QED
        BY <3>1, <3>2, <3>3, <3>4
    <2>4. CASE i = k /\ j = k
      BY <2>4, <1>7
    <2> QED
      BY <2>1, <2>2, <2>3, <2>4
  <1>9. ASSUME NEW i \in 1..Len(f) PROVE w[f[i]] >= c
    <2>1. CASE i = k
      BY <2>1, <1>7
    <2>2. CASE i # k
      <3>1. PICK a \in 1..Len(s) : f[i] = s[a]
        BY <2>2, <1>6
      <3> QED
        BY <3>1 DEF Good
    <2> QED
      BY <2>1, <2>2
  <1> QED
    BY <1>2, <1>8, <1>9 DEF Good, f

(* Dropping an entry keeps a queue good, and takes just that event out. *)
LEMMA DropGood ==
    ASSUME NEW s, NEW w \in [Event -> Int], NEW c \in Int,
           NEW k \in 1..Len(s), Good(s, w, c)
    PROVE  Good(DropAt(s, k), w, c) /\ s[k] \notin Queued(DropAt(s, k))
  <1> DEFINE f == DropAt(s, k)
  <1>1. /\ s \in Seq(Event) /\ Len(s) \in Nat
        /\ \A i \in 1..Len(s) : s[i] \in Event
    BY DEF Good
  <1>0. Deletion(f, s, k)
    BY <1>1, DropAtType
  <1> HIDE DEF f
  <1>2. /\ f \in Seq(Event) /\ Len(f) = Len(s) - 1
        /\ \A i \in 1..Len(s) - 1 : /\ i < k => f[i] = s[i]
                                    /\ i >= k => f[i] = s[i + 1]
    BY <1>0 DEF Deletion
  <1>3. ASSUME NEW i \in 1..Len(f)
        PROVE  \E a \in 1..Len(s) : /\ f[i] = s[a] /\ a # k
                                    /\ (i < k /\ a = i) \/ (i >= k /\ a = i + 1)
    <2>1. CASE i < k
      <3>1. i \in 1..Len(s) - 1
        BY <1>2
      <3>2. f[i] = s[i]
        BY <2>1, <3>1, <1>2
      <3>3. i \in 1..Len(s) /\ i # k
        BY <2>1, <3>1, <1>1
      <3> QED
        BY <3>2, <3>3, <2>1
    <2>2. CASE i >= k
      <3>1. i \in 1..Len(s) - 1
        BY <1>2
      <3>2. f[i] = s[i + 1]
        BY <2>2, <3>1, <1>2
      <3>3. i + 1 \in 1..Len(s) /\ i + 1 # k
        BY <2>2, <3>1, <1>1
      <3> QED
        BY <3>2, <3>3, <2>2
    <2> QED
      BY <2>1, <2>2, <1>1, <1>2
  <1>4. ASSUME NEW i \in 1..Len(f), NEW j \in 1..Len(f)
        PROVE  /\ i < j => ~Less(w, f[j], f[i])
               /\ f[i] = f[j] => i = j
    <2>1. PICK a \in 1..Len(s) : /\ f[i] = s[a]
                                 /\ (i < k /\ a = i) \/ (i >= k /\ a = i + 1)
      BY <1>3
    <2>2. PICK b \in 1..Len(s) : /\ f[j] = s[b]
                                 /\ (j < k /\ b = j) \/ (j >= k /\ b = j + 1)
      BY <1>3
    <2>3. /\ i < j => a < b
          /\ a = b => i = j
      <3>1. i \in Int /\ j \in Int /\ k \in Int
        BY <1>1, <1>2
      <3> QED
        BY <2>1, <2>2, <3>1
    <2>4. /\ a < b => ~Less(w, s[b], s[a])
          /\ s[a] = s[b] => a = b
      BY GoodPair
    <2> QED
      BY <2>1, <2>2, <2>3, <2>4
  <1>5. Good(f, w, c)
    <2>1. ASSUME NEW i \in 1..Len(f) PROVE w[f[i]] >= c
      <3>1. PICK a \in 1..Len(s) : f[i] = s[a]
        BY <1>3
      <3> QED
        BY <3>1 DEF Good
    <2> QED
      BY <1>2, <1>4, <2>1, Zenon DEF Good
  <1>6. s[k] \notin Queued(f)
    <2>1. ASSUME NEW i \in 1..Len(f) PROVE f[i] # s[k]
      <3>1. PICK a \in 1..Len(s) : f[i] = s[a] /\ a # k
        BY <1>3
      <3> QED
        BY <3>1, Zenon DEF Good
    <2> QED
      BY <2>1 DEF Queued
  <1> QED
    BY <1>5, <1>6 DEF f

(* The queue and the time, as one predicate. *)
LEMMA IInvGood ==
    IInv <=> Good(order, when, curTick) /\ when \in [Event -> Tick]
             /\ squashed \in [Event -> BOOLEAN] /\ curTick \in Tick
  BY DEF IInv, TypeOK, Sorted, QueuedOnce, NoneInPast, Good

(* Giving a new stamp to an event that is not in s leaves s good. *)
LEMMA RestampGood ==
    ASSUME NEW s, NEW w \in [Event -> Int], NEW c \in Int, NEW e \in Event,
           NEW t \in Int, Good(s, w, c), e \notin Queued(s)
    PROVE  Good(s, [w EXCEPT ![e] = t], c)
  <1> DEFINE v == [w EXCEPT ![e] = t]
  <1>1. \A i \in 1..Len(s) : s[i] \in Event /\ s[i] # e /\ v[s[i]] = w[s[i]]
    BY DEF Good, Queued
  <1> QED
    BY <1>1 DEF Good, Less

(* Initially the queue is empty. *)
LEMMA InitInv == Init => IInv
  <1> SUFFICES ASSUME Init PROVE IInv
    OBVIOUS
  <1>1. order = <<>> /\ Len(order) = 0 /\ order \in Seq(Event)
    BY DEF Init
  <1>2. 0 \in Tick
    BY MaxTickAssumption DEF Tick
  <1> QED
    BY <1>1, <1>2 DEF Init, IInv, TypeOK, Sorted, QueuedOnce, NoneInPast

(* Every call on the queue preserves the invariant. *)
LEMMA NextInv == IInv /\ [Next]_vars => IInv'
  <1> SUFFICES ASSUME IInv, [Next]_vars PROVE IInv'
    OBVIOUS
  <1>1. /\ Good(order, when, curTick) /\ order \in Seq(Event)
        /\ when \in [Event -> Tick] /\ squashed \in [Event -> BOOLEAN]
        /\ curTick \in Tick
    BY IInvGood DEF Good
  <1>2. Tick \subseteq Int /\ when \in [Event -> Int] /\ curTick \in Int
    BY <1>1, MaxTickAssumption DEF Tick
  <1> SUFFICES Good(order', when', curTick') /\ when' \in [Event -> Tick]
               /\ squashed' \in [Event -> BOOLEAN] /\ curTick' \in Tick
    BY DEF IInv, TypeOK, Sorted, QueuedOnce, NoneInPast, Good
  <1>3. ASSUME NEW e \in Event, NEW t \in Tick, Schedule(e, t)
        PROVE  Good(order', when', curTick') /\ when' \in [Event -> Tick]
    <2>1. when' \in [Event -> Tick] /\ when' \in [Event -> Int] /\ when'[e] = t
      BY <1>1, <1>2, <1>3 DEF Schedule
    <2>2. Good(order, when', curTick)
      BY <1>1, <1>2, <1>3, RestampGood, Zenon DEF Schedule
    <2>3. PICK k \in 1..Len(order) + 1 :
             IsPlace(order, when', e, k) /\ order' = InsertAt(order, k, e)
      BY <1>3 DEF Schedule
    <2>4. e \notin Queued(order) /\ t >= curTick /\ curTick' = curTick
      BY <1>3 DEF Schedule
    <2>5. Good(InsertAt(order, k, e), when', curTick)
      BY <2>1, <2>2, <2>3, <2>4, <1>2, InsertGood
    <2> QED
      BY <2>1, <2>3, <2>4, <2>5
  <1>4. ASSUME NEW e \in Event, Deschedule(e)
        PROVE  Good(order', when', curTick')
    <2>1. PICK k \in 1..Len(order) : order' = DropAt(order, k)
      BY <1>4 DEF Deschedule
    <2> QED
      BY <2>1, <1>1, <1>2, <1>4, DropGood DEF Deschedule
  <1>5. ASSUME NEW e \in Event, NEW t \in Tick, Reschedule(e, t)
        PROVE  Good(order', when', curTick') /\ when' \in [Event -> Tick]
    <2>1. when' \in [Event -> Tick] /\ when' \in [Event -> Int] /\ when'[e] = t
      BY <1>1, <1>2, <1>5 DEF Reschedule
    <2>2. PICK s \in {order} \cup {DropAt(order, k) : k \in 1..Len(order)} :
             /\ Queued(s) = Queued(order) \ {e}
             /\ \E k \in 1..Len(s) + 1 :
                   IsPlace(s, when', e, k) /\ order' = InsertAt(s, k, e)
      BY <1>5 DEF Reschedule
    <2>3. Good(s, when, curTick)
      BY <2>2, <1>1, <1>2, DropGood
    <2>4. Good(s, when', curTick)
      BY <2>2, <2>3, <1>2, <1>5, RestampGood, Zenon DEF Reschedule
    <2>5. PICK k \in 1..Len(s) + 1 :
             IsPlace(s, when', e, k) /\ order' = InsertAt(s, k, e)
      BY <2>2
    <2>6. e \notin Queued(s) /\ t >= curTick /\ curTick' = curTick
      BY <2>2, <1>5 DEF Reschedule
    <2>7. Good(InsertAt(s, k, e), when', curTick)
      BY <2>1, <2>4, <2>5, <2>6, <1>2, InsertGood
    <2> QED
      BY <2>1, <2>5, <2>6, <2>7
  <1>6. ASSUME Service
        PROVE  Good(order', when', curTick') /\ curTick' \in Tick
    <2>1. order # <<>> /\ order' = Tail(order) /\ when' = when
      BY <1>6 DEF Service
    <2>2. /\ Len(order) \in Nat \ {0} /\ order' \in Seq(Event)
          /\ Len(order') = Len(order) - 1
          /\ \A i \in 1..Len(order') : order'[i] = order[i + 1]
      BY <2>1, <1>1
    <2>3. \A i \in 1..Len(order) : order[i] \in Event /\ when[order[i]] \in Int
      BY <1>1, <1>2
    <2>4. \A i \in 1..Len(order) : when[order[1]] <= when[order[i]]
      BY <1>1, <2>2, <2>3 DEF Good, Less
    <2>5. curTick' \in {curTick, when[order[1]]} /\ curTick' \in Tick
      BY <1>6, <1>1, <2>2, <2>3 DEF Service
    <2>6. ASSUME NEW i \in 1..Len(order') PROVE when[order'[i]] >= curTick'
      <3>1. i + 1 \in 1..Len(order) /\ order'[i] = order[i + 1]
        BY <2>2
      <3>2. when[order[i + 1]] >= curTick /\ when[order[i + 1]] >= when[order[1]]
        BY <3>1, <2>2, <2>3, <2>4, <1>1 DEF Good
      <3> QED
        BY <3>1, <3>2, <2>5
    <2>7. ASSUME NEW i \in 1..Len(order'), NEW j \in 1..Len(order')
          PROVE  /\ i < j => ~Less(when, order'[j], order'[i])
                 /\ order'[i] = order'[j] => i = j
      <3>1. /\ i + 1 \in 1..Len(order) /\ order'[i] = order[i + 1]
            /\ j + 1 \in 1..Len(order) /\ order'[j] = order[j + 1]
            /\ i < j => i + 1 < j + 1
            /\ i + 1 = j + 1 => i = j
        BY <2>2
      <3> HIDE <2>2
      <3>2. /\ i + 1 < j + 1 => ~Less(when, order[j + 1], order[i + 1])
            /\ order[i + 1] = order[j + 1] => i + 1 = j + 1
        BY <3>1, <1>1, GoodPair
      <3> QED
        BY <3>1, <3>2
    <2> QED
      BY <2>1, <2>2, <2>5, <2>6, <2>7 DEF Good
  <1>7. ASSUME NEW t \in Tick, Advance(t)
        PROVE  Good(order', when', curTick') /\ curTick' \in Tick
    <2>1. \A i \in 1..Len(order) : order[i] \in Event /\ when[order[i]] \in Int
      BY <1>1, <1>2
    <2>2. \A i \in 1..Len(order) : when[order[i]] >= t
      <3> TAKE i \in 1..Len(order)
      <3>1. order # <<>> /\ 1 \in 1..Len(order) /\ when[order[1]] > t
        BY <1>1, <1>7 DEF Advance
      <3>2. when[order[1]] <= when[order[i]]
        BY <1>1, <2>1, <3>1 DEF Good, Less
      <3> QED
        BY <3>1, <3>2, <2>1, <1>2
    <2> QED
      BY <2>2, <1>1, <1>7 DEF Advance, Good
  <1>8. ASSUME NEW e \in Event, Renew(e)
        PROVE  Good(order', when', curTick') /\ when' \in [Event -> Tick]
    <2>1. 0 \in Tick
      BY MaxTickAssumption DEF Tick
    <2> QED
      BY <2>1, <1>1, <1>2, <1>8, RestampGood, Zenon DEF Renew
  <1>9. CASE Next
    <2>1. ASSUME NEW e \in Event, Squash(e) PROVE UNCHANGED <<order, when, curTick>>
      BY <2>1 DEF Squash
    <2>2. squashed' \in [Event -> BOOLEAN]
      BY <1>9, <1>1, Zenon DEF Next, Schedule, Deschedule, Reschedule, Squash, Service,
                        Advance, Renew
    <2>3. when' \in [Event -> Tick]
      BY <1>9, <1>1, <1>3, <1>5, <1>8
         DEF Next, Deschedule, Squash, Service, Advance
    <2>4. curTick' \in Tick
      BY <1>9, <1>1, <1>6, <1>7
         DEF Next, Schedule, Deschedule, Reschedule, Squash, Renew
    <2>5. Good(order', when', curTick')
      BY <1>9, <1>1, <1>3, <1>4, <1>5, <1>6, <1>7, <1>8, <2>1 DEF Next
    <2> QED
      BY <2>2, <2>3, <2>4, <2>5
  <1>10. CASE UNCHANGED vars
    BY <1>10, <1>1 DEF vars
  <1> QED
    BY <1>9, <1>10

(* The queue is sorted by tick and priority, holds no event twice and has  *)
(* no event in the past, for any events, priorities and ticks: what        *)
(* debugVerify() and the assertion of doSimLoop() look for never happens.  *)
THEOREM QueueCorrect == Spec => [](TypeOK /\ Sorted /\ QueuedOnce /\ NoneInPast)
  <1>1. IInv => TypeOK /\ Sorted /\ QueuedOnce /\ NoneInPast
    BY DEF IInv
  <1> QED
    BY InitInv, NextInv, <1>1, PTL DEF Spec

(* No call on the queue takes simulated time back.                         *)
THEOREM TimeNeverGoesBack == Spec => TimeMonotone
  <1>1. IInv /\ [Next]_vars => [curTick' >= curTick]_vars
    <2> SUFFICES ASSUME IInv, Next PROVE curTick' >= curTick
      OBVIOUS
    <2>1. /\ order \in Seq(Event) /\ when \in [Event -> Tick] /\ curTick \in Int
          /\ \A i \in 1..Len(order) : when[order[i]] >= curTick
      BY MaxTickAssumption DEF IInv, TypeOK, NoneInPast, Tick
    <2>2. CASE Service
      BY <2>1, <2>2 DEF Service
    <2>3. ASSUME NEW t \in Tick, Advance(t) PROVE curTick' >= curTick
      BY <2>3 DEF Advance
    <2>4. CASE UNCHANGED curTick
      BY <2>1, <2>4
    <2> QED
      BY <2>2, <2>3, <2>4 DEF Next, Schedule, Deschedule, Reschedule, Squash, Renew
  <1> QED
    BY InitInv, NextInv, <1>1, PTL DEF Spec, TimeMonotone
===========================================================================
