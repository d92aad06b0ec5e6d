------------------------ MODULE ConcurrentQueueProofs ------------------------
(* Proofs about ConcurrentQueue, for any finite sets of threads, any        *)
(* positive capacity, either policy and any mix of pop and pop_latest.      *)
EXTENDS ConcurrentQueue, FiniteSetTheorems, SequenceTheorems, TLAPS

\* A thread blocked on a condition variable is inside the matching call.
BlockedInCall ==
    /\ \A c \in notEmpty : call[c] \in {"pop", "pop_latest"}
    /\ \A p \in notFull : call[p] = "push"

Typing == TypeOK /\ BlockedInCall

\* The library's facts about Append, Tail and suffixes, for queues of ranks.
LEMMA AppendRank ==
  ASSUME NEW s \in Seq(Nat), NEW e \in Nat
  PROVE  /\ Append(s, e) \in Seq(Nat)
         /\ Len(Append(s, e)) = Len(s) + 1
         /\ \A i \in 1 .. Len(s) : Append(s, e)[i] = s[i]
         /\ Append(s, e)[Len(s) + 1] = e
BY AppendProperties

\* Where the elements are after the front one is taken.
LEMMA TailRank ==
  ASSUME NEW s \in Seq(Nat), Len(s) > 0
  PROVE  /\ Tail(s) \in Seq(Nat)
         /\ Len(Tail(s)) = Len(s) - 1
         /\ \A i \in 1 .. Len(Tail(s)) : Tail(s)[i] = s[i + 1]
<1>1. s # <<>>
  OBVIOUS
<1>2. QED  BY <1>1, HeadTailProperties

\* Where the elements are after pop_latest() took the k-th and dropped those
\* before it.
LEMMA SuffixRank ==
  ASSUME NEW s \in Seq(Nat), NEW k \in 1 .. Len(s)
  PROVE  /\ s[k] \in Nat
         /\ SubSeq(s, k + 1, Len(s)) \in Seq(Nat)
         /\ Len(SubSeq(s, k + 1, Len(s))) = Len(s) - k
         /\ \A i \in 1 .. (Len(s) - k) : SubSeq(s, k + 1, Len(s))[i] = s[k + i]
<1>1. k + 1 \in Int /\ Len(s) \in Int /\ k \in Int
  BY LenProperties
<1>2. \A i \in (k + 1) .. Len(s) : s[i] \in Nat
  BY ElementOfSeq, <1>1
<1>3. /\ SubSeq(s, k + 1, Len(s)) \in Seq(Nat)
      /\ Len(SubSeq(s, k + 1, Len(s))) =
            IF k + 1 <= Len(s) THEN Len(s) - (k + 1) + 1 ELSE 0
      /\ \A i \in 1 .. (Len(s) - (k + 1) + 1) :
            SubSeq(s, k + 1, Len(s))[i] = s[(k + 1) + i - 1]
  BY <1>1, <1>2, SubSeqProperties
<1>4. \A i \in 1 .. (Len(s) - k) : (k + 1) + i - 1 = k + i
  BY <1>1
<1>5. QED  BY <1>1, <1>3, <1>4, ElementOfSeq

\* notify_one only shrinks the set of blocked threads.
LEMMA NotifyOneShrinks ==
  ASSUME NEW W, NEW V \in NotifyOne(W)
  PROVE  V \subseteq W
BY DEF NotifyOne

\* push, once it may enqueue, keeps the typing invariant.
LEMMA AcceptTyping ==
  ASSUME Typing, NEW p \in Producers, NEW rest \in Seq(Nat), Accept(p, rest),
         dropped' \in Nat, Runs(p, "push")
  PROVE  Typing'
<1>1. notEmpty' \subseteq notEmpty
  BY NotifyOneShrinks DEF Accept
<1>2. p \notin notEmpty \cup notFull
  BY DEF Runs
<1>3. TypeOK'
  <2>1. items' \in Seq(Nat) /\ pushed' \in Nat
    <3>1. pushed \in Nat /\ pushed + 1 \in Nat
      BY DEF Typing, TypeOK
    <3>2. QED  BY <3>1, AppendRank DEF Accept
  <2>2. call' \in [Threads -> {"none", "push", "pop", "pop_latest"}]
    BY DEF Accept, Returns, Typing, TypeOK, Threads
  <2>3. QED  BY <1>1, <2>1, <2>2 DEF Accept, Typing, TypeOK
<1>4. BlockedInCall'
  BY <1>1, <1>2 DEF Accept, Returns, Typing, TypeOK, BlockedInCall, Threads
<1>5. QED  BY <1>3, <1>4 DEF Typing

\* pop and pop_latest keep it too: they return the element at some
\* position k of the queue.
LEMMA TakeTyping ==
  ASSUME Typing, NEW c \in Consumers, NEW k \in 1 .. Len(items), Take(c, k),
         c \notin notEmpty \cup notFull
  PROVE  Typing'
<1>1. notFull' \subseteq notFull
  BY NotifyOneShrinks DEF Take
<1>2. TypeOK'
  <2>1. items' \in Seq(Nat) /\ delivered' \in Seq(Nat) /\ dropped' \in Nat
    <3>1. /\ items \in Seq(Nat) /\ delivered \in Seq(Nat) /\ dropped \in Nat
      BY DEF Typing, TypeOK
    <3>2. items[k] \in Nat /\ items' \in Seq(Nat)
      BY <3>1, SuffixRank DEF Take
    <3>3. delivered' \in Seq(Nat)
      BY <3>1, <3>2, AppendRank DEF Take
    <3>4. k - 1 \in Nat
      BY <3>1, LenProperties
    <3>5. QED  BY <3>1, <3>2, <3>3, <3>4 DEF Take
  <2>2. call' \in [Threads -> {"none", "push", "pop", "pop_latest"}]
    BY DEF Take, Returns, Typing, TypeOK, Threads
  <2>3. QED  BY <1>1, <2>1, <2>2 DEF Take, Typing, TypeOK
<1>3. BlockedInCall'
  BY <1>1 DEF Take, Returns, Typing, TypeOK, BlockedInCall, Threads
<1>4. QED  BY <1>2, <1>3 DEF Typing

\* Every step of push(), pop(), pop_latest() and close() keeps the types.
LEMMA TypingStep ==
  ASSUME Typing, [Next]_vars
  PROVE  Typing'
<1> USE DEF Typing, TypeOK, BlockedInCall
<1>1. ASSUME NEW p \in Producers, PushDropOldest(p)
      PROVE  Typing'
  <2>1. CASE Len(items) >= Capacity
    <3>1. Tail(items) \in Seq(Nat)
      BY <2>1, CapacityAssumption, LenProperties, TailRank
    <3>2. dropped' \in Nat /\ Accept(p, Tail(items)) /\ Runs(p, "push")
      BY <1>1, <2>1 DEF PushDropOldest, RunsPush
    <3>3. QED  BY <3>1, <3>2, AcceptTyping
  <2>2. CASE ~(Len(items) >= Capacity)
    BY <1>1, <2>2, AcceptTyping DEF PushDropOldest, RunsPush
  <2>3. QED  BY <2>1, <2>2
<1>2. ASSUME NEW p \in Producers, PushBlocking(p)
      PROVE  Typing'
  BY <1>2, AcceptTyping DEF PushBlocking, RunsPush
<1>3. ASSUME NEW p \in Producers, PushWaits(p)
      PROVE  Typing'
  BY <1>3, ThreadsAssumption DEF PushWaits, RunsPush, Runs, Threads
<1>4. ASSUME NEW p \in Producers, PushRefused(p)
      PROVE  Typing'
  BY <1>4 DEF PushRefused, Runs, Returns, Threads
<1>5. ASSUME NEW c \in Consumers, Pop(c) \/ PopLatest(c)
      PROVE  Typing'
  <2>1. items # <<>> => 1 \in 1 .. Len(items) /\ Len(items) \in 1 .. Len(items)
    OBVIOUS
  <2>2. QED  BY <1>5, <2>1, TakeTyping DEF Pop, PopLatest, Runs
<1>6. ASSUME NEW c \in Consumers, NEW op \in ConsumerOps, PopWaits(c, op)
      PROVE  Typing'
  BY <1>6, OpsAssumption, ThreadsAssumption DEF PopWaits, Runs, Threads
<1>7. ASSUME NEW c \in Consumers, NEW op \in ConsumerOps, PopNullopt(c, op)
      PROVE  Typing'
  BY <1>7 DEF PopNullopt, Runs, Returns, Threads
<1>8. CASE CloseFlag
  BY <1>8 DEF CloseFlag
<1>9. CASE CloseRest
  BY <1>9 DEF CloseRest, CloseNotifyNotEmpty, CloseNotifyNotFull
<1>10. ASSUME NEW t \in Threads, SpuriousWake(t)
       PROVE  Typing'
  BY <1>10 DEF SpuriousWake
<1>11. CASE UNCHANGED vars
  BY <1>11 DEF vars
<1> HIDE DEF Typing, TypeOK, BlockedInCall
<1>12. ASSUME NEW p \in Producers, Push(p)
       PROVE  Typing'
  BY <1>1, <1>2, <1>3, <1>4, <1>12 DEF Push
<1>13. ASSUME NEW c \in Consumers, Consume(c)
       PROVE  Typing'
  <2>1. PICK op \in ConsumerOps :
           Pop(c) \/ PopLatest(c) \/ PopWaits(c, op) \/ PopNullopt(c, op)
    BY <1>13 DEF Consume
  <2>2. QED  BY <2>1, <1>5, <1>6, <1>7
<1>14. QED
  BY <1>8, <1>9, <1>10, <1>11, <1>12, <1>13 DEF Next

\* The types, and that only a thread inside a call is blocked, hold always.
LEMMA TypingInvariant == Spec => []Typing
<1>1. Init => Typing
  BY EmptySeq DEF Init, Typing, TypeOK, BlockedInCall
<1>2. Typing /\ [Next]_vars => Typing'
  BY TypingStep
<1>3. QED  BY <1>1, <1>2, PTL DEF Spec

(* The variables of the code and its ghosts keep their types: nothing but   *)
(* producers ever blocks on not_full_ and nothing but consumers on          *)
(* not_empty_, and the count of dropped elements never goes below zero.     *)
THEOREM TypeCorrect == Spec => []TypeOK
<1>1. Typing => TypeOK
  BY DEF Typing
<1>2. QED  BY <1>1, TypingInvariant, PTL

-----------------------------------------------------------------------------
(* What a step does to the elements: a push appends one, possibly after     *)
(* giving up the oldest; pop and pop_latest remove the elements up to some  *)
(* position; every other step leaves them alone.                            *)
LEMMA StepShape ==
  ASSUME Typing, [Next]_vars
  PROVE  \/ /\ Len(items) < Capacity
            /\ items' = Append(items, pushed + 1) /\ pushed' = pushed + 1
            /\ UNCHANGED <<dropped, delivered>>
         \/ /\ Len(items) >= Capacity
            /\ items' = Append(Tail(items), pushed + 1) /\ pushed' = pushed + 1
            /\ dropped' = dropped + 1 /\ UNCHANGED delivered
         \/ \E k \in 1 .. Len(items) :
               /\ items' = SubSeq(items, k + 1, Len(items))
               /\ delivered' = Append(delivered, items[k])
               /\ dropped' = dropped + (k - 1) /\ UNCHANGED pushed
         \/ UNCHANGED <<items, dropped, pushed, delivered>>
<1>0. items \in Seq(Nat)
  BY DEF Typing, TypeOK
<1>00. Len(items) \in Nat /\ Capacity \in Nat
  BY <1>0, LenProperties, CapacityAssumption
<1>1. ASSUME NEW p \in Producers, Push(p)
      PROVE  \/ /\ Len(items) < Capacity
                /\ items' = Append(items, pushed + 1) /\ pushed' = pushed + 1
                /\ UNCHANGED <<dropped, delivered>>
             \/ /\ Len(items) >= Capacity
                /\ items' = Append(Tail(items), pushed + 1)
                /\ pushed' = pushed + 1
                /\ dropped' = dropped + 1 /\ UNCHANGED delivered
             \/ UNCHANGED <<items, dropped, pushed, delivered>>
  BY <1>1, <1>00 DEF Push, PushDropOldest, PushBlocking, PushWaits, PushRefused, Accept
<1>2. ASSUME NEW c \in Consumers, Consume(c)
      PROVE  \/ \E k \in 1 .. Len(items) : Take(c, k)
             \/ UNCHANGED <<items, dropped, pushed, delivered>>
  <2>1. PICK op \in ConsumerOps :
           Pop(c) \/ PopLatest(c) \/ PopWaits(c, op) \/ PopNullopt(c, op)
    BY <1>2 DEF Consume
  <2>2. items # <<>> => 1 \in 1 .. Len(items) /\ Len(items) \in 1 .. Len(items)
    BY <1>0, EmptySeq
  <2>3. CASE Pop(c) \/ PopLatest(c)
    BY <2>2, <2>3 DEF Pop, PopLatest
  <2>4. CASE PopWaits(c, op) \/ PopNullopt(c, op)
    BY <2>4 DEF PopWaits, PopNullopt
  <2>5. QED  BY <2>1, <2>3, <2>4
<1>3. ASSUME CloseFlag \/ CloseRest \/ (\E t \in Threads : SpuriousWake(t))
             \/ UNCHANGED vars
      PROVE  UNCHANGED <<items, dropped, pushed, delivered>>
  BY <1>3 DEF CloseFlag, CloseRest, CloseNotifyNotEmpty, CloseNotifyNotFull,
              SpuriousWake, vars
<1>4. QED  BY <1>1, <1>2, <1>3 DEF Next, Take

\* The elements are in order, within capacity and accounted for.
Ordered == Contiguous /\ InOrder /\ WithinCapacity /\ Conservation

\* Accepting at the back and taking at the front keep the order and the counts.
LEMMA OrderedStep ==
  ASSUME Typing, Ordered, [Next]_vars
  PROVE  Ordered'
<1>1. /\ items \in Seq(Nat) /\ delivered \in Seq(Nat)
      /\ dropped \in Nat /\ pushed \in Nat /\ pushed + 1 \in Nat
      /\ Len(items) \in Nat /\ Len(delivered) \in Nat
      /\ Capacity \in Nat /\ Capacity > 0
  BY LenProperties, CapacityAssumption DEF Typing, TypeOK
<1>2. /\ \A i \in 1 .. Len(items) : items[i] = pushed - Len(items) + i
      /\ \A j \in 1 .. Len(delivered) :
            delivered[j] \in Nat /\ delivered[j] <= pushed - Len(items)
      /\ InOrder
      /\ Len(items) <= Capacity
      /\ pushed = Len(delivered) + dropped + Len(items)
  BY <1>1, ElementOfSeq DEF Ordered, Contiguous, WithinCapacity, Conservation
<1>3. CASE /\ Len(items) < Capacity
           /\ items' = Append(items, pushed + 1) /\ pushed' = pushed + 1
           /\ UNCHANGED <<dropped, delivered>>
  <2>1. /\ Len(items') = Len(items) + 1
        /\ \A i \in 1 .. Len(items) : items'[i] = items[i]
        /\ items'[Len(items) + 1] = pushed + 1
    BY <1>1, <1>3, AppendRank
  <2>2. pushed' = pushed + 1 /\ dropped' = dropped /\ delivered' = delivered
        /\ Len(items) < Capacity
    BY <1>3
  <2>3. ASSUME NEW i \in 1 .. Len(items')
        PROVE  items'[i] = pushed' - Len(items') + i
    <3>1. CASE i \in 1 .. Len(items)
      BY <1>1, <1>2, <2>1, <2>2, <3>1
    <3>2. CASE i = Len(items) + 1
      BY <1>1, <2>1, <2>2, <3>2
    <3>3. QED  BY <1>1, <2>1, <3>1, <3>2
  <2>4. Contiguous'
    BY <1>1, <1>2, <2>1, <2>2, <2>3 DEF Contiguous
  <2>5. InOrder'
    BY <1>2, <2>2 DEF InOrder
  <2>6. WithinCapacity' /\ Conservation'
    BY <1>1, <1>2, <2>1, <2>2 DEF WithinCapacity, Conservation
  <2>7. QED  BY <2>4, <2>5, <2>6 DEF Ordered
<1>4. CASE /\ Len(items) >= Capacity
           /\ items' = Append(Tail(items), pushed + 1) /\ pushed' = pushed + 1
           /\ dropped' = dropped + 1 /\ UNCHANGED delivered
  <2>1. /\ Tail(items) \in Seq(Nat) /\ Len(Tail(items)) = Len(items) - 1
        /\ \A i \in 1 .. Len(Tail(items)) : Tail(items)[i] = items[i + 1]
    BY <1>1, <1>4, TailRank
  <2>2. /\ Len(items') = Len(items)
        /\ \A i \in 1 .. (Len(items) - 1) : items'[i] = items[i + 1]
        /\ items'[Len(items)] = pushed + 1
    BY <1>1, <1>4, <2>1, AppendRank
  <2>3. pushed' = pushed + 1 /\ dropped' = dropped + 1 /\ delivered' = delivered
    BY <1>4
  <2>4. ASSUME NEW i \in 1 .. Len(items')
        PROVE  items'[i] = pushed' - Len(items') + i
    <3>1. CASE i \in 1 .. (Len(items) - 1)
      <4>1. i + 1 \in 1 .. Len(items)
        BY <1>1, <3>1
      <4>2. items'[i] = pushed - Len(items) + (i + 1)
        BY <1>2, <2>2, <3>1, <4>1
      <4>3. QED  BY <1>1, <2>2, <2>3, <4>1, <4>2
    <3>2. CASE i = Len(items)
      BY <1>1, <2>2, <2>3, <3>2
    <3>3. QED  BY <1>1, <2>2, <3>1, <3>2
  <2>5. Contiguous'
    BY <1>1, <1>2, <2>2, <2>3, <2>4, SMTT(20) DEF Contiguous
  <2>6. InOrder'
    BY <1>2, <2>3 DEF InOrder
  <2>7. WithinCapacity' /\ Conservation'
    BY <1>1, <1>2, <2>2, <2>3 DEF WithinCapacity, Conservation
  <2>8. QED  BY <2>5, <2>6, <2>7 DEF Ordered
<1>5. ASSUME NEW k \in 1 .. Len(items),
             items' = SubSeq(items, k + 1, Len(items)),
             delivered' = Append(delivered, items[k]),
             dropped' = dropped + (k - 1), UNCHANGED pushed
      PROVE  Ordered'
  <2>1. k \in Nat /\ k > 0 /\ k <= Len(items) /\ k - 1 \in Nat
        /\ items[k] \in Nat /\ items[k] = pushed - Len(items) + k
    BY <1>1, <1>2, SuffixRank
  <2>2. /\ Len(items') = Len(items) - k
        /\ \A i \in 1 .. (Len(items) - k) : items'[i] = items[k + i]
    BY <1>1, <1>5, SuffixRank
  <2>3. /\ Len(delivered') = Len(delivered) + 1
        /\ \A j \in 1 .. Len(delivered) : delivered'[j] = delivered[j]
        /\ delivered'[Len(delivered) + 1] = pushed - Len(items) + k
    BY <1>1, <1>5, <2>1, AppendRank
  <2>4. pushed' = pushed /\ dropped' = dropped + (k - 1)
    BY <1>5
  <2>5. ASSUME NEW i \in 1 .. Len(items')
        PROVE  items'[i] = pushed' - Len(items') + i
    <3>1. k + i \in 1 .. Len(items) /\ i \in 1 .. (Len(items) - k)
      BY <1>1, <2>1, <2>2
    <3>2. items'[i] = pushed - Len(items) + (k + i)
      BY <1>2, <2>2, <3>1
    <3>3. QED  BY <1>1, <2>1, <2>2, <2>4, <3>1, <3>2
  <2>6. ASSUME NEW j \in 1 .. Len(delivered')
        PROVE  delivered'[j] <= pushed' - Len(items')
    <3>1. CASE j \in 1 .. Len(delivered)
      <4>1. delivered[j] \in Nat /\ delivered[j] <= pushed - Len(items)
        BY <1>2, <3>1
      <4>2. delivered'[j] = delivered[j]
        BY <2>3, <3>1
      <4>3. QED  BY <1>1, <2>1, <2>2, <2>4, <4>1, <4>2, SMTT(20)
    <3>2. CASE j = Len(delivered) + 1
      BY <1>1, <2>1, <2>2, <2>3, <2>4, <3>2
    <3>3. QED  BY <1>1, <2>3, <3>1, <3>2
  <2>7. Contiguous'
    BY <2>5, <2>6 DEF Contiguous
  <2>8. ASSUME NEW i \in 1 .. Len(delivered'), NEW j \in 1 .. Len(delivered'),
               i < j
        PROVE  delivered'[i] < delivered'[j]
    <3>1. i \in 1 .. Len(delivered) /\ delivered'[i] = delivered[i]
      BY <1>1, <2>3, <2>8
    <3>2. CASE j \in 1 .. Len(delivered)
      BY <1>2, <2>3, <2>8, <3>1, <3>2 DEF InOrder
    <3>3. CASE j = Len(delivered) + 1
      <4>1. delivered[i] \in Nat /\ delivered[i] <= pushed - Len(items)
        BY <1>2, <3>1
      <4>2. delivered'[j] = pushed - Len(items) + k
        BY <2>3, <3>3
      <4>3. QED  BY <1>1, <2>1, <3>1, <4>1, <4>2, SMTT(20)
    <3>4. QED  BY <1>1, <2>3, <3>2, <3>3
  <2>9. InOrder'
    BY <2>8 DEF InOrder
  <2>10. WithinCapacity' /\ Conservation'
    BY <1>1, <1>2, <2>1, <2>2, <2>3, <2>4 DEF WithinCapacity, Conservation
  <2>11. QED  BY <2>7, <2>9, <2>10 DEF Ordered
<1>6. CASE UNCHANGED <<items, dropped, pushed, delivered>>
  BY <1>6 DEF Ordered, Contiguous, InOrder, WithinCapacity, Conservation
<1>7. QED  BY <1>3, <1>4, <1>5, <1>6, StepShape

\* Order, contiguity, the bound and the conservation of elements hold always.
LEMMA OrderedInvariant == Spec => []Ordered
<1>1. Init => Ordered
  BY CapacityAssumption
     DEF Init, Ordered, Contiguous, InOrder, WithinCapacity, Conservation
<1>2. Typing /\ Ordered /\ [Next]_vars => Ordered'
  BY OrderedStep
<1>3. QED  BY <1>1, <1>2, TypingInvariant, PTL DEF Spec

(* Whatever mix of producers and consumers runs, no element is returned     *)
(* twice and none overtakes an older one.                                   *)
THEOREM DeliveredInOrder == Spec => []InOrder
<1>1. Ordered => InOrder
  BY DEF Ordered
<1>2. QED  BY <1>1, OrderedInvariant, PTL

(* The accounting of push, pop and pop_latest is exact: accepted elements   *)
(* were returned, counted as dropped, or are still queued.                  *)
THEOREM NothingUnaccounted == Spec => []Conservation
<1>1. Ordered => Conservation
  BY DEF Ordered
<1>2. QED  BY <1>1, OrderedInvariant, PTL

\* What pop_latest hands out is the last element, and only c's call ends.
LEMMA LatestTaken ==
  ASSUME Typing, Ordered, NEW c \in Consumers, Next, ServedLatest(c)
  PROVE  delivered'[Len(delivered')] = pushed
<1>1. /\ items \in Seq(Nat) /\ delivered \in Seq(Nat) /\ pushed \in Nat
      /\ call \in [Threads -> {"none", "push", "pop", "pop_latest"}]
  BY DEF Typing, TypeOK
<1>2. call[c] = "pop_latest" /\ call'[c] = "none" /\ delivered' # delivered
  BY DEF ServedLatest
<1>3. PICK d \in Consumers : Pop(d) \/ PopLatest(d)
  BY <1>2 DEF Next, Push, PushDropOldest, PushBlocking, PushWaits, PushRefused, Accept,
              Consume, PopWaits, PopNullopt, CloseFlag, CloseRest, CloseNotifyNotEmpty,
              CloseNotifyNotFull, SpuriousWake
<1>4. d = c
  BY <1>1, <1>2, <1>3 DEF Pop, PopLatest, Take, Returns, Threads
<1>5. PopLatest(c)
  BY <1>2, <1>3, <1>4 DEF Pop, Runs
<1>6. delivered' = Append(delivered, items[Len(items)]) /\ items # <<>>
  BY <1>5 DEF PopLatest, Take
<1>7. Len(items) \in Nat /\ Len(items) \in 1 .. Len(items)
  BY <1>1, <1>6, EmptySeq, LenProperties
<1>8. items[Len(items)] = pushed
  <2>1. items[Len(items)] = pushed - Len(items) + Len(items)
    BY <1>7 DEF Ordered, Contiguous
  <2>2. QED  BY <1>1, <1>7, <2>1
<1>9. QED
  <2>1. items[Len(items)] \in Nat
    BY <1>1, <1>8
  <2>2. Len(delivered') = Len(delivered) + 1
        /\ delivered'[Len(delivered) + 1] = items[Len(items)]
    BY <1>1, <1>6, <2>1, AppendProperties
  <2>3. QED  BY <1>8, <2>2

(* A consumer that waited in pop_latest is given the newest element, for    *)
(* every capacity, policy and mix of producers and consumers: what lets a   *)
(* slow inference worker skip to the present.                               *)
THEOREM LatestIsGiven == Spec => LatestIsNewest
<1>1. Typing /\ Ordered /\ [Next]_vars
        => [\A c \in Consumers : ServedLatest(c) => delivered'[Len(delivered')] = pushed]_vars
  BY LatestTaken
<1>2. QED  BY <1>1, TypingInvariant, OrderedInvariant, PTL DEF Spec, LatestIsNewest

-----------------------------------------------------------------------------
(* The queue implements LossyChannel: a push maps to Send, pop and          *)
(* pop_latest to Receive, everything else (waiting, waking, closing) to a   *)
(* stuttering step.                                                         *)
LEMMA ChannelStep ==
  ASSUME Typing, Ordered, [Next]_vars
  PROVE  [Channel!Next]_(Channel!vars)
<1>1. /\ items \in Seq(Nat) /\ delivered \in Seq(Nat)
      /\ pushed \in Nat /\ Len(items) \in Nat /\ Len(items) <= pushed
      /\ Capacity \in Nat /\ Len(delivered) \in Nat /\ dropped \in Nat
  BY LenProperties, CapacityAssumption
     DEF Typing, TypeOK, Ordered, Conservation
<1>2. Len(items') <= Capacity
  BY OrderedStep DEF Ordered, WithinCapacity
<1>3. CASE /\ Len(items) < Capacity
           /\ items' = Append(items, pushed + 1) /\ pushed' = pushed + 1
           /\ UNCHANGED <<dropped, delivered>>
  <2>1. Len(items') = Len(items) + 1
    BY <1>1, <1>3, AppendRank
  <2>2. pushed' = pushed + 1 /\ delivered' = delivered
    BY <1>3
  <2>3. Channel!Send
    BY <1>1, <1>2, <2>1, <2>2 DEF Channel!Send
  <2>4. QED  BY <2>3 DEF Channel!Next
<1>4. CASE /\ Len(items) >= Capacity
           /\ items' = Append(Tail(items), pushed + 1) /\ pushed' = pushed + 1
           /\ dropped' = dropped + 1 /\ UNCHANGED delivered
  <2>0. Len(items) > 0
    BY <1>1, <1>4, CapacityAssumption
  <2>1. Tail(items) \in Seq(Nat) /\ Len(Tail(items)) = Len(items) - 1
    BY <1>1, <2>0, TailRank
  <2>2. Len(items') = Len(items)
    BY <1>1, <1>4, <2>1, AppendRank
  <2>3. pushed' = pushed + 1 /\ delivered' = delivered
    BY <1>4
  <2>4. Channel!Send
    BY <1>1, <1>2, <2>0, <2>2, <2>3 DEF Channel!Send
  <2>5. QED  BY <2>4 DEF Channel!Next
<1>5. ASSUME NEW k \in 1 .. Len(items),
             items' = SubSeq(items, k + 1, Len(items)),
             delivered' = Append(delivered, items[k]),
             dropped' = dropped + (k - 1), UNCHANGED pushed
      PROVE  Channel!Receive
  <2>1. k \in Nat /\ k > 0 /\ k <= Len(items)
        /\ items[k] = pushed - Len(items) + k
    BY <1>1 DEF Ordered, Contiguous
  <2>2. Len(items') = Len(items) - k
    BY <1>1, <1>5, SuffixRank
  <2>3. items[k] \in (pushed - Len(items) + 1) .. pushed
    BY <1>1, <2>1
  <2>4. pushed' - Len(items') = items[k]
    <3>1. pushed' = pushed
      BY <1>5
    <3>2. QED  BY <1>1, <2>1, <2>2, <3>1
  <2>5. QED  BY <1>5, <2>3, <2>4 DEF Channel!Receive
<1>6. CASE UNCHANGED <<items, dropped, pushed, delivered>>
  BY <1>6 DEF Channel!vars
<1>7. QED  BY <1>3, <1>4, <1>5, <1>6, StepShape DEF Channel!Next

(* ConcurrentQueue is a bounded, ordered, at-most-once channel: the frames  *)
(* workers get are a subsequence of the frames captured, and a frame is     *)
(* lost only to make place for, or in favour of, a newer one.               *)
THEOREM ChannelImplemented == Spec => ImplementsChannel
<1>1. Init => Channel!Init
  <2> SUFFICES ASSUME Init
               PROVE  Channel!Init
    OBVIOUS
  <2>1. pushed = 0 /\ delivered = <<>> /\ Len(items) = 0
    BY DEF Init
  <2>2. pushed - Len(items) = 0
    BY <2>1
  <2>3. QED  BY <2>1, <2>2 DEF Channel!Init
<1>2. Typing /\ Ordered /\ [Next]_vars => [Channel!Next]_(Channel!vars)
  BY ChannelStep
<1>3. QED
  BY <1>1, <1>2, TypingInvariant, OrderedInvariant, PTL
     DEF Spec, ImplementsChannel, Channel!Spec

-----------------------------------------------------------------------------
(* notify_one does not strand a consumer.  The argument: a push adds one    *)
(* element and, if a consumer is blocked, one awake consumer; a consumer    *)
(* that leaves takes at least one element with it; a consumer blocks only   *)
(* when there is no element at all.                                         *)
AwakeConsumers == {t \in Consumers : call[t] # "none" /\ t \notin notEmpty}

\* The consumers inside a call and not blocked are finitely many.
LEMMA AwakeFinite ==
  ASSUME Typing
  PROVE  /\ Awake(Consumers) = AwakeConsumers
         /\ IsFiniteSet(AwakeConsumers) /\ Cardinality(AwakeConsumers) \in Nat
<1>1. Awake(Consumers) = AwakeConsumers
  BY ThreadsAssumption DEF Typing, TypeOK, Awake, AwakeConsumers
<1>2. AwakeConsumers \in SUBSET Consumers
  BY DEF AwakeConsumers
<1>3. QED  BY <1>1, <1>2, ThreadsAssumption, FS_Subset, FS_CardinalityType

\* The same before and after a step, for comparing the two counts.
LEMMA AwakeFiniteNext ==
  /\ IsFiniteSet(AwakeConsumers) /\ Cardinality(AwakeConsumers) \in Nat
  /\ IsFiniteSet(AwakeConsumers') /\ Cardinality(AwakeConsumers') \in Nat
<1>1. AwakeConsumers \in SUBSET Consumers /\ AwakeConsumers' \in SUBSET Consumers
  BY DEF AwakeConsumers
<1>2. QED  BY <1>1, ThreadsAssumption, FS_Subset, FS_CardinalityType

Covered == notEmpty # {} => Cardinality(AwakeConsumers) >= Len(items)

\* Steps that touch no element and put no consumer to sleep.
LEMMA CoveredKept ==
  ASSUME Typing, Typing', Covered, UNCHANGED items, notEmpty' \subseteq notEmpty,
         AwakeConsumers \subseteq AwakeConsumers'
  PROVE  Covered'
<1>1. Cardinality(AwakeConsumers) <= Cardinality(AwakeConsumers')
  BY AwakeFiniteNext, FS_Subset
<1>2. Cardinality(AwakeConsumers) \in Nat /\ Cardinality(AwakeConsumers') \in Nat
  BY AwakeFiniteNext
<1>3. Len(items) \in Nat
  BY LenProperties DEF Typing, TypeOK
<1>4. QED  BY <1>1, <1>2, <1>3 DEF Covered

\* An accepted element comes with a notify_one, which wakes a consumer if one is
\* blocked.
LEMMA CoveredAccept ==
  ASSUME Typing, Typing', Covered, NEW p \in Producers, NEW rest \in Seq(Nat),
         Len(rest) <= Len(items), Accept(p, rest)
  PROVE  Covered'
<1>0. Len(rest) \in Nat /\ Len(items) \in Nat /\ pushed + 1 \in Nat
  BY LenProperties DEF Typing, TypeOK
<1>1. Len(items') = Len(rest) + 1
  BY <1>0, AppendRank DEF Accept
<1>2. SUFFICES ASSUME notEmpty' # {}
               PROVE  Cardinality(AwakeConsumers') >= Len(items')
  BY DEF Covered
<1>3. PICK t \in notEmpty : notEmpty' = notEmpty \ {t}
  BY <1>2 DEF Accept, NotifyOne
<1>4. AwakeConsumers' = AwakeConsumers \cup {t} /\ t \notin AwakeConsumers
  <2>1. t \in Consumers /\ call[t] # "none"
    BY DEF Typing, TypeOK, BlockedInCall
  <2>2. \A c \in Consumers : call'[c] = call[c]
    BY ThreadsAssumption DEF Accept, Returns, Typing, TypeOK, Threads
  <2>3. QED  BY <1>3, <2>1, <2>2 DEF AwakeConsumers
<1>5. Cardinality(AwakeConsumers') = Cardinality(AwakeConsumers) + 1
  BY <1>4, AwakeFiniteNext, FS_AddElement
<1>6. Cardinality(AwakeConsumers) >= Len(items)
  BY <1>3 DEF Covered
<1>7. QED  BY <1>0, <1>1, <1>5, <1>6, AwakeFiniteNext

\* A consumer that leaves its call takes at least one element with it.
LEMMA CoveredTake ==
  ASSUME Typing, Typing', Covered, NEW c \in Consumers,
         NEW k \in 1 .. Len(items), Take(c, k)
  PROVE  Covered'
<1>0. Len(items) \in Nat /\ items \in Seq(Nat)
  BY LenProperties DEF Typing, TypeOK
<1>1. Len(items') = Len(items) - k
  BY <1>0, SuffixRank DEF Take
<1>2. AwakeConsumers' = AwakeConsumers \ {c}
  <2>1. \A t \in Consumers : call'[t] = IF t = c THEN "none" ELSE call[t]
    BY DEF Take, Returns, Typing, TypeOK, Threads
  <2>2. notEmpty' = notEmpty
    BY DEF Take
  <2>3. QED  BY <2>1, <2>2 DEF AwakeConsumers
<1>3. Cardinality(AwakeConsumers') >= Cardinality(AwakeConsumers) - 1
  BY <1>2, AwakeFiniteNext, FS_RemoveElement
<1>4. notEmpty' = notEmpty
  BY DEF Take
<1>5. Cardinality(AwakeConsumers) \in Nat /\ Cardinality(AwakeConsumers') \in Nat
  BY AwakeFiniteNext
<1>6. QED  BY <1>0, <1>1, <1>3, <1>4, <1>5 DEF Covered

\* No step leaves more elements than awake consumers while one is blocked.
LEMMA CoveredStep ==
  ASSUME Typing, Covered, [Next]_vars
  PROVE  Covered'
<1>0. Typing'
  BY TypingStep
<1>00. items \in Seq(Nat) /\ Len(items) \in Nat /\ Capacity \in Nat /\ Capacity > 0
  BY LenProperties, CapacityAssumption DEF Typing, TypeOK
<1>1. ASSUME NEW p \in Producers, PushDropOldest(p)
      PROVE  Covered'
  <2>1. CASE Len(items) >= Capacity
    <3>1. Tail(items) \in Seq(Nat) /\ Len(Tail(items)) <= Len(items)
      BY <1>00, <2>1, TailRank
    <3>2. Accept(p, Tail(items))
      BY <1>1, <2>1 DEF PushDropOldest
    <3>3. QED  BY <1>0, <3>1, <3>2, CoveredAccept
  <2>2. CASE ~(Len(items) >= Capacity)
    BY <1>0, <1>00, <1>1, <2>2, CoveredAccept DEF PushDropOldest
  <2>3. QED  BY <2>1, <2>2
<1>2. ASSUME NEW p \in Producers, PushBlocking(p)
      PROVE  Covered'
  BY <1>0, <1>00, <1>2, CoveredAccept DEF PushBlocking
<1>3. ASSUME NEW p \in Producers, PushWaits(p) \/ PushRefused(p)
      PROVE  Covered'
  <2>1. \A c \in Consumers : call'[c] = call[c]
    BY <1>3, ThreadsAssumption
       DEF PushWaits, PushRefused, Returns, Typing, TypeOK, Threads
  <2>2. UNCHANGED <<items, notEmpty>>
    BY <1>3 DEF PushWaits, PushRefused
  <2>3. QED  BY <1>0, <2>1, <2>2, CoveredKept DEF AwakeConsumers
<1>4. ASSUME NEW c \in Consumers, Consume(c)
      PROVE  Covered'
  <2>1. PICK op \in ConsumerOps :
           Pop(c) \/ PopLatest(c) \/ PopWaits(c, op) \/ PopNullopt(c, op)
    BY <1>4 DEF Consume
  <2>2. CASE Pop(c) \/ PopLatest(c)
    <3>1. items # <<>> => 1 \in 1 .. Len(items) /\ Len(items) \in 1 .. Len(items)
      BY <1>00, EmptySeq
    <3>2. PICK k \in 1 .. Len(items) : Take(c, k)
      BY <2>2, <3>1 DEF Pop, PopLatest
    <3>3. QED  BY <1>0, <3>2, CoveredTake
  <2>3. CASE PopWaits(c, op) \/ PopNullopt(c, op)
    <3>1. Len(items') = 0
      BY <2>3 DEF PopWaits, PopNullopt
    <3>2. Cardinality(AwakeConsumers') \in Nat
      BY AwakeFiniteNext
    <3>3. QED  BY <3>1, <3>2 DEF Covered
  <2>4. QED  BY <2>1, <2>2, <2>3
<1>5. CASE CloseFlag \/ CloseNotifyNotFull \/ UNCHANGED vars
  <2>1. UNCHANGED <<items, notEmpty, call>>
    BY <1>5 DEF CloseFlag, CloseNotifyNotFull, vars
  <2>2. QED  BY <1>0, <2>1, CoveredKept DEF AwakeConsumers
<1>6. CASE CloseNotifyNotEmpty
  BY <1>6 DEF CloseNotifyNotEmpty, Covered
<1>7. ASSUME NEW t \in Threads, SpuriousWake(t)
      PROVE  Covered'
  BY <1>0, <1>7, CoveredKept DEF SpuriousWake, AwakeConsumers
<1>8. ASSUME NEW p \in Producers, Push(p)
      PROVE  Covered'
  BY <1>1, <1>2, <1>3, <1>8 DEF Push
<1>9. QED  BY <1>4, <1>5, <1>6, <1>7, <1>8 DEF Next, CloseRest

(* While a consumer sleeps on not_empty_, an awake consumer stands for      *)
(* every queued element: the single notify_one of push never loses a        *)
(* wake-up, with any number of producers and consumers.                     *)
THEOREM ConsumersNotStranded == Spec => []NoStrandedConsumer
<1>1. Init => Covered
  BY DEF Init, Covered
<1>2. Typing /\ Covered /\ [Next]_vars => Covered'
  BY CoveredStep
<1>3. Typing /\ Covered => NoStrandedConsumer
  BY AwakeFinite DEF Covered, NoStrandedConsumer
<1>4. QED  BY <1>1, <1>2, <1>3, TypingInvariant, PTL DEF Spec

-----------------------------------------------------------------------------
(* std::nullopt is final.  It takes a closed, empty queue, and close() is   *)
(* never undone; a blocking push looks at closed_ after its wait.           *)

FinalInv == told # {} => closed /\ (policy = "BlockWhenFull" => items = <<>>)

\* No step adds to a queue that has told a consumer nullopt.
LEMMA FinalStep == Typing /\ FinalInv /\ [Next]_vars => FinalInv'
<1> SUFFICES ASSUME Typing, FinalInv, [Next]_vars
             PROVE  FinalInv'
  OBVIOUS
<1> USE DEF FinalInv, closed
<1>1. ASSUME NEW p \in Producers, Push(p)
      PROVE  FinalInv'
  <2>1. CASE PushDropOldest(p)
    BY <2>1 DEF PushDropOldest, Accept
  <2>2. CASE PushBlocking(p)
    BY <2>2 DEF PushBlocking, Accept
  <2>3. CASE PushWaits(p) \/ PushRefused(p)
    BY <2>3 DEF PushWaits, PushRefused
  <2>4. QED  BY <1>1, <2>1, <2>2, <2>3 DEF Push
<1>2. ASSUME NEW c \in Consumers, Consume(c)
      PROVE  FinalInv'
  <2>1. PICK op \in ConsumerOps :
           Pop(c) \/ PopLatest(c) \/ PopWaits(c, op) \/ PopNullopt(c, op)
    BY <1>2 DEF Consume
  <2>2. CASE Pop(c)
    BY <2>2 DEF Pop, Take
  <2>3. CASE PopLatest(c)
    <3>1. items # <<>> /\ UNCHANGED <<policy, closing, told>>
      BY <2>3 DEF PopLatest, Take
    <3>2. items' = <<>>
      <4>1. items \in Seq(Nat) /\ items' = SubSeq(items, Len(items) + 1, Len(items))
        BY <2>3 DEF PopLatest, Take, Typing, TypeOK
      <4>2. QED  BY <4>1
    <3>3. QED  BY <3>1, <3>2
  <2>4. CASE PopWaits(c, op)
    BY <2>4 DEF PopWaits
  <2>5. CASE PopNullopt(c, op)
    BY <2>5 DEF PopNullopt
  <2>6. QED  BY <2>1, <2>2, <2>3, <2>4, <2>5
<1>3. CASE CloseFlag \/ CloseRest
  BY <1>3 DEF CloseFlag, CloseRest, CloseNotifyNotEmpty, CloseNotifyNotFull
<1>4. CASE (\E t \in Threads : SpuriousWake(t)) \/ UNCHANGED vars
  BY <1>4 DEF SpuriousWake, vars
<1>5. QED  BY <1>1, <1>2, <1>3, <1>4 DEF Next

(* Once a consumer of a kBlockWhenFull queue has seen std::nullopt, nothing *)
(* is ever queued again that nobody would come for.                         *)
THEOREM NothingAfterNullopt == Spec => []NulloptIsFinal
<1>1. Init => FinalInv
  BY DEF Init, FinalInv
<1>2. FinalInv => NulloptIsFinal
  BY DEF FinalInv, NulloptIsFinal
<1>3. QED  BY <1>1, <1>2, FinalStep, TypingInvariant, PTL DEF Spec
-----------------------------------------------------------------------------
(* Nobody sleeps through close().  Its two notify_all come after closed_    *)
(* was set under the mutex, and nobody blocks on a closed queue.            *)

\* Whom each step of close() has woken, and nobody has blocked since.
NobodyLeftBlocked ==
    /\ closing \in {"notified", "returned"} => notEmpty = {}
    /\ closing = "returned" => notFull = {}

\* Every step keeps those awake whom close() woke.
LEMMA AwokenStep == NobodyLeftBlocked /\ [Next]_vars => NobodyLeftBlocked'
<1> SUFFICES ASSUME NobodyLeftBlocked, [Next]_vars
             PROVE  NobodyLeftBlocked'
  OBVIOUS
<1> USE DEF NobodyLeftBlocked, closed
<1>1. ASSUME NEW W, W = {}
      PROVE  NotifyOne(W) = {{}}
  BY <1>1 DEF NotifyOne
<1>2. ASSUME NEW p \in Producers, Push(p)
      PROVE  NobodyLeftBlocked'
  BY <1>1, <1>2 DEF Push, PushDropOldest, PushBlocking, PushWaits, PushRefused, Accept
<1>3. ASSUME NEW c \in Consumers, Consume(c)
      PROVE  NobodyLeftBlocked'
  BY <1>1, <1>3 DEF Consume, Pop, PopLatest, PopWaits, PopNullopt, Take
<1>4. CASE CloseFlag \/ CloseRest
  BY <1>4 DEF CloseFlag, CloseRest, CloseNotifyNotEmpty, CloseNotifyNotFull
<1>5. CASE (\E t \in Threads : SpuriousWake(t)) \/ UNCHANGED vars
  BY <1>5 DEF SpuriousWake, vars
<1>6. QED  BY <1>2, <1>3, <1>4, <1>5 DEF Next

(* After close() returned no thread is blocked in the queue, neither one    *)
(* that was blocked before nor one that called since: what CloseReleasesAll *)
(* rests on besides fair scheduling.                                        *)
THEOREM CloseWakesEveryone == Spec => []NobodyLeftBlocked
<1>1. Init => NobodyLeftBlocked
  BY DEF Init, NobodyLeftBlocked
<1>2. QED  BY <1>1, AwokenStep, PTL DEF Spec
=============================================================================
