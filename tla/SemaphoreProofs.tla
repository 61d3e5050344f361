--------------------------- MODULE SemaphoreProofs ---------------------------
(***************************************************************************)
(* Proofs about Semaphore, for every set of clients, every initial number  *)
(* of permits and every width of usize.                                    *)
(***************************************************************************)
EXTENDS Semaphore, SumsTheorems, SequenceTheorems, TLAPS

-----------------------------------------------------------------------------
(* Serving a queue: what the loop of add_permits does, in closed form.     *)

Distinct(w) == \A i, j \in 1..Len(w) : w[i] = w[j] => i = j

\* A sequence of futures that may be served: each once, each missing permits,
\* and nobody but the first with some already.
Queue(w) ==
    /\ w \in Seq(Clients)
    /\ Distinct(w)
    /\ \A i \in 1..Len(w) :
         /\ state[w[i]] = "waiting"
         /\ assigned[w[i]] < wants[w[i]]
         /\ i > 1 => assigned[w[i]] = 0

\* What the first futures of a queue miss is the sum of what each misses.
LEMMA NeedStep ==
    ASSUME TypeOK, NEW w, Queue(w), NEW k \in 0..Len(w)
    PROVE  /\ Need(w, 0) = 0
           /\ Need(w, k) \in Nat
           /\ k < Len(w) => /\ Missing[w[k+1]] \in Nat \ {0}
                            /\ Need(w, k + 1) = Need(w, k) + Missing[w[k+1]]
<1> USE SemaphoreAssumption
<1>1. Len(w) \in Nat /\ \A i \in 1..Len(w) : w[i] \in Clients
  BY DEF Queue
<1>2. \A i \in 1..Len(w) : Missing[w[i]] \in Nat \ {0}
  <2> SUFFICES ASSUME NEW i \in 1..Len(w)
               PROVE  Missing[w[i]] \in Nat \ {0}
    OBVIOUS
  <2>1. wants[w[i]] \in 0..UsizeMax /\ assigned[w[i]] \in 0..UsizeMax
    BY <1>1 DEF TypeOK
  <2>2. assigned[w[i]] < wants[w[i]]
    BY DEF Queue
  <2>3. Missing[w[i]] = wants[w[i]] - assigned[w[i]]
    BY <1>1 DEF Missing
  <2>4. QED
    BY <2>1, <2>2, <2>3
<1>3. /\ FirstOf(w, k) \in SUBSET Clients
      /\ IsFiniteSet(FirstOf(w, k))
      /\ \A c \in FirstOf(w, k) : Missing[c] \in Nat
  <2>1. FirstOf(w, k) \in SUBSET Clients
    BY <1>1 DEF FirstOf
  <2>2. IsFiniteSet(FirstOf(w, k))
    BY <2>1, FS_Subset
  <2>3. QED
    BY <1>2, <2>1, <2>2 DEF FirstOf
<1>4. Need(w, 0) = 0
  <2>1. FirstOf(w, 0) = {}
    BY DEF FirstOf
  <2>2. QED
    BY <2>1, TotalEmpty DEF Need
<1>5. Need(w, k) \in Nat
  BY <1>3, TotalType DEF Need
<1>6. ASSUME k < Len(w)
      PROVE  Need(w, k + 1) = Need(w, k) + Missing[w[k+1]]
  <2>1. FirstOf(w, k + 1) = FirstOf(w, k) \cup {w[k+1]}
    BY <1>1, <1>6 DEF FirstOf
  <2>2. w[k+1] \notin FirstOf(w, k)
    BY <1>1, <1>6 DEF FirstOf, Queue, Distinct
  <2>3. \A c \in FirstOf(w, k) \cup {w[k+1]} : Missing[c] \in Nat
    BY <1>2, <1>3, <1>6
  <2>4. Total(FirstOf(w, k) \cup {w[k+1]}, Missing)
          = Total(FirstOf(w, k), Missing) + Missing[w[k+1]]
    BY <1>3, <2>2, <2>3, TotalAdd
  <2>5. QED
    BY <2>1, <2>4 DEF Need
<1>7. QED
  BY <1>1, <1>2, <1>4, <1>5, <1>6

\* There is a longest prefix that n permits cover, so Served is well defined.
LEMMA ServedType ==
    ASSUME TypeOK, NEW w, Queue(w), NEW n \in Nat
    PROVE  /\ Served(w, n) \in 0..Len(w)
           /\ Need(w, Served(w, n)) <= n
           /\ Served(w, n) < Len(w) => n < Need(w, Served(w, n) + 1)
<1>1. Len(w) \in Nat
  BY DEF Queue
<1> DEFINE Fits(k) == Need(w, k) <= n /\ (k < Len(w) => n < Need(w, k + 1))
           TooFar == {k \in 0..Len(w) : n < Need(w, k)}
<1>2. \E k \in 0..Len(w) : Fits(k)
  <2>1. CASE TooFar = {}
    <3>1. Need(w, Len(w)) \in Nat /\ ~(n < Need(w, Len(w)))
      BY <1>1, <2>1, NeedStep
    <3>2. QED
      BY <1>1, <3>1
  <2>2. CASE TooFar # {}
    <3>1. TooFar \in SUBSET Nat
      BY <1>1
    <3>2. PICK m \in TooFar : \A k \in TooFar : m <= k
      BY <2>2, <3>1, LeastElement
    <3>3. m # 0
      BY <1>1, <3>2, NeedStep
    <3>4. m - 1 \in 0..Len(w) /\ m - 1 \notin TooFar
      BY <1>1, <3>2, <3>3
    <3>5. Need(w, m - 1) \in Nat
      BY <3>4, NeedStep
    <3>6. Fits(m - 1)
      BY <1>1, <3>2, <3>4, <3>5
    <3>7. QED
      BY <3>4, <3>6
  <2>3. QED
    BY <2>1, <2>2
<1>3. QED
  BY <1>2 DEF Served

\* What is left of n after the longest prefix: less than the next waiter misses.
LEMMA LeftType ==
    ASSUME TypeOK, NEW w, Queue(w), NEW n \in Nat
    PROVE  /\ Left(w, n) \in 0..n
           /\ n = Need(w, Served(w, n)) + Left(w, n)
           /\ Served(w, n) < Len(w) =>
                 /\ w[Served(w, n) + 1] \in Clients
                 /\ Left(w, n) < Missing[w[Served(w, n) + 1]]
<1>1. Len(w) \in Nat /\ \A i \in 1..Len(w) : w[i] \in Clients
  BY DEF Queue
<1>2. Served(w, n) \in 0..Len(w) /\ Need(w, Served(w, n)) <= n
  BY ServedType
<1>3. Need(w, Served(w, n)) \in Nat
  BY <1>2, NeedStep
<1>4. Left(w, n) \in 0..n /\ n = Need(w, Served(w, n)) + Left(w, n)
  BY <1>2, <1>3 DEF Left
<1>5. ASSUME Served(w, n) < Len(w)
      PROVE  /\ w[Served(w, n) + 1] \in Clients
             /\ Left(w, n) < Missing[w[Served(w, n) + 1]]
  <2>1. w[Served(w, n) + 1] \in Clients
    BY <1>1, <1>2, <1>5
  <2>2. /\ Missing[w[Served(w, n) + 1]] \in Nat
        /\ Need(w, Served(w, n) + 1)
             = Need(w, Served(w, n)) + Missing[w[Served(w, n) + 1]]
    BY <1>2, <1>5, NeedStep
  <2>3. n < Need(w, Served(w, n) + 1)
    BY <1>5, ServedType
  <2>4. QED
    BY <1>3, <2>1, <2>2, <2>3 DEF Left
<1>6. QED
  BY <1>4, <1>5

\* The queue that remains is the rest of the old one.
LEMMA WaitersAfterType ==
    ASSUME TypeOK, NEW w, Queue(w), NEW n \in Nat
    PROVE  /\ WaitersAfter(w, n) \in Seq(Clients)
           /\ Len(WaitersAfter(w, n)) = Len(w) - Served(w, n)
           /\ \A i \in 1..Len(WaitersAfter(w, n)) :
                /\ Served(w, n) + i \in 1..Len(w)
                /\ WaitersAfter(w, n)[i] = w[Served(w, n) + i]
           /\ Distinct(WaitersAfter(w, n))
<1> DEFINE K == Served(w, n)
           W == WaitersAfter(w, n)
<1>1. Len(w) \in Nat /\ \A i \in 1..Len(w) : w[i] \in Clients
  BY DEF Queue
<1>2. K \in 0..Len(w)
  BY ServedType
<1> HIDE DEF K
<1>3. \A i \in (K + 1)..Len(w) : w[i] \in Clients
  BY <1>1, <1>2
<1>4. K + 1 \in Int /\ Len(w) \in Int
  BY <1>1, <1>2
<1>5. /\ SubSeq(w, K + 1, Len(w)) \in Seq(Clients)
      /\ Len(SubSeq(w, K + 1, Len(w)))
           = IF K + 1 <= Len(w) THEN Len(w) - (K + 1) + 1 ELSE 0
      /\ \A i \in 1..(Len(w) - (K + 1) + 1) :
            SubSeq(w, K + 1, Len(w))[i] = w[(K + 1) + i - 1]
  BY <1>3, <1>4, SubSeqProperties
<1>6. W = SubSeq(w, K + 1, Len(w))
  BY DEF WaitersAfter, K
<1> HIDE DEF W
<1>7. W \in Seq(Clients) /\ Len(W) = Len(w) - K
  BY <1>1, <1>2, <1>5, <1>6
<1>8. ASSUME NEW i \in 1..Len(W)
      PROVE  K + i \in 1..Len(w) /\ W[i] = w[K + i]
  <2>1. i \in 1..(Len(w) - (K + 1) + 1) /\ (K + 1) + i - 1 = K + i
    BY <1>1, <1>2, <1>7
  <2>2. QED
    BY <1>1, <1>2, <1>5, <1>6, <1>7, <2>1
<1>9. ASSUME NEW i \in 1..Len(W), NEW j \in 1..Len(W), W[i] = W[j]
      PROVE  i = j
  <2>1. w[K + i] = w[K + j]
    BY <1>8, <1>9
  <2>2. K + i = K + j
    BY <1>8, <2>1 DEF Queue, Distinct
  <2>3. QED
    BY <1>1, <1>2, <2>2
<1>10. QED
  BY <1>7, <1>8, <1>9 DEF W, K, Distinct

LEMMA NobodyAfter ==
    ASSUME TypeOK, NEW n \in Nat, Queue(<<>>)
    PROVE  WaitersAfter(<<>>, n) = <<>>
<1>1. Len(WaitersAfter(<<>>, n)) = Len(<<>>) - Served(<<>>, n)
  BY WaitersAfterType
<1>2. Served(<<>>, n) \in 0..Len(<<>>) /\ Len(<<>>) = 0
  BY ServedType
<1>3. WaitersAfter(<<>>, n) \in Seq(Clients)
  BY WaitersAfterType
<1>4. QED
  BY <1>1, <1>2, <1>3, EmptySeq

\* Who is served, who comes next, and who is not concerned.
LEMMA ServedOrNot ==
    ASSUME TypeOK, NEW w, Queue(w), NEW n \in Nat
    PROVE  /\ \A i \in 1..Len(w) :
                /\ w[i] \in Completed(w, n) <=> i <= Served(w, n)
                /\ IsShort(w, n, w[i]) <=> Left(w, n) > 0 /\ i = Served(w, n) + 1
           /\ \A c : (\A i \in 1..Len(w) : w[i] # c) =>
                c \notin Completed(w, n) /\ ~IsShort(w, n, c)
<1>1. Len(w) \in Nat /\ Distinct(w)
  BY DEF Queue
<1>2. Served(w, n) \in 0..Len(w)
  BY ServedType
<1>3. ASSUME NEW i \in 1..Len(w)
      PROVE  /\ w[i] \in Completed(w, n) <=> i <= Served(w, n)
             /\ IsShort(w, n, w[i]) <=> Left(w, n) > 0 /\ i = Served(w, n) + 1
  <2>1. w[i] \in Completed(w, n) <=> i <= Served(w, n)
    BY <1>1, <1>2 DEF Completed, FirstOf, Distinct
  <2>2. IsShort(w, n, w[i]) <=> Left(w, n) > 0 /\ i = Served(w, n) + 1
    BY <1>1, <1>2 DEF IsShort, Distinct
  <2>3. QED
    BY <2>1, <2>2
<1>4. ASSUME NEW c, \A i \in 1..Len(w) : w[i] # c
      PROVE  c \notin Completed(w, n) /\ ~IsShort(w, n, c)
  BY <1>1, <1>2, <1>4 DEF Completed, FirstOf, IsShort
<1>5. QED
  BY <1>3, <1>4

\* What add_permits does to the futures.
LEMMA AfterType ==
    ASSUME TypeOK, NEW w, Queue(w), NEW n \in Nat
    PROVE  /\ AssignedAfter(w, n) \in [Clients -> 0..UsizeMax]
           /\ StateAfter(w, n) \in [Clients -> {"absent", "inert", "waiting", "woken"}]
           /\ PermitsAfter(w, n) \in 0..UsizeMax
           /\ Wake(Completed(w, n)) \in [Clients -> BOOLEAN]
<1> USE SemaphoreAssumption
<1>1. \A i \in 1..Len(w) : w[i] \in Clients
  BY DEF Queue
<1>2. Left(w, n) \in Nat
  BY LeftType
<1>3. ASSUME NEW c \in Clients
      PROVE  AssignedAfter(w, n)[c] \in 0..UsizeMax
  <2>1. wants[c] \in 0..UsizeMax /\ assigned[c] \in 0..UsizeMax
    BY DEF TypeOK
  <2>2. CASE c \in Completed(w, n)
    BY <2>1, <2>2 DEF AssignedAfter
  <2>3. CASE c \notin Completed(w, n) /\ IsShort(w, n, c)
    <3>1. c = w[Served(w, n) + 1] /\ Served(w, n) < Len(w)
      BY <2>3 DEF IsShort
    <3>2. Left(w, n) < wants[c] - assigned[c]
      BY <3>1, LeftType DEF Missing
    <3>3. AssignedAfter(w, n)[c] = (wants[c] - assigned[c]) - Left(w, n)
      BY <2>3 DEF AssignedAfter
    <3>4. QED
      BY <1>2, <2>1, <3>2, <3>3
  <2>4. CASE c \notin Completed(w, n) /\ ~IsShort(w, n, c)
    BY <2>1, <2>4 DEF AssignedAfter
  <2>5. QED
    BY <2>2, <2>3, <2>4
<1>4. AssignedAfter(w, n) \in [Clients -> 0..UsizeMax]
  BY <1>3 DEF AssignedAfter
<1>5. StateAfter(w, n) \in [Clients -> {"absent", "inert", "waiting", "woken"}]
  BY DEF StateAfter, TypeOK
<1>6. PermitsAfter(w, n) \in 0..UsizeMax
  BY <1>2 DEF PermitsAfter, SaturatingAdd, TypeOK
<1>7. Wake(Completed(w, n)) \in [Clients -> BOOLEAN]
  BY DEF Wake, TypeOK
<1>8. QED
  BY <1>4, <1>5, <1>6, <1>7

LEMMA AfterValues ==
    ASSUME TypeOK, NEW w, Queue(w), NEW n \in Nat
    PROVE  /\ \A c \in Clients : (\A i \in 1..Len(w) : w[i] # c) =>
                /\ AssignedAfter(w, n)[c] = assigned[c]
                /\ StateAfter(w, n)[c] = state[c]
           /\ \A i \in 1..Len(w) : i <= Served(w, n) =>
                /\ AssignedAfter(w, n)[w[i]] = wants[w[i]]
                /\ StateAfter(w, n)[w[i]] = "woken"
           /\ \A i \in 1..Len(w) : i > Served(w, n) =>
                /\ AssignedAfter(w, n)[w[i]] < wants[w[i]]
                /\ StateAfter(w, n)[w[i]] = "waiting"
           /\ \A i \in 1..Len(w) : i > Served(w, n) + 1 =>
                AssignedAfter(w, n)[w[i]] = 0
<1> USE SemaphoreAssumption
<1>1. Len(w) \in Nat /\ \A i \in 1..Len(w) : w[i] \in Clients
  BY DEF Queue
<1>2. Left(w, n) \in Nat /\ Served(w, n) \in 0..Len(w)
  BY LeftType, ServedType
<1>3. ASSUME NEW c \in Clients, \A i \in 1..Len(w) : w[i] # c
      PROVE  /\ AssignedAfter(w, n)[c] = assigned[c]
             /\ StateAfter(w, n)[c] = state[c]
  BY <1>3, ServedOrNot DEF AssignedAfter, StateAfter
<1>4. ASSUME NEW i \in 1..Len(w), i <= Served(w, n)
      PROVE  /\ AssignedAfter(w, n)[w[i]] = wants[w[i]]
             /\ StateAfter(w, n)[w[i]] = "woken"
  BY <1>1, <1>4, ServedOrNot DEF AssignedAfter, StateAfter
<1>5. ASSUME NEW i \in 1..Len(w), i > Served(w, n)
      PROVE  /\ AssignedAfter(w, n)[w[i]] < wants[w[i]]
             /\ StateAfter(w, n)[w[i]] = "waiting"
             /\ i > Served(w, n) + 1 => AssignedAfter(w, n)[w[i]] = 0
  <2>1. w[i] \in Clients /\ w[i] \notin Completed(w, n)
    BY <1>1, <1>2, <1>5, ServedOrNot
  <2>2. wants[w[i]] \in 0..UsizeMax /\ assigned[w[i]] \in 0..UsizeMax
    BY <2>1 DEF TypeOK
  <2>3. /\ state[w[i]] = "waiting"
        /\ assigned[w[i]] < wants[w[i]]
        /\ i > 1 => assigned[w[i]] = 0
    BY DEF Queue
  <2>4. StateAfter(w, n)[w[i]] = "waiting"
    BY <2>1, <2>3 DEF StateAfter
  <2>5. CASE IsShort(w, n, w[i])
    <3>1. Left(w, n) > 0 /\ i = Served(w, n) + 1
      BY <2>5, ServedOrNot
    <3>2. AssignedAfter(w, n)[w[i]] = (wants[w[i]] - assigned[w[i]]) - Left(w, n)
      BY <2>1, <2>5 DEF AssignedAfter
    <3>3. \A a, b, l \in Nat : l > 0 => (a - b) - l < a
      OBVIOUS
    <3>4. (wants[w[i]] - assigned[w[i]]) - Left(w, n) < wants[w[i]]
      <4>1. /\ wants[w[i]] \in Nat /\ assigned[w[i]] \in Nat
            /\ Left(w, n) \in Nat /\ Left(w, n) > 0
        BY <1>2, <2>2, <3>1
      <4>2. QED
        BY <3>3, <4>1
    <3>5. ~(i > Served(w, n) + 1)
      BY <1>2, <3>1
    <3>6. QED
      BY <2>4, <3>2, <3>4, <3>5
  <2>6. CASE ~IsShort(w, n, w[i])
    <3>1. AssignedAfter(w, n)[w[i]] = assigned[w[i]]
      BY <2>1, <2>6 DEF AssignedAfter
    <3>2. QED
      BY <1>2, <2>3, <2>4, <3>1
  <2>7. QED
    BY <2>5, <2>6
<1>6. QED
  BY <1>1, <1>2, <1>3, <1>4, <1>5

-----------------------------------------------------------------------------
(* The inductive invariant.                                                *)

\* The permits of a client are in its future or in its Permit, never in both,
\* and a future that was not polled yet, or still waits, has no Permit.
Accounts ==
    \A c \in Clients :
        /\ assigned[c] <= wants[c]
        /\ state[c] \in {"absent", "inert"} => assigned[c] = 0
        /\ state[c] \in {"inert", "waiting"} => held[c] = 0
        /\ assigned[c] > 0 => held[c] = 0

\* A closed semaphore has no waiters.
NoneWaitsClosed == closed => waiters = <<>>

IInv ==
    /\ TypeOK
    /\ NoneWaitsClosed
    /\ QueueExact
    /\ OnlyFrontPartial
    /\ NoIdlePermits
    /\ Accounts

\* The waiters are a queue that may be served ...
LEMMA WaitersQueue ==
    ASSUME IInv
    PROVE  Queue(waiters)
<1>1. waiters \in Seq(Clients) /\ Len(waiters) \in Nat
  BY DEF IInv, TypeOK
<1>2. \A i \in 1..Len(waiters) : waiters[i] \in Clients
  BY <1>1
<1>3. QED
  BY <1>1, <1>2 DEF IInv, QueueExact, OnlyFrontPartial, Queue, Distinct

\* A future that leaves the queue: those behind it move up by one place.
LEMMA LeavesPlace ==
    ASSUME IInv, NEW c \in Clients, state[c] = "waiting"
    PROVE  \E p \in 1..Len(waiters) :
             /\ waiters[p] = c
             /\ WaitersWithout(c) \in Seq(Clients)
             /\ Len(WaitersWithout(c)) = Len(waiters) - 1
             /\ \A i \in 1..Len(WaitersWithout(c)) :
                  WaitersWithout(c)[i] = waiters[IF i < p THEN i ELSE i + 1]
<1>0. /\ waiters \in Seq(Clients) /\ Len(waiters) \in Nat
      /\ \A i \in 1..Len(waiters) : waiters[i] \in Clients
      /\ \E i \in 1..Len(waiters) : waiters[i] = c
  <2>1. waiters \in Seq(Clients)
    BY DEF IInv, TypeOK
  <2>2. \E i \in 1..Len(waiters) : waiters[i] = c
    BY DEF IInv, QueueExact
  <2>3. QED
    BY <2>1, <2>2
<1> DEFINE p == CHOOSE i \in 1..Len(waiters) : waiters[i] = c
           w == WaitersWithout(c)
<1>1. p \in 1..Len(waiters) /\ waiters[p] = c
  BY <1>0
<1>2. w = SubSeq(waiters, 1, p - 1) \o SubSeq(waiters, p + 1, Len(waiters))
  BY DEF WaitersWithout, RemoveAt
<1> HIDE DEF p, w
<1>3. /\ SubSeq(waiters, 1, p - 1) \in Seq(Clients)
      /\ Len(SubSeq(waiters, 1, p - 1)) = p - 1
      /\ \A i \in 1..(p - 1) : SubSeq(waiters, 1, p - 1)[i] = waiters[i]
  BY <1>0, <1>1
<1>4. /\ SubSeq(waiters, p + 1, Len(waiters)) \in Seq(Clients)
      /\ Len(SubSeq(waiters, p + 1, Len(waiters))) = Len(waiters) - p
      /\ \A i \in 1..(Len(waiters) - p) :
           SubSeq(waiters, p + 1, Len(waiters))[i] = waiters[p + i]
  BY <1>0, <1>1
<1>5. /\ w \in Seq(Clients)
      /\ Len(w) = Len(waiters) - 1
      /\ \A i \in 1..Len(w) : w[i] = waiters[IF i < p THEN i ELSE i + 1]
  <2> DEFINE a == SubSeq(waiters, 1, p - 1)
             b == SubSeq(waiters, p + 1, Len(waiters))
  <2> HIDE DEF a, b
  <2>1. /\ a \in Seq(Clients) /\ Len(a) = p - 1
        /\ b \in Seq(Clients) /\ Len(b) = Len(waiters) - p
        /\ w = a \o b
    BY <1>2, <1>3, <1>4 DEF a, b
  <2>2. w \in Seq(Clients) /\ Len(w) = Len(waiters) - 1
    <3>1. a \o b \in Seq(Clients) /\ Len(a \o b) = Len(a) + Len(b)
      BY <2>1, ConcatProperties
    <3>2. Len(a) + Len(b) = Len(waiters) - 1
      BY <1>0, <1>1, <2>1
    <3>3. QED
      BY <2>1, <3>1, <3>2
  <2>3. ASSUME NEW i \in 1..Len(w)
        PROVE  w[i] = waiters[IF i < p THEN i ELSE i + 1]
    <3>1. CASE i < p
      <4>1. w[i] = a[i] /\ i \in 1..(p - 1)
        BY <1>1, <2>1, <2>2, <3>1
      <4>2. QED
        BY <1>3, <3>1, <4>1 DEF a
    <3>2. CASE i >= p
      <4>1. w[i] = b[i - (p - 1)] /\ i - (p - 1) \in 1..(Len(waiters) - p)
        BY <1>0, <1>1, <2>1, <2>2, <3>2
      <4>2. b[i - (p - 1)] = waiters[p + (i - (p - 1))]
        BY <1>4, <4>1 DEF b
      <4>3. p + (i - (p - 1)) = i + 1
        BY <1>1
      <4>4. QED
        BY <1>1, <3>2, <4>1, <4>2, <4>3
    <3>3. QED
      BY <1>1, <3>1, <3>2
  <2>4. QED
    BY <2>2, <2>3
<1> QED
  BY <1>1, <1>5 DEF w

\* ... and so is what remains when a future leaves.
LEMMA WaitersWithoutQueue ==
    ASSUME IInv, NEW c \in Clients
    PROVE  /\ Queue(WaitersWithout(c))
           /\ \A d \in Clients :
                (\E i \in 1..Len(WaitersWithout(c)) : WaitersWithout(c)[i] = d)
                  <=> state[d] = "waiting" /\ d # c
           /\ WaitersWithout(c) # <<>> => waiters # <<>>
<1>1. /\ waiters \in Seq(Clients) /\ Len(waiters) \in Nat
      /\ Queue(waiters)
      /\ \A i \in 1..Len(waiters) : waiters[i] \in Clients
      /\ \A d \in Clients :
           state[d] = "waiting" <=> \E i \in 1..Len(waiters) : waiters[i] = d
  BY WaitersQueue DEF IInv, TypeOK, QueueExact
<1>2. CASE state[c] # "waiting"
  BY <1>1, <1>2 DEF WaitersWithout
<1>3. CASE state[c] = "waiting"
  <2> DEFINE w == WaitersWithout(c)
  <2>1. PICK p \in 1..Len(waiters) :
          /\ waiters[p] = c
          /\ w \in Seq(Clients)
          /\ Len(w) = Len(waiters) - 1
          /\ \A i \in 1..Len(w) : w[i] = waiters[IF i < p THEN i ELSE i + 1]
    BY <1>3, LeavesPlace
  <2> HIDE DEF w
  <2>2. Distinct(w)
    <3> SUFFICES ASSUME NEW i \in 1..Len(w), NEW j \in 1..Len(w), w[i] = w[j]
                 PROVE  i = j
      BY DEF Distinct
    <3> DEFINE at(k) == IF k < p THEN k ELSE k + 1
    <3>1. ASSUME NEW k \in 1..Len(w)
          PROVE  at(k) \in 1..Len(waiters) /\ w[k] = waiters[at(k)]
      BY <1>1, <2>1
    <3>2. waiters[at(i)] = waiters[at(j)]
      BY <3>1
    <3>3. at(i) = at(j)
      <4> HIDE DEF at
      <4>1. QED
        BY <1>1, <3>1, <3>2 DEF Queue, Distinct
    <3>4. QED
      BY <2>1, <3>3
  <2>3. ASSUME NEW i \in 1..Len(w)
        PROVE  /\ state[w[i]] = "waiting"
               /\ assigned[w[i]] < wants[w[i]]
               /\ i > 1 => assigned[w[i]] = 0
    <3> DEFINE j == IF i < p THEN i ELSE i + 1
    <3>1. j \in 1..Len(waiters) /\ w[i] = waiters[j] /\ (i > 1 => j > 1)
      <4>1. /\ Len(waiters) \in Nat /\ Len(w) = Len(waiters) - 1
            /\ p \in 1..Len(waiters)
        BY <1>1, <2>1
      <4>2. j \in 1..Len(waiters) /\ (i > 1 => j > 1)
        BY <4>1
      <4> QED
        BY <2>1, <4>2
    <3> HIDE DEF j
    <3>2. QED
      BY <1>1, <3>1 DEF Queue
  <2>4. ASSUME NEW d \in Clients
        PROVE  (\E i \in 1..Len(w) : w[i] = d) <=> state[d] = "waiting" /\ d # c
    <3>1. ASSUME NEW i \in 1..Len(w), w[i] = d
          PROVE  state[d] = "waiting" /\ d # c
      <4>1. (IF i < p THEN i ELSE i + 1) \in 1..Len(waiters) \ {p}
        BY <1>1, <2>1
      <4>2. d # c
        BY <1>1, <2>1, <3>1, <4>1 DEF Queue, Distinct
      <4>3. QED
        BY <2>3, <3>1, <4>2
    <3>2. ASSUME state[d] = "waiting", d # c
          PROVE  \E i \in 1..Len(w) : w[i] = d
      <4>1. PICK j \in 1..Len(waiters) : waiters[j] = d
        BY <1>1, <3>2
      <4>2. j # p
        BY <2>1, <3>2, <4>1
      <4>3. CASE j < p
        <5>1. j \in 1..Len(waiters) /\ p \in 1..Len(waiters) /\ Len(w) = Len(waiters) - 1
          BY <2>1
        <5>2. j \in 1..Len(w)
          BY <1>1, <4>3, <5>1
        <5>3. w[j] = waiters[j]
          BY <2>1, <4>3, <5>2
        <5>4. QED
          BY <4>1, <5>2, <5>3
      <4>4. CASE j > p
        <5>1. j \in 1..Len(waiters) /\ p \in 1..Len(waiters) /\ Len(w) = Len(waiters) - 1
          BY <2>1
        <5>2. j - 1 \in 1..Len(w) /\ ~(j - 1 < p) /\ (j - 1) + 1 = j
          BY <1>1, <4>4, <5>1
        <5>3. w[j - 1] = waiters[j]
          BY <2>1, <5>2
        <5>4. QED
          BY <4>1, <5>2, <5>3
      <4>5. QED
        BY <2>1, <4>2, <4>3, <4>4
    <3>3. QED
      BY <3>1, <3>2
  <2>5. waiters # <<>>
    BY <2>1
  <2>6. QED
    BY <2>1, <2>2, <2>3, <2>4, <2>5 DEF w, Queue
<1>4. QED
  BY <1>2, <1>3

\* A step that serves the queue w with n permits; X are the futures that left.
ServeStep(w, n, X) ==
    /\ Queue(w)
    /\ n \in Nat
    /\ X \in SUBSET Clients
    /\ w # <<>> => waiters # <<>>
    /\ \A d \in Clients :
         (\E i \in 1..Len(w) : w[i] = d) <=> state[d] = "waiting" /\ d \notin X
    /\ waiters' = WaitersAfter(w, n)
    /\ permits' = PermitsAfter(w, n)
    /\ \A d \in Clients \ X : /\ state'[d] = StateAfter(w, n)[d]
                             /\ assigned'[d] = AssignedAfter(w, n)[d]
                             /\ wants'[d] = wants[d]
    /\ \A d \in X : state'[d] = "absent" /\ assigned'[d] = 0 /\ wants'[d] = 0
    /\ \A d \in Clients : held'[d] \in {held[d], 0}

LEMMA ServePreserves ==
    ASSUME IInv, NEW w, NEW n, NEW X, ServeStep(w, n, X)
    PROVE  /\ QueueExact' /\ OnlyFrontPartial' /\ NoIdlePermits' /\ Accounts'
           /\ waiters = <<>> => waiters' = <<>>
<1> USE DEF IInv, ServeStep
<1> DEFINE K == Served(w, n)
<1>1. /\ Len(w) \in Nat /\ K \in 0..Len(w)
      /\ \A i \in 1..Len(w) : w[i] \in Clients /\ w[i] \notin X
  <2>1. Len(w) \in Nat /\ \A i \in 1..Len(w) : w[i] \in Clients
    BY DEF Queue
  <2>2. QED
    BY <2>1, ServedType
<1>2. /\ Len(waiters') = Len(w) - K
      /\ \A i \in 1..Len(waiters') : K + i \in 1..Len(w) /\ waiters'[i] = w[K + i]
      /\ Distinct(waiters')
  BY WaitersAfterType
<1>3. \A d \in Clients : (\A i \in 1..Len(w) : w[i] # d) =>
        AssignedAfter(w, n)[d] = assigned[d] /\ StateAfter(w, n)[d] = state[d]
  BY AfterValues
<1>4. \A i \in 1..Len(w) : i <= K =>
        AssignedAfter(w, n)[w[i]] = wants[w[i]] /\ StateAfter(w, n)[w[i]] = "woken"
  BY AfterValues
<1>5. \A i \in 1..Len(w) : i > K =>
        /\ AssignedAfter(w, n)[w[i]] < wants[w[i]]
        /\ StateAfter(w, n)[w[i]] = "waiting"
        /\ i > K + 1 => AssignedAfter(w, n)[w[i]] = 0
  BY AfterValues
<1> HIDE DEF K
<1>6. QueueExact'
  <2>1. ASSUME NEW d \in Clients, state'[d] = "waiting"
        PROVE  \E i \in 1..Len(waiters') : waiters'[i] = d
    <3>1. d \notin X /\ StateAfter(w, n)[d] = "waiting"
      BY <2>1
    <3>2. PICK i \in 1..Len(w) : w[i] = d
      BY <1>3, <3>1
    <3>3. i > K
      BY <1>1, <1>4, <3>1, <3>2
    <3>4. i - K \in 1..Len(waiters') /\ K + (i - K) = i
      BY <1>1, <1>2, <3>3
    <3>5. waiters'[i - K] = d
      BY <1>2, <3>2, <3>4
    <3>6. QED
      BY <3>4, <3>5
  <2>2. ASSUME NEW i \in 1..Len(waiters')
        PROVE  state'[waiters'[i]] = "waiting"
    <3>1. K + i \in 1..Len(w) /\ waiters'[i] = w[K + i] /\ K + i > K
      BY <1>1, <1>2
    <3>2. QED
      BY <1>1, <1>5, <3>1
  <2>3. QED
    BY <1>2, <2>1, <2>2 DEF QueueExact, Distinct
<1>7. OnlyFrontPartial'
  <2> SUFFICES ASSUME NEW i \in 1..Len(waiters')
               PROVE  /\ assigned'[waiters'[i]] < wants'[waiters'[i]]
                      /\ i > 1 => assigned'[waiters'[i]] = 0
    BY DEF OnlyFrontPartial
  <2>1. /\ K + i \in 1..Len(w) /\ waiters'[i] = w[K + i]
        /\ K + i > K /\ (i > 1 => K + i > K + 1)
    BY <1>1, <1>2
  <2>2. QED
    BY <1>1, <1>5, <2>1
<1>8. NoIdlePermits'
  <2> SUFFICES ASSUME waiters' # <<>>
               PROVE  permits' = 0
    BY DEF NoIdlePermits
  <2>1. Len(waiters') # 0
    BY WaitersAfterType, EmptySeq
  <2>2. K < Len(w) /\ w # <<>>
    BY <1>1, <1>2, <2>1
  <2>3. permits' = permits
    BY <2>2 DEF PermitsAfter, K
  <2>4. QED
    BY <2>2, <2>3 DEF NoIdlePermits
<1>9. Accounts'
  <2> SUFFICES ASSUME NEW d \in Clients
               PROVE  /\ assigned'[d] <= wants'[d]
                      /\ state'[d] \in {"absent", "inert"} => assigned'[d] = 0
                      /\ state'[d] \in {"inert", "waiting"} => held'[d] = 0
                      /\ assigned'[d] > 0 => held'[d] = 0
    BY DEF Accounts
  <2>1. /\ assigned[d] <= wants[d]
        /\ state[d] \in {"absent", "inert"} => assigned[d] = 0
        /\ state[d] \in {"inert", "waiting"} => held[d] = 0
        /\ assigned[d] > 0 => held[d] = 0
        /\ held'[d] \in {held[d], 0}
        /\ wants[d] \in Nat
    BY SemaphoreAssumption DEF Accounts, TypeOK
  <2>2. CASE d \in X
    BY <2>2
  <2>3. CASE d \notin X /\ \A i \in 1..Len(w) : w[i] # d
    BY <1>3, <2>1, <2>3
  <2>4. CASE d \notin X /\ \E i \in 1..Len(w) : w[i] = d
    <3>1. held'[d] = 0
      BY <2>1, <2>4
    <3>2. PICK i \in 1..Len(w) : w[i] = d
      BY <2>4
    <3>3. AssignedAfter(w, n)[d] \in Nat
      BY AfterType, SemaphoreAssumption
    <3>4. CASE i <= K
      BY <1>4, <2>1, <2>4, <3>1, <3>2, <3>4
    <3>5. CASE i > K
      BY <1>5, <2>1, <2>4, <3>1, <3>2, <3>3, <3>5
    <3>6. QED
      BY <1>1, <3>4, <3>5
  <2>5. QED
    BY <2>2, <2>3, <2>4
<1>10. ASSUME waiters = <<>>
       PROVE  waiters' = <<>>
  <2>1. w = <<>>
    BY <1>10
  <2>2. QED
    BY <2>1, NobodyAfter
<1>11. QED
  BY <1>6, <1>7, <1>8, <1>9, <1>10

-----------------------------------------------------------------------------
(* Every call keeps the invariant.                                         *)

LEMMA InitIInv == Init => IInv
<1> SUFFICES ASSUME Init PROVE IInv
  OBVIOUS
<1> USE SemaphoreAssumption DEF Init
<1>1. waiters \in Seq(Clients) /\ Len(waiters) = 0
  BY EmptySeq
<1>2. TypeOK
  <2>1. permits \in 0..UsizeMax /\ supply \in Int /\ supply <= MaxSupply
    OBVIOUS
  <2>2. /\ wants \in [Clients -> 0..UsizeMax]
        /\ assigned \in [Clients -> 0..UsizeMax]
        /\ held \in [Clients -> 0..UsizeMax]
    OBVIOUS
  <2>3. QED
    BY <1>1, <2>1, <2>2 DEF TypeOK
<1>3. QueueExact /\ OnlyFrontPartial /\ NoIdlePermits /\ NoneWaitsClosed
  BY <1>1 DEF QueueExact, OnlyFrontPartial, NoIdlePermits, NoneWaitsClosed
<1>4. Accounts
  BY DEF Accounts
<1>5. QED
  BY <1>2, <1>3, <1>4 DEF IInv

LEMMA AddPermitsIInv ==
    ASSUME IInv, NEW n \in Amounts, AddPermits(n)
    PROVE  IInv'
<1> USE SemaphoreAssumption DEF AddPermits, IInv
<1>1. Queue(waiters) /\ n \in Nat
  BY WaitersQueue
<1>2. TypeOK'
  <2>1. /\ permits' \in 0..UsizeMax
        /\ state' \in [Clients -> {"absent", "inert", "waiting", "woken"}]
        /\ assigned' \in [Clients -> 0..UsizeMax]
        /\ notified' \in [Clients -> BOOLEAN]
    BY <1>1, AfterType
  <2>2. waiters' \in Seq(Clients)
    BY <1>1, WaitersAfterType
  <2>3. supply' \in Int /\ supply' <= MaxSupply
    BY <1>1 DEF TypeOK
  <2>4. QED
    BY <2>1, <2>2, <2>3 DEF TypeOK
<1>3. \A d \in Clients :
        (\E i \in 1..Len(waiters) : waiters[i] = d) <=> state[d] = "waiting"
  BY DEF QueueExact
<1>4. /\ QueueExact' /\ OnlyFrontPartial' /\ NoIdlePermits' /\ Accounts'
      /\ waiters = <<>> => waiters' = <<>>
  <2>1. ServeStep(waiters, n, {})
    BY <1>1, <1>3 DEF ServeStep
  <2>2. QED
    BY <2>1, ServePreserves
<1>5. QED
  BY <1>2, <1>4 DEF NoneWaitsClosed

LEMMA DropPermitIInv ==
    ASSUME IInv, NEW c \in Clients, DropPermit(c)
    PROVE  IInv'
<1> USE SemaphoreAssumption DEF DropPermit, IInv
<1> DEFINE n == held[c]
<1>1. Queue(waiters) /\ n \in Nat
  BY WaitersQueue DEF TypeOK
<1>2. TypeOK'
  <2>1. /\ permits' \in 0..UsizeMax
        /\ state' \in [Clients -> {"absent", "inert", "waiting", "woken"}]
        /\ assigned' \in [Clients -> 0..UsizeMax]
        /\ notified' \in [Clients -> BOOLEAN]
    BY <1>1, AfterType
  <2>2. waiters' \in Seq(Clients)
    BY <1>1, WaitersAfterType
  <2>3. held' \in [Clients -> 0..UsizeMax]
    BY DEF TypeOK
  <2>4. QED
    BY <2>1, <2>2, <2>3 DEF TypeOK
<1>3. \A d \in Clients :
        (\E i \in 1..Len(waiters) : waiters[i] = d) <=> state[d] = "waiting"
  BY DEF QueueExact
<1>4. \A d \in Clients : held'[d] \in {held[d], 0}
  BY DEF TypeOK
<1>5. /\ QueueExact' /\ OnlyFrontPartial' /\ NoIdlePermits' /\ Accounts'
      /\ waiters = <<>> => waiters' = <<>>
  <2>1. ServeStep(waiters, n, {})
    BY <1>1, <1>3, <1>4 DEF ServeStep
  <2>2. QED
    BY <2>1, ServePreserves
<1>6. QED
  BY <1>2, <1>5 DEF NoneWaitsClosed

LEMMA DropAcquireIInv ==
    ASSUME IInv, NEW c \in Clients, DropAcquire(c)
    PROVE  IInv'
<1> USE SemaphoreAssumption DEF IInv
<1> DEFINE w == WaitersWithout(c)
           n == assigned[c]
           X == {c}
<1>1. /\ Queue(w)
      /\ n \in Nat
      /\ w # <<>> => waiters # <<>>
      /\ \A d \in Clients :
           (\E i \in 1..Len(w) : w[i] = d) <=> state[d] = "waiting" /\ d \notin X
  <2>1. n \in Nat
    BY DEF TypeOK
  <2>2. \A d : d \in X <=> d = c
    OBVIOUS
  <2>3. IInv
    OBVIOUS
  <2> HIDE DEF IInv, n, X
  <2>4. /\ Queue(w)
        /\ \A d \in Clients :
             (\E i \in 1..Len(w) : w[i] = d) <=> state[d] = "waiting" /\ d # c
        /\ w # <<>> => waiters # <<>>
    BY <2>3, WaitersWithoutQueue
  <2>5. QED
    BY <2>1, <2>2, <2>4
<1>2. /\ permits' = PermitsAfter(w, n)
      /\ waiters' = WaitersAfter(w, n)
      /\ state' = [StateAfter(w, n) EXCEPT ![c] = "absent"]
      /\ assigned' = [AssignedAfter(w, n) EXCEPT ![c] = 0]
      /\ wants' = [wants EXCEPT ![c] = 0]
      /\ waker' = [waker EXCEPT ![c] = NoWaker]
      /\ outcome' = [outcome EXCEPT ![c] = "none"]
      /\ poller' = [poller EXCEPT ![c] = NoWaker]
      /\ notified' = [Wake(Completed(w, n)) EXCEPT ![c] = FALSE]
      /\ UNCHANGED <<closed, held, leaked, supply>>
  BY DEF DropAcquire, Unused
<1> HIDE DEF w, n
<1>3. /\ PermitsAfter(w, n) \in 0..UsizeMax
      /\ StateAfter(w, n) \in [Clients -> {"absent", "inert", "waiting", "woken"}]
      /\ AssignedAfter(w, n) \in [Clients -> 0..UsizeMax]
      /\ Wake(Completed(w, n)) \in [Clients -> BOOLEAN]
      /\ WaitersAfter(w, n) \in Seq(Clients)
  BY <1>1, AfterType, WaitersAfterType
<1>4. TypeOK'
  <2>1. /\ state' \in [Clients -> {"absent", "inert", "waiting", "woken"}]
        /\ assigned' \in [Clients -> 0..UsizeMax]
        /\ notified' \in [Clients -> BOOLEAN]
    <3>1. UsizeMax \in Nat
      BY SemaphoreAssumption
    <3> QED
      BY <1>2, <1>3, <3>1
  <2>2. /\ wants' \in [Clients -> 0..UsizeMax]
        /\ waker' \in [Clients -> Wakers \cup {NoWaker}]
        /\ outcome' \in [Clients -> {"none", "pending", "ok", "err"}]
        /\ poller' \in [Clients -> Wakers \cup {NoWaker}]
    BY <1>2, SemaphoreAssumption DEF TypeOK
  <2> QED
    BY <1>2, <1>3, <2>1, <2>2 DEF TypeOK
<1>5. \A d \in Clients \ X : /\ state'[d] = StateAfter(w, n)[d]
                            /\ assigned'[d] = AssignedAfter(w, n)[d]
                            /\ wants'[d] = wants[d]
  BY <1>2, <1>3 DEF TypeOK
<1>6. \A d \in X : state'[d] = "absent" /\ assigned'[d] = 0 /\ wants'[d] = 0
  BY <1>2, <1>3 DEF TypeOK
<1>7. X \in SUBSET Clients /\ \A d \in Clients : held'[d] \in {held[d], 0}
  BY <1>2
<1> HIDE DEF X
<1>8. /\ QueueExact' /\ OnlyFrontPartial' /\ NoIdlePermits' /\ Accounts'
      /\ waiters = <<>> => waiters' = <<>>
  <2>1. ServeStep(w, n, X)
    BY <1>1, <1>2, <1>5, <1>6, <1>7 DEF ServeStep
  <2>2. QED
    BY <2>1, ServePreserves
<1>9. QED
  BY <1>2, <1>4, <1>8 DEF NoneWaitsClosed

LEMMA CloseIInv ==
    ASSUME IInv, Close
    PROVE  IInv'
<1> USE SemaphoreAssumption DEF IInv, Close
<1>1. /\ Len(waiters) \in Nat
      /\ waiters' \in Seq(Clients) /\ Len(waiters') = 0
  BY EmptySeq DEF TypeOK
<1>2. TypeOK'
  BY <1>1 DEF TypeOK, Wake
<1>3. \A d \in Clients :
        state'[d] = IF state[d] = "waiting" THEN "woken" ELSE state[d]
  BY DEF QueueExact, FirstOf
<1>4. QueueExact'
  BY <1>1, <1>3 DEF QueueExact
<1>5. OnlyFrontPartial' /\ NoIdlePermits' /\ NoneWaitsClosed'
  BY <1>1 DEF OnlyFrontPartial, NoIdlePermits, NoneWaitsClosed
<1>6. Accounts'
  BY <1>3 DEF Accounts
<1>7. QED
  BY <1>2, <1>4, <1>5, <1>6

\* The calls that leave the queue and its futures alone.
LEMMA QuietIInv ==
    ASSUME IInv,
           UNCHANGED <<closed, waiters, wants>>,
           TypeOK',
           waiters # <<>> => permits' <= permits,
           \A c \in Clients :
             /\ state'[c] = "waiting" <=> state[c] = "waiting"
             /\ state[c] = "waiting" => assigned'[c] = assigned[c],
           Accounts'
    PROVE  IInv'
<1> USE DEF IInv
<1>1. QueueExact'
  BY DEF QueueExact
<1>2. OnlyFrontPartial'
  <2>0. \A i \in 1..Len(waiters) : waiters[i] \in Clients
    BY WaitersQueue DEF Queue
  <2>1. \A i \in 1..Len(waiters) :
          waiters[i] \in Clients /\ assigned'[waiters[i]] = assigned[waiters[i]]
    BY <2>0 DEF QueueExact
  <2>2. QED
    BY <2>1 DEF OnlyFrontPartial
<1>3. NoIdlePermits'
  BY SemaphoreAssumption DEF NoIdlePermits, TypeOK
<1>4. NoneWaitsClosed'
  BY DEF NoneWaitsClosed
<1>5. QED
  BY <1>1, <1>2, <1>3, <1>4

LEMMA RemovePermitsIInv ==
    ASSUME IInv, NEW n \in Amounts, RemovePermits(n)
    PROVE  IInv'
<1> USE SemaphoreAssumption DEF RemovePermits, future, observed
<1>0. n \in Nat /\ permits \in 0..UsizeMax /\ supply \in Int /\ supply <= MaxSupply
  BY DEF IInv, TypeOK
<1>1. TypeOK'
  <2>1. permits' \in 0..UsizeMax
    BY <1>0 DEF SaturatingSub
  <2>2. supply' \in Int /\ supply' <= MaxSupply
    BY <1>0 DEF SaturatingSub
  <2>3. QED
    BY <2>1, <2>2 DEF IInv, TypeOK
<1>2. permits' <= permits
  BY <1>0 DEF SaturatingSub
<1>3. Accounts'
  BY DEF IInv, Accounts
<1>4. QED
  BY <1>1, <1>2, <1>3, QuietIInv

LEMMA TryAcquireIInv ==
    ASSUME IInv, NEW c \in Clients, NEW n \in Requests, TryAcquire(c, n)
    PROVE  IInv'
<1> USE SemaphoreAssumption DEF TryAcquire, future, observed
<1>1. TypeOK' /\ permits' <= permits
  BY DEF IInv, TypeOK, CanAcquire
<1>2. Accounts'
  BY DEF IInv, Accounts, TypeOK
<1>3. QED
  BY <1>1, <1>2, QuietIInv

LEMMA AcquireIInv ==
    ASSUME IInv, NEW c \in Clients, NEW n \in Requests, Acquire(c, n)
    PROVE  IInv'
<1> USE SemaphoreAssumption DEF Acquire, observed, IInv
<1>1. TypeOK'
  BY DEF TypeOK
<1>2. \A d \in Clients : /\ state'[d] = IF d = c THEN "inert" ELSE state[d]
                        /\ wants'[d] = IF d = c THEN n ELSE wants[d]
  BY DEF TypeOK
<1>3. QueueExact'
  BY <1>2 DEF QueueExact
<1>4. OnlyFrontPartial'
  <2>0. \A i \in 1..Len(waiters) : waiters[i] \in Clients
    BY WaitersQueue DEF Queue
  <2>1. \A i \in 1..Len(waiters) : waiters[i] \in Clients /\ waiters[i] # c
    BY <2>0 DEF QueueExact
  <2>2. QED
    BY <1>2, <2>1 DEF OnlyFrontPartial
<1>5. NoIdlePermits' /\ NoneWaitsClosed'
  BY DEF NoIdlePermits, NoneWaitsClosed
<1>6. Accounts'
  BY <1>2 DEF Accounts, TypeOK
<1>7. QED
  BY <1>1, <1>3, <1>4, <1>5, <1>6

LEMMA PollClosedIInv ==
    ASSUME IInv, NEW c \in Clients, PollClosed(c)
    PROVE  IInv'
<1> USE SemaphoreAssumption DEF PollClosed, Resolve
<1>1. TypeOK'
  BY DEF IInv, TypeOK
<1>2. \A d \in Clients : state'[d] = IF d = c THEN "woken" ELSE state[d]
  BY DEF IInv, TypeOK
<1>3. state[c] # "waiting"
  <2>1. Len(waiters) = 0
    BY EmptySeq DEF IInv, NoneWaitsClosed
  <2>2. QED
    BY <2>1 DEF IInv, QueueExact
<1>4. Accounts'
  BY <1>2, <1>3 DEF IInv, Accounts, TypeOK
<1>5. \A d \in Clients : /\ state'[d] = "waiting" <=> state[d] = "waiting"
                        /\ assigned'[d] = assigned[d]
  BY <1>2, <1>3
<1>6. permits' <= permits
  BY DEF IInv, TypeOK
<1>7. QED
  BY <1>1, <1>4, <1>5, <1>6, QuietIInv

LEMMA PollWokenIInv ==
    ASSUME IInv, NEW c \in Clients, PollWoken(c)
    PROVE  IInv'
<1> USE SemaphoreAssumption DEF PollWoken, Resolve
<1>0. /\ state' \in [Clients -> {"absent", "inert", "waiting", "woken"}]
      /\ outcome' \in [Clients -> {"none", "pending", "ok", "err"}]
      /\ poller' \in [Clients -> Wakers \cup {NoWaker}]
      /\ notified' \in [Clients -> BOOLEAN]
  BY DEF IInv, TypeOK
<1>1. held[c] + assigned[c] \in 0..UsizeMax
  <2>1. /\ held[c] \in 0..UsizeMax /\ assigned[c] \in 0..UsizeMax
        /\ assigned[c] > 0 => held[c] = 0
    BY DEF IInv, TypeOK, Accounts
  <2>2. QED
    BY <2>1
<1>2. TypeOK'
  BY <1>0, <1>1 DEF IInv, TypeOK
<1>3. \A d \in Clients :
        /\ state'[d] = state[d]
        /\ assigned'[d] = IF d = c THEN 0 ELSE assigned[d]
        /\ held'[d] = IF d = c THEN held[d] + assigned[d] ELSE held[d]
  BY DEF IInv, TypeOK
<1>4. Accounts'
  BY <1>3 DEF IInv, Accounts, TypeOK
<1>5. \A d \in Clients : /\ state'[d] = "waiting" <=> state[d] = "waiting"
                        /\ state[d] = "waiting" => assigned'[d] = assigned[d]
  BY <1>3
<1>6. permits' <= permits
  BY DEF IInv, TypeOK
<1>7. QED
  BY <1>2, <1>4, <1>5, <1>6, QuietIInv

LEMMA PollInertReadyIInv ==
    ASSUME IInv, NEW c \in Clients, PollInertReady(c)
    PROVE  IInv'
<1> USE SemaphoreAssumption DEF PollInertReady, Resolve
<1>1. /\ held[c] = 0 /\ assigned[c] = 0
      /\ wants[c] \in 0..UsizeMax /\ permits \in 0..UsizeMax
  BY DEF IInv, TypeOK, Accounts
<1>2. Taken(wants[c]) = wants[c]
  BY <1>1 DEF Taken
<1>8. /\ permits' = permits - wants[c]
      /\ permits' \in 0..UsizeMax /\ permits' <= permits
  BY <1>1, <1>2 DEF Remaining
<1>3. held' = [held EXCEPT ![c] = wants[c]]
  <2>1. held[c] + Taken(wants[c]) = wants[c]
    BY <1>1, <1>2
  <2>2. QED
    BY <2>1
<1>4. TypeOK'
  BY <1>1, <1>8, <1>3 DEF IInv, TypeOK
<1>5. \A d \in Clients :
        /\ state'[d] = IF d = c THEN "woken" ELSE state[d]
        /\ held'[d] = IF d = c THEN wants[d] ELSE held[d]
  BY <1>3 DEF IInv, TypeOK
<1>6. Accounts'
  BY <1>1, <1>5 DEF IInv, Accounts, TypeOK
<1>7. QED
  BY <1>4, <1>5, <1>6, <1>8, QuietIInv

LEMMA PollInertEnqueueIInv ==
    ASSUME IInv, NEW c \in Clients, NEW v \in Wakers, PollInertEnqueue(c, v)
    PROVE  IInv'
<1> USE SemaphoreAssumption DEF PollInertEnqueue, Suspend, PushBack
<1>1. /\ wants[c] \in 0..UsizeMax /\ permits \in 0..UsizeMax /\ wants[c] > permits
      /\ assigned[c] = 0 /\ held[c] = 0
  BY DEF IInv, TypeOK, Accounts
<1>2. permits' = 0 /\ assigned' = [assigned EXCEPT ![c] = permits]
  <2>1. Taken(wants[c]) = permits
    BY <1>1 DEF Taken
  <2>2. permits - permits = 0
    BY <1>1
  <2>3. QED
    BY <2>1, <2>2 DEF Remaining
<1>3. /\ waiters \in Seq(Clients) /\ Len(waiters) \in Nat
      /\ \A i \in 1..Len(waiters) : waiters[i] \in Clients /\ waiters[i] # c
  BY WaitersQueue DEF Queue
<1>4. /\ waiters' \in Seq(Clients)
      /\ Len(waiters') = Len(waiters) + 1
      /\ \A i \in 1..Len(waiters) : waiters'[i] = waiters[i]
      /\ waiters'[Len(waiters) + 1] = c
  BY <1>3, AppendProperties
<1>5. TypeOK'
  BY <1>1, <1>2, <1>4 DEF IInv, TypeOK
<1>6. \A d \in Clients :
        /\ state'[d] = IF d = c THEN "waiting" ELSE state[d]
        /\ assigned'[d] = IF d = c THEN permits ELSE assigned[d]
  BY <1>2 DEF IInv, TypeOK
<1>7. QueueExact'
  <2>1. ASSUME NEW i \in 1..Len(waiters'), NEW j \in 1..Len(waiters'),
               waiters'[i] = waiters'[j]
        PROVE  i = j
    BY <1>3, <1>4, <2>1 DEF IInv, QueueExact
  <2>2. ASSUME NEW d \in Clients
        PROVE  state'[d] = "waiting" <=> \E i \in 1..Len(waiters') : waiters'[i] = d
    <3>1. CASE d = c
      BY <1>3, <1>4, <1>6, <3>1
    <3>2. CASE d # c
      BY <1>3, <1>4, <1>6, <3>2 DEF IInv, QueueExact
    <3>3. QED
      BY <3>1, <3>2
  <2>3. QED
    BY <2>1, <2>2 DEF QueueExact
<1>8. OnlyFrontPartial'
  <2> SUFFICES ASSUME NEW i \in 1..Len(waiters')
               PROVE  /\ assigned'[waiters'[i]] < wants'[waiters'[i]]
                      /\ i > 1 => assigned'[waiters'[i]] = 0
    BY DEF OnlyFrontPartial
  <2>1. CASE i \in 1..Len(waiters)
    BY <1>3, <1>4, <1>6, <2>1 DEF IInv, OnlyFrontPartial
  <2>2. CASE i = Len(waiters) + 1
    <3>1. waiters'[i] = c /\ assigned'[c] = permits
      BY <1>4, <1>6, <2>2
    <3>2. ASSUME i > 1 PROVE permits = 0
      <4>1. waiters # <<>>
        BY <1>3, <2>2, <3>2, EmptySeq
      <4>2. QED
        BY <4>1 DEF IInv, NoIdlePermits
    <3>3. QED
      BY <1>1, <3>1, <3>2
  <2>3. QED
    BY <1>3, <1>4, <2>1, <2>2
<1>9. NoIdlePermits' /\ NoneWaitsClosed'
  BY <1>2 DEF NoIdlePermits, NoneWaitsClosed
<1>10. Accounts'
  BY <1>1, <1>6 DEF IInv, Accounts, TypeOK
<1>11. QED
  BY <1>5, <1>7, <1>8, <1>9, <1>10 DEF IInv

LEMMA PollWaitingIInv ==
    ASSUME IInv, NEW c \in Clients, NEW v \in Wakers, PollWaiting(c, v)
    PROVE  IInv'
<1> USE SemaphoreAssumption DEF PollWaiting, Suspend, future
<1>1. TypeOK' /\ permits' <= permits
  BY DEF IInv, TypeOK
<1>2. Accounts'
  BY DEF IInv, Accounts
<1>3. QED
  BY <1>1, <1>2, QuietIInv

LEMMA LeakAcquireIInv ==
    ASSUME IInv, NEW c \in Clients, LeakAcquire(c)
    PROVE  IInv'
<1> USE SemaphoreAssumption DEF LeakAcquire, future, observed
<1>1. TypeOK' /\ permits' <= permits
  BY DEF IInv, TypeOK
<1>2. Accounts'
  BY DEF IInv, Accounts
<1>3. QED
  BY <1>1, <1>2, QuietIInv

LEMMA ForgetPermitIInv ==
    ASSUME IInv, NEW c \in Clients, ForgetPermit(c)
    PROVE  IInv'
<1> USE SemaphoreAssumption DEF ForgetPermit, future, observed
<1>1. TypeOK' /\ permits' <= permits
  <2>1. held[c] \in 0..UsizeMax /\ supply \in Int /\ supply <= MaxSupply
    BY DEF IInv, TypeOK
  <2>2. supply' \in Int /\ supply' <= MaxSupply
    BY <2>1
  <2>3. held' \in [Clients -> 0..UsizeMax] /\ permits \in 0..UsizeMax
    BY DEF IInv, TypeOK
  <2>4. QED
    BY <2>2, <2>3 DEF IInv, TypeOK
<1>2. \A d \in Clients : held'[d] = IF d = c THEN 0 ELSE held[d]
  BY DEF IInv, TypeOK
<1>3. Accounts'
  BY <1>2 DEF IInv, Accounts
<1>4. QED
  BY <1>1, <1>3, QuietIInv

LEMMA StutterIInv ==
    ASSUME IInv, UNCHANGED vars
    PROVE  IInv'
<1> USE DEF vars, future, observed
<1>1. TypeOK' /\ permits' <= permits
  BY SemaphoreAssumption DEF IInv, TypeOK
<1>2. Accounts'
  BY DEF IInv, Accounts
<1>3. QED
  BY <1>1, <1>2, QuietIInv

LEMMA NextIInv == IInv /\ [Next]_vars => IInv'
<1> SUFFICES ASSUME IInv, [Next]_vars PROVE IInv'
  OBVIOUS
<1>1. ASSUME NEW n \in Amounts, AddPermits(n) PROVE IInv'
  BY <1>1, AddPermitsIInv
<1>2. ASSUME NEW n \in Amounts, RemovePermits(n) PROVE IInv'
  BY <1>2, RemovePermitsIInv
<1>3. CASE Close
  BY <1>3, CloseIInv
<1>4. ASSUME NEW c \in Clients, NEW n \in Requests, TryAcquire(c, n) PROVE IInv'
  BY <1>4, TryAcquireIInv
<1>5. ASSUME NEW c \in Clients, NEW n \in Requests, Acquire(c, n) PROVE IInv'
  BY <1>5, AcquireIInv
<1>6. ASSUME NEW c \in Clients, NEW v \in Wakers, Poll(c, v) PROVE IInv'
  BY <1>6, PollClosedIInv, PollWokenIInv, PollInertReadyIInv,
     PollInertEnqueueIInv, PollWaitingIInv DEF Poll
<1>7. ASSUME NEW c \in Clients, DropAcquire(c) PROVE IInv'
  BY <1>7, DropAcquireIInv
<1>8. ASSUME NEW c \in Clients, LeakAcquire(c) PROVE IInv'
  BY <1>8, LeakAcquireIInv
<1>9. ASSUME NEW c \in Clients, DropPermit(c) PROVE IInv'
  BY <1>9, DropPermitIInv
<1>10. ASSUME NEW c \in Clients, ForgetPermit(c) PROVE IInv'
  BY <1>10, ForgetPermitIInv
<1>11. CASE UNCHANGED vars
  BY <1>11, StutterIInv
<1>12. QED
  BY <1>1, <1>2, <1>3, <1>4, <1>5, <1>6, <1>7, <1>8, <1>9, <1>10, <1>11 DEF Next

LEMMA Inductive == Spec => []IInv
BY InitIInv, NextIInv, PTL DEF Spec

-----------------------------------------------------------------------------
\* Every variable keeps its type: no count of permits ever underflows or
\* exceeds usize::MAX, in the subtraction `wants - permits` of add_permits
\* in particular.
THEOREM TypeCorrect == Spec => []TypeOK
<1>1. IInv => TypeOK
  BY DEF IInv
<1>2. QED
  BY <1>1, Inductive, PTL

\* The queue and the states of the futures agree, so a future is unlinked
\* exactly when it is linked (Acquire::drop, add_permits, close).
THEOREM QueueIsExact == Spec => []QueueExact
<1>1. IInv => QueueExact
  BY DEF IInv
<1>2. QED
  BY <1>1, Inductive, PTL

\* Only the future at the front has collected some, but not all, of what it
\* wants; the others have nothing.
THEOREM PartialGrantsAtFront == Spec => []OnlyFrontPartial
<1>1. IInv => OnlyFrontPartial
  BY DEF IInv
<1>2. QED
  BY <1>1, Inductive, PTL

\* No permit is idle while a future waits.
THEOREM NoPermitIsIdle == Spec => []NoIdlePermits
<1>1. IInv => NoIdlePermits
  BY DEF IInv
<1>2. QED
  BY <1>1, Inductive, PTL

-----------------------------------------------------------------------------
(* Conservation of the permits.  A partial grant stores `diff - n` where   *)
(* the sum of what the future had and gets would be due.  The two agree as *)
(* long as nobody asks for more than two permits at once, and this is what *)
(* the proof needs: such a partial grant is of one permit to a future that *)
(* had none.                                                               *)

SmallRequests == \A n \in Requests : n <= 2
SmallWants == \A c \in Clients : wants[c] <= 2

\* What add_permits hands out, by future.
Granted(w, n) ==
    [c \in Clients |-> IF c \in Completed(w, n) THEN Missing[c]
                       ELSE IF IsShort(w, n, c) THEN Left(w, n) ELSE 0]

LEMMA GrantedValues ==
    ASSUME TypeOK, SmallWants, NEW w, Queue(w), NEW n \in Nat, NEW c \in Clients
    PROVE  /\ assigned[c] \in Nat
           /\ Granted(w, n)[c] \in Nat
           /\ AssignedAfter(w, n)[c] \in Nat
           /\ AssignedAfter(w, n)[c] = assigned[c] + Granted(w, n)[c]
<1> USE SemaphoreAssumption
<1>1. /\ wants[c] \in 0..UsizeMax /\ assigned[c] \in 0..UsizeMax
      /\ wants[c] <= 2
      /\ AssignedAfter(w, n)[c] \in Nat
  <2>1. AssignedAfter(w, n) \in [Clients -> 0..UsizeMax]
    BY AfterType
  <2>2. wants[c] \in 0..UsizeMax /\ assigned[c] \in 0..UsizeMax /\ wants[c] <= 2
    BY DEF TypeOK, SmallWants
  <2>3. QED
    BY <2>1, <2>2
<1>2. CASE c \in Completed(w, n)
  <2>1. PICK i \in 1..Served(w, n) : w[i] = c
    BY <1>2 DEF Completed, FirstOf
  <2>2. i \in 1..Len(w)
    BY ServedType DEF Queue
  <2>3. assigned[c] < wants[c]
    BY <2>1, <2>2 DEF Queue
  <2>4. AssignedAfter(w, n)[c] = wants[c] /\ Granted(w, n)[c] = wants[c] - assigned[c]
    BY <1>2 DEF AssignedAfter, Granted, Missing
  <2>5. QED
    BY <1>1, <2>3, <2>4
<1>3. CASE c \notin Completed(w, n) /\ IsShort(w, n, c)
  <2>1. c = w[Served(w, n) + 1] /\ Served(w, n) < Len(w) /\ Left(w, n) > 0
    BY <1>3 DEF IsShort
  <2>2. Left(w, n) \in Nat /\ Left(w, n) < wants[c] - assigned[c]
    <3>1. Left(w, n) \in 0..n /\ Left(w, n) < Missing[c]
      BY <2>1, LeftType
    <3>2. Missing[c] = wants[c] - assigned[c]
      BY DEF Missing
    <3>3. QED
      BY <3>1, <3>2
  <2>3. /\ AssignedAfter(w, n)[c] = (wants[c] - assigned[c]) - Left(w, n)
        /\ Granted(w, n)[c] = Left(w, n)
    BY <1>3 DEF AssignedAfter, Granted
  <2>4. wants[c] = 2 /\ assigned[c] = 0 /\ Left(w, n) = 1
    <3>1. \A v, a, l \in Nat : v <= 2 /\ l > 0 /\ l < v - a => v = 2 /\ a = 0 /\ l = 1
      OBVIOUS
    <3>2. wants[c] \in Nat /\ assigned[c] \in Nat
      BY <1>1
    <3>3. QED
      BY <1>1, <2>1, <2>2, <3>1, <3>2
  <2>5. QED
    BY <1>1, <2>3, <2>4
<1>4. CASE c \notin Completed(w, n) /\ ~IsShort(w, n, c)
  <2>1. AssignedAfter(w, n)[c] = assigned[c] /\ Granted(w, n)[c] = 0
    BY <1>4 DEF AssignedAfter, Granted
  <2>2. QED
    BY <1>1, <2>1
<1>5. QED
  BY <1>2, <1>3, <1>4

\* All n permits go to the waiters and the semaphore.
LEMMA GrantedTotal ==
    ASSUME TypeOK, SmallWants, NEW w, Queue(w), NEW n \in Nat
    PROVE  Total(Clients, Granted(w, n)) =
             IF Served(w, n) < Len(w) THEN n ELSE n - Left(w, n)
<1> USE SemaphoreAssumption
<1> DEFINE C == Completed(w, n)
           R == Clients \ C
           g == Granted(w, n)
           K == Served(w, n)
<1>1. /\ Len(w) \in Nat /\ K \in 0..Len(w)
      /\ \A i \in 1..Len(w) : w[i] \in Clients
      /\ Left(w, n) \in Nat /\ Need(w, K) \in Nat /\ n = Need(w, K) + Left(w, n)
  <2>1. Len(w) \in Nat /\ \A i \in 1..Len(w) : w[i] \in Clients
    BY DEF Queue
  <2>2. K \in 0..Len(w)
    BY ServedType
  <2>3. Left(w, n) \in 0..n
    BY LeftType
  <2>4. Need(w, K) \in Nat
    BY <2>2, NeedStep
  <2>5. n = Need(w, K) + Left(w, n)
    BY <2>3, <2>4 DEF Left
  <2>6. QED
    BY <2>1, <2>2, <2>3, <2>4, <2>5
<1>2. C \in SUBSET Clients
  BY <1>1 DEF Completed, FirstOf
<1>3. IsFiniteSet(C) /\ IsFiniteSet(R) /\ C \cap R = {} /\ C \cup R = Clients
  BY <1>2, FS_Subset, FS_Difference
<1>4. \A c \in Clients : g[c] \in Nat
  BY GrantedValues
<1>5. Total(C, g) = Need(w, K)
  <2>1. \A c \in C : g[c] = Missing[c]
    BY <1>2 DEF Granted
  <2>2. Total(C, g) = Total(C, Missing)
    BY <2>1, TotalSame
  <2>3. QED
    BY <2>2 DEF Need, Completed
<1>6. Total(R, g) = IF K < Len(w) THEN Left(w, n) ELSE 0
  <2>1. CASE K < Len(w) /\ Left(w, n) > 0
    <3> DEFINE d == w[K + 1]
               z == [c \in Clients |-> 0]
    <3>1. d \in R
      BY <1>1, <2>1, ServedOrNot
    <3>2. IsShort(w, n, d) /\ \A c \in R : IsShort(w, n, c) => c = d
      BY <2>1 DEF IsShort
    <3>3. g[d] = Left(w, n) /\ \A c \in R : c # d => g[c] = z[c]
      BY <3>1, <3>2 DEF Granted
    <3>4. z[d] = 0 /\ (\A c \in R : z[c] \in Nat /\ g[c] \in Nat)
      BY <1>4, <3>1
    <3>5. Total(R, z) = 0
      BY TotalZero
    <3> HIDE DEF d, z, g, R, K
    <3>6. Total(R, g) = Total(R, z) - z[d] + g[d]
      BY <1>3, <3>1, <3>3, <3>4, TotalUpdate
    <3>7. QED
      BY <1>1, <2>1, <3>3, <3>4, <3>5, <3>6
  <2>2. CASE ~(K < Len(w) /\ Left(w, n) > 0)
    <3>1. \A c \in R : g[c] = 0
      BY <2>2 DEF Granted, IsShort
    <3>2. Total(R, g) = 0
      BY <3>1, TotalZero
    <3>3. QED
      BY <1>1, <2>2, <3>2
  <2>3. QED
    BY <2>1, <2>2
<1>7. Total(Clients, g) = Total(C, g) + Total(R, g)
  <2>1. Total(C \cup R, g) = Total(C, g) + Total(R, g)
    BY <1>3, <1>4, TotalDisjoint
  <2>2. QED
    BY <1>3, <2>1
<1> HIDE DEF C, R, g, K
<1>8. Total(Clients, g) = IF K < Len(w) THEN n ELSE n - Left(w, n)
  BY <1>1, <1>5, <1>6, <1>7
<1>9. QED
  BY <1>8 DEF g, K

LEMMA ServeConserves ==
    ASSUME TypeOK, SmallWants, NEW w, Queue(w), NEW n \in Nat
    PROVE  /\ PermitsAfter(w, n) \in Nat
           /\ Total(Clients, AssignedAfter(w, n)) \in Nat
           /\ PermitsAfter(w, n) + Total(Clients, AssignedAfter(w, n))
                <= permits + Total(Clients, assigned) + n
           /\ permits + n <= UsizeMax =>
                PermitsAfter(w, n) + Total(Clients, AssignedAfter(w, n))
                  = permits + Total(Clients, assigned) + n
<1> USE SemaphoreAssumption
<1>1. Total(Clients, AssignedAfter(w, n))
        = Total(Clients, assigned) + Total(Clients, Granted(w, n))
  BY GrantedValues, TotalPlus
<1>2. Total(Clients, assigned) \in Nat
  BY GrantedValues, TotalType
<1>3. Left(w, n) \in 0..n
  BY LeftType
<1>4. permits \in 0..UsizeMax
  BY DEF TypeOK
<1>5. /\ PermitsAfter(w, n) \in Nat
      /\ Served(w, n) < Len(w) => PermitsAfter(w, n) = permits
      /\ ~(Served(w, n) < Len(w)) =>
            /\ PermitsAfter(w, n) <= permits + Left(w, n)
            /\ permits + n <= UsizeMax => PermitsAfter(w, n) = permits + Left(w, n)
  BY <1>3, <1>4 DEF PermitsAfter, SaturatingAdd
<1>6. Total(Clients, AssignedAfter(w, n)) \in Nat
  BY GrantedValues, TotalType
<1>7. CASE Served(w, n) < Len(w)
  <2>1. Total(Clients, Granted(w, n)) = n
    BY <1>7, GrantedTotal
  <2>2. QED
    BY <1>1, <1>2, <1>4, <1>5, <1>6, <1>7, <2>1
<1>8. CASE ~(Served(w, n) < Len(w))
  <2>1. Total(Clients, Granted(w, n)) = n - Left(w, n)
    BY <1>8, GrantedTotal
  <2>2. permits \in Nat /\ Left(w, n) \in Nat
    BY <1>3, <1>4
  <2>3. QED
    BY <1>1, <1>2, <1>5, <1>6, <1>8, <2>1, <2>2
<1>9. QED
  BY <1>7, <1>8

\* The sum of a function after one of its values changed.
LEMMA Updated ==
    ASSUME NEW f \in [Clients -> 0..UsizeMax], NEW c \in Clients, NEW n \in Nat
    PROVE  /\ Total(Clients, f) \in Nat
           /\ f[c] \in Nat /\ f[c] <= Total(Clients, f)
           /\ Total(Clients, [f EXCEPT ![c] = n]) = Total(Clients, f) - f[c] + n
<1> USE SemaphoreAssumption
<1> DEFINE g == [f EXCEPT ![c] = n]
<1>1. \A d \in Clients : f[d] \in Nat /\ g[d] \in Nat
  OBVIOUS
<1>2. \A d \in Clients : d # c => g[d] = f[d]
  OBVIOUS
<1>3. g[c] = n
  OBVIOUS
<1> HIDE DEF g
<1>4. Total(Clients, g) = Total(Clients, f) - f[c] + g[c]
  BY <1>1, <1>2, TotalUpdate
<1>5. Total(Clients, f) \in Nat /\ f[c] <= Total(Clients, f)
  BY <1>1, TotalType, TotalAtLeast
<1>6. QED
  BY <1>1, <1>3, <1>4, <1>5 DEF g

\* Where the supply may exceed a usize permits are lost, but never created.
Covered ==
    /\ NoPermitCreated
    /\ MaxSupply <= UsizeMax => PermitsConserved

CInv == IInv /\ SmallWants /\ Covered

\* While nothing is lost, the permits of two parts fit into a usize.
LEMMA Fits ==
    ASSUME CInv
    PROVE  /\ permits \in Nat /\ supply \in Int
           /\ Total(Clients, assigned) \in Nat /\ Total(Clients, held) \in Nat
           /\ permits + Total(Clients, assigned) + Total(Clients, held) <= supply
           /\ \A c \in Clients : assigned[c] \in Nat /\ held[c] \in Nat
           /\ MaxSupply <= UsizeMax =>
                /\ permits + Total(Clients, assigned) + Total(Clients, held) = supply
                /\ \A c \in Clients : /\ permits + assigned[c] <= UsizeMax
                                      /\ permits + held[c] <= UsizeMax
<1> USE SemaphoreAssumption
<1>1. /\ assigned \in [Clients -> 0..UsizeMax]
      /\ held \in [Clients -> 0..UsizeMax]
      /\ permits \in Nat /\ supply \in Int /\ supply <= MaxSupply
  BY DEF CInv, IInv, TypeOK
<1>2. \A c \in Clients : assigned[c] \in Nat /\ held[c] \in Nat
  BY <1>1
<1>3. Total(Clients, assigned) \in Nat /\ Total(Clients, held) \in Nat
  BY <1>2, TotalType
<1>4. \A c \in Clients : /\ assigned[c] <= Total(Clients, assigned)
                         /\ held[c] <= Total(Clients, held)
  BY <1>2, TotalAtLeast
<1>5. /\ permits + Total(Clients, assigned) + Total(Clients, held) <= supply
      /\ MaxSupply <= UsizeMax =>
           permits + Total(Clients, assigned) + Total(Clients, held) = supply
  BY DEF CInv, Covered, NoPermitCreated, PermitsConserved, InCirculation
<1>6. QED
  BY <1>1, <1>2, <1>3, <1>4, <1>5

\* Each call moves permits, or accounts for what it adds and takes away.
LEMMA NextConserves ==
    ASSUME SmallRequests, CInv, [Next]_vars
    PROVE  CInv'
<1> USE SemaphoreAssumption DEF Covered, NoPermitCreated, PermitsConserved, InCirculation
<1> DEFINE Sum(f) == Total(Clients, f)
<1>1. IInv /\ IInv' /\ SmallWants
  BY NextIInv DEF CInv
<1>2. /\ permits \in Nat /\ supply \in Int
      /\ Sum(assigned) \in Nat /\ Sum(held) \in Nat
      /\ permits + Sum(assigned) + Sum(held) <= supply
      /\ \A c \in Clients : assigned[c] \in Nat /\ held[c] \in Nat
      /\ MaxSupply <= UsizeMax =>
           /\ permits + Sum(assigned) + Sum(held) = supply
           /\ \A c \in Clients : /\ permits + assigned[c] <= UsizeMax
                                 /\ permits + held[c] <= UsizeMax
  BY Fits DEF CInv
<1>3. TypeOK /\ Queue(waiters)
  BY <1>1, WaitersQueue DEF IInv
<1>4. \A c \in Clients, n \in Nat :
        /\ Sum([assigned EXCEPT ![c] = n]) = Sum(assigned) - assigned[c] + n
        /\ Sum([held EXCEPT ![c] = n]) = Sum(held) - held[c] + n
  BY <1>3, Updated DEF TypeOK
<1>5. Requests \cup Amounts \subseteq Nat
  OBVIOUS
<1>6. SmallWants'
  <2> SUFFICES ASSUME NEW d \in Clients PROVE wants'[d] <= 2
    BY DEF SmallWants
  <2>1. wants[d] <= 2 /\ wants \in [Clients -> 0..UsizeMax]
    BY <1>1, <1>3 DEF SmallWants, TypeOK
  <2>2. \/ wants' = wants
        \/ \E c \in Clients, n \in Requests \cup {0} : wants' = [wants EXCEPT ![c] = n]
    BY DEF Next, AddPermits, RemovePermits, Close, TryAcquire, Acquire, Poll,
           PollClosed, PollWoken, PollInertReady, PollInertEnqueue, PollWaiting,
           DropAcquire, LeakAcquire, DropPermit, ForgetPermit, vars, future
  <2>3. QED
    BY <2>1, <2>2 DEF SmallRequests
<1>7. ASSUME NEW n \in Amounts, AddPermits(n) PROVE Covered'
  <2>1. n \in Nat /\ (MaxSupply <= UsizeMax => permits + n <= UsizeMax)
    BY <1>2, <1>5, <1>7 DEF AddPermits
  <2>2. /\ permits' = PermitsAfter(waiters, n) /\ held' = held
        /\ assigned' = AssignedAfter(waiters, n) /\ supply' = supply + n
    BY <1>7 DEF AddPermits
  <2>3. /\ permits' \in Nat /\ Sum(assigned') \in Nat
        /\ permits' + Sum(assigned') <= permits + Sum(assigned) + n
        /\ MaxSupply <= UsizeMax =>
             permits' + Sum(assigned') = permits + Sum(assigned) + n
    BY <1>1, <1>3, <2>1, <2>2, ServeConserves
  <2>4. QED
    BY <1>2, <2>1, <2>2, <2>3
<1>8. ASSUME NEW n \in Amounts, RemovePermits(n) PROVE Covered'
  BY <1>2, <1>5, <1>8 DEF RemovePermits, SaturatingSub, future
<1>9. ASSUME Close PROVE Covered'
  BY <1>2, <1>9 DEF Close
<1>10. ASSUME NEW c \in Clients, NEW n \in Requests, TryAcquire(c, n)
       PROVE  Covered'
  <2>1. /\ held[c] = 0 /\ n \in Nat /\ n <= permits
        /\ permits' = permits - n /\ held' = [held EXCEPT ![c] = n]
        /\ assigned' = assigned /\ supply' = supply
    BY <1>5, <1>10 DEF TryAcquire, CanAcquire, future
  <2>2. Sum(held') = Sum(held) - held[c] + n
    BY <1>4, <2>1
  <2>3. QED
    BY <1>2, <2>1, <2>2
<1>11. ASSUME NEW c \in Clients, NEW n \in Requests, Acquire(c, n)
       PROVE  Covered'
  BY <1>2, <1>11 DEF Acquire
<1>12. ASSUME NEW c \in Clients, PollClosed(c) PROVE Covered'
  BY <1>2, <1>12 DEF PollClosed
<1>13. ASSUME NEW c \in Clients, PollWoken(c) PROVE Covered'
  <2>1. /\ held' = [held EXCEPT ![c] = held[c] + assigned[c]]
        /\ assigned' = [assigned EXCEPT ![c] = 0]
        /\ permits' = permits /\ supply' = supply
    BY <1>13 DEF PollWoken
  <2>2. Sum(held') = Sum(held) - held[c] + (held[c] + assigned[c])
    <3> DEFINE k == held[c] + assigned[c]
    <3>1. k \in Nat /\ held' = [held EXCEPT ![c] = k]
      BY <1>2, <2>1
    <3> HIDE DEF k
    <3>2. Sum(held') = Sum(held) - held[c] + k
      BY <1>4, <3>1
    <3>3. QED
      BY <3>2 DEF k
  <2>3. Sum(assigned') = Sum(assigned) - assigned[c] + 0
    BY <1>4, <2>1
  <2>4. QED
    BY <1>2, <2>1, <2>2, <2>3
<1>14. ASSUME NEW c \in Clients, PollInertReady(c) PROVE Covered'
  <2>1. wants[c] \in Nat /\ wants[c] <= permits
    BY <1>3, <1>14 DEF PollInertReady, TypeOK
  <2>2. /\ held' = [held EXCEPT ![c] = held[c] + wants[c]]
        /\ assigned' = assigned
        /\ permits' = permits - wants[c] /\ supply' = supply
    <3>1. Taken(wants[c]) = wants[c] /\ Remaining(wants[c]) = permits - wants[c]
      BY <1>2, <2>1 DEF Remaining, Taken
    <3>2. QED
      BY <1>14, <3>1 DEF PollInertReady
  <2>3. Sum(held') = Sum(held) - held[c] + (held[c] + wants[c])
    <3> DEFINE k == held[c] + wants[c]
    <3>1. k \in Nat /\ held' = [held EXCEPT ![c] = k]
      BY <1>2, <2>1, <2>2
    <3> HIDE DEF k
    <3>2. Sum(held') = Sum(held) - held[c] + k
      BY <1>4, <3>1
    <3>3. QED
      BY <3>2 DEF k
  <2>4. QED
    BY <1>2, <2>1, <2>2, <2>3
<1>15. ASSUME NEW c \in Clients, NEW v \in Wakers, PollInertEnqueue(c, v)
       PROVE  Covered'
  <2>1. assigned[c] = 0
    BY <1>1, <1>15 DEF IInv, Accounts, PollInertEnqueue
  <2>2. /\ assigned' = [assigned EXCEPT ![c] = permits]
        /\ permits' = 0 /\ held' = held /\ supply' = supply
    <3>1. wants[c] > permits
      BY <1>15 DEF PollInertEnqueue
    <3>2. Taken(wants[c]) = permits /\ Remaining(wants[c]) = 0
      BY <1>2, <3>1 DEF Remaining, Taken
    <3>3. QED
      BY <1>15, <3>2 DEF PollInertEnqueue
  <2>3. Sum(assigned') = Sum(assigned) - assigned[c] + permits
    BY <1>2, <1>4, <2>2
  <2>4. QED
    BY <1>2, <2>1, <2>2, <2>3
<1>16. ASSUME NEW c \in Clients, NEW v \in Wakers, PollWaiting(c, v)
       PROVE  Covered'
  BY <1>2, <1>16 DEF PollWaiting, future
<1>17. ASSUME NEW c \in Clients, DropAcquire(c) PROVE Covered'
  <2> DEFINE w == WaitersWithout(c)
             n == assigned[c]
             after == AssignedAfter(w, n)
  <2>1. /\ permits' = PermitsAfter(w, n)
        /\ assigned' = [after EXCEPT ![c] = 0]
        /\ held' = held /\ supply' = supply
    BY <1>17 DEF DropAcquire, Unused
  <2>2. /\ Queue(w)
        /\ \A i \in 1..Len(w) : w[i] # c
    BY <1>1, <1>17, WaitersWithoutQueue
  <2>3. n \in Nat /\ (MaxSupply <= UsizeMax => permits + n <= UsizeMax)
    BY <1>2
  <2> HIDE DEF n, w
  <2>4. after[c] = n
    BY <1>3, <2>2, <2>3, AfterValues DEF n
  <2>5. after \in [Clients -> 0..UsizeMax]
    BY <1>3, <2>2, <2>3, AfterType
  <2>6. /\ PermitsAfter(w, n) \in Nat /\ Sum(after) \in Nat
        /\ PermitsAfter(w, n) + Sum(after) <= permits + Sum(assigned) + n
        /\ MaxSupply <= UsizeMax =>
             PermitsAfter(w, n) + Sum(after) = permits + Sum(assigned) + n
    BY <1>1, <1>3, <2>2, <2>3, ServeConserves
  <2> HIDE DEF after
  <2>7. Sum(assigned') = Sum(after) - after[c] + 0
    BY <2>1, <2>5, Updated
  <2>8. QED
    BY <1>2, <2>1, <2>3, <2>4, <2>6, <2>7
<1>18. ASSUME NEW c \in Clients, LeakAcquire(c) PROVE Covered'
  BY <1>2, <1>18 DEF LeakAcquire, future
<1>19. ASSUME NEW c \in Clients, DropPermit(c) PROVE Covered'
  <2> DEFINE n == held[c]
  <2>1. n \in Nat /\ (MaxSupply <= UsizeMax => permits + n <= UsizeMax)
    BY <1>2
  <2>2. /\ permits' = PermitsAfter(waiters, n)
        /\ assigned' = AssignedAfter(waiters, n)
        /\ held' = [held EXCEPT ![c] = 0] /\ supply' = supply
    BY <1>19 DEF DropPermit
  <2> HIDE DEF n
  <2>3. /\ permits' \in Nat /\ Sum(assigned') \in Nat
        /\ permits' + Sum(assigned') <= permits + Sum(assigned) + n
        /\ MaxSupply <= UsizeMax =>
             permits' + Sum(assigned') = permits + Sum(assigned) + n
    BY <1>1, <1>3, <2>1, <2>2, ServeConserves
  <2>4. Sum(held') = Sum(held) - n + 0
    BY <1>4, <2>2 DEF n
  <2>5. QED
    BY <1>2, <2>1, <2>2, <2>3, <2>4
<1>20. ASSUME NEW c \in Clients, ForgetPermit(c) PROVE Covered'
  <2>1. /\ permits' = permits /\ assigned' = assigned
        /\ held' = [held EXCEPT ![c] = 0] /\ supply' = supply - held[c]
    BY <1>20 DEF ForgetPermit, future
  <2>2. Sum(held') = Sum(held) - held[c] + 0
    BY <1>4, <2>1
  <2>3. QED
    BY <1>2, <2>1, <2>2
<1>21. ASSUME UNCHANGED vars PROVE Covered'
  BY <1>2, <1>21 DEF vars, future
<1>22. Covered'
  BY <1>7, <1>8, <1>9, <1>10, <1>11, <1>12, <1>13, <1>14, <1>15, <1>16, <1>17,
     <1>18, <1>19, <1>20, <1>21 DEF Next, Poll
<1>23. QED
  BY <1>1, <1>6, <1>22 DEF CInv

LEMMA InitCovered == Init => CInv
<1> SUFFICES ASSUME Init PROVE CInv
  OBVIOUS
<1>1. IInv
  BY InitIInv
<1>2. SmallWants
  BY DEF Init, SmallWants
<1>3. /\ \A c \in Clients : assigned[c] = 0 /\ held[c] = 0
      /\ permits = InitPermits /\ supply = InitPermits
  BY DEF Init
<1>4. Total(Clients, assigned) = 0 /\ Total(Clients, held) = 0
  BY <1>3, TotalZero
<1>5. Covered
  BY <1>3, <1>4, SemaphoreAssumption
     DEF Covered, NoPermitCreated, PermitsConserved, InCirculation
<1> QED
  BY <1>1, <1>2, <1>5 DEF CInv

\* No call loses a permit or creates one, if nobody asks for more than two at
\* once and the supply stays within usize.
THEOREM NoPermitIsLost ==
    ASSUME SmallRequests, MaxSupply <= UsizeMax
    PROVE  Spec => []PermitsConserved
<1>1. CInv /\ [Next]_vars => CInv'
  BY NextConserves
<1>2. CInv => PermitsConserved
  BY DEF CInv, Covered
<1> QED
  BY <1>1, <1>2, InitCovered, PTL DEF Spec

\* No call creates a permit, however many are added: where the sum exceeds usize::MAX
\* the saturating addition loses some.
THEOREM NoPermitIsCreated ==
    ASSUME SmallRequests
    PROVE  Spec => []NoPermitCreated
<1>1. CInv /\ [Next]_vars => CInv'
  BY NextConserves
<1>2. CInv => NoPermitCreated
  BY DEF CInv, Covered
<1> QED
  BY <1>1, <1>2, InitCovered, PTL DEF Spec

-----------------------------------------------------------------------------
(* What a step may never do.                                               *)

\* The calls by which a client comes to hold more permits.
LEMMA Gains ==
    ASSUME IInv, Next, NEW c \in Clients, held'[c] > held[c]
    PROVE  /\ ~closed
           /\ \/ state[c] = "woken"
              \/ \E n \in Nat \ {0} : n <= permits
<1> USE SemaphoreAssumption
<1>1. /\ TypeOK /\ permits \in Nat /\ Requests \cup Amounts \subseteq Nat
      /\ held \in [Clients -> 0..UsizeMax] /\ wants \in [Clients -> 0..UsizeMax]
      /\ held[c] \in Nat /\ wants[c] \in Nat
  BY DEF IInv, TypeOK
<1>2. ASSUME NEW d \in Clients, NEW n \in Requests, TryAcquire(d, n)
      PROVE  ~closed /\ n \in Nat \ {0} /\ n <= permits
  <2>1. ~closed /\ n <= permits /\ held' = [held EXCEPT ![d] = n] /\ held[d] = 0
    BY <1>2 DEF TryAcquire, CanAcquire
  <2>2. c = d /\ n > 0 /\ n \in Nat
    BY <1>1, <2>1
  <2>3. QED
    BY <2>1, <2>2
<1>3. ASSUME NEW d \in Clients, PollWoken(d)
      PROVE  ~closed /\ state[c] = "woken"
  <2>1. c = d
    BY <1>1, <1>3 DEF PollWoken
  <2>2. QED
    BY <1>3, <2>1 DEF PollWoken
<1>4. ASSUME NEW d \in Clients, PollInertReady(d)
      PROVE  ~closed /\ wants[c] \in Nat \ {0} /\ wants[c] <= permits
  <2>1. c = d
    BY <1>1, <1>4 DEF PollInertReady
  <2>2. Taken(wants[c]) = wants[c] /\ wants[c] <= permits /\ ~closed
    BY <1>1, <1>4, <2>1 DEF PollInertReady, Taken
  <2>3. held'[c] = held[c] + wants[c]
    BY <1>1, <1>4, <2>1, <2>2 DEF PollInertReady
  <2>4. QED
    BY <1>1, <2>2, <2>3
<1>5. ASSUME NEW d \in Clients, DropPermit(d) \/ ForgetPermit(d) PROVE FALSE
  BY <1>1, <1>5 DEF DropPermit, ForgetPermit
<1>6. held' # held
  BY <1>1
<1>7. QED
  BY <1>2, <1>3, <1>4, <1>5, <1>6
     DEF Next, AddPermits, RemovePermits, Close, Acquire, Poll, PollClosed,
         PollInertEnqueue, PollWaiting, DropAcquire, LeakAcquire

\* While futures wait, nobody obtains permits but a future that add_permits
\* has served.
THEOREM NobodyBarges == Spec => NoBarging
<1> DEFINE Step == \A c \in Clients :
                     waiters # <<>> /\ held'[c] > held[c] => state[c] = "woken"
<1>1. IInv /\ [Next]_vars => [Step]_vars
  <2> SUFFICES ASSUME IInv, Next, NEW c \in Clients,
                      waiters # <<>>, held'[c] > held[c]
               PROVE  state[c] = "woken"
    OBVIOUS
  <2>1. permits = 0
    BY DEF IInv, NoIdlePermits
  <2>2. state[c] = "woken" \/ \E n \in Nat \ {0} : n <= permits
    BY Gains
  <2>3. QED
    BY <2>1, <2>2
<1>2. QED
  BY <1>1, Inductive, PTL DEF Spec, NoBarging

\* A closed semaphore stays closed, keeps nobody waiting and hands out nothing.
THEOREM CloseIsFinal == Spec => ClosedIsFinal
<1> DEFINE Step == closed => /\ closed' /\ waiters' = <<>>
                             /\ \A c \in Clients : held'[c] <= held[c]
<1>1. IInv /\ IInv' /\ [Next]_vars => [Step]_vars
  <2> SUFFICES ASSUME IInv, IInv', Next, closed
               PROVE  /\ closed' /\ waiters' = <<>>
                      /\ \A c \in Clients : held'[c] <= held[c]
    OBVIOUS
  <2>1. closed'
    BY DEF Next, AddPermits, RemovePermits, Close, TryAcquire, Acquire, Poll,
           PollClosed, PollWoken, PollInertReady, PollInertEnqueue, PollWaiting,
           DropAcquire, LeakAcquire, DropPermit, ForgetPermit
  <2>2. waiters' = <<>>
    BY <2>1 DEF IInv, NoneWaitsClosed
  <2>3. ASSUME NEW c \in Clients PROVE held'[c] <= held[c]
    <3>1. held[c] \in Int /\ held'[c] \in Int
      BY SemaphoreAssumption DEF IInv, TypeOK
    <3>2. ~(held'[c] > held[c])
      BY Gains
    <3>3. QED
      BY <3>1, <3>2
  <2>4. QED
    BY <2>1, <2>2, <2>3
<1>2. QED
  BY <1>1, Inductive, PTL DEF Spec, ClosedIsFinal

-----------------------------------------------------------------------------
(* The wakeups.  The waker is stored once, when the future is enqueued, so *)
(* they reach the last poll only if the future always gets the same waker. *)

OneWaker == \A v, w \in Wakers : v = w

SleepsWith(c) ==
    /\ state[c] = "waiting" => /\ outcome[c] = "pending"
                               /\ waker[c] \in Wakers /\ poller[c] \in Wakers
    /\ outcome[c] = "pending" => state[c] \in {"waiting", "woken"}
    /\ outcome[c] = "pending" /\ state[c] = "woken" => notified[c]

Sleeping == \A c \in Clients : SleepsWith(c)

\* Serving a queue wakes whom it completes.
LEMMA ServeWakes ==
    ASSUME OneWaker, TypeOK, Sleeping, NEW w, Queue(w), NEW n \in Nat,
           NEW c \in Clients,
           state'[c] = StateAfter(w, n)[c], outcome'[c] = outcome[c],
           waker'[c] = waker[c], poller'[c] = poller[c],
           notified'[c] = Wake(Completed(w, n))[c]
    PROVE  SleepsWith(c)'
<1>1. SleepsWith(c)
  BY DEF Sleeping
<1>2. CASE c \in Completed(w, n)
  <2>1. PICK i \in 1..Served(w, n) : w[i] = c
    BY <1>2 DEF Completed, FirstOf
  <2>2. i \in 1..Len(w)
    BY ServedType DEF Queue
  <2>3. state[c] = "waiting"
    BY <2>1, <2>2 DEF Queue
  <2>4. outcome[c] = "pending" /\ waker[c] = poller[c]
    BY <1>1, <2>3 DEF SleepsWith, OneWaker
  <2>5. state'[c] = "woken" /\ notified'[c]
    BY <1>2, <2>4 DEF StateAfter, Wake
  <2>6. QED
    BY <2>4, <2>5 DEF SleepsWith
<1>3. CASE c \notin Completed(w, n)
  <2>1. state'[c] = state[c] /\ (notified[c] => notified'[c])
    BY <1>3 DEF StateAfter, Wake
  <2>2. QED
    BY <1>1, <2>1 DEF SleepsWith
<1>4. QED
  BY <1>2, <1>3

LEMMA NextSleeping ==
    ASSUME OneWaker, IInv, Sleeping, [Next]_vars
    PROVE  Sleeping'
<1> USE SemaphoreAssumption
<1> SUFFICES ASSUME NEW c \in Clients PROVE SleepsWith(c)'
  BY DEF Sleeping
<1>1. /\ TypeOK /\ Queue(waiters) /\ SleepsWith(c)
      /\ Requests \cup Amounts \subseteq Nat
  BY WaitersQueue DEF IInv, Sleeping
<1>2. \A d \in Clients : held[d] \in Nat /\ assigned[d] \in Nat
  BY <1>1 DEF TypeOK
<1> USE DEF SleepsWith
<1>3. ASSUME NEW n \in Amounts, AddPermits(n) PROVE SleepsWith(c)'
  <2>1. /\ state'[c] = StateAfter(waiters, n)[c] /\ outcome'[c] = outcome[c]
        /\ waker'[c] = waker[c] /\ poller'[c] = poller[c]
        /\ notified'[c] = Wake(Completed(waiters, n))[c]
    BY <1>3 DEF AddPermits
  <2>2. QED
    BY <1>1, <2>1, ServeWakes
<1>4. ASSUME NEW d \in Clients, DropPermit(d) PROVE SleepsWith(c)'
  <2> DEFINE n == held[d]
  <2>1. /\ state'[c] = StateAfter(waiters, n)[c] /\ outcome'[c] = outcome[c]
        /\ waker'[c] = waker[c] /\ poller'[c] = poller[c]
        /\ notified'[c] = Wake(Completed(waiters, n))[c]
    BY <1>4 DEF DropPermit
  <2>2. n \in Nat
    BY <1>2
  <2> HIDE DEF n
  <2>3. QED
    BY <1>1, <2>1, <2>2, ServeWakes
<1>5. ASSUME NEW d \in Clients, DropAcquire(d) PROVE SleepsWith(c)'
  <2> DEFINE w == WaitersWithout(d)
             n == assigned[d]
  <2>1. CASE c = d
    BY <1>1, <1>5, <2>1 DEF DropAcquire, TypeOK, StateAfter
  <2>2. CASE c # d
    <3>1. /\ state'[c] = StateAfter(w, n)[c] /\ outcome'[c] = outcome[c]
          /\ waker'[c] = waker[c] /\ poller'[c] = poller[c]
          /\ notified'[c] = Wake(Completed(w, n))[c]
      BY <1>1, <1>5, <2>2 DEF DropAcquire, Unused, TypeOK, StateAfter, Wake
    <3>2. n \in Nat /\ Queue(w)
      BY <1>2, <1>5, WaitersWithoutQueue
    <3> HIDE DEF n, w
    <3>3. QED
      BY <1>1, <3>1, <3>2, ServeWakes
  <2>3. QED
    BY <2>1, <2>2
<1>6. ASSUME Close PROVE SleepsWith(c)'
  <2>1. CASE c \in FirstOf(waiters, Len(waiters))
    <3>1. state[c] = "waiting"
      BY <1>1, <2>1 DEF FirstOf, Queue
    <3>2. outcome[c] = "pending" /\ waker[c] = poller[c]
      BY <1>1, <3>1 DEF OneWaker
    <3>3. QED
      BY <1>6, <2>1, <3>2 DEF Close, Wake
  <2>2. CASE c \notin FirstOf(waiters, Len(waiters))
    BY <1>1, <1>6, <2>2 DEF Close, Wake
  <2>3. QED
    BY <2>1, <2>2
<1>7. ASSUME NEW d \in Clients, NEW n \in Requests, Acquire(d, n)
      PROVE  SleepsWith(c)'
  BY <1>1, <1>7 DEF Acquire, observed, TypeOK
<1>8. ASSUME NEW d \in Clients,
             \/ PollClosed(d) \/ PollWoken(d) \/ PollInertReady(d)
      PROVE  SleepsWith(c)'
  <2>1. state'[d] = "woken" /\ outcome'[d] \in {"ok", "err"} /\ waker' = waker
    BY <1>1, <1>8 DEF PollClosed, PollWoken, PollInertReady, Resolve, TypeOK
  <2>2. c # d => /\ state'[c] = state[c] /\ outcome'[c] = outcome[c]
                 /\ poller'[c] = poller[c] /\ notified'[c] = notified[c]
    BY <1>1, <1>8 DEF PollClosed, PollWoken, PollInertReady, Resolve, TypeOK
  <2>3. QED
    BY <1>1, <2>1, <2>2
<1>9. ASSUME NEW d \in Clients, NEW v \in Wakers,
             PollInertEnqueue(d, v) \/ PollWaiting(d, v)
      PROVE  SleepsWith(c)'
  <2>1. c # d => /\ state'[c] = state[c] /\ outcome'[c] = outcome[c]
                 /\ poller'[c] = poller[c] /\ notified'[c] = notified[c]
                 /\ waker'[c] = waker[c]
    BY <1>1, <1>9 DEF PollInertEnqueue, PollWaiting, Suspend, TypeOK, future
  <2>2. /\ state'[d] = "waiting" /\ outcome'[d] = "pending"
        /\ poller'[d] \in Wakers
    BY <1>1, <1>9 DEF PollInertEnqueue, PollWaiting, Suspend, TypeOK, future
  <2>3. waker'[d] \in Wakers
    <3>1. CASE PollInertEnqueue(d, v)
      BY <1>1, <3>1 DEF PollInertEnqueue, TypeOK
    <3>2. CASE PollWaiting(d, v)
      BY <1>1, <3>2 DEF PollWaiting, Sleeping, future
    <3>3. QED
      BY <1>9, <3>1, <3>2
  <2>4. QED
    BY <1>1, <2>1, <2>2, <2>3
<1>10. ASSUME UNCHANGED <<future, observed>> PROVE SleepsWith(c)'
  BY <1>1, <1>10 DEF future, observed
<1>11. QED
  BY <1>3, <1>4, <1>5, <1>6, <1>7, <1>8, <1>9, <1>10
     DEF Next, Poll, vars, RemovePermits, TryAcquire, LeakAcquire, ForgetPermit

\* A future polled with one waker only is woken when its request is completed
\* or refused.
THEOREM WakeupReaches ==
    ASSUME OneWaker
    PROVE  Spec => []WakeupDelivered
<1>1. Init => Sleeping
  BY DEF Init, Sleeping, SleepsWith
<1>2. IInv /\ Sleeping /\ [Next]_vars => Sleeping'
  BY NextSleeping
<1>3. Sleeping => WakeupDelivered
  BY DEF Sleeping, SleepsWith, WakeupDelivered
<1>4. QED
  BY <1>1, <1>2, <1>3, Inductive, PTL DEF Spec
-----------------------------------------------------------------------------
(* Futures are served in the order of their first poll: no action moves a  *)
(* waiting future past another one.                                        *)

(* Places in the queue.                                                    *)

\* Nobody is before himself, so not two before each other.
LEMMA NotBoth ==
    ASSUME IInv, NEW c, NEW d, Before(c, d)
    PROVE  ~Before(d, c)
<1>1. Distinct(waiters) /\ Len(waiters) \in Nat
  BY WaitersQueue DEF Queue
<1>2. PICK i \in 1..Len(waiters), j \in 1..Len(waiters) :
        i < j /\ waiters[i] = c /\ waiters[j] = d
  BY DEF Before
<1>3. ASSUME NEW k \in 1..Len(waiters), NEW m \in 1..Len(waiters),
             k < m, waiters[k] = d, waiters[m] = c
      PROVE  FALSE
  <2>1. k = j /\ m = i
    BY <1>1, <1>2, <1>3 DEF Distinct
  <2> QED
    BY <1>2, <1>3, <2>1
<1> QED
  BY <1>3 DEF Before

LEMMA BeforeWaits ==
    ASSUME IInv, NEW c \in Clients, NEW d \in Clients, Before(c, d)
    PROVE  state[c] = "waiting" /\ state[d] = "waiting"
BY DEF IInv, QueueExact, Before

-----------------------------------------------------------------------------
\* What a step keeps of the order: who waits before and after it does so in the
\* same order, who joins is behind everybody else, and who is served was not
\* behind one who waits on.
InOrder ==
    /\ \A c, d \in Clients :
         /\ state[c] = "waiting" /\ state[d] = "waiting" /\ Before(c, d)'
              => Before(c, d)
         /\ Before(c, d) /\ state'[c] = "waiting" => state'[d] # "woken"
    /\ \A c, d \in Clients :
         state[c] = "waiting" /\ state'[c] = "waiting" =>
           (state[d] # "waiting" /\ state'[d] = "waiting" => Before(c, d)')

LEMMA OrderedStep ==
    ASSUME IInv, IInv', InOrder, NEW c \in Clients, NEW d \in Clients, c # d,
           state[c] = "waiting", state'[c] = "waiting"
    PROVE  /\ Before(c, d) => state'[d] # "woken"
           /\ ~Before(d, c) /\ state'[d] = "waiting" => Before(c, d)'
<1>1. Before(c, d) => state'[d] # "woken"
  BY DEF InOrder
<1>2. ASSUME ~Before(d, c), state'[d] = "waiting"
      PROVE  Before(c, d)'
  <2>1. CASE state[d] = "waiting"
    <3>1. Before(c, d)' \/ Before(d, c)'
      <4>1. PICK i \in 1..Len(waiters') : waiters'[i] = c
        BY DEF IInv, QueueExact
      <4>2. PICK j \in 1..Len(waiters') : waiters'[j] = d
        BY <1>2 DEF IInv, QueueExact
      <4>3. i < j \/ j < i
        BY <4>1, <4>2
      <4> QED
        BY <4>1, <4>2, <4>3 DEF Before
    <3> QED
      BY <1>2, <2>1, <3>1 DEF InOrder
  <2>2. CASE state[d] # "waiting"
    BY <1>2, <2>2 DEF InOrder
  <2> QED
    BY <2>1, <2>2
<1> QED
  BY <1>1, <1>2

\* Serving a queue in order.
LEMMA ServeInOrder ==
    ASSUME IInv, NEW w, NEW n, NEW X, ServeStep(w, n, X),
           \A i, j \in 1..Len(w) : i < j => Before(w[i], w[j])
    PROVE  InOrder
<1> DEFINE K == Served(w, n)
<1> USE DEF ServeStep
<1>1. /\ TypeOK
      /\ Len(w) \in Nat /\ K \in 0..Len(w)
      /\ \A i \in 1..Len(w) : w[i] \in Clients
  BY ServedType DEF IInv, Queue
<1>2. \A i \in 1..Len(waiters') : K + i \in 1..Len(w) /\ waiters'[i] = w[K + i]
  BY <1>1, WaitersAfterType
<1>3. /\ \A i \in 1..Len(w) : i <= K => StateAfter(w, n)[w[i]] = "woken"
      /\ \A i \in 1..Len(w) : i > K => StateAfter(w, n)[w[i]] = "waiting"
  BY <1>1, AfterValues
<1>4. \A d \in Clients :
        state'[d] = "waiting" => state[d] = "waiting" /\ d \notin X
  BY DEF StateAfter
<1> HIDE DEF K
<1>5. ASSUME NEW c \in Clients, NEW d \in Clients, Before(c, d)'
      PROVE  Before(c, d)
  <2>1. PICK i \in 1..Len(waiters'), j \in 1..Len(waiters') :
          i < j /\ waiters'[i] = c /\ waiters'[j] = d
    BY <1>5 DEF Before
  <2>2. /\ K + i \in 1..Len(w) /\ w[K + i] = c
        /\ K + j \in 1..Len(w) /\ w[K + j] = d
    BY <1>2, <2>1
  <2>3. K + i < K + j
    BY <1>1, <2>1
  <2> QED
    BY <2>2, <2>3
<1>6. ASSUME NEW c \in Clients, NEW d \in Clients,
             Before(c, d), state'[c] = "waiting", state'[d] = "woken"
      PROVE  FALSE
  <2>1. state[c] = "waiting" /\ state[d] = "waiting" /\ c \notin X /\ d \notin X
    BY <1>4, <1>6, BeforeWaits
  <2>2. PICK i \in 1..Len(w) : w[i] = c
    BY <2>1
  <2>3. PICK j \in 1..Len(w) : w[j] = d
    BY <2>1
  <2>4. StateAfter(w, n)[c] = "waiting" /\ StateAfter(w, n)[d] = "woken"
    BY <1>6, <2>1
  <2>5. i > K /\ j <= K
    BY <1>1, <1>3, <2>2, <2>3, <2>4
  <2>6. j < i
    BY <1>1, <2>5
  <2>7. Before(d, c)
    BY <2>2, <2>3, <2>6
  <2> QED
    BY <1>6, <2>7, NotBoth
<1> QED
  BY <1>4, <1>5, <1>6 DEF InOrder

LEMMA SameQueueInOrder ==
    ASSUME IInv
    PROVE  \A i, j \in 1..Len(waiters) : i < j => Before(waiters[i], waiters[j])
BY DEF Before

LEMMA WithoutInOrder ==
    ASSUME IInv, NEW c \in Clients
    PROVE  \A i, j \in 1..Len(WaitersWithout(c)) :
             i < j => Before(WaitersWithout(c)[i], WaitersWithout(c)[j])
<1>1. CASE state[c] # "waiting"
  BY <1>1 DEF WaitersWithout, Before
<1>2. CASE state[c] = "waiting"
  <2> DEFINE w == WaitersWithout(c)
  <2>1. Len(waiters) \in Nat
    BY WaitersQueue DEF Queue
  <2>2. PICK p \in 1..Len(waiters) :
          /\ Len(w) = Len(waiters) - 1
          /\ \A i \in 1..Len(w) : w[i] = waiters[IF i < p THEN i ELSE i + 1]
    BY <1>2, LeavesPlace
  <2> HIDE DEF w
  <2>3. ASSUME NEW i \in 1..Len(w), NEW j \in 1..Len(w), i < j
        PROVE  Before(w[i], w[j])
    <3> DEFINE a == IF i < p THEN i ELSE i + 1
               b == IF j < p THEN j ELSE j + 1
    <3>1. a \in 1..Len(waiters) /\ b \in 1..Len(waiters) /\ a < b
      BY <2>1, <2>2, <2>3
    <3>2. w[i] = waiters[a] /\ w[j] = waiters[b]
      BY <2>2
    <3> HIDE DEF a, b
    <3> QED
      BY <3>1, <3>2 DEF Before
  <2> QED
    BY <2>3 DEF w
<1> QED
  BY <1>1, <1>2

-----------------------------------------------------------------------------
(* Every call keeps the order.                                             *)

LEMMA AddPermitsInOrder ==
    ASSUME IInv, NEW n \in Amounts, AddPermits(n)
    PROVE  InOrder
<1>1. Queue(waiters) /\ n \in Nat
  BY WaitersQueue, SemaphoreAssumption
<1>2. \A d \in Clients :
        (\E i \in 1..Len(waiters) : waiters[i] = d) <=> state[d] = "waiting"
  BY DEF IInv, QueueExact
<1>3. ServeStep(waiters, n, {})
  BY <1>1, <1>2 DEF AddPermits, ServeStep
<1> QED
  BY <1>3, ServeInOrder, SameQueueInOrder

LEMMA DropPermitInOrder ==
    ASSUME IInv, NEW c \in Clients, DropPermit(c)
    PROVE  InOrder
<1> DEFINE n == held[c]
<1>1. Queue(waiters) /\ n \in Nat
  BY WaitersQueue, SemaphoreAssumption DEF IInv, TypeOK
<1>2. \A d \in Clients :
        (\E i \in 1..Len(waiters) : waiters[i] = d) <=> state[d] = "waiting"
  BY DEF IInv, QueueExact
<1>3. \A d \in Clients : held'[d] \in {held[d], 0}
  BY DEF IInv, TypeOK, DropPermit
<1>4. ServeStep(waiters, n, {})
  BY <1>1, <1>2, <1>3 DEF DropPermit, ServeStep
<1> HIDE DEF n
<1> QED
  BY <1>4, ServeInOrder, SameQueueInOrder

LEMMA DropAcquireInOrder ==
    ASSUME IInv, NEW c \in Clients, DropAcquire(c)
    PROVE  InOrder
<1> DEFINE w == WaitersWithout(c)
           n == assigned[c]
<1>1. n \in Nat
  BY SemaphoreAssumption DEF IInv, TypeOK
<1>2. /\ permits' = PermitsAfter(w, n)
      /\ waiters' = WaitersAfter(w, n)
      /\ state' = [StateAfter(w, n) EXCEPT ![c] = "absent"]
      /\ assigned' = [AssignedAfter(w, n) EXCEPT ![c] = 0]
      /\ wants' = [wants EXCEPT ![c] = 0]
      /\ held' = held
  BY DEF DropAcquire, Unused
<1> HIDE DEF n
<1>3. /\ Queue(w)
      /\ \A d \in Clients :
           (\E i \in 1..Len(w) : w[i] = d) <=> state[d] = "waiting" /\ d # c
      /\ w # <<>> => waiters # <<>>
  BY WaitersWithoutQueue
<1>4. \A i, j \in 1..Len(w) : i < j => Before(w[i], w[j])
  BY WithoutInOrder
<1> HIDE DEF w
<1>5. /\ StateAfter(w, n) \in [Clients -> {"absent", "inert", "waiting", "woken"}]
      /\ AssignedAfter(w, n) \in [Clients -> 0..UsizeMax]
      /\ wants \in [Clients -> 0..UsizeMax]
  BY <1>1, <1>3, AfterType DEF IInv, TypeOK
<1>6. /\ \A d \in Clients \ {c} : /\ state'[d] = StateAfter(w, n)[d]
                                 /\ assigned'[d] = AssignedAfter(w, n)[d]
                                 /\ wants'[d] = wants[d]
      /\ state'[c] = "absent" /\ assigned'[c] = 0 /\ wants'[c] = 0
  BY <1>2, <1>5
<1>7. ServeStep(w, n, {c})
  BY <1>1, <1>2, <1>3, <1>6 DEF ServeStep
<1> QED
  BY <1>4, <1>7, ServeInOrder

LEMMA CloseInOrder ==
    ASSUME IInv, Close
    PROVE  InOrder
<1>1. \A d \in Clients : state'[d] # "waiting"
  BY DEF IInv, Close, QueueExact, FirstOf
<1>2. Len(waiters') = 0
  BY DEF Close
<1>3. \A c, d : ~Before(c, d)'
  BY <1>2 DEF Before
<1> QED
  BY <1>1, <1>3 DEF InOrder

\* The future joins behind all that wait.
LEMMA PollInertEnqueueInOrder ==
    ASSUME IInv, NEW c \in Clients, NEW v \in Wakers, PollInertEnqueue(c, v)
    PROVE  InOrder
<1>1. /\ waiters \in Seq(Clients) /\ waiters' = Append(waiters, c)
      /\ state[c] = "inert" /\ state' = [state EXCEPT ![c] = "waiting"]
      /\ state \in [Clients -> {"absent", "inert", "waiting", "woken"}]
  BY DEF IInv, TypeOK, PollInertEnqueue, PushBack
<1> DEFINE k == Len(waiters)
<1>2. /\ k \in Nat /\ Len(waiters') = k + 1
      /\ \A i \in 1..k : waiters'[i] = waiters[i]
      /\ waiters'[k + 1] = c
  BY <1>1, AppendProperties
<1>3. \A d \in Clients : state[d] = "waiting" <=> \E i \in 1..k : waiters[i] = d
  BY DEF IInv, QueueExact
<1> HIDE DEF k
<1>4. ASSUME NEW d \in Clients, NEW e \in Clients,
             state[d] = "waiting", state[e] = "waiting", Before(d, e)'
      PROVE  Before(d, e)
  <2>1. PICK i \in 1..(k + 1), j \in 1..(k + 1) :
          i < j /\ waiters'[i] = d /\ waiters'[j] = e
    BY <1>2, <1>4 DEF Before
  <2>2. e # c
    BY <1>1, <1>4
  <2>3. j # k + 1
    BY <1>2, <2>1, <2>2
  <2>4. i \in 1..k /\ j \in 1..k
    BY <1>2, <2>1, <2>3
  <2> QED
    BY <1>2, <2>1, <2>4 DEF Before, k
<1>5. ASSUME NEW d \in Clients, NEW e \in Clients, Before(d, e)
      PROVE  state'[e] # "woken"
  BY <1>1, <1>5, BeforeWaits
<1>6. ASSUME NEW d \in Clients, NEW e \in Clients, state[d] = "waiting",
             state[e] # "waiting", state'[e] = "waiting"
      PROVE  Before(d, e)'
  <2>1. e = c
    BY <1>1, <1>6
  <2>2. PICK i \in 1..k : waiters[i] = d
    BY <1>3, <1>6
  <2>3. /\ i \in 1..Len(waiters') /\ k + 1 \in 1..Len(waiters') /\ i < k + 1
        /\ waiters'[i] = d /\ waiters'[k + 1] = e
    BY <1>2, <2>1, <2>2
  <2> QED
    BY <2>3 DEF Before
<1> QED
  BY <1>4, <1>5, <1>6 DEF InOrder

\* The calls that leave the queue alone.
LEMMA QuietInOrder ==
    ASSUME IInv, UNCHANGED waiters,
           \A d \in Clients : state'[d] = "waiting" <=> state[d] = "waiting"
    PROVE  InOrder
<1>1. \A c, d \in Clients : Before(c, d)' <=> Before(c, d)
  BY DEF Before
<1> QED
  BY <1>1, BeforeWaits DEF InOrder

LEMMA PollInOrder ==
    ASSUME IInv, NEW c \in Clients, NEW v \in Wakers, Poll(c, v)
    PROVE  InOrder
<1>1. state \in [Clients -> {"absent", "inert", "waiting", "woken"}]
  BY DEF IInv, TypeOK
<1>2. CASE PollClosed(c)
  <2>1. waiters = <<>>
    BY <1>2 DEF IInv, NoneWaitsClosed, PollClosed
  <2>2. state[c] # "waiting"
    BY <2>1 DEF IInv, QueueExact
  <2> QED
    BY <1>1, <1>2, <2>2, QuietInOrder DEF PollClosed, Resolve
<1>3. CASE PollWoken(c) \/ PollInertReady(c)
  <2>1. /\ state[c] # "waiting" /\ UNCHANGED waiters
        /\ state' = [state EXCEPT ![c] = "woken"]
    BY <1>3 DEF PollWoken, PollInertReady, Resolve
  <2> QED
    BY <1>1, <2>1, QuietInOrder
<1>4. CASE PollInertEnqueue(c, v)
  BY <1>4, PollInertEnqueueInOrder
<1>5. CASE PollWaiting(c, v)
  BY <1>5, QuietInOrder DEF PollWaiting, future
<1> QED
  BY <1>2, <1>3, <1>4, <1>5 DEF Poll

LEMMA NextInOrder ==
    ASSUME IInv, Next
    PROVE  InOrder
<1>1. CASE \E n \in Amounts : AddPermits(n)
  BY <1>1, AddPermitsInOrder
<1>2. CASE Close
  BY <1>2, CloseInOrder
<1>3. CASE \E c \in Clients, v \in Wakers : Poll(c, v)
  BY <1>3, PollInOrder
<1>4. CASE \E c \in Clients : DropAcquire(c)
  BY <1>4, DropAcquireInOrder
<1>5. CASE \E c \in Clients : DropPermit(c)
  BY <1>5, DropPermitInOrder
<1>6. CASE \E c \in Clients, n \in Requests : Acquire(c, n)
  <2>1. state \in [Clients -> {"absent", "inert", "waiting", "woken"}]
    BY DEF IInv, TypeOK
  <2> QED
    BY <1>6, <2>1, QuietInOrder DEF Acquire
<1>7. CASE \/ \E n \in Amounts : RemovePermits(n)
           \/ \E c \in Clients, n \in Requests : TryAcquire(c, n)
           \/ \E c \in Clients : LeakAcquire(c) \/ ForgetPermit(c)
  BY <1>7, QuietInOrder
     DEF RemovePermits, TryAcquire, LeakAcquire, ForgetPermit, future
<1> QED
  BY <1>1, <1>2, <1>3, <1>4, <1>5, <1>6, <1>7 DEF Next

\* First come, first served: while a future waits, nobody behind it is granted its
\* request, and nobody joins or moves ahead of it, whatever the others ask for,
\* cancel or leak.
THEOREM FirstComeFirstServed == Spec => FifoGrants
<1> DEFINE Step == \A c, d \in Clients :
                     c # d /\ state[c] = "waiting" /\ state'[c] = "waiting" =>
                       /\ Before(c, d) => state'[d] # "woken"
                       /\ ~Before(d, c) /\ state'[d] = "waiting" => Before(c, d)'
<1>1. IInv /\ IInv' /\ [Next]_vars => [Step]_vars
  BY NextInOrder, OrderedStep
<1> QED
  BY <1>1, Inductive, PTL DEF Spec, FifoGrants
=============================================================================
