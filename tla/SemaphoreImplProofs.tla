-------------------------- MODULE SemaphoreImplProofs --------------------------
(***************************************************************************)
(* Proofs about SemaphoreImpl: its list is well formed, its loops end where*)
(* Semaphore begins, and so every theorem on Semaphore is one on the       *)
(* pointers, for every set of clients and every width of usize.            *)
(***************************************************************************)
EXTENDS SemaphoreImpl, SumsTheorems, SequenceTheorems, FiniteSetTheorems, TLAPS

-----------------------------------------------------------------------------
(* Walks.  A walk is computed recursively; what it computes is found by    *)
(* exhibiting a sequence that is linked in this way.                       *)

Distinct(w) == \A i, j \in 1..Len(w) : w[i] = w[j] => i = j

\* The pointers lead from c through w and to Null behind it.
Chain(pointer, c, w) ==
    /\ w \in Seq(Clients)
    /\ Distinct(w)
    /\ c = IF Len(w) = 0 THEN Null ELSE w[1]
    /\ \A i \in 1..Len(w) : pointer[w[i]] = IF i = Len(w) THEN Null ELSE w[i+1]

LEMMA UpTo ==
    ASSUME NEW n \in Nat
    PROVE  Cardinality(1..n) = n
<1>1. Cardinality(1..n) = IF 1 > n THEN 0 ELSE n - 1 + 1
  BY FS_Interval
<1> QED
  BY <1>1

LEMMA DistinctFits ==
    ASSUME NEW w \in Seq(Clients), Distinct(w)
    PROVE  Len(w) \in Nat /\ Cardinality(Clients) \in Nat /\ Len(w) <= Cardinality(Clients)
<1>1. w \in [1..Len(w) -> Clients] /\ Len(w) \in Nat
  BY LenProperties
<1>2. w \in Injection(1..Len(w), Clients)
  BY <1>1 DEF Distinct, Injection, IsInjective
<1>3. Cardinality(1..Len(w)) <= Cardinality(Clients)
  BY <1>2, ImplAssumption, FS_Injection
<1>4. Cardinality(1..Len(w)) = Len(w)
  BY <1>1, UpTo
<1> QED
  BY <1>1, <1>3, <1>4, ImplAssumption, FS_CardinalityType

\* A walk along a chain visits the chain and then Null.
LEMMA WalkChain ==
    ASSUME NEW pointer, NEW c, NEW w, Chain(pointer, c, w)
    PROVE  Walk(pointer, c) =
             [i \in 1..Cardinality(Clients) |-> IF i <= Len(w) THEN w[i] ELSE Null]
<1> DEFINE N == Cardinality(Clients)
           next_(i, f) == IF i = 1 THEN c ELSE IF f[i-1] = Null THEN Null ELSE pointer[f[i-1]]
           Equation(f) == f = [i \in 1..N |-> next_(i, f)]
           f == Walk(pointer, c)
           g == [i \in 1..N |-> IF i <= Len(w) THEN w[i] ELSE Null]
<1>1. Len(w) \in Nat /\ N \in Nat /\ Len(w) <= N
  BY DistinctFits DEF Chain
<1>2. \A i \in 1..Len(w) : w[i] \in Clients /\ w[i] # Null
  BY ImplAssumption DEF Chain
<1> HIDE DEF N
<1>3. Equation(g)
  <2>1. ASSUME NEW i \in 1..N PROVE g[i] = next_(i, g)
    <3>1. CASE i = 1
      BY <1>1, <3>1 DEF Chain
    <3>2. CASE i # 1 /\ i - 1 <= Len(w)
      <4>1. i - 1 \in 1..N /\ i - 1 \in 1..Len(w) /\ (i - 1) + 1 = i
        BY <1>1, <3>2
      <4>2. g[i-1] = w[i-1] /\ w[i-1] # Null
        BY <1>2, <4>1
      <4>3. pointer[w[i-1]] = IF i - 1 = Len(w) THEN Null ELSE w[i]
        BY <4>1 DEF Chain
      <4> QED
        BY <1>1, <3>2, <4>1, <4>2, <4>3
    <3>3. CASE i # 1 /\ i - 1 > Len(w)
      <4>1. i - 1 \in 1..N /\ ~(i <= Len(w))
        BY <1>1, <3>3
      <4> QED
        BY <1>1, <3>3, <4>1
    <3> QED
      BY <1>1, <3>1, <3>2, <3>3
  <2> QED
    BY <2>1
<1>4. Equation(f)
  <2>1. f = CHOOSE h : Equation(h)
    BY DEF Walk, N
  <2> HIDE DEF Equation, f, g
  <2> QED
    BY <1>3, <2>1
<1>5. f = [i \in 1..N |-> f[i]] /\ g = [i \in 1..N |-> g[i]]
  BY <1>4
<1>6. \A i \in 1..N : f[i] = next_(i, f) /\ g[i] = next_(i, g)
  <2> HIDE DEF f, g
  <2> QED
    BY <1>3, <1>4
<1> HIDE DEF f, g
<1>7. ASSUME NEW i \in 1..N, f[i] # g[i] PROVE FALSE
  <2> DEFINE Wrong == {j \in 1..N : f[j] # g[j]}
  <2>1. Wrong \in SUBSET Nat /\ Wrong # {}
    BY <1>1, <1>7
  <2>2. PICK m \in Wrong : \A k \in Wrong : m <= k
    BY <2>1, LeastElement
  <2>3. m \in 1..N /\ f[m] # g[m] /\ m # 1
    BY <1>6, <2>2
  <2>4. m - 1 \in 1..N /\ ~(m <= m - 1)
    BY <1>1, <2>3
  <2>5. f[m-1] = g[m-1]
    BY <2>2, <2>4
  <2> QED
    BY <1>6, <2>3, <2>5
<1>8. f = g
  BY <1>5, <1>7
<1> QED
  BY <1>8 DEF f, g, N

\* So what is read from the pointers is the chain.
LEMMA FollowChain ==
    ASSUME NEW pointer, NEW c, NEW w, Chain(pointer, c, w)
    PROVE  Follow(pointer, c) = w
<1> DEFINE N == Cardinality(Clients)
           f == Walk(pointer, c)
<1>1. Len(w) \in Nat /\ N \in Nat /\ Len(w) <= N
  BY DistinctFits DEF Chain
<1>2. w \in Seq(Clients) /\ \A i \in 1..Len(w) : w[i] \in Clients /\ w[i] # Null
  BY ImplAssumption DEF Chain
<1>3. f = [i \in 1..N |-> IF i <= Len(w) THEN w[i] ELSE Null]
  BY WalkChain
<1> HIDE DEF N, f
<1>4. {j \in 1..N : f[j] # Null} = 1..Len(w)
  BY <1>1, <1>2, <1>3
<1>5. Cardinality(1..Len(w)) = Len(w)
  BY <1>1, UpTo
<1>6. Follow(pointer, c) = [i \in 1..Len(w) |-> f[i]]
  BY <1>4, <1>5 DEF Follow, N, f
<1>7. \A i \in 1..Len(w) : f[i] = w[i]
  BY <1>1, <1>3
<1>8. w = [i \in 1..Len(w) |-> w[i]]
  BY <1>2
<1> QED
  BY <1>6, <1>7, <1>8
-----------------------------------------------------------------------------
(* Doubly linked lists: what WaiterQueue does to the pointers, on one side,*)
(* and to the sequence they stand for, on the other.                       *)

DoublyLinked(first, last, forth, back, w) ==
    /\ Chain(forth, first, w)
    /\ last = IF Len(w) = 0 THEN Null ELSE w[Len(w)]
    /\ \A i \in 1..Len(w) : back[w[i]] = IF i = 1 THEN Null ELSE w[i-1]

Pointers == [Clients -> Clients \cup {Null}]

LEMMA LinkedType ==
    ASSUME NEW first, NEW last, NEW forth, NEW back, NEW w,
           DoublyLinked(first, last, forth, back, w)
    PROVE  /\ w \in Seq(Clients)
           /\ Len(w) \in Nat
           /\ \A i \in 1..Len(w) : w[i] \in Clients /\ w[i] # Null
           /\ \A i, j \in 1..Len(w) : w[i] = w[j] => i = j
           /\ first = IF Len(w) = 0 THEN Null ELSE w[1]
           /\ last = IF Len(w) = 0 THEN Null ELSE w[Len(w)]
           /\ first = Null <=> Len(w) = 0
           /\ last = Null <=> Len(w) = 0
           /\ \A i \in 1..Len(w) :
                /\ forth[w[i]] = IF i = Len(w) THEN Null ELSE w[i+1]
                /\ back[w[i]] = IF i = 1 THEN Null ELSE w[i-1]
<1>1. w \in Seq(Clients) /\ Len(w) \in Nat
  BY DEF DoublyLinked, Chain
<1>2. \A i \in 1..Len(w) : w[i] \in Clients /\ w[i] # Null
  BY <1>1, ImplAssumption
<1> QED
  BY <1>1, <1>2 DEF DoublyLinked, Chain, Distinct

\* push_back
LEMMA AppendLinked ==
    ASSUME NEW first, NEW last, NEW forth \in Pointers, NEW back \in Pointers, NEW w,
           DoublyLinked(first, last, forth, back, w),
           NEW c \in Clients, \A i \in 1..Len(w) : w[i] # c,
           forth[c] = Null, back[c] = Null
    PROVE  DoublyLinked(IF last = Null THEN c ELSE first, c,
                        IF last = Null THEN forth ELSE [forth EXCEPT ![last] = c],
                        IF last = Null THEN back ELSE [back EXCEPT ![c] = last],
                        Append(w, c))
<1> DEFINE n == Len(w)
           u == Append(w, c)
           forth2 == IF last = Null THEN forth ELSE [forth EXCEPT ![last] = c]
           back2 == IF last = Null THEN back ELSE [back EXCEPT ![c] = last]
<1>1. /\ w \in Seq(Clients) /\ n \in Nat
      /\ \A i \in 1..n : w[i] \in Clients /\ w[i] # Null
      /\ \A i, j \in 1..n : w[i] = w[j] => i = j
      /\ first = IF n = 0 THEN Null ELSE w[1]
      /\ last = IF n = 0 THEN Null ELSE w[n]
      /\ last = Null <=> n = 0
      /\ \A i \in 1..n : /\ forth[w[i]] = IF i = n THEN Null ELSE w[i+1]
                         /\ back[w[i]] = IF i = 1 THEN Null ELSE w[i-1]
  BY LinkedType
<1>2. /\ u \in Seq(Clients) /\ Len(u) = n + 1 /\ u[n+1] = c
      /\ \A i \in 1..n : u[i] = w[i]
  BY <1>1, AppendProperties
<1>3. \A i \in 1..n : w[i] # c
  OBVIOUS
<1> HIDE DEF n, u
<1>4. \A i, j \in 1..(n+1) : u[i] = u[j] => i = j
  <2> SUFFICES ASSUME NEW i \in 1..(n+1), NEW j \in 1..(n+1), u[i] = u[j]
               PROVE  i = j
    OBVIOUS
  <2>1. i = n + 1 \/ i \in 1..n
    BY <1>1
  <2>2. j = n + 1 \/ j \in 1..n
    BY <1>1
  <2> QED
    BY <1>1, <1>2, <1>3, <2>1, <2>2
<1>5. (IF last = Null THEN c ELSE first) = u[1]
  BY <1>1, <1>2
<1>6. ASSUME NEW i \in 1..(n+1)
      PROVE  /\ forth2[u[i]] = IF i = n + 1 THEN Null ELSE u[i+1]
             /\ back2[u[i]] = IF i = 1 THEN Null ELSE u[i-1]
  <2>1. CASE n = 0
    BY <1>1, <1>2, <2>1
  <2>2. CASE n # 0 /\ i = n + 1
    <3>1. /\ last = w[n] /\ last # Null /\ n \in 1..n /\ last # c
          /\ u[i] = c /\ i # 1 /\ i - 1 = n /\ u[n] = w[n]
      BY <1>1, <1>2, <1>3, <2>2
    <3> QED
      BY <2>2, <3>1 DEF Pointers
  <2>3. CASE n # 0 /\ i \in 1..n
    <3>1. /\ last = w[n] /\ last # Null /\ n \in 1..n /\ last # c
          /\ u[i] = w[i] /\ w[i] # c /\ w[i] \in Clients
          /\ w[i] = last <=> i = n
      BY <1>1, <1>2, <1>3, <2>3
    <3>2. back2[u[i]] = back[w[i]]
      BY <3>1 DEF Pointers
    <3>3. i # 1 => u[i-1] = w[i-1]
      BY <1>1, <1>2, <2>3
    <3>4. CASE i = n
      BY <1>1, <1>2, <3>1, <3>2, <3>3, <3>4 DEF Pointers
    <3>5. CASE i # n
      <4>1. i + 1 \in 1..n
        BY <1>1, <2>3, <3>5
      <4>2. u[i+1] = w[i+1] /\ i # n + 1
        BY <1>1, <1>2, <2>3, <4>1
      <4>3. forth2[u[i]] = forth[w[i]]
        BY <3>1, <3>5 DEF Pointers
      <4> QED
        BY <1>1, <2>3, <3>2, <3>3, <3>5, <4>2, <4>3
    <3> QED
      BY <3>4, <3>5
  <2> QED
    BY <1>1, <2>1, <2>2, <2>3
<1>7. Len(u) # 0 /\ Len(u) = n + 1
  BY <1>1, <1>2
<1> HIDE DEF forth2, back2
<1>8. Chain(forth2, IF last = Null THEN c ELSE first, u)
  BY <1>2, <1>4, <1>5, <1>6, <1>7 DEF Chain, Distinct
<1>9. DoublyLinked(IF last = Null THEN c ELSE first, c, forth2, back2, u)
  BY <1>2, <1>6, <1>7, <1>8 DEF DoublyLinked
<1> QED
  BY <1>9 DEF forth2, back2, u

\* pop_front; the waiter that leaves keeps its own pointers.
LEMMA TailLinked ==
    ASSUME NEW first, NEW last, NEW forth \in Pointers, NEW back \in Pointers, NEW w,
           DoublyLinked(first, last, forth, back, w), first # Null
    PROVE  DoublyLinked(forth[first], IF forth[first] = Null THEN Null ELSE last, forth,
                        IF forth[first] = Null THEN back
                        ELSE [back EXCEPT ![forth[first]] = Null],
                        Tail(w))
<1> DEFINE n == Len(w)
           u == Tail(w)
           back2 == IF forth[first] = Null THEN back
                    ELSE [back EXCEPT ![forth[first]] = Null]
<1>1. /\ w \in Seq(Clients) /\ n \in Nat
      /\ \A i \in 1..n : w[i] \in Clients /\ w[i] # Null
      /\ \A i, j \in 1..n : w[i] = w[j] => i = j
      /\ first = w[1] /\ last = w[n] /\ n # 0
      /\ \A i \in 1..n : /\ forth[w[i]] = IF i = n THEN Null ELSE w[i+1]
                         /\ back[w[i]] = IF i = 1 THEN Null ELSE w[i-1]
  BY LinkedType
<1>2. u \in Seq(Clients) /\ Len(u) = n - 1 /\ \A i \in 1..(n-1) : u[i] = w[i+1]
  <2>1. w # <<>>
    BY <1>1
  <2> QED
    BY <1>1, <2>1, HeadTailProperties
<1> HIDE DEF n, u
<1>3. forth[first] = IF n = 1 THEN Null ELSE w[2]
  BY <1>1
<1>4. \A i \in 1..(n-1) : i + 1 \in 1..n /\ u[i] = w[i+1] /\ u[i] \in Clients
  BY <1>1, <1>2
<1>5. \A i, j \in 1..(n-1) : u[i] = u[j] => i = j
  <2> SUFFICES ASSUME NEW i \in 1..(n-1), NEW j \in 1..(n-1), u[i] = u[j]
               PROVE  i = j
    OBVIOUS
  <2>1. i + 1 = j + 1
    BY <1>1, <1>4
  <2> QED
    BY <1>1, <2>1
<1>6. ASSUME NEW i \in 1..(n-1)
      PROVE  /\ forth[u[i]] = IF i = n - 1 THEN Null ELSE u[i+1]
             /\ back2[u[i]] = IF i = 1 THEN Null ELSE u[i-1]
  <2>1. /\ forth[w[i+1]] = IF i + 1 = n THEN Null ELSE w[i+1+1]
        /\ back[w[i+1]] = w[i+1-1]
    <3>1. i + 1 \in 1..n /\ i + 1 # 1
      BY <1>1, <1>4
    <3> QED
      BY <1>1, <3>1
  <2>2. n # 1 /\ forth[first] = w[2] /\ 2 \in 1..n /\ w[2] # Null /\ w[2] \in Clients
    BY <1>1, <1>3
  <2>3. w[i+1] = w[2] <=> i = 1
    BY <1>1, <1>4, <2>2
  <2>4. i # n - 1 => u[i+1] = w[i+1+1]
    BY <1>1, <1>4
  <2>5. i # 1 => u[i-1] = w[i] /\ i + 1 - 1 = i
    BY <1>1, <1>4
  <2>6. back2[u[i]] = IF i = 1 THEN Null ELSE back[w[i+1]]
    BY <1>4, <2>2, <2>3 DEF Pointers
  <2>7. i = n - 1 <=> i + 1 = n
    BY <1>1
  <2> QED
    BY <1>4, <2>1, <2>4, <2>5, <2>6, <2>7
<1>7. forth[first] = IF n - 1 = 0 THEN Null ELSE u[1]
  BY <1>1, <1>2, <1>3
<1>8. (IF forth[first] = Null THEN Null ELSE last)
        = IF n - 1 = 0 THEN Null ELSE u[n-1]
  <2>1. n # 1 => 2 \in 1..n /\ n - 1 \in 1..(n-1) /\ n - 1 + 1 = n
    BY <1>1
  <2> QED
    BY <1>1, <1>2, <1>3, <2>1
<1> HIDE DEF back2
<1>9. Chain(forth, forth[first], u)
  BY <1>2, <1>5, <1>6, <1>7 DEF Chain, Distinct
<1>10. DoublyLinked(forth[first], IF forth[first] = Null THEN Null ELSE last, forth,
                    back2, u)
  BY <1>2, <1>6, <1>8, <1>9 DEF DoublyLinked
<1> QED
  BY <1>10 DEF back2, u
\* c forgets its pointer, and what pointed to c points to what c pointed to.
Skips(new, old, c, from, to) ==
    \A d \in Clients : new[d] = IF d = c THEN Null ELSE IF d = from THEN to ELSE old[d]

\* try_remove, on the pointers ...
Unlinks(c, first, last, forth, back, first2, last2, forth2, back2) ==
    /\ first2 = IF back[c] = Null THEN forth[c] ELSE first
    /\ last2 = IF forth[c] = Null THEN back[c] ELSE last
    /\ Skips(forth2, forth, c, back[c], forth[c])
    /\ Skips(back2, back, c, forth[c], back[c])

\* ... and on the sequence.
Leaves(p, w, u) ==
    /\ p \in 1..Len(w)
    /\ u \in Seq(Clients)
    /\ Len(u) = Len(w) - 1
    /\ \A i \in 1..Len(u) : u[i] = w[IF i < p THEN i ELSE i + 1]

LEMMA RemoveLinked ==
    ASSUME NEW first, NEW last, NEW forth \in Pointers, NEW back \in Pointers, NEW w,
           DoublyLinked(first, last, forth, back, w),
           NEW p, NEW u, Leaves(p, w, u),
           NEW first2, NEW last2, NEW forth2, NEW back2,
           Unlinks(w[p], first, last, forth, back, first2, last2, forth2, back2)
    PROVE  DoublyLinked(first2, last2, forth2, back2, u)
<1> DEFINE c == w[p]
<1>0. /\ p \in 1..Len(w) /\ u \in Seq(Clients) /\ Len(u) = Len(w) - 1
      /\ \A i \in 1..Len(u) : u[i] = w[IF i < p THEN i ELSE i + 1]
      /\ first2 = IF back[c] = Null THEN forth[c] ELSE first
      /\ last2 = IF forth[c] = Null THEN back[c] ELSE last
      /\ Skips(forth2, forth, c, back[c], forth[c])
      /\ Skips(back2, back, c, forth[c], back[c])
  BY DEF Unlinks, Leaves
<1> DEFINE n == Len(w)
           at(i) == IF i < p THEN i ELSE i + 1
<1>1. /\ w \in Seq(Clients) /\ n \in Nat
      /\ \A i \in 1..n : w[i] \in Clients /\ w[i] # Null
      /\ \A i, j \in 1..n : w[i] = w[j] => i = j
      /\ first = w[1] /\ last = w[n] /\ n # 0
      /\ \A i \in 1..n : /\ forth[w[i]] = IF i = n THEN Null ELSE w[i+1]
                         /\ back[w[i]] = IF i = 1 THEN Null ELSE w[i-1]
  <2>1. Len(w) # 0
    <3>1. Len(w) \in Nat
      BY LinkedType
    <3> QED
      BY <1>0, <3>1
  <2>2. /\ w \in Seq(Clients) /\ n \in Nat
        /\ \A i \in 1..n : w[i] \in Clients /\ w[i] # Null
        /\ \A i, j \in 1..n : w[i] = w[j] => i = j
        /\ first = IF n = 0 THEN Null ELSE w[1]
        /\ last = IF n = 0 THEN Null ELSE w[n]
        /\ \A i \in 1..n : /\ forth[w[i]] = IF i = n THEN Null ELSE w[i+1]
                           /\ back[w[i]] = IF i = 1 THEN Null ELSE w[i-1]
    BY ONLY LinkedType, DoublyLinked(first, last, forth, back, w)
  <2> QED
    BY <2>1, <2>2
<1>2. /\ p \in 1..n /\ c = w[p] /\ Len(u) = n - 1 /\ p \in Nat
      /\ u \in Seq(Clients)
  BY <1>0, <1>1
<1>3. \A i \in 1..(n-1) : at(i) \in (1..n) \ {p} /\ u[i] = w[at(i)]
  BY <1>0, <1>1, <1>2
<1>4. /\ forth[c] = IF p = n THEN Null ELSE w[p+1]
      /\ back[c] = IF p = 1 THEN Null ELSE w[p-1]
      /\ p # n => p + 1 \in 1..n
      /\ p # 1 => p - 1 \in 1..n
  BY <1>1, <1>2
<1>5. /\ forth[c] = Null <=> p = n
      /\ back[c] = Null <=> p = 1
  BY <1>1, <1>4
<1> HIDE DEF n, c
<1>6. \A i, j \in 1..(n-1) : u[i] = u[j] => i = j
  <2> SUFFICES ASSUME NEW i \in 1..(n-1), NEW j \in 1..(n-1), u[i] = u[j]
               PROVE  i = j
    OBVIOUS
  <2>1. at(i) = at(j)
    <3>1. at(i) \in 1..n /\ at(j) \in 1..n /\ w[at(i)] = w[at(j)]
      BY <1>3
    <3> HIDE DEF at
    <3> QED
      BY <1>1, <3>1
  <2> QED
    BY <1>1, <1>2, <2>1
<1>7. ASSUME NEW i \in 1..(n-1)
      PROVE  /\ u[i] \in Clients /\ u[i] # c
             /\ u[i] = back[c] <=> i = p - 1
             /\ u[i] = forth[c] <=> i = p
  <2>1. u[i] \in Clients /\ u[i] # c /\ u[i] # Null
    <3> DEFINE j == at(i)
    <3>1. j \in 1..n /\ j # p /\ u[i] = w[j]
      <4> HIDE DEF at
      <4> QED
        BY <1>3
    <3> HIDE DEF j
    <3>2. w[j] \in Clients /\ w[j] # Null
      BY <1>1, <3>1
    <3>3. w[j] # w[p]
      BY <1>1, <1>2, <3>1
    <3> QED
      BY <1>2, <3>1, <3>2, <3>3
  <2>2. u[i] = back[c] <=> i = p - 1
    <3>1. CASE p = 1
      BY <1>2, <1>5, <2>1, <3>1
    <3>2. CASE p # 1
      <4>1. u[i] = back[c] <=> at(i) = p - 1
        <5> HIDE DEF at
        <5> QED
          BY <1>1, <1>3, <1>4, <3>2
      <4> QED
        BY <1>2, <4>1
    <3> QED
      BY <3>1, <3>2
  <2>3. u[i] = forth[c] <=> i = p
    <3>1. CASE p = n
      BY <1>1, <1>2, <1>5, <2>1, <3>1
    <3>2. CASE p # n
      <4>1. u[i] = forth[c] <=> at(i) = p + 1
        <5> HIDE DEF at
        <5> QED
          BY <1>1, <1>3, <1>4, <3>2
      <4> QED
        BY <1>2, <4>1
    <3> QED
      BY <3>1, <3>2
  <2> QED
    BY <2>1, <2>2, <2>3
<1>8. ASSUME NEW i \in 1..(n-1)
      PROVE  /\ forth2[u[i]] = IF i = n - 1 THEN Null ELSE u[i+1]
             /\ back2[u[i]] = IF i = 1 THEN Null ELSE u[i-1]
  <2>1. /\ forth2[u[i]] = IF i = p - 1 THEN forth[c] ELSE forth[u[i]]
        /\ back2[u[i]] = IF i = p THEN back[c] ELSE back[u[i]]
    BY <1>0, <1>7 DEF Skips
  <2>2. /\ forth[u[i]] = IF at(i) = n THEN Null ELSE w[at(i)+1]
        /\ back[u[i]] = IF at(i) = 1 THEN Null ELSE w[at(i)-1]
    <3> HIDE DEF at
    <3> QED
      BY <1>1, <1>3
  <2>3. i # n - 1 => i + 1 \in 1..(n-1) /\ u[i+1] = w[at(i+1)]
    <3>1. i # n - 1 => i + 1 \in 1..(n-1)
      BY <1>1
    <3> HIDE DEF at
    <3> QED
      BY <1>3, <3>1
  <2>4. i # 1 => i - 1 \in 1..(n-1) /\ u[i-1] = w[at(i-1)]
    <3>1. i # 1 => i - 1 \in 1..(n-1)
      BY <1>1
    <3> HIDE DEF at
    <3> QED
      BY <1>3, <3>1
  <2>5. forth2[u[i]] = IF i = n - 1 THEN Null ELSE u[i+1]
    <3>1. CASE i = p - 1
      BY <1>1, <1>2, <1>4, <2>1, <2>3, <3>1
    <3>2. CASE i # p - 1
      <4>1. i # n - 1 => at(i+1) = at(i) + 1
        BY <1>1, <1>2, <3>2
      <4>2. at(i) = n <=> i = n - 1
        BY <1>1, <1>2, <3>2
      <4> QED
        BY <2>1, <2>2, <2>3, <3>2, <4>1, <4>2
    <3> QED
      BY <3>1, <3>2
  <2>6. back2[u[i]] = IF i = 1 THEN Null ELSE u[i-1]
    <3>1. CASE i = p
      BY <1>1, <1>2, <1>4, <2>1, <2>4, <3>1
    <3>2. CASE i # p
      <4>1. i # 1 => at(i-1) = at(i) - 1
        BY <1>1, <1>2, <3>2
      <4>2. at(i) = 1 <=> i = 1
        BY <1>1, <1>2, <3>2
      <4> QED
        BY <2>1, <2>2, <2>4, <3>2, <4>1, <4>2
    <3> QED
      BY <3>1, <3>2
  <2> QED
    BY <2>5, <2>6
<1>9. first2 = IF n - 1 = 0 THEN Null ELSE u[1]
  <2>1. n - 1 # 0 => u[1] = w[at(1)]
    BY <1>1, <1>3
  <2> QED
    BY <1>0, <1>1, <1>2, <1>4, <1>5, <2>1
<1>10. last2 = IF n - 1 = 0 THEN Null ELSE u[n-1]
  <2>1. n - 1 # 0 => u[n-1] = w[at(n-1)]
    BY <1>1, <1>3
  <2>2. p # n => at(n-1) = n /\ n - 1 # 0
    BY <1>1, <1>2
  <2>3. p = n => at(n-1) = n - 1 /\ (n - 1 = 0 <=> p = 1)
    BY <1>1, <1>2
  <2> QED
    BY <1>0, <1>1, <1>2, <1>4, <1>5, <2>1, <2>2, <2>3
<1>11. Chain(forth2, first2, u)
  BY <1>2, <1>6, <1>8, <1>9 DEF Chain, Distinct
<1>12. DoublyLinked(first2, last2, forth2, back2, u)
  BY <1>2, <1>8, <1>10, <1>11 DEF DoublyLinked
<1> QED
  BY <1>12
-----------------------------------------------------------------------------
(* The inductive invariant.                                                *)

P == INSTANCE SemaphoreProofs WITH waiters <- List

LEMMA ListAssumption == P!SemaphoreAssumption
BY ImplAssumption DEF P!SemaphoreAssumption, P!IsFiniteSet, IsFiniteSet

Linked == DoublyLinked(head, tail, next, prev, List)

\* The memory of a future that was never enqueued has no links in it.
Unlinked ==
    \A c \in Clients :
        state[c] \in {"absent", "inert"} => next[c] = Null /\ prev[c] = Null

\* wake_all has woken the first k waiters and has reached the next one.
Reached(k) ==
    /\ curr = IF k = Len(List) THEN Null ELSE List[k+1]
    /\ \A i \in 1..Len(List) : state[List[i]] = IF i <= k THEN "woken" ELSE "waiting"

Waking ==
    /\ todo = 0
    /\ P!NoneWaitsClosed /\ P!OnlyFrontPartial /\ P!NoIdlePermits /\ P!Accounts
    /\ \A c \in Clients : state[c] = "waiting" => \E i \in 1..Len(List) : List[i] = c
    /\ \E k \in 0..Len(List) : Reached(k)

\* Between two iterations of add_permits the list is as good as between two calls.
LInv ==
    /\ TypeOK
    /\ Linked
    /\ Unlinked
    /\ IF closing THEN Waking ELSE P!IInv /\ curr = Null

\* Whatever sequence the pointers link, it is the list.
LEMMA ListIs ==
    ASSUME NEW w, DoublyLinked(head, tail, next, prev, w)
    PROVE  List = w /\ Linked
BY FollowChain DEF List, Linked, DoublyLinked

LEMMA ListIsNext ==
    ASSUME NEW w, DoublyLinked(head', tail', next', prev', w)
    PROVE  List' = w /\ Linked'
<1>1. Follow(next', head') = w
  BY FollowChain DEF DoublyLinked
<1>2. List' = w
  BY <1>1 DEF List
<1> QED
  BY <1>2 DEF Linked

LEMMA SameList ==
    ASSUME Linked, UNCHANGED links
    PROVE  List' = List /\ Linked'
BY DEF links, List, Linked

LEMMA ListFacts ==
    ASSUME TypeOK, Linked
    PROVE  /\ List \in Seq(Clients)
           /\ Len(List) \in Nat
           /\ \A i \in 1..Len(List) : List[i] \in Clients /\ List[i] # Null
           /\ \A i, j \in 1..Len(List) : List[i] = List[j] => i = j
           /\ head = IF Len(List) = 0 THEN Null ELSE List[1]
           /\ head = Null <=> Len(List) = 0
           /\ tail = Null <=> Len(List) = 0
           /\ List = <<>> <=> Len(List) = 0
           /\ next \in Pointers /\ prev \in Pointers
<1>1. next \in Pointers /\ prev \in Pointers
  BY DEF TypeOK, Pointers
<1>2. /\ List \in Seq(Clients)
      /\ Len(List) \in Nat
      /\ \A i \in 1..Len(List) : List[i] \in Clients /\ List[i] # Null
      /\ \A i, j \in 1..Len(List) : List[i] = List[j] => i = j
      /\ head = IF Len(List) = 0 THEN Null ELSE List[1]
      /\ head = Null <=> Len(List) = 0
      /\ tail = Null <=> Len(List) = 0
  BY LinkedType DEF Linked
<1>3. List = <<>> <=> Len(List) = 0
  BY <1>2, EmptySeq
<1> QED
  BY <1>1, <1>2, <1>3

\* TypeOK, as SemaphoreProofs knows it.
LEMMA SameType ==
    /\ S!TypeOK <=> P!TypeOK
    /\ TypeOK <=> /\ P!TypeOK
                  /\ {head, tail, curr} \subseteq Clients \cup {Null}
                  /\ next \in Pointers /\ prev \in Pointers
                  /\ todo \in 0..UsizeMax
                  /\ closing \in BOOLEAN
<1>1. S!TypeOK <=> P!TypeOK
  BY DEF S!TypeOK, P!TypeOK
<1> QED
  BY <1>1 DEF TypeOK, Pointers

LEMMA SameTypeNext ==
    TypeOK' <=> /\ P!TypeOK'
                /\ {head', tail', curr'} \subseteq Clients \cup {Null}
                /\ next' \in Pointers /\ prev' \in Pointers
                /\ todo' \in 0..UsizeMax
                /\ closing' \in BOOLEAN
<1>1. S!TypeOK' <=> P!TypeOK'
  BY DEF S!TypeOK, P!TypeOK
<1> QED
  BY <1>1 DEF TypeOK, Pointers

\* The calls that SemaphoreImpl takes from Semaphore as they are.
LEMMA OtherCallIs ==
    ASSUME OtherCall
    PROVE  P!Next
<1>1. ASSUME NEW n \in Amounts, S!RemovePermits(n) PROVE P!RemovePermits(n)
  BY <1>1 DEF S!RemovePermits, P!RemovePermits, S!SaturatingSub, P!SaturatingSub,
              S!future, P!future, S!observed, P!observed
<1>2. ASSUME NEW c \in Clients, NEW n \in Requests, S!TryAcquire(c, n)
      PROVE  P!TryAcquire(c, n)
  BY <1>2 DEF S!TryAcquire, P!TryAcquire, S!CanAcquire, P!CanAcquire,
              S!future, P!future, S!observed, P!observed
<1>3. ASSUME NEW c \in Clients, NEW n \in Requests, S!Acquire(c, n)
      PROVE  P!Acquire(c, n)
  BY <1>3 DEF S!Acquire, P!Acquire, S!observed, P!observed
<1>4. ASSUME NEW c \in Clients, S!PollClosed(c) PROVE P!PollClosed(c)
  BY <1>4 DEF S!PollClosed, P!PollClosed, S!Pollable, P!Pollable, S!Resolve, P!Resolve
<1>5. ASSUME NEW c \in Clients, S!PollWoken(c) PROVE P!PollWoken(c)
  BY <1>5 DEF S!PollWoken, P!PollWoken, S!Pollable, P!Pollable, S!Resolve, P!Resolve
<1>6. ASSUME NEW c \in Clients, S!PollInertReady(c) PROVE P!PollInertReady(c)
  BY <1>6 DEF S!PollInertReady, P!PollInertReady, S!Pollable, P!Pollable,
              S!Resolve, P!Resolve, S!Remaining, P!Remaining, S!Taken, P!Taken
<1>7. ASSUME NEW c \in Clients, NEW w \in Wakers, S!PollWaiting(c, w)
      PROVE  P!PollWaiting(c, w)
  BY <1>7 DEF S!PollWaiting, P!PollWaiting, S!Pollable, P!Pollable,
              S!Suspend, P!Suspend, S!future, P!future
<1>8. ASSUME NEW c \in Clients, S!LeakAcquire(c) PROVE P!LeakAcquire(c)
  BY <1>8 DEF S!LeakAcquire, P!LeakAcquire, S!Pollable, P!Pollable,
              S!future, P!future, S!observed, P!observed,
              S!Cardinality, P!Cardinality
<1>9. ASSUME NEW c \in Clients, S!ForgetPermit(c) PROVE P!ForgetPermit(c)
  BY <1>9 DEF S!ForgetPermit, P!ForgetPermit, S!future, P!future, S!observed, P!observed
<1> QED
  BY <1>1, <1>2, <1>3, <1>4, <1>5, <1>6, <1>7, <1>8, <1>9
     DEF OtherCall, P!Next, P!Poll
-----------------------------------------------------------------------------
(* Every step keeps the invariant.                                         *)

LEMMA InitLInv == Init => LInv
<1> SUFFICES ASSUME Init PROVE LInv
  OBVIOUS
<1>1. DoublyLinked(head, tail, next, prev, <<>>)
  <2>1. <<>> \in Seq(Clients) /\ Len(<<>>) = 0
    BY EmptySeq
  <2> QED
    BY <2>1 DEF Init, DoublyLinked, Chain, Distinct
<1>2. List = <<>> /\ Linked
  BY <1>1, ListIs
<1>3. P!Init
  BY DEF Init, S!Init, P!Init
<1>4. P!IInv
  BY <1>3, P!InitIInv, ListAssumption
<1>5. TypeOK
  <2>1. /\ {head, tail, curr} \subseteq Clients \cup {Null}
        /\ closing \in BOOLEAN /\ todo = 0
        /\ next \in Pointers /\ prev \in Pointers
    BY DEF Init, Pointers
  <2>2. 0 \in 0..UsizeMax
    BY ImplAssumption
  <2> QED
    BY <1>4, <2>1, <2>2, SameType DEF P!IInv
<1>6. Unlinked
  BY DEF Init, Unlinked
<1> QED
  BY <1>2, <1>4, <1>5, <1>6 DEF LInv, Init

\* A call of Semaphore that leaves the pointers and the loops alone.
LEMMA CallKeeps ==
    ASSUME LInv, Idle, UNCHANGED links, UNCHANGED loops, P!IInv',
           \A c \in Clients : state'[c] \in {"absent", "inert"} =>
                              state[c] \in {"absent", "inert"}
    PROVE  LInv'
<1>1. Linked'
  BY SameList DEF LInv
<1>2. TypeOK'
  BY SameType, SameTypeNext DEF LInv, P!IInv, links, loops
<1>3. Unlinked'
  BY DEF LInv, Unlinked, links
<1> QED
  BY <1>1, <1>2, <1>3 DEF LInv, Idle, loops

LEMMA OtherCallKeeps ==
    ASSUME LInv, Idle, OtherCall, UNCHANGED loops
    PROVE  LInv'
<1>1. P!IInv
  BY DEF LInv, Idle
<1>2. [P!Next]_(P!vars)
  BY OtherCallIs
<1>3. P!IInv'
  BY <1>1, <1>2, P!NextIInv, ListAssumption
<1>4. state \in [Clients -> {"absent", "inert", "waiting", "woken"}]
  BY <1>1 DEF P!IInv, P!TypeOK
<1>5. ASSUME NEW c \in Clients, state'[c] \in {"absent", "inert"}
      PROVE  state[c] \in {"absent", "inert"}
  BY <1>4, <1>5
     DEF OtherCall, S!RemovePermits, S!TryAcquire, S!Acquire, S!PollClosed,
         S!PollWoken, S!PollInertReady, S!PollWaiting, S!LeakAcquire,
         S!ForgetPermit, S!Resolve, S!future
<1> QED
  BY <1>3, <1>5, CallKeeps DEF OtherCall

LEMMA EnqueueIs ==
    ASSUME LInv, ~closing, NEW c \in Clients, NEW w \in Wakers, PollInertEnqueue(c, w)
    PROVE  /\ List' = Append(List, c) /\ Linked'
           /\ P!PollInertEnqueue(c, w)
<1>1. state[c] = "inert"
  BY DEF PollInertEnqueue
<1>2. next[c] = Null /\ prev[c] = Null
  BY <1>1 DEF LInv, Unlinked
<1>3. \A i \in 1..Len(List) : List[i] # c
  BY <1>1 DEF LInv, P!IInv, P!QueueExact
<1>4. next \in Pointers /\ prev \in Pointers
  BY ListFacts DEF LInv
<1>5. DoublyLinked(head', tail', next', prev', Append(List, c))
  <2>1. DoublyLinked(head, tail, next, prev, List)
    BY DEF LInv, Linked
  <2>2. /\ head' = IF tail = Null THEN c ELSE head
        /\ next' = IF tail = Null THEN next ELSE [next EXCEPT ![tail] = c]
        /\ prev' = IF tail = Null THEN prev ELSE [prev EXCEPT ![c] = tail]
        /\ tail' = c
    BY DEF PollInertEnqueue, PushBack, LinkBack
  <2> QED
    BY <1>2, <1>3, <1>4, <2>1, <2>2, AppendLinked
<1>6. List' = Append(List, c) /\ Linked'
  BY <1>5, ListIsNext
<1>7. P!PollInertEnqueue(c, w)
  BY <1>6 DEF PollInertEnqueue, P!PollInertEnqueue, P!PushBack, S!Pollable, P!Pollable,
              S!Suspend, P!Suspend, S!Remaining, P!Remaining, S!Taken, P!Taken
<1> QED
  BY <1>6, <1>7

LEMMA EnqueueKeeps ==
    ASSUME LInv, Idle, NEW c \in Clients, NEW w \in Wakers, PollInertEnqueue(c, w),
           UNCHANGED loops
    PROVE  LInv'
<1>1. ~closing /\ P!IInv /\ TypeOK /\ curr = Null
  BY DEF LInv, Idle
<1>2. List' = Append(List, c) /\ Linked' /\ P!PollInertEnqueue(c, w)
  BY <1>1, EnqueueIs
<1>3. [P!Next]_(P!vars)
  BY <1>2 DEF P!Next, P!Poll
<1>4. P!IInv'
  BY <1>1, <1>3, P!NextIInv, ListAssumption
<1>5. /\ next \in Pointers /\ prev \in Pointers
      /\ tail \in Clients \cup {Null}
      /\ tail # Null => state[tail] = "waiting"
  <2>1. ASSUME tail # Null PROVE state[tail] = "waiting"
    <3>1. Len(List) \in Nat /\ Len(List) # 0 /\ tail = List[Len(List)]
      BY <1>1, <2>1, LinkedType DEF LInv, Linked
    <3>2. Len(List) \in 1..Len(List) /\ tail \in Clients
      BY <1>1, <2>1, <3>1, SameType
    <3> QED
      BY <1>1, <3>1, <3>2 DEF P!IInv, P!QueueExact
  <2> QED
    BY <1>1, <2>1, SameType
<1>6. TypeOK'
  BY <1>1, <1>4, <1>5, SameType, SameTypeNext
     DEF P!IInv, PollInertEnqueue, PushBack, LinkBack, loops, Pointers
<1>7. Unlinked'
  <2> SUFFICES ASSUME NEW d \in Clients, state'[d] \in {"absent", "inert"}
               PROVE  next'[d] = Null /\ prev'[d] = Null
    BY DEF Unlinked
  <2>1. d # c /\ state'[d] = state[d]
    BY <1>1 DEF P!IInv, P!TypeOK, PollInertEnqueue
  <2>2. d # tail /\ state[d] \in {"absent", "inert"}
    BY <1>5, <2>1, ImplAssumption
  <2> QED
    BY <1>5, <2>1, <2>2 DEF LInv, Unlinked, PollInertEnqueue, PushBack, LinkBack, Pointers
<1> QED
  BY <1>1, <1>2, <1>4, <1>6, <1>7 DEF LInv, loops

\* A step that only takes permits from a client, or adds some, leaves the rest alone.
LEMMA BeginsKeeps ==
    ASSUME LInv, Idle, todo' \in 0..UsizeMax, P!TypeOK', P!Accounts',
           UNCHANGED <<permits, closed, state, wants, assigned>>,
           UNCHANGED <<links, closing, curr>>
    PROVE  LInv'
<1>1. ~closing /\ P!IInv /\ TypeOK /\ curr = Null /\ Linked
  BY DEF LInv, Idle
<1>2. Linked' /\ List' = List
  BY <1>1, SameList
<1>3. P!IInv'
  <2>1. permits \in Nat /\ permits <= permits
    BY <1>1, ImplAssumption DEF P!IInv, P!TypeOK
  <2> QED
    BY <1>1, <1>2, <2>1, P!QuietIInv, ListAssumption
<1>4. TypeOK'
  BY <1>1, SameType, SameTypeNext DEF links
<1>5. Unlinked'
  BY DEF LInv, Unlinked, links
<1> QED
  BY <1>1, <1>2, <1>3, <1>4, <1>5 DEF LInv

LEMMA AddPermitsKeeps ==
    ASSUME LInv, Idle, NEW n \in Amounts, AddPermits(n)
    PROVE  LInv'
<1>1. P!IInv /\ n \in 0..UsizeMax /\ List' = List
  BY ImplAssumption, SameList DEF LInv, Idle, AddPermits
<1>2. supply' \in Int /\ supply' <= MaxSupply
  BY <1>1, ImplAssumption DEF P!IInv, P!TypeOK, AddPermits
<1>3. P!TypeOK' /\ P!Accounts'
  BY <1>1, <1>2 DEF P!IInv, P!TypeOK, P!Accounts, AddPermits
<1> QED
  BY <1>1, <1>3, BeginsKeeps DEF AddPermits

LEMMA DropPermitKeeps ==
    ASSUME LInv, Idle, NEW c \in Clients, DropPermit(c)
    PROVE  LInv'
<1>1. P!IInv /\ List' = List
  BY SameList DEF LInv, Idle, DropPermit
<1>2. held[c] \in 0..UsizeMax /\ 0 \in 0..UsizeMax
  BY <1>1, ImplAssumption DEF P!IInv, P!TypeOK
<1>3. held' \in [Clients -> 0..UsizeMax] /\ \A d \in Clients : held'[d] \in {held[d], 0}
  BY <1>1, <1>2 DEF P!IInv, P!TypeOK, DropPermit
<1>4. P!TypeOK'
  BY <1>1, <1>3 DEF P!IInv, P!TypeOK, DropPermit
<1>5. P!Accounts'
  BY <1>1, <1>3 DEF P!IInv, P!Accounts, DropPermit
<1> QED
  BY <1>2, <1>4, <1>5, BeginsKeeps DEF DropPermit
\* What every iteration of add_permits finds.
LEMMA Serving ==
    ASSUME LInv, todo > 0
    PROVE  /\ ~closing /\ P!IInv /\ TypeOK /\ Linked /\ curr = Null
           /\ todo \in 1..UsizeMax
           /\ permits \in 0..UsizeMax
           /\ wants \in [Clients -> 0..UsizeMax] /\ assigned \in [Clients -> 0..UsizeMax]
           /\ state \in [Clients -> {"absent", "inert", "waiting", "woken"}]
           /\ \A i \in 1..Len(List) :
                /\ List[i] \in Clients /\ state[List[i]] = "waiting"
                /\ assigned[List[i]] < wants[List[i]]
                /\ i > 1 => assigned[List[i]] = 0
           /\ head # Null => /\ 1 \in 1..Len(List) /\ head = List[1]
                             /\ head \in Clients /\ permits = 0
                             /\ Diff(head) \in 1..UsizeMax
                             /\ held[head] = 0
<1>1. ~closing /\ P!IInv /\ TypeOK /\ Linked /\ curr = Null
  BY DEF LInv, Waking
<1>2. todo \in 1..UsizeMax
  BY <1>1, ImplAssumption, SameType
<1>3. /\ permits \in 0..UsizeMax
      /\ wants \in [Clients -> 0..UsizeMax] /\ assigned \in [Clients -> 0..UsizeMax]
      /\ state \in [Clients -> {"absent", "inert", "waiting", "woken"}]
  BY <1>1 DEF P!IInv, P!TypeOK
<1>4. /\ Len(List) \in Nat
      /\ \A i \in 1..Len(List) : List[i] \in Clients
      /\ head = IF Len(List) = 0 THEN Null ELSE List[1]
      /\ List = <<>> <=> Len(List) = 0
  BY <1>1, ListFacts
<1>5. \A i \in 1..Len(List) :
        /\ List[i] \in Clients /\ state[List[i]] = "waiting"
        /\ assigned[List[i]] < wants[List[i]]
        /\ i > 1 => assigned[List[i]] = 0
  BY <1>1, <1>4 DEF P!IInv, P!QueueExact, P!OnlyFrontPartial
<1>6. ASSUME head # Null
      PROVE  /\ 1 \in 1..Len(List) /\ head = List[1]
             /\ head \in Clients /\ permits = 0
             /\ Diff(head) \in 1..UsizeMax
             /\ held[head] = 0
  <2>1. 1 \in 1..Len(List) /\ head = List[1] /\ List # <<>>
    BY <1>4, <1>6
  <2>2. head \in Clients /\ assigned[head] < wants[head] /\ state[head] = "waiting"
    BY <1>5, <2>1
  <2>3. permits = 0 /\ held[head] = 0
    BY <1>1, <2>1, <2>2 DEF P!IInv, P!NoIdlePermits, P!Accounts
  <2>4. wants[head] \in 0..UsizeMax /\ assigned[head] \in 0..UsizeMax
    BY <1>3, <2>2
  <2> QED
    BY <2>1, <2>2, <2>3, <2>4, ImplAssumption DEF Diff
<1> QED
  BY <1>1, <1>2, <1>3, <1>5, <1>6

LEMMA StorePermitsKeeps ==
    ASSUME LInv, AddStep, StorePermits
    PROVE  LInv'
<1>1. /\ ~closing /\ P!IInv /\ TypeOK /\ Linked /\ curr = Null
      /\ todo \in 1..UsizeMax /\ permits \in 0..UsizeMax
  BY Serving DEF AddStep
<1>2. List' = List /\ Linked' /\ List = <<>>
  BY <1>1, SameList, ListFacts DEF StorePermits
<1>3. permits' \in 0..UsizeMax /\ todo' = 0 /\ 0 \in 0..UsizeMax
  BY <1>1, ImplAssumption DEF StorePermits, S!SaturatingAdd
<1>4. P!TypeOK'
  BY <1>1, <1>2, <1>3 DEF P!IInv, P!TypeOK, AddStep, StorePermits
<1>5. /\ P!NoneWaitsClosed' /\ P!QueueExact' /\ P!OnlyFrontPartial'
      /\ P!NoIdlePermits' /\ P!Accounts'
  BY <1>1, <1>2 DEF P!IInv, P!NoneWaitsClosed, P!QueueExact, P!OnlyFrontPartial,
                    P!NoIdlePermits, P!Accounts, AddStep, StorePermits
<1>6. P!IInv'
  BY <1>4, <1>5 DEF P!IInv
<1>7. TypeOK'
  BY <1>1, <1>3, <1>4, SameType, SameTypeNext DEF AddStep, StorePermits, links
<1>8. Unlinked'
  BY DEF LInv, Unlinked, AddStep, StorePermits, links
<1> QED
  BY <1>1, <1>2, <1>6, <1>7, <1>8 DEF LInv, AddStep

LEMMA GrantSomeKeeps ==
    ASSUME LInv, AddStep, GrantSome
    PROVE  LInv'
<1>1. /\ ~closing /\ P!IInv /\ TypeOK /\ Linked /\ curr = Null
      /\ todo \in 1..UsizeMax
      /\ wants \in [Clients -> 0..UsizeMax] /\ assigned \in [Clients -> 0..UsizeMax]
      /\ \A i \in 1..Len(List) : List[i] \in Clients
      /\ 1 \in 1..Len(List) /\ head = List[1] /\ head \in Clients
      /\ state[head] = "waiting" /\ held[head] = 0
      /\ assigned[head] < wants[head]
  BY Serving DEF AddStep, GrantSome
<1>2. List' = List /\ Linked'
  BY <1>1, SameList DEF GrantSome
<1>3. Diff(head) - todo \in 1..UsizeMax /\ Diff(head) - todo < wants[head]
  <2>1. wants[head] \in 0..UsizeMax /\ assigned[head] \in 0..UsizeMax
    BY <1>1
  <2> QED
    BY <1>1, <2>1, ImplAssumption DEF GrantSome, Diff
<1>4. /\ assigned' = [assigned EXCEPT ![head] = Diff(head) - todo]
      /\ assigned' \in [Clients -> 0..UsizeMax]
  BY <1>1, <1>3 DEF GrantSome
<1>5. P!TypeOK'
  BY <1>1, <1>2, <1>4 DEF P!IInv, P!TypeOK, AddStep, GrantSome
<1>6. P!OnlyFrontPartial'
  <2> SUFFICES ASSUME NEW i \in 1..Len(List)
               PROVE  /\ assigned'[List[i]] < wants[List[i]]
                      /\ i > 1 => assigned'[List[i]] = 0
    BY <1>2 DEF P!OnlyFrontPartial, AddStep, GrantSome
  <2>1. CASE i = 1
    BY <1>1, <1>3, <1>4, <2>1
  <2>2. CASE i # 1
    <3>1. List[i] # List[1]
      BY <1>1, <2>2 DEF P!IInv, P!QueueExact
    <3>2. assigned'[List[i]] = assigned[List[i]]
      BY <1>1, <1>4, <3>1
    <3> QED
      BY <1>1, <3>2 DEF P!IInv, P!OnlyFrontPartial
  <2> QED
    BY <2>1, <2>2
<1>7. P!Accounts'
  <2> SUFFICES ASSUME NEW c \in Clients
               PROVE  /\ assigned'[c] <= wants[c]
                      /\ state[c] \in {"absent", "inert"} => assigned'[c] = 0
                      /\ state[c] \in {"inert", "waiting"} => held[c] = 0
                      /\ assigned'[c] > 0 => held[c] = 0
    BY DEF P!Accounts, AddStep, GrantSome
  <2>1. CASE c = head
    <3>1. wants[head] \in 0..UsizeMax /\ assigned'[head] = Diff(head) - todo
      BY <1>1, <1>4
    <3> QED
      BY <1>1, <1>3, <2>1, <3>1, ImplAssumption
  <2>2. CASE c # head
    BY <1>1, <1>4, <2>2 DEF P!IInv, P!Accounts
  <2> QED
    BY <2>1, <2>2
<1>8. P!NoneWaitsClosed' /\ P!QueueExact' /\ P!NoIdlePermits'
  BY <1>1, <1>2 DEF P!IInv, P!NoneWaitsClosed, P!QueueExact, P!NoIdlePermits,
                    AddStep, GrantSome
<1>9. P!IInv'
  BY <1>5, <1>6, <1>7, <1>8 DEF P!IInv
<1>10. TypeOK'
  <2>1. todo' \in 0..UsizeMax
    BY ImplAssumption DEF GrantSome
  <2> QED
    BY <1>1, <1>5, <2>1, SameType, SameTypeNext DEF AddStep, GrantSome, links
<1>11. Unlinked'
  BY DEF LInv, Unlinked, AddStep, GrantSome, links
<1> QED
  BY <1>1, <1>2, <1>9, <1>10, <1>11 DEF LInv, AddStep

\* The front waiter is served and leaves.
LEMMA GrantAllIs ==
    ASSUME LInv, AddStep, GrantAll
    PROVE  /\ List' = Tail(List) /\ Linked'
           /\ List' \in Seq(Clients) /\ Len(List') = Len(List) - 1
           /\ \A i \in 1..Len(List') : i + 1 \in 1..Len(List) /\ List'[i] = List[i+1]
           /\ state' = [state EXCEPT ![head] = "woken"]
           /\ assigned' = [assigned EXCEPT ![head] = wants[head]]
           /\ todo' = todo - Diff(head) /\ todo' \in 0..UsizeMax
           /\ UNCHANGED <<permits, closed, wants, waker, held, leaked, outcome, poller,
                          supply, closing, curr, next>>
<1>1. /\ TypeOK /\ Linked /\ todo \in 1..UsizeMax
      /\ head # Null /\ Diff(head) \in 1..UsizeMax
  BY Serving DEF AddStep, GrantAll
<1>2. /\ List \in Seq(Clients) /\ List # <<>> /\ Len(List) \in Nat
      /\ next \in Pointers /\ prev \in Pointers
  BY <1>1, ListFacts
<1>3. DoublyLinked(head', tail', next', prev', Tail(List))
  BY <1>1, <1>2, TailLinked DEF Linked, GrantAll, PopFront, TailAfterPop
<1>4. List' = Tail(List) /\ Linked'
  BY <1>3, ListIsNext
<1>5. /\ Tail(List) \in Seq(Clients) /\ Len(Tail(List)) = Len(List) - 1
      /\ \A i \in 1..Len(Tail(List)) : Tail(List)[i] = List[i+1]
  BY <1>2, HeadTailProperties
<1>6. \A i \in 1..Len(Tail(List)) : i + 1 \in 1..Len(List)
  BY <1>2, <1>5
<1>7. todo' = todo - Diff(head) /\ todo' \in 0..UsizeMax
  BY <1>1, ImplAssumption DEF GrantAll, Rest
<1> QED
  BY <1>4, <1>5, <1>6, <1>7 DEF AddStep, GrantAll, PopFront

LEMMA GrantAllKeeps ==
    ASSUME LInv, AddStep, GrantAll
    PROVE  LInv'
<1>1. /\ ~closing /\ P!IInv /\ TypeOK /\ Linked /\ curr = Null
      /\ wants \in [Clients -> 0..UsizeMax] /\ assigned \in [Clients -> 0..UsizeMax]
      /\ state \in [Clients -> {"absent", "inert", "waiting", "woken"}]
      /\ \A i \in 1..Len(List) : /\ List[i] \in Clients /\ state[List[i]] = "waiting"
                                 /\ assigned[List[i]] < wants[List[i]]
                                 /\ i > 1 => assigned[List[i]] = 0
      /\ 1 \in 1..Len(List) /\ head = List[1] /\ head \in Clients
      /\ state[head] = "waiting" /\ held[head] = 0 /\ permits = 0
  BY Serving DEF AddStep, GrantAll
<1>2. /\ List' \in Seq(Clients) /\ Len(List') = Len(List) - 1 /\ Linked'
      /\ \A i \in 1..Len(List') : i + 1 \in 1..Len(List) /\ List'[i] = List[i+1]
      /\ state' = [state EXCEPT ![head] = "woken"]
      /\ assigned' = [assigned EXCEPT ![head] = wants[head]]
      /\ todo' \in 0..UsizeMax
      /\ UNCHANGED <<permits, closed, wants, waker, held, leaked, outcome, poller,
                     supply, closing, curr, next>>
  BY GrantAllIs
<1>3. \A i \in 1..Len(List') : List'[i] # head
  <2> TAKE i \in 1..Len(List')
  <2>1. i + 1 # 1
    BY <1>2
  <2> QED
    BY <1>1, <1>2, <2>1 DEF P!IInv, P!QueueExact
<1>4. P!TypeOK'
  <2>1. notified' \in [Clients -> BOOLEAN]
    BY <1>1 DEF AddStep, GrantAll, S!Wake, P!IInv, P!TypeOK
  <2> QED
    BY <1>1, <1>2, <2>1 DEF P!IInv, P!TypeOK
<1>5. P!QueueExact'
  <2>1. ASSUME NEW i \in 1..Len(List'), NEW j \in 1..Len(List'), List'[i] = List'[j]
        PROVE  i = j
    <3>1. i + 1 \in 1..Len(List) /\ j + 1 \in 1..Len(List) /\ List[i+1] = List[j+1]
      BY <1>2, <2>1
    <3>2. i + 1 = j + 1
      BY <1>1, <3>1, ListFacts
    <3> QED
      BY <1>2, <3>2
  <2>2. ASSUME NEW c \in Clients, state'[c] = "waiting"
        PROVE  \E i \in 1..Len(List') : List'[i] = c
    <3>1. c # head /\ state[c] = "waiting"
      BY <1>1, <1>2, <2>2
    <3>2. PICK j \in 1..Len(List) : List[j] = c
      BY <1>1, <3>1 DEF P!IInv, P!QueueExact
    <3>3. j # 1 /\ Len(List) \in Nat
      BY <1>1, <3>1, <3>2, ListFacts
    <3>4. j - 1 \in 1..Len(List') /\ (j - 1) + 1 = j
      BY <1>2, <3>3
    <3> QED
      BY <1>2, <3>2, <3>4
  <2>3. ASSUME NEW i \in 1..Len(List') PROVE state'[List'[i]] = "waiting"
    <3>1. List'[i] \in Clients /\ List'[i] # head /\ state[List'[i]] = "waiting"
      <4>1. i + 1 \in 1..Len(List) /\ List'[i] = List[i+1]
        BY <1>2
      <4> QED
        BY <1>1, <1>3, <4>1
    <3> QED
      BY <1>1, <1>2, <3>1
  <2> QED
    BY <2>1, <2>2, <2>3 DEF P!QueueExact
<1>6. P!OnlyFrontPartial'
  <2> SUFFICES ASSUME NEW i \in 1..Len(List')
               PROVE  assigned'[List'[i]] < wants'[List'[i]] /\ assigned'[List'[i]] = 0
    BY DEF P!OnlyFrontPartial
  <2>1. i + 1 > 1
    OBVIOUS
  <2>2. assigned'[List'[i]] = assigned[List[i+1]]
    BY <1>1, <1>2, <1>3
  <2> QED
    BY <1>1, <1>2, <2>1, <2>2
<1>7. P!NoIdlePermits' /\ P!NoneWaitsClosed'
  <2>1. ~closed
    BY <1>1, ListFacts DEF P!IInv, P!NoneWaitsClosed
  <2> QED
    BY <1>1, <1>2, <2>1 DEF P!NoIdlePermits, P!NoneWaitsClosed
<1>8. P!Accounts'
  <2> SUFFICES ASSUME NEW c \in Clients
               PROVE  /\ assigned'[c] <= wants[c]
                      /\ state'[c] \in {"absent", "inert"} => assigned'[c] = 0
                      /\ state'[c] \in {"inert", "waiting"} => held[c] = 0
                      /\ assigned'[c] > 0 => held[c] = 0
    BY <1>2 DEF P!Accounts
  <2>1. CASE c = head
    <3>1. wants[head] \in 0..UsizeMax /\ assigned'[head] = wants[head] /\ state'[head] = "woken"
      BY <1>1, <1>2
    <3> QED
      BY <1>1, <2>1, <3>1, ImplAssumption
  <2>2. CASE c # head
    BY <1>1, <1>2, <2>2 DEF P!IInv, P!Accounts
  <2> QED
    BY <2>1, <2>2
<1>9. P!IInv'
  BY <1>4, <1>5, <1>6, <1>7, <1>8 DEF P!IInv
<1>10. TypeOK'
  <2>1. /\ next[head] \in Clients \cup {Null}
        /\ tail \in Clients \cup {Null}
        /\ prev \in Pointers
    BY <1>1, SameType DEF Pointers
  <2>2. head' \in Clients \cup {Null} /\ tail' \in Clients \cup {Null}
    BY <2>1 DEF GrantAll, PopFront, TailAfterPop
  <2>3. prev' \in Pointers
    BY <2>1 DEF GrantAll, PopFront, Pointers
  <2> QED
    BY <1>1, <1>2, <1>4, <2>2, <2>3, SameType, SameTypeNext
<1>11. Unlinked'
  <2> SUFFICES ASSUME NEW c \in Clients, state'[c] \in {"absent", "inert"}
               PROVE  next'[c] = Null /\ prev'[c] = Null
    BY DEF Unlinked
  <2>1. state[c] \in {"absent", "inert"}
    BY <1>1, <1>2
  <2>2. next[c] = Null /\ prev[c] = Null
    BY <2>1 DEF LInv, Unlinked
  <2> QED
    BY <1>1, <1>2, <2>2, SameType DEF GrantAll, PopFront, Pointers
<1> QED
  BY <1>1, <1>2, <1>9, <1>10, <1>11 DEF LInv

\* A future that is dropped leaves the list, wherever in it it is.
LEMMA DropAcquireLeaves ==
    ASSUME LInv, ~closing, NEW c \in Clients, DropAcquire(c)
    PROVE  /\ List' = P!WaitersWithout(c) /\ Linked'
           /\ {head', tail'} \subseteq Clients \cup {Null}
           /\ next' \in Pointers /\ prev' \in Pointers
           /\ next'[c] = Null /\ prev'[c] = Null
           /\ \A d \in Clients : state[d] \in {"absent", "inert"} =>
                next'[d] = next[d] \/ next'[d] = Null
           /\ \A d \in Clients : state[d] \in {"absent", "inert"} =>
                prev'[d] = prev[d] \/ prev'[d] = Null
<1>1. P!IInv /\ TypeOK /\ Linked
  BY DEF LInv
<1>2. /\ List \in Seq(Clients) /\ Len(List) \in Nat
      /\ \A i \in 1..Len(List) : List[i] \in Clients
      /\ next \in Pointers /\ prev \in Pointers
      /\ {head, tail} \subseteq Clients \cup {Null}
  BY <1>1, ListFacts, SameType
<1>3. DoublyLinked(head, tail, next, prev, List)
  BY <1>1 DEF Linked
<1>4. CASE state[c] = "waiting"
  <2> DEFINE w == List
             u == P!WaitersWithout(c)
  <2>1. PICK p \in 1..Len(w) : /\ w[p] = c
                               /\ u \in Seq(Clients)
                               /\ Len(u) = Len(w) - 1
                               /\ \A i \in 1..Len(u) : u[i] = w[IF i < p THEN i ELSE i + 1]
    BY <1>1, <1>4, P!LeavesPlace, ListAssumption
  <2>2. /\ head' = IF prev[c] = Null THEN next[c] ELSE head
        /\ tail' = IF next[c] = Null THEN prev[c] ELSE tail
        /\ next' = [d \in Clients |-> IF d = c THEN Null
                                      ELSE IF d = prev[c] THEN next[c] ELSE next[d]]
        /\ prev' = [d \in Clients |-> IF d = c THEN Null
                                      ELSE IF d = next[c] THEN prev[c] ELSE prev[d]]
    BY <1>4 DEF DropAcquire, TryRemove
  <2>3. DoublyLinked(head', tail', next', prev', u)
    <3> HIDE DEF w, u
    <3>1. DoublyLinked(head, tail, next, prev, w)
      BY <1>3 DEF w
    <3>2. Unlinks(c, head, tail, next, prev, head', tail', next', prev')
      BY <2>2 DEF Unlinks, Skips
    <3>3. Leaves(p, w, u) /\ c = w[p]
      BY <2>1 DEF Leaves
    <3> QED
      BY <1>2, <3>1, <3>2, <3>3, RemoveLinked
  <2>4. List' = u /\ Linked'
    BY <2>3, ListIsNext
  <2>5. next[c] \in Clients \cup {Null} /\ prev[c] \in Clients \cup {Null}
    BY <1>2 DEF Pointers
  <2>6. /\ {head', tail'} \subseteq Clients \cup {Null}
        /\ next' \in Pointers /\ prev' \in Pointers
        /\ next'[c] = Null /\ prev'[c] = Null
    BY <1>2, <2>2, <2>5 DEF Pointers
  <2>7. /\ next[c] = Null \/ state[next[c]] = "waiting"
        /\ prev[c] = Null \/ state[prev[c]] = "waiting"
    <3>1. /\ next[c] = IF p = Len(List) THEN Null ELSE List[p+1]
          /\ prev[c] = IF p = 1 THEN Null ELSE List[p-1]
      <4>1. \A i \in 1..Len(List) :
              /\ next[List[i]] = IF i = Len(List) THEN Null ELSE List[i+1]
              /\ prev[List[i]] = IF i = 1 THEN Null ELSE List[i-1]
        BY <1>3 DEF DoublyLinked, Chain
      <4> QED
        BY <2>1, <4>1
    <3>2. /\ p # Len(List) => p + 1 \in 1..Len(List)
          /\ p # 1 => p - 1 \in 1..Len(List)
      BY <1>2, <2>1
    <3>3. \A i \in 1..Len(List) : state[List[i]] = "waiting"
      BY <1>1, <1>2 DEF P!IInv, P!QueueExact
    <3> QED
      BY <3>1, <3>2, <3>3
  <2>8. ASSUME NEW d \in Clients, state[d] \in {"absent", "inert"}
        PROVE  /\ next'[d] = next[d] \/ next'[d] = Null
               /\ prev'[d] = prev[d] \/ prev'[d] = Null
    <3>1. d # next[c] /\ d # prev[c]
      BY <2>7, <2>8, ImplAssumption
    <3> QED
      BY <2>2, <3>1
  <2> QED
    BY <2>4, <2>6, <2>8
<1>5. CASE state[c] # "waiting"
  <2>1. /\ head' = head /\ tail' = tail
        /\ next' = [next EXCEPT ![c] = Null]
        /\ prev' = [prev EXCEPT ![c] = Null]
    BY <1>5 DEF DropAcquire, Free
  <2>2. \A i \in 1..Len(List) : List[i] # c
    BY <1>1, <1>5 DEF P!IInv, P!QueueExact
  <2>3. \A i \in 1..Len(List) : next'[List[i]] = next[List[i]] /\ prev'[List[i]] = prev[List[i]]
    BY <1>2, <2>1, <2>2 DEF Pointers
  <2>4. DoublyLinked(head', tail', next', prev', List)
    BY <1>3, <2>1, <2>3 DEF DoublyLinked, Chain
  <2>5. List' = List /\ Linked'
    BY <2>4, ListIsNext
  <2>6. P!WaitersWithout(c) = List
    BY <1>5 DEF P!WaitersWithout
  <2> QED
    BY <1>2, <2>1, <2>5, <2>6 DEF Pointers
<1> QED
  BY <1>4, <1>5

LEMMA DropAcquireKeeps ==
    ASSUME LInv, Idle, NEW c \in Clients, DropAcquire(c)
    PROVE  LInv'
<1> DEFINE w == P!WaitersWithout(c)
<1>1. ~closing /\ P!IInv /\ TypeOK /\ curr = Null
  BY DEF LInv, Idle
<1>2. /\ List' = w /\ Linked'
      /\ {head', tail'} \subseteq Clients \cup {Null}
      /\ next' \in Pointers /\ prev' \in Pointers
      /\ next'[c] = Null /\ prev'[c] = Null
      /\ \A d \in Clients : state[d] \in {"absent", "inert"} =>
           next'[d] = next[d] \/ next'[d] = Null
      /\ \A d \in Clients : state[d] \in {"absent", "inert"} =>
           prev'[d] = prev[d] \/ prev'[d] = Null
  BY <1>1, DropAcquireLeaves
<1>3. /\ P!Queue(w)
      /\ \A d \in Clients : (\E i \in 1..Len(w) : w[i] = d) <=> state[d] = "waiting" /\ d # c
      /\ w # <<>> => List # <<>>
  BY <1>1, P!WaitersWithoutQueue, ListAssumption
<1> HIDE DEF w
<1>4. /\ w \in Seq(Clients) /\ Len(w) \in Nat
      /\ \A i \in 1..Len(w) : w[i] \in Clients /\ w[i] # c
  <2>1. w \in Seq(Clients)
    BY <1>3 DEF P!Queue
  <2>2. \A i \in 1..Len(w) : w[i] \in Clients
    BY <2>1
  <2> QED
    BY <1>3, <2>1, <2>2
<1>5. /\ todo' = assigned[c]
      /\ state' = [state EXCEPT ![c] = "absent"]
      /\ assigned' = [assigned EXCEPT ![c] = 0]
      /\ wants' = [wants EXCEPT ![c] = 0]
      /\ waker' = [waker EXCEPT ![c] = NoWaker]
      /\ outcome' = [outcome EXCEPT ![c] = "none"]
      /\ poller' = [poller EXCEPT ![c] = NoWaker]
      /\ notified' = [notified EXCEPT ![c] = FALSE]
      /\ UNCHANGED <<permits, closed, held, leaked, supply, closing, curr>>
  BY DEF DropAcquire
<1>6. /\ state \in [Clients -> {"absent", "inert", "waiting", "woken"}]
      /\ wants \in [Clients -> 0..UsizeMax]
      /\ assigned \in [Clients -> 0..UsizeMax]
      /\ 0 \in 0..UsizeMax
  BY <1>1, ImplAssumption DEF P!IInv, P!TypeOK
<1>7. P!TypeOK'
  BY <1>1, <1>2, <1>4, <1>5, <1>6 DEF P!IInv, P!TypeOK
<1>8. P!QueueExact'
  <2>1. \A i, j \in 1..Len(w) : w[i] = w[j] => i = j
    BY <1>3 DEF P!Queue, P!Distinct
  <2>2. ASSUME NEW d \in Clients
        PROVE  state'[d] = "waiting" <=> state[d] = "waiting" /\ d # c
    BY <1>5, <1>6
  <2> QED
    BY <1>2, <1>3, <2>1, <2>2 DEF P!QueueExact
<1>9. P!OnlyFrontPartial'
  BY <1>2, <1>3, <1>4, <1>5, <1>6 DEF P!Queue, P!OnlyFrontPartial
<1>10. P!NoIdlePermits' /\ P!NoneWaitsClosed'
  BY <1>1, <1>2, <1>3, <1>5 DEF P!IInv, P!NoIdlePermits, P!NoneWaitsClosed
<1>11. P!Accounts'
  <2> SUFFICES ASSUME NEW d \in Clients
               PROVE  /\ assigned'[d] <= wants'[d]
                      /\ state'[d] \in {"absent", "inert"} => assigned'[d] = 0
                      /\ state'[d] \in {"inert", "waiting"} => held[d] = 0
                      /\ assigned'[d] > 0 => held[d] = 0
    BY <1>5 DEF P!Accounts
  <2>1. CASE d = c
    BY <1>5, <1>6, <2>1
  <2>2. CASE d # c
    BY <1>1, <1>5, <1>6, <2>2 DEF P!IInv, P!Accounts
  <2> QED
    BY <2>1, <2>2
<1>12. P!IInv'
  BY <1>7, <1>8, <1>9, <1>10, <1>11 DEF P!IInv
<1>13. TypeOK'
  BY <1>1, <1>2, <1>5, <1>6, <1>7, SameType, SameTypeNext
<1>14. Unlinked'
  <2> SUFFICES ASSUME NEW d \in Clients, state'[d] \in {"absent", "inert"}
               PROVE  next'[d] = Null /\ prev'[d] = Null
    BY DEF Unlinked
  <2>1. CASE d = c
    BY <1>2, <2>1
  <2>2. CASE d # c
    <3>1. state[d] \in {"absent", "inert"}
      BY <1>5, <1>6, <2>2
    <3>2. next[d] = Null /\ prev[d] = Null
      BY <3>1 DEF LInv, Unlinked
    <3> QED
      BY <1>2, <3>1, <3>2
  <2> QED
    BY <2>1, <2>2
<1> QED
  BY <1>1, <1>2, <1>5, <1>12, <1>13, <1>14 DEF LInv

LEMMA CloseKeeps ==
    ASSUME LInv, Idle, Close
    PROVE  LInv'
<1>1. P!IInv /\ TypeOK /\ Linked /\ todo = 0
  BY DEF LInv, Idle
<1>2. List' = List /\ Linked'
  BY <1>1, SameList DEF Close
<1>3. /\ Len(List) \in Nat
      /\ head = IF Len(List) = 0 THEN Null ELSE List[1]
      /\ \A i \in 1..Len(List) : List[i] \in Clients
  BY <1>1, ListFacts
<1>4. /\ closing' /\ curr' = head /\ todo' = 0
      /\ UNCHANGED <<permits, closed, state, wants, assigned, waker, held, leaked,
                     outcome, poller, notified, supply>>
      /\ UNCHANGED <<head, tail, next, prev>>
  BY <1>1 DEF Close, semaphore, links
<1>5. Reached(0)'
  <2>1. \A i \in 1..Len(List) : state[List[i]] = "waiting" /\ ~(i <= 0)
    BY <1>1, <1>3 DEF P!IInv, P!QueueExact
  <2> QED
    BY <1>2, <1>3, <1>4, <2>1 DEF Reached
<1>6. Waking'
  <2>1. 0 \in 0..Len(List')
    BY <1>2, <1>3
  <2>2. \A c \in Clients : state'[c] = "waiting" => \E i \in 1..Len(List') : List'[i] = c
    BY <1>1, <1>2, <1>4 DEF P!IInv, P!QueueExact
  <2>3. P!NoneWaitsClosed' /\ P!OnlyFrontPartial' /\ P!NoIdlePermits' /\ P!Accounts'
    BY <1>1, <1>2, <1>4
       DEF P!IInv, P!NoneWaitsClosed, P!OnlyFrontPartial, P!NoIdlePermits, P!Accounts
  <2> QED
    BY <1>4, <1>5, <2>1, <2>2, <2>3 DEF Waking
<1>7. TypeOK'
  <2>1. P!TypeOK'
    BY <1>1, <1>2, <1>4 DEF P!IInv, P!TypeOK
  <2> QED
    BY <1>1, <1>4, <2>1, SameType, SameTypeNext
<1>8. Unlinked'
  BY <1>4 DEF LInv, Unlinked
<1> QED
  BY <1>2, <1>4, <1>6, <1>7, <1>8 DEF LInv

\* What every iteration of wake_all finds.
LEMMA WakingFacts ==
    ASSUME LInv, closing
    PROVE  /\ Waking /\ TypeOK /\ P!TypeOK /\ Linked /\ Unlinked
           /\ \E k \in 0..Len(List) :
                /\ Reached(k)
                /\ curr # Null <=> k < Len(List)
                /\ k < Len(List) =>
                     /\ k + 1 \in 1..Len(List) /\ k + 1 \in 0..Len(List)
                     /\ curr = List[k+1] /\ curr \in Clients
                     /\ state[curr] = "waiting"
                     /\ next[curr] = IF k + 1 = Len(List) THEN Null ELSE List[k+1+1]
<1>1. Waking /\ TypeOK /\ P!TypeOK /\ Linked /\ Unlinked
  BY SameType DEF LInv
<1>2. PICK k \in 0..Len(List) : Reached(k)
  BY <1>1 DEF Waking
<1>3. /\ Len(List) \in Nat
      /\ \A i \in 1..Len(List) : List[i] \in Clients /\ List[i] # Null
  BY <1>1, ListFacts
<1>4. k < Len(List) <=> k # Len(List)
  BY <1>2, <1>3
<1>5. CASE k = Len(List)
  BY <1>1, <1>2, <1>4, <1>5 DEF Reached
<1>6. CASE k < Len(List)
  <2>1. k + 1 \in 1..Len(List) /\ k + 1 \in 0..Len(List) /\ ~(k + 1 <= k)
    BY <1>2, <1>3, <1>6
  <2>2. curr = List[k+1] /\ curr \in Clients /\ curr # Null /\ state[curr] = "waiting"
    BY <1>2, <1>3, <1>4, <1>6, <2>1 DEF Reached
  <2>3. next[curr] = IF k + 1 = Len(List) THEN Null ELSE List[k+1+1]
    BY <1>1, <2>1, <2>2 DEF Linked, DoublyLinked, Chain
  <2> QED
    BY <1>1, <1>2, <1>6, <2>1, <2>2, <2>3
<1> QED
  BY <1>4, <1>5, <1>6

LEMMA WakeStepKeeps ==
    ASSUME LInv, WakeStep
    PROVE  LInv'
<1>1. Waking /\ TypeOK /\ P!TypeOK /\ Linked /\ Unlinked /\ closing /\ todo = 0
  BY WakingFacts DEF WakeStep, Waking
<1>2. PICK k \in 0..Len(List) :
        /\ Reached(k)
        /\ k + 1 \in 1..Len(List) /\ k + 1 \in 0..Len(List)
        /\ curr = List[k+1] /\ curr \in Clients
        /\ state[curr] = "waiting"
        /\ next[curr] = IF k + 1 = Len(List) THEN Null ELSE List[k+1+1]
  BY WakingFacts DEF WakeStep
<1>3. List' = List /\ Linked'
  BY <1>1, SameList DEF WakeStep
<1>4. /\ state' = [state EXCEPT ![curr] = "woken"]
      /\ notified' = S!Wake({curr})
      /\ curr' = next[curr]
      /\ UNCHANGED <<permits, closed, wants, assigned, waker, held, leaked,
                     outcome, poller, supply, head, tail, next, prev, todo, closing>>
  BY DEF WakeStep, links
<1>5. /\ state \in [Clients -> {"absent", "inert", "waiting", "woken"}]
      /\ Len(List) \in Nat
      /\ \A i \in 1..Len(List) : List[i] \in Clients
      /\ \A i, j \in 1..Len(List) : List[i] = List[j] => i = j
  BY <1>1, ListFacts DEF P!TypeOK
<1>6. \A c \in Clients : state'[c] = IF c = curr THEN "woken" ELSE state[c]
  BY <1>2, <1>4, <1>5
<1>7. Reached(k+1)'
  <2>1. ASSUME NEW i \in 1..Len(List)
        PROVE  state'[List[i]] = IF i <= k + 1 THEN "woken" ELSE "waiting"
    <3>1. List[i] \in Clients /\ (List[i] = curr <=> i = k + 1)
      BY <1>2, <1>5
    <3>2. state[List[i]] = IF i <= k THEN "woken" ELSE "waiting"
      BY <1>2 DEF Reached
    <3>3. i <= k + 1 <=> i <= k \/ i = k + 1
      BY <1>2, <1>5
    <3> QED
      BY <1>6, <3>1, <3>2, <3>3
  <2>2. curr' = IF k + 1 = Len(List) THEN Null ELSE List[k+1+1]
    BY <1>2, <1>4
  <2> QED
    BY <1>3, <2>1, <2>2 DEF Reached
<1>8. Waking'
  <2>1. P!NoneWaitsClosed' /\ P!OnlyFrontPartial' /\ P!NoIdlePermits'
    BY <1>1, <1>3, <1>4
       DEF Waking, P!NoneWaitsClosed, P!OnlyFrontPartial, P!NoIdlePermits
  <2>2. P!Accounts'
    BY <1>1, <1>2, <1>4, <1>6 DEF Waking, P!Accounts
  <2>3. \A c \in Clients : state'[c] = "waiting" => \E i \in 1..Len(List') : List'[i] = c
    BY <1>1, <1>3, <1>6 DEF Waking
  <2>4. k + 1 \in 0..Len(List')
    BY <1>2, <1>3
  <2> QED
    BY <1>1, <1>4, <1>7, <2>1, <2>2, <2>3, <2>4 DEF Waking
<1>9. TypeOK'
  <2>1. notified' \in [Clients -> BOOLEAN]
    BY <1>1, <1>4 DEF S!Wake, P!TypeOK
  <2>2. P!TypeOK'
    BY <1>1, <1>3, <1>4, <2>1 DEF P!TypeOK
  <2>3. curr' \in Clients \cup {Null}
    BY <1>1, <1>2, <1>4, SameType DEF Pointers
  <2> QED
    BY <1>1, <1>4, <2>2, <2>3, SameType, SameTypeNext
<1>10. Unlinked'
  BY <1>1, <1>4, <1>6 DEF Unlinked
<1> QED
  BY <1>1, <1>3, <1>4, <1>8, <1>9, <1>10 DEF LInv

LEMMA CloseDoneKeeps ==
    ASSUME LInv, CloseDone
    PROVE  LInv'
<1>1. /\ Waking /\ TypeOK /\ P!TypeOK /\ Linked /\ Unlinked
      /\ closing /\ todo = 0 /\ curr = Null
  BY WakingFacts DEF CloseDone, Waking
<1>2. Len(List) \in Nat /\ Reached(Len(List))
  <2>1. PICK k \in 0..Len(List) : Reached(k) /\ ~(k < Len(List))
    BY <1>1, WakingFacts
  <2>2. Len(List) \in Nat
    BY <1>1, ListFacts
  <2>3. k = Len(List)
    BY <2>1, <2>2
  <2> QED
    BY <2>1, <2>2, <2>3
<1>3. /\ closed' = TRUE /\ closing' = FALSE /\ head' = Null /\ tail' = Null
      /\ UNCHANGED <<permits, state, wants, assigned, waker, held, leaked,
                     outcome, poller, notified, supply, next, prev, todo, curr>>
  BY DEF CloseDone
<1>4. List' = <<>> /\ Linked' /\ List' \in Seq(Clients) /\ Len(List') = 0
  <2>1. <<>> \in Seq(Clients) /\ Len(<<>>) = 0
    BY EmptySeq
  <2>2. DoublyLinked(head', tail', next', prev', <<>>)
    BY <1>3, <2>1 DEF DoublyLinked, Chain, Distinct
  <2> QED
    BY <2>1, <2>2, ListIsNext
<1>5. \A c \in Clients : state[c] # "waiting"
  <2> SUFFICES ASSUME NEW c \in Clients, state[c] = "waiting" PROVE FALSE
    OBVIOUS
  <2>1. PICK i \in 1..Len(List) : List[i] = c
    BY <1>1 DEF Waking
  <2>2. state[List[i]] = "woken"
    BY <1>2, <2>1 DEF Reached
  <2> QED
    BY <2>1, <2>2
<1>6. P!TypeOK'
  BY <1>1, <1>3, <1>4 DEF P!TypeOK
<1>7. P!QueueExact' /\ P!OnlyFrontPartial' /\ P!NoIdlePermits' /\ P!NoneWaitsClosed'
  BY <1>3, <1>4, <1>5
     DEF P!QueueExact, P!OnlyFrontPartial, P!NoIdlePermits, P!NoneWaitsClosed
<1>8. P!Accounts'
  BY <1>1, <1>3 DEF Waking, P!Accounts
<1>9. P!IInv'
  BY <1>6, <1>7, <1>8 DEF P!IInv
<1>10. TypeOK'
  BY <1>1, <1>3, <1>6, SameType, SameTypeNext
<1>11. Unlinked'
  BY <1>1, <1>3 DEF Unlinked
<1> QED
  BY <1>1, <1>3, <1>4, <1>9, <1>10, <1>11 DEF LInv

LEMMA StutterKeeps ==
    ASSUME LInv, UNCHANGED vars
    PROVE  LInv'
<1>1. UNCHANGED links /\ List' = List /\ Linked'
  BY SameList DEF LInv, vars
<1>2. UNCHANGED <<permits, closed, state, wants, assigned, waker, held, leaked,
                  outcome, poller, notified, supply, next, prev, head, tail,
                  todo, closing, curr>>
  BY DEF vars, semaphore, loops, links
<1>3. P!TypeOK <=> P!TypeOK'
  BY <1>1, <1>2 DEF P!TypeOK
<1>4. TypeOK'
  <2>1. TypeOK /\ P!TypeOK /\ P!TypeOK'
    BY <1>3, SameType DEF LInv
  <2>2. /\ {head', tail', curr'} \subseteq Clients \cup {Null}
        /\ next' \in Pointers /\ prev' \in Pointers
        /\ todo' \in 0..UsizeMax /\ closing' \in BOOLEAN
    BY <1>2, <2>1, SameType
  <2> QED
    BY <2>1, <2>2, SameTypeNext
<1>5. Unlinked'
  BY <1>2 DEF LInv, Unlinked
<1>6. (IF closing THEN Waking ELSE P!IInv /\ curr = Null)'
  BY <1>1, <1>2
     DEF LInv, Waking, Reached, P!IInv, P!TypeOK, P!NoneWaitsClosed, P!QueueExact,
         P!OnlyFrontPartial, P!NoIdlePermits, P!Accounts
<1> QED
  BY <1>1, <1>4, <1>5, <1>6 DEF LInv

LEMMA NextKeeps == LInv /\ [Next]_vars => LInv'
<1> SUFFICES ASSUME LInv, [Next]_vars PROVE LInv'
  OBVIOUS
<1>1. CASE AddStep
  BY <1>1, StorePermitsKeeps, GrantSomeKeeps, GrantAllKeeps DEF AddStep
<1>2. CASE WakeStep
  BY <1>2, WakeStepKeeps
<1>3. CASE CloseDone
  BY <1>3, CloseDoneKeeps
<1>4. ASSUME Idle, NEW n \in Amounts, AddPermits(n) PROVE LInv'
  BY <1>4, AddPermitsKeeps
<1>5. ASSUME Idle, NEW c \in Clients, DropPermit(c) \/ DropAcquire(c) PROVE LInv'
  BY <1>5, DropPermitKeeps, DropAcquireKeeps
<1>6. CASE Idle /\ Close
  BY <1>6, CloseKeeps
<1>7. ASSUME Idle, NEW c \in Clients, NEW w \in Wakers, PollInertEnqueue(c, w),
             UNCHANGED loops
      PROVE  LInv'
  BY <1>7, EnqueueKeeps
<1>8. CASE Idle /\ OtherCall /\ UNCHANGED loops
  BY <1>8, OtherCallKeeps
<1>9. CASE UNCHANGED vars
  BY <1>9, StutterKeeps
<1> QED
  BY <1>1, <1>2, <1>3, <1>4, <1>5, <1>6, <1>7, <1>8, <1>9 DEF Next

LEMMA Inductive == Spec => []LInv
<1>1. Init => LInv
  BY InitLInv
<1>2. LInv /\ [Next]_vars => LInv'
  BY NextKeeps
<1> QED
  BY <1>1, <1>2, PTL DEF Spec
-----------------------------------------------------------------------------
(* The safety properties of the pointers and the loops.                    *)

\* Every field of the semaphore and of its waiters has its type: the counters of
\* the loop of add_permits stay within a usize.
THEOREM TypeCorrect == Spec => []TypeOK
<1>1. LInv => TypeOK
  BY DEF LInv
<1> QED
  BY <1>1, Inductive, PTL

\* A sequence read backwards twice is the sequence.
LEMMA ReversedTwice ==
    ASSUME NEW w \in Seq(Clients)
    PROVE  /\ Reversed(w) \in Seq(Clients)
           /\ Len(Reversed(w)) = Len(w)
           /\ \A i \in 1..Len(w) : Len(w) + 1 - i \in 1..Len(w)
                                   /\ Reversed(w)[i] = w[Len(w) + 1 - i]
           /\ Reversed(Reversed(w)) = w
<1> DEFINE n == Len(w)
           r == Reversed(w)
<1>1. n \in Nat /\ w \in [1..n -> Clients] /\ w = [i \in 1..n |-> w[i]]
  BY LenProperties
<1> HIDE DEF n
<1>2. \A i \in 1..n : n + 1 - i \in 1..n /\ n + 1 - (n + 1 - i) = i
  BY <1>1
<1>3. r = [i \in 1..n |-> w[n + 1 - i]]
  BY DEF Reversed, n
<1>4. r \in [1..n -> Clients]
  BY <1>1, <1>2, <1>3
<1>5. r \in Seq(Clients) /\ Len(r) = n
  BY <1>1, <1>4 DEF Seq
<1>6. Reversed(r) = [i \in 1..n |-> r[n + 1 - i]]
  BY <1>5 DEF Reversed
<1>7. \A i \in 1..n : r[n + 1 - i] = w[i]
  BY <1>2, <1>3
<1>8. Reversed(r) = w
  BY <1>1, <1>6, <1>7
<1> QED
  BY <1>2, <1>3, <1>5, <1>8 DEF n

LEMMA BackwardsLinked ==
    ASSUME Linked
    PROVE  Follow(prev, tail) = Reversed(List)
<1> DEFINE n == Len(List)
           r == Reversed(List)
<1>1. /\ List \in Seq(Clients) /\ n \in Nat
      /\ \A i, j \in 1..n : List[i] = List[j] => i = j
      /\ tail = IF n = 0 THEN Null ELSE List[n]
      /\ \A i \in 1..n : prev[List[i]] = IF i = 1 THEN Null ELSE List[i-1]
  BY LinkedType DEF Linked
<1>2. /\ r \in Seq(Clients) /\ Len(r) = n
      /\ \A i \in 1..n : n + 1 - i \in 1..n /\ r[i] = List[n + 1 - i]
  BY <1>1, ReversedTwice
<1> HIDE DEF n, r
<1>3. Distinct(r)
  <2> SUFFICES ASSUME NEW i \in 1..n, NEW j \in 1..n, r[i] = r[j] PROVE i = j
    BY <1>2 DEF Distinct
  <2>1. n + 1 - i = n + 1 - j
    <3>1. /\ n + 1 - i \in 1..n /\ n + 1 - j \in 1..n
          /\ List[n + 1 - i] = List[n + 1 - j]
      BY <1>2
    <3> QED
      BY <1>1, <3>1
  <2> QED
    BY <1>1, <2>1
<1>4. tail = IF n = 0 THEN Null ELSE r[1]
  <2>1. n # 0 => 1 \in 1..n /\ n + 1 - 1 = n
    BY <1>1
  <2> QED
    BY <1>1, <1>2, <2>1
<1>5. ASSUME NEW i \in 1..n
      PROVE  prev[r[i]] = IF i = n THEN Null ELSE r[i+1]
  <2>1. r[i] = List[n + 1 - i] /\ n + 1 - i \in 1..n
    BY <1>2
  <2>2. prev[r[i]] = IF n + 1 - i = 1 THEN Null ELSE List[n + 1 - i - 1]
    BY <1>1, <2>1
  <2>3. n + 1 - i = 1 <=> i = n
    BY <1>1
  <2>4. ASSUME i # n PROVE r[i+1] = List[n + 1 - i - 1]
    <3>1. i + 1 \in 1..n /\ n + 1 - (i + 1) = n + 1 - i - 1
      BY <1>1, <2>4
    <3>2. r[i+1] = List[n + 1 - (i + 1)]
      BY <1>2, <3>1
    <3> QED
      BY <3>1, <3>2
  <2> QED
    BY <2>2, <2>3, <2>4
<1>6. Chain(prev, tail, r)
  BY <1>2, <1>3, <1>4, <1>5 DEF Chain
<1> QED
  BY <1>6, FollowChain DEF r

\* The list stays doubly linked through push_back, pop_front and the removal of
\* any of its nodes.
THEOREM ListWellLinked == Spec => []WellLinked
<1>1. ASSUME LInv PROVE WellLinked
  <2>1. Linked /\ TypeOK
    BY <1>1 DEF LInv
  <2>2. /\ List \in Seq(Clients) /\ Len(List) \in Nat
        /\ head = IF Len(List) = 0 THEN Null ELSE List[1]
        /\ tail = IF Len(List) = 0 THEN Null ELSE List[Len(List)]
        /\ head = Null <=> Len(List) = 0
        /\ tail = Null <=> Len(List) = 0
        /\ \A i \in 1..Len(List) :
             /\ next[List[i]] = IF i = Len(List) THEN Null ELSE List[i+1]
             /\ prev[List[i]] = IF i = 1 THEN Null ELSE List[i-1]
    BY <2>1, LinkedType DEF Linked
  <2>3. List = Reversed(Follow(prev, tail))
    BY <2>1, <2>2, BackwardsLinked, ReversedTwice
  <2>4. head # Null => 1 \in 1..Len(List) /\ Len(List) \in 1..Len(List)
    BY <2>2
  <2> QED
    BY <2>2, <2>3, <2>4 DEF WellLinked
<1> QED
  BY <1>1, Inductive, PTL

\* No pointer of the queue, nor the cursor of wake_all, leads to a future that
\* was dropped or that is not enqueued.
THEOREM NothingDangles == Spec => []NoDangling
<1>1. ASSUME LInv PROVE NoDangling
  <2> SUFFICES ASSUME NEW c \in Clients,
                      c \in {List[i] : i \in 1..Len(List)} \cup {curr}
               PROVE  state[c] = "waiting" \/ (closing /\ state[c] = "woken")
    BY DEF NoDangling
  <2>1. CASE closing
    <3>1. PICK k \in 0..Len(List) :
            /\ Reached(k)
            /\ curr # Null <=> k < Len(List)
            /\ k < Len(List) => curr = List[k+1] /\ state[curr] = "waiting"
      BY <1>1, <2>1, WakingFacts
    <3>2. CASE c = curr
      BY <3>1, <3>2, ImplAssumption
    <3>3. CASE c # curr
      <4>1. PICK i \in 1..Len(List) : c = List[i]
        BY <3>3
      <4> QED
        BY <2>1, <3>1, <4>1 DEF Reached
    <3> QED
      BY <3>2, <3>3
  <2>2. CASE ~closing
    <3>1. P!IInv /\ curr = Null
      BY <1>1, <2>2 DEF LInv
    <3>2. PICK i \in 1..Len(List) : c = List[i]
      BY <3>1, ImplAssumption
    <3> QED
      BY <3>1, <3>2 DEF P!IInv, P!QueueExact
  <2> QED
    BY <2>1, <2>2
<1> QED
  BY <1>1, Inductive, PTL

\* The subtraction in the loop of add_permits never wraps, none of its waiters
\* misses nothing, and it starts to serve only when no permit is left.
THEOREM LoopStaysInRange == Spec => []LoopInRange
<1>1. ASSUME LInv PROVE LoopInRange
  <2>1. ASSUME NEW i \in 1..Len(List), ~closing PROVE Diff(List[i]) > 0
    <3>1. P!IInv /\ TypeOK /\ Linked
      BY <1>1, <2>1 DEF LInv
    <3>2. List[i] \in Clients
      BY <3>1, ListFacts
    <3>3. wants[List[i]] \in 0..UsizeMax /\ assigned[List[i]] \in 0..UsizeMax
      BY <3>1, <3>2 DEF P!IInv, P!TypeOK
    <3>4. assigned[List[i]] < wants[List[i]]
      BY <3>1 DEF P!IInv, P!OnlyFrontPartial
    <3> QED
      BY <3>3, <3>4, ImplAssumption DEF Diff
  <2>2. todo > 0 /\ head # Null => permits = 0
    BY <1>1, Serving
  <2> QED
    BY <2>1, <2>2 DEF LoopInRange
<1> QED
  BY <1>1, Inductive, PTL
-----------------------------------------------------------------------------
(* Serving a queue, with what each waiter misses as a parameter: the states*)
(* before and after an iteration of add_permits are compared by it.        *)

Firsts(w, k) == {w[i] : i \in 1..k}
NeedOf(w, k, m) == Total(Firsts(w, k), m)

Covers(w, n, m, k) == NeedOf(w, k, m) <= n /\ (k < Len(w) => n < NeedOf(w, k + 1, m))
ServedOf(w, n, m) == CHOOSE k \in 0..Len(w) : Covers(w, n, m, k)

\* A queue of which everybody misses something.
Lacking(w, m) ==
    /\ w \in Seq(Clients)
    /\ Distinct(w)
    /\ \A i \in 1..Len(w) : m[w[i]] \in Nat \ {0}

LEMMA NeedOfStep ==
    ASSUME NEW w, NEW m, Lacking(w, m), NEW k \in 0..Len(w)
    PROVE  /\ NeedOf(w, 0, m) = 0
           /\ NeedOf(w, k, m) \in Nat
           /\ k < Len(w) => NeedOf(w, k + 1, m) = NeedOf(w, k, m) + m[w[k+1]]
<1>1. /\ Len(w) \in Nat
      /\ \A i \in 1..Len(w) : w[i] \in Clients /\ m[w[i]] \in Nat
      /\ \A i, j \in 1..Len(w) : w[i] = w[j] => i = j
  BY DEF Lacking, Distinct
<1>2. /\ IsFiniteSet(Firsts(w, k))
      /\ \A c \in Firsts(w, k) : m[c] \in Nat
  <2>1. Firsts(w, k) \in SUBSET Clients /\ \A c \in Firsts(w, k) : m[c] \in Nat
    BY <1>1 DEF Firsts
  <2> QED
    BY <2>1, ImplAssumption, FS_Subset
<1>3. NeedOf(w, 0, m) = 0
  <2>1. Firsts(w, 0) = {}
    BY DEF Firsts
  <2> QED
    BY <2>1, TotalEmpty DEF NeedOf
<1>4. NeedOf(w, k, m) \in Nat
  BY <1>2, TotalType DEF NeedOf
<1>5. ASSUME k < Len(w)
      PROVE  NeedOf(w, k + 1, m) = NeedOf(w, k, m) + m[w[k+1]]
  <2>1. k + 1 \in 1..Len(w) /\ \A i \in 1..k : i \in 1..Len(w) /\ i # k + 1
    BY <1>1, <1>5
  <2>2. Firsts(w, k + 1) = Firsts(w, k) \cup {w[k+1]}
    BY <1>1, <1>5 DEF Firsts
  <2>3. w[k+1] \notin Firsts(w, k)
    BY <1>1, <2>1 DEF Firsts
  <2>4. \A c \in Firsts(w, k) \cup {w[k+1]} : m[c] \in Nat
    BY <1>1, <1>2, <2>1
  <2>5. Total(Firsts(w, k) \cup {w[k+1]}, m) = Total(Firsts(w, k), m) + m[w[k+1]]
    BY <1>2, <2>3, <2>4, TotalAdd
  <2> QED
    BY <2>2, <2>5 DEF NeedOf
<1> QED
  BY <1>3, <1>4, <1>5

\* More waiters miss more.
LEMMA NeedOfGrows ==
    ASSUME NEW w, NEW m, Lacking(w, m), NEW k \in 0..Len(w), NEW j \in 0..k
    PROVE  NeedOf(w, j, m) <= NeedOf(w, k, m)
<1>1. /\ Len(w) \in Nat
      /\ \A i \in 1..Len(w) : w[i] \in Clients /\ m[w[i]] \in Nat
  BY DEF Lacking
<1>2. /\ Firsts(w, k) \in SUBSET Clients /\ Firsts(w, j) \in SUBSET Firsts(w, k)
      /\ \A c \in Firsts(w, k) : m[c] \in Nat
  BY <1>1 DEF Firsts
<1>3. IsFiniteSet(Firsts(w, k))
  BY <1>2, ImplAssumption, FS_Subset
<1> QED
  BY <1>2, <1>3, TotalPart DEF NeedOf

\* How many are served is well defined ...
LEMMA ServedOfType ==
    ASSUME NEW w, NEW m, Lacking(w, m), NEW n \in Nat
    PROVE  ServedOf(w, n, m) \in 0..Len(w) /\ Covers(w, n, m, ServedOf(w, n, m))
<1>1. Len(w) \in Nat
  BY DEF Lacking
<1> DEFINE TooFar == {k \in 0..Len(w) : n < NeedOf(w, k, m)}
<1>2. \E k \in 0..Len(w) : Covers(w, n, m, k)
  <2>1. CASE TooFar = {}
    <3>1. Len(w) \in 0..Len(w) /\ NeedOf(w, Len(w), m) \in Nat
      BY <1>1, NeedOfStep
    <3>2. ~(n < NeedOf(w, Len(w), m))
      BY <2>1, <3>1
    <3> QED
      BY <1>1, <3>1, <3>2 DEF Covers
  <2>2. CASE TooFar # {}
    <3>1. TooFar \in SUBSET Nat
      BY <1>1
    <3>2. PICK j \in TooFar : \A k \in TooFar : j <= k
      BY <2>2, <3>1, LeastElement
    <3>3. j # 0 /\ j \in 0..Len(w) /\ n < NeedOf(w, j, m)
      BY <1>1, <3>2, NeedOfStep
    <3>4. j - 1 \in 0..Len(w) /\ j - 1 \notin TooFar /\ (j - 1) + 1 = j
      BY <1>1, <3>2, <3>3
    <3>5. NeedOf(w, j - 1, m) \in Nat
      BY <3>4, NeedOfStep
    <3>6. Covers(w, n, m, j - 1)
      BY <3>3, <3>4, <3>5 DEF Covers
    <3> QED
      BY <3>4, <3>6
  <2> QED
    BY <2>1, <2>2
<1> QED
  BY <1>2 DEF ServedOf

\* ... and unique.
LEMMA ServedOfIs ==
    ASSUME NEW w, NEW m, Lacking(w, m), NEW n \in Nat,
           NEW k \in 0..Len(w), Covers(w, n, m, k)
    PROVE  ServedOf(w, n, m) = k
<1> DEFINE j == ServedOf(w, n, m)
<1>1. j \in 0..Len(w) /\ Covers(w, n, m, j) /\ Len(w) \in Nat
  <2>1. Len(w) \in Nat
    BY DEF Lacking
  <2> QED
    BY <2>1, ServedOfType
<1> HIDE DEF j
<1>2. ASSUME NEW a \in 0..Len(w), NEW b \in 0..Len(w), a < b,
             Covers(w, n, m, a), Covers(w, n, m, b)
      PROVE  FALSE
  <2>1. a + 1 \in 0..b /\ a < Len(w) /\ a + 1 \in 0..Len(w)
    BY <1>1, <1>2
  <2>2. NeedOf(w, a + 1, m) <= NeedOf(w, b, m)
    BY <2>1, NeedOfGrows
  <2>3. NeedOf(w, a + 1, m) \in Nat /\ NeedOf(w, b, m) \in Nat
    BY <2>1, NeedOfStep
  <2> QED
    BY <1>2, <2>1, <2>2, <2>3 DEF Covers
<1>3. j = k
  BY <1>1, <1>2
<1> QED
  BY <1>3 DEF j

\* Only what the waiters of the queue miss matters.
LEMMA ServedOfSame ==
    ASSUME NEW w, NEW m, Lacking(w, m), NEW n \in Nat,
           NEW m2, \A i \in 1..Len(w) : m2[w[i]] = m[w[i]]
    PROVE  /\ Lacking(w, m2)
           /\ ServedOf(w, n, m2) = ServedOf(w, n, m)
           /\ \A k \in 0..Len(w) : NeedOf(w, k, m2) = NeedOf(w, k, m)
<1>1. Lacking(w, m2) /\ Len(w) \in Nat
  BY DEF Lacking
<1>2. ASSUME NEW k \in 0..Len(w) PROVE NeedOf(w, k, m2) = NeedOf(w, k, m)
  <2>1. \A c \in Firsts(w, k) : m2[c] = m[c]
    BY <1>1 DEF Firsts
  <2> QED
    BY <2>1, TotalSame DEF NeedOf
<1>3. ServedOf(w, n, m) \in 0..Len(w) /\ Covers(w, n, m, ServedOf(w, n, m))
  BY ServedOfType
<1>4. Covers(w, n, m2, ServedOf(w, n, m))
  <2> DEFINE j == ServedOf(w, n, m)
  <2>1. j < Len(w) => j + 1 \in 0..Len(w)
    BY <1>1, <1>3
  <2> HIDE DEF j
  <2>2. Covers(w, n, m2, j)
    BY <1>2, <1>3, <2>1 DEF Covers, j
  <2> QED
    BY <2>2 DEF j
<1> QED
  BY <1>1, <1>2, <1>3, <1>4, ServedOfIs

\* Nobody is served with fewer permits than the first waiter misses.
LEMMA ServedOfFew ==
    ASSUME NEW w, NEW m, Lacking(w, m), NEW n \in Nat, Len(w) > 0 => n < m[w[1]]
    PROVE  ServedOf(w, n, m) = 0 /\ NeedOf(w, 0, m) = 0
<1>1. Len(w) \in Nat /\ 0 \in 0..Len(w) /\ (Len(w) > 0 => m[w[1]] \in Nat)
  BY DEF Lacking
<1>2. /\ NeedOf(w, 0, m) = 0
      /\ 0 < Len(w) => NeedOf(w, 0 + 1, m) = NeedOf(w, 0, m) + m[w[0+1]]
  BY <1>1, NeedOfStep
<1>3. Covers(w, n, m, 0)
  BY <1>1, <1>2 DEF Covers
<1> QED
  BY <1>1, <1>2, <1>3, ServedOfIs

\* When the first waiter has been served, the rest is served as it would have been.
LEMMA ServedOfTail ==
    ASSUME NEW w, NEW m, Lacking(w, m), NEW n \in Nat, Len(w) > 0, m[w[1]] <= n
    PROVE  /\ Lacking(Tail(w), m)
           /\ ServedOf(w, n, m) \in 1..Len(w)
           /\ ServedOf(Tail(w), n - m[w[1]], m) = ServedOf(w, n, m) - 1
           /\ NeedOf(w, ServedOf(w, n, m), m)
                = m[w[1]] + NeedOf(Tail(w), ServedOf(w, n, m) - 1, m)
<1> DEFINE N == Len(w)
           u == Tail(w)
           d == m[w[1]]
           k == ServedOf(w, n, m)
<1>1. /\ w \in Seq(Clients) /\ N \in Nat \ {0} /\ w # <<>>
      /\ \A i \in 1..N : w[i] \in Clients /\ m[w[i]] \in Nat \ {0}
      /\ \A i, j \in 1..N : w[i] = w[j] => i = j
  BY DEF Lacking, Distinct
<1>2. u \in Seq(Clients) /\ Len(u) = N - 1 /\ \A i \in 1..(N-1) : u[i] = w[i+1]
  BY <1>1, HeadTailProperties
<1>3. k \in 0..N /\ Covers(w, n, m, k)
  BY ServedOfType
<1>4. d \in Nat \ {0}
  BY <1>1
<1> HIDE DEF N, u, d, k
<1>5. \A i \in 1..(N-1) : i + 1 \in 1..N /\ u[i] = w[i+1]
  BY <1>1, <1>2
<1>6. Lacking(u, m)
  <2>1. \A i, j \in 1..(N-1) : u[i] = u[j] => i = j
    <3> SUFFICES ASSUME NEW i \in 1..(N-1), NEW j \in 1..(N-1), u[i] = u[j]
                 PROVE  i = j
      OBVIOUS
    <3>1. i + 1 \in 1..N /\ j + 1 \in 1..N /\ w[i+1] = w[j+1]
      BY <1>5
    <3>2. i + 1 = j + 1
      BY <1>1, <3>1
    <3> QED
      BY <1>1, <3>2
  <2> QED
    BY <1>1, <1>2, <1>5, <2>1 DEF Lacking, Distinct
<1>7. ASSUME NEW j \in 0..(N-1)
      PROVE  /\ NeedOf(w, j + 1, m) = d + NeedOf(u, j, m)
             /\ NeedOf(u, j, m) \in Nat
  <2>1. Firsts(u, j) \in SUBSET Clients /\ \A c \in Firsts(u, j) : m[c] \in Nat
    <3>1. \A i \in 1..j : i \in 1..(N-1)
      BY <1>1, <1>7
    <3>2. \A i \in 1..j : u[i] \in Clients /\ m[u[i]] \in Nat
      BY <1>1, <1>5, <3>1
    <3> QED
      BY <3>2 DEF Firsts
  <2>2. IsFiniteSet(Firsts(u, j))
    BY <2>1, ImplAssumption, FS_Subset
  <2>3. w[1] \notin Firsts(u, j)
    <3>1. \A i \in 1..j : i \in 1..(N-1) /\ i + 1 # 1
      BY <1>1, <1>7
    <3>2. \A i \in 1..(N-1) : i + 1 # 1 => u[i] # w[1]
      BY <1>1, <1>5
    <3> QED
      BY <3>1, <3>2 DEF Firsts
  <2>4. Firsts(w, j + 1) = Firsts(u, j) \cup {w[1]}
    <3>1. ASSUME NEW i \in 1..(j+1) PROVE w[i] \in Firsts(u, j) \cup {w[1]}
      <4>1. CASE i = 1
        BY <4>1
      <4>2. CASE i # 1
        <5>1. i - 1 \in 1..j /\ i - 1 \in 1..(N-1) /\ (i - 1) + 1 = i
          BY <1>1, <1>7, <4>2
        <5>2. u[i-1] = w[i]
          BY <1>5, <5>1
        <5> QED
          BY <5>1, <5>2 DEF Firsts
      <4> QED
        BY <4>1, <4>2
    <3>2. ASSUME NEW i \in 1..j PROVE u[i] \in Firsts(w, j + 1)
      <4>1. i + 1 \in 1..(j+1) /\ i \in 1..(N-1)
        BY <1>1, <1>7
      <4> QED
        BY <1>5, <4>1 DEF Firsts
    <3>3. 1 \in 1..(j+1)
      BY <1>1, <1>7
    <3> QED
      BY <3>1, <3>2, <3>3 DEF Firsts
  <2>5. \A c \in Firsts(u, j) \cup {w[1]} : m[c] \in Nat
    BY <1>1, <1>4, <2>1 DEF d
  <2>6. Total(Firsts(u, j) \cup {w[1]}, m) = Total(Firsts(u, j), m) + m[w[1]]
    BY <2>2, <2>3, <2>5, TotalAdd
  <2>7. NeedOf(u, j, m) \in Nat
    BY <2>1, <2>2, TotalType DEF NeedOf
  <2>8. NeedOf(w, j + 1, m) = NeedOf(u, j, m) + d
    BY <2>4, <2>6 DEF NeedOf, d
  <2> QED
    BY <1>4, <2>7, <2>8
<1>8. k \in 1..N
  <2>1. ASSUME k = 0 PROVE FALSE
    <3>1. 0 \in 0..(N-1)
      BY <1>1
    <3>2. NeedOf(w, 0 + 1, m) = d + NeedOf(u, 0, m) /\ NeedOf(u, 0, m) = 0
      <4>1. 0 \in 0..Len(u)
        BY <1>2, <3>1
      <4> QED
        BY <1>6, <1>7, <3>1, <4>1, NeedOfStep
    <3>3. n < NeedOf(w, 0 + 1, m)
      BY <1>1, <1>3, <2>1 DEF Covers, N
    <3> QED
      BY <1>4, <3>2, <3>3 DEF d
  <2> QED
    BY <1>1, <1>3, <2>1
<1>9. k - 1 \in 0..(N-1) /\ (k - 1) + 1 = k /\ (k < N => k \in 0..(N-1))
  BY <1>1, <1>8
<1>10. NeedOf(w, k, m) = d + NeedOf(u, k - 1, m) /\ NeedOf(u, k - 1, m) \in Nat
  BY <1>7, <1>9
<1>11. Covers(u, n - d, m, k - 1)
  <2>1. NeedOf(w, k, m) <= n /\ (k < N => n < NeedOf(w, k + 1, m))
    BY <1>3 DEF Covers, N
  <2>2. k < N => NeedOf(w, k + 1, m) = d + NeedOf(u, k, m) /\ NeedOf(u, k, m) \in Nat
    BY <1>7, <1>9
  <2>3. k - 1 < N - 1 <=> k < N
    BY <1>1, <1>8
  <2> QED
    BY <1>2, <1>4, <1>9, <1>10, <2>1, <2>2, <2>3 DEF Covers
<1>12. n - d \in Nat
  BY <1>4 DEF d
<1>13. ServedOf(u, n - d, m) = k - 1
  BY <1>2, <1>6, <1>9, <1>11, <1>12, ServedOfIs
<1> QED
  BY <1>6, <1>8, <1>10, <1>13 DEF N, u, d, k
-----------------------------------------------------------------------------
(* Where the loops end.                                                    *)

Lacks == [c \in Clients |-> wants[c] - assigned[c]]
servedEnd == ServedOf(List, todo, Lacks)
leftEnd == todo - NeedOf(List, servedEnd, Lacks)
doneEnd == Firsts(List, servedEnd)

\* What a running add_permits comes to; without one this is the state as it is.
AddEnds ==
    /\ waitersEnd = SubSeq(List, servedEnd + 1, Len(List))
    /\ permitsEnd = IF servedEnd < Len(List) THEN permits
                    ELSE S!SaturatingAdd(permits, leftEnd)
    /\ stateEnd = [c \in Clients |-> IF c \in doneEnd THEN "woken" ELSE state[c]]
    /\ assignedEnd = [c \in Clients |->
                        IF c \in doneEnd THEN wants[c]
                        ELSE IF leftEnd > 0 /\ servedEnd < Len(List) /\ c = List[servedEnd+1]
                             THEN (wants[c] - assigned[c]) - leftEnd
                             ELSE assigned[c]]
    /\ notifiedEnd = [c \in Clients |->
                        IF c \in doneEnd /\ waker[c] = poller[c] THEN TRUE ELSE notified[c]]

LEMMA QueueLacks ==
    ASSUME LInv, ~closing
    PROVE  /\ P!IInv /\ TypeOK /\ Linked /\ curr = Null
           /\ List \in Seq(Clients) /\ Len(List) \in Nat
           /\ \A i \in 1..Len(List) : List[i] \in Clients
           /\ todo \in 0..UsizeMax /\ todo \in Nat
           /\ permits \in 0..UsizeMax
           /\ state \in [Clients -> {"absent", "inert", "waiting", "woken"}]
           /\ wants \in [Clients -> 0..UsizeMax]
           /\ assigned \in [Clients -> 0..UsizeMax]
           /\ notified \in [Clients -> BOOLEAN]
           /\ Lacking(List, Lacks)
           /\ servedEnd \in 0..Len(List) /\ Covers(List, todo, Lacks, servedEnd)
           /\ leftEnd \in 0..todo
<1>1. P!IInv /\ TypeOK /\ Linked /\ curr = Null
  BY DEF LInv
<1>2. /\ List \in Seq(Clients) /\ Len(List) \in Nat
      /\ \A i \in 1..Len(List) : List[i] \in Clients
      /\ \A i, j \in 1..Len(List) : List[i] = List[j] => i = j
  BY <1>1, ListFacts
<1>3. todo \in 0..UsizeMax /\ todo \in Nat
  BY <1>1, SameType, ImplAssumption
<1>4. /\ permits \in 0..UsizeMax
      /\ state \in [Clients -> {"absent", "inert", "waiting", "woken"}]
      /\ wants \in [Clients -> 0..UsizeMax]
      /\ assigned \in [Clients -> 0..UsizeMax]
      /\ notified \in [Clients -> BOOLEAN]
  BY <1>1 DEF P!IInv, P!TypeOK
<1>5. Lacking(List, Lacks)
  <2>1. ASSUME NEW i \in 1..Len(List) PROVE Lacks[List[i]] \in Nat \ {0}
    <3>1. List[i] \in Clients /\ assigned[List[i]] < wants[List[i]]
      BY <1>1, <1>2 DEF P!IInv, P!OnlyFrontPartial
    <3>2. wants[List[i]] \in 0..UsizeMax /\ assigned[List[i]] \in 0..UsizeMax
      BY <1>4, <3>1
    <3> QED
      BY <3>1, <3>2, ImplAssumption DEF Lacks
  <2> QED
    BY <1>2, <2>1 DEF Lacking, Distinct
<1>6. servedEnd \in 0..Len(List) /\ Covers(List, todo, Lacks, servedEnd)
  BY <1>3, <1>5, ServedOfType DEF servedEnd
<1>7. leftEnd \in 0..todo
  <2>1. NeedOf(List, servedEnd, Lacks) \in Nat /\ NeedOf(List, servedEnd, Lacks) <= todo
    BY <1>5, <1>6, NeedOfStep DEF Covers
  <2> QED
    BY <1>3, <2>1 DEF leftEnd
<1> QED
  BY <1>1, <1>2, <1>3, <1>4, <1>5, <1>6, <1>7

\* Semaphore serves as many.
LEMMA ServedSame ==
    /\ \A w, n : S!Served(w, n) = ServedOf(w, n, Lacks)
    /\ \A w, k : S!Need(w, k) = NeedOf(w, k, Lacks)
<1>1. ASSUME NEW w, NEW k PROVE S!Need(w, k) = NeedOf(w, k, Lacks)
  BY DEF S!Need, S!Total, S!FirstOf, S!Missing, S!Units, S!Cardinality,
         NeedOf, Firsts, Lacks, Total, Units, Cardinality
<1>2. ASSUME NEW w, NEW n PROVE S!Served(w, n) = ServedOf(w, n, Lacks)
  BY <1>1 DEF S!Served, ServedOf, Covers
<1> QED
  BY <1>1, <1>2

LEMMA AllOfIt ==
    ASSUME NEW w \in Seq(Clients)
    PROVE  SubSeq(w, 1, Len(w)) = w
<1>1. /\ Len(w) \in Nat /\ w \in [1..Len(w) -> Clients]
      /\ \A i \in 1..Len(w) : w[i] \in Clients
  BY LenProperties
<1>2. /\ SubSeq(w, 1, Len(w)) \in Seq(Clients)
      /\ Len(SubSeq(w, 1, Len(w))) = IF 1 <= Len(w) THEN Len(w) - 1 + 1 ELSE 0
      /\ \A i \in 1..(Len(w) - 1 + 1) : SubSeq(w, 1, Len(w))[i] = w[1 + i - 1]
  BY <1>1, SubSeqProperties
<1>3. /\ Len(SubSeq(w, 1, Len(w))) = Len(w)
      /\ \A i \in 1..Len(w) : SubSeq(w, 1, Len(w))[i] = w[i]
  BY <1>1, <1>2
<1> QED
  BY <1>2, <1>3, SeqEqual

LEMMA EndStates == LInv => (~closing => AddEnds)
<1> SUFFICES ASSUME LInv, ~closing PROVE AddEnds
  OBVIOUS
<1>1. /\ P!IInv /\ TypeOK
      /\ List \in Seq(Clients) /\ Len(List) \in Nat
      /\ \A i \in 1..Len(List) : List[i] \in Clients
      /\ todo \in 0..UsizeMax /\ todo \in Nat /\ permits \in 0..UsizeMax
      /\ state \in [Clients -> {"absent", "inert", "waiting", "woken"}]
      /\ assigned \in [Clients -> 0..UsizeMax]
      /\ notified \in [Clients -> BOOLEAN]
      /\ Lacking(List, Lacks)
  BY QueueLacks
<1>2. CASE todo # 0
  <2>1. /\ S!Served(List, todo) = servedEnd
        /\ S!Need(List, servedEnd) = NeedOf(List, servedEnd, Lacks)
    BY ServedSame DEF servedEnd
  <2>2. S!Left(List, todo) = leftEnd /\ S!Completed(List, todo) = doneEnd
    BY <2>1 DEF S!Left, leftEnd, S!Completed, S!FirstOf, doneEnd, Firsts
  <2>3. waitersEnd = SubSeq(List, servedEnd + 1, Len(List))
    BY <1>2, <2>1 DEF waitersEnd, InTheEnd, S!WaitersAfter
  <2>4. permitsEnd = IF servedEnd < Len(List) THEN permits
                     ELSE S!SaturatingAdd(permits, leftEnd)
    BY <1>2, <2>1, <2>2 DEF permitsEnd, InTheEnd, S!PermitsAfter
  <2>5. stateEnd = [c \in Clients |-> IF c \in doneEnd THEN "woken" ELSE state[c]]
    BY <1>2, <2>2 DEF stateEnd, InTheEnd, S!StateAfter
  <2>6. assignedEnd = [c \in Clients |->
                        IF c \in doneEnd THEN wants[c]
                        ELSE IF leftEnd > 0 /\ servedEnd < Len(List) /\ c = List[servedEnd+1]
                             THEN (wants[c] - assigned[c]) - leftEnd
                             ELSE assigned[c]]
    BY <1>2, <2>1, <2>2 DEF assignedEnd, InTheEnd, S!AssignedAfter, S!IsShort
  <2>7. notifiedEnd = [c \in Clients |->
                        IF c \in doneEnd /\ waker[c] = poller[c] THEN TRUE ELSE notified[c]]
    BY <1>2, <2>2 DEF notifiedEnd, InTheEnd, S!Wake
  <2> QED
    BY <2>3, <2>4, <2>5, <2>6, <2>7 DEF AddEnds
<1>3. CASE todo = 0
  <2>1. servedEnd = 0 /\ NeedOf(List, 0, Lacks) = 0
    <3>1. Len(List) > 0 => todo < Lacks[List[1]]
      BY <1>1, <1>3 DEF Lacking
    <3> QED
      BY <1>1, <3>1, ServedOfFew DEF servedEnd
  <2>2. leftEnd = 0 /\ doneEnd = {}
    BY <1>3, <2>1 DEF leftEnd, doneEnd, Firsts
  <2>3. waitersEnd = List /\ permitsEnd = permits /\ stateEnd = state
        /\ assignedEnd = assigned /\ notifiedEnd = notified
    BY <1>3 DEF waitersEnd, permitsEnd, stateEnd, assignedEnd, notifiedEnd, InTheEnd
  <2>4. SubSeq(List, servedEnd + 1, Len(List)) = List
    BY <1>1, <2>1, AllOfIt
  <2>5. S!SaturatingAdd(permits, leftEnd) = permits
    BY <1>1, <2>2, ImplAssumption DEF S!SaturatingAdd
  <2>6. /\ state = [c \in Clients |-> IF c \in doneEnd THEN "woken" ELSE state[c]]
        /\ notified = [c \in Clients |-> IF c \in doneEnd /\ waker[c] = poller[c]
                                         THEN TRUE ELSE notified[c]]
    BY <1>1, <2>2
  <2>7. assigned = [c \in Clients |->
                        IF c \in doneEnd THEN wants[c]
                        ELSE IF leftEnd > 0 /\ servedEnd < Len(List) /\ c = List[servedEnd+1]
                             THEN (wants[c] - assigned[c]) - leftEnd
                             ELSE assigned[c]]
    BY <1>1, <2>2
  <2> QED
    BY <2>3, <2>4, <2>5, <2>6, <2>7 DEF AddEnds
<1> QED
  BY <1>2, <1>3

LEMMA EndStatesNext == LInv' => (~closing' => AddEnds')
BY EndStates, PTL

\* Between two calls nothing is left to do.
LEMMA IdleEnds ==
    /\ Idle => /\ waitersEnd = List /\ permitsEnd = permits /\ stateEnd = state
               /\ assignedEnd = assigned /\ notifiedEnd = notified
               /\ (closed \/ closing) <=> closed
    /\ Idle' => /\ waitersEnd' = List' /\ permitsEnd' = permits' /\ stateEnd' = state'
                /\ assignedEnd' = assigned' /\ notifiedEnd' = notified'
                /\ (closed' \/ closing') <=> closed'
BY DEF Idle, waitersEnd, permitsEnd, stateEnd, assignedEnd, notifiedEnd, InTheEnd

ListLacking == Lacking(List, Lacks)

LEMMA ListLacks == LInv => (~closing => ListLacking)
BY QueueLacks DEF ListLacking

LEMMA ListLacksNext == LInv' => (~closing' => ListLacking')
BY ListLacks, PTL

endStates == <<waitersEnd, permitsEnd, stateEnd, assignedEnd, notifiedEnd>>

\* An iteration of add_permits goes on to where it went before.
LEMMA StorePermitsEnds ==
    ASSUME LInv, LInv', AddStep, StorePermits
    PROVE  UNCHANGED endStates
<1>1. /\ ~closing /\ ~closing' /\ Linked /\ TypeOK
      /\ todo \in 0..UsizeMax /\ permits \in 0..UsizeMax
      /\ Lacking(List, Lacks)
  BY Serving, QueueLacks DEF AddStep
<1>2. List' = List /\ List = <<>> /\ Len(List) = 0
  BY <1>1, SameList, ListFacts DEF StorePermits
<1>3. /\ permits' = S!SaturatingAdd(permits, todo) /\ todo' = 0
      /\ UNCHANGED <<state, assigned, notified, wants, waker, poller>>
  BY DEF AddStep, StorePermits
<1>4. Lacks' = Lacks
  BY <1>3 DEF Lacks
<1>5. /\ servedEnd = 0 /\ NeedOf(List, 0, Lacks) = 0
      /\ servedEnd' = 0
  <2>1. todo \in Nat /\ 0 \in Nat /\ ~(Len(List) > 0)
    BY <1>1, <1>2, ImplAssumption
  <2>2. ServedOf(List, todo, Lacks) = 0 /\ NeedOf(List, 0, Lacks) = 0
    BY <1>1, <2>1, ServedOfFew
  <2>3. ServedOf(List, 0, Lacks) = 0
    BY <1>1, <2>1, ServedOfFew
  <2> QED
    BY <1>2, <1>3, <1>4, <2>2, <2>3 DEF servedEnd
<1>6. leftEnd = todo /\ leftEnd' = 0 /\ doneEnd = {} /\ doneEnd' = {}
  BY <1>1, <1>2, <1>3, <1>4, <1>5 DEF leftEnd, doneEnd, Firsts
<1>7. S!SaturatingAdd(permits', 0) = permits'
  BY <1>1, <1>3, ImplAssumption DEF S!SaturatingAdd
<1>8. AddEnds /\ AddEnds'
  BY <1>1, EndStates, EndStatesNext
<1>9. permitsEnd = permits' /\ permitsEnd' = permits'
  <2>1. permitsEnd = S!SaturatingAdd(permits, leftEnd)
    BY <1>2, <1>5, <1>8 DEF AddEnds
  <2>2. permitsEnd' = S!SaturatingAdd(permits', leftEnd')
    BY <1>2, <1>5, <1>8 DEF AddEnds, S!SaturatingAdd
  <2> QED
    BY <1>3, <1>6, <1>7, <2>1, <2>2
<1>10. waitersEnd' = waitersEnd /\ stateEnd' = stateEnd /\ notifiedEnd' = notifiedEnd
  BY <1>2, <1>3, <1>5, <1>6, <1>8 DEF AddEnds
<1>11. assignedEnd' = assignedEnd
  <2>1. ~(servedEnd < Len(List)) /\ ~(servedEnd' < Len(List'))
    BY <1>2, <1>5
  <2> QED
    BY <1>3, <1>6, <1>8, <2>1 DEF AddEnds
<1> QED
  BY <1>9, <1>10, <1>11 DEF endStates

LEMMA GrantSomeEnds ==
    ASSUME LInv, LInv', AddStep, GrantSome
    PROVE  UNCHANGED endStates
<1>1. /\ ~closing /\ ~closing' /\ Linked
      /\ todo \in 1..UsizeMax /\ todo \in Nat
      /\ Len(List) \in Nat /\ 1 \in 1..Len(List) /\ head = List[1] /\ head \in Clients
      /\ wants \in [Clients -> 0..UsizeMax] /\ assigned \in [Clients -> 0..UsizeMax]
      /\ Lacking(List, Lacks)
  BY Serving, QueueLacks DEF AddStep, GrantSome
<1>2. List' = List /\ Len(List) > 0
  BY <1>1, SameList DEF GrantSome
<1>3. /\ assigned' = [assigned EXCEPT ![head] = Diff(head) - todo] /\ todo' = 0
      /\ UNCHANGED <<permits, state, notified, wants, waker, poller>>
      /\ todo < Diff(head)
  BY <1>1, ImplAssumption DEF AddStep, GrantSome, Diff
<1>4. Lacks[List[1]] = Diff(head)
  BY <1>1 DEF Lacks, Diff
<1>5. /\ servedEnd = 0 /\ NeedOf(List, 0, Lacks) = 0
  BY <1>1, <1>3, <1>4, ServedOfFew DEF servedEnd
<1>6. servedEnd' = 0 /\ NeedOf(List', 0, Lacks') = 0
  <2>1. Lacking(List', Lacks')
    BY <1>1, ListLacksNext DEF ListLacking
  <2>2. Lacks'[List'[1]] \in Nat \ {0} /\ 0 \in Nat
    BY <1>1, <1>2, <2>1 DEF Lacking
  <2>3. 0 < Lacks'[List'[1]]
    BY <2>2
  <2> QED
    BY <1>3, <2>1, <2>2, <2>3, ServedOfFew DEF servedEnd
<1>7. leftEnd = todo /\ leftEnd' = 0 /\ doneEnd = {} /\ doneEnd' = {}
  BY <1>1, <1>3, <1>5, <1>6 DEF leftEnd, doneEnd, Firsts
<1>8. AddEnds /\ AddEnds'
  BY <1>1, EndStates, EndStatesNext
<1>9. permitsEnd' = permitsEnd
  BY <1>2, <1>3, <1>5, <1>6, <1>8 DEF AddEnds
<1>10. waitersEnd' = waitersEnd /\ stateEnd' = stateEnd /\ notifiedEnd' = notifiedEnd
  BY <1>2, <1>3, <1>5, <1>6, <1>7, <1>8 DEF AddEnds
<1>11. assignedEnd' = assignedEnd
  <2>1. assignedEnd' = [c \in Clients |-> assigned'[c]]
    BY <1>7, <1>8 DEF AddEnds
  <2>2. assignedEnd = [c \in Clients |-> IF c = head THEN (wants[c] - assigned[c]) - todo
                                         ELSE assigned[c]]
    BY <1>1, <1>2, <1>5, <1>7, <1>8 DEF AddEnds
  <2>3. \A c \in Clients : assigned'[c] = IF c = head THEN (wants[c] - assigned[c]) - todo
                                          ELSE assigned[c]
    BY <1>1, <1>3 DEF Diff
  <2> QED
    BY <2>1, <2>2, <2>3
<1> QED
  BY <1>9, <1>10, <1>11 DEF endStates

LEMMA GrantAllEnds ==
    ASSUME LInv, LInv', AddStep, GrantAll
    PROVE  UNCHANGED endStates
<1>1. /\ ~closing /\ ~closing'
      /\ todo \in 1..UsizeMax /\ todo \in Nat
      /\ List \in Seq(Clients) /\ Len(List) \in Nat /\ 1 \in 1..Len(List)
      /\ head = List[1] /\ head \in Clients
      /\ \A i \in 1..Len(List) : List[i] \in Clients
      /\ \A i, j \in 1..Len(List) : List[i] = List[j] => i = j
      /\ state \in [Clients -> {"absent", "inert", "waiting", "woken"}]
      /\ wants \in [Clients -> 0..UsizeMax] /\ assigned \in [Clients -> 0..UsizeMax]
      /\ notified \in [Clients -> BOOLEAN]
      /\ Lacking(List, Lacks)
  BY Serving, QueueLacks, ListFacts DEF AddStep, GrantAll
<1>2. /\ List' = Tail(List)
      /\ List' \in Seq(Clients) /\ Len(List') = Len(List) - 1
      /\ \A i \in 1..Len(List') : i + 1 \in 1..Len(List) /\ List'[i] = List[i+1]
      /\ state' = [state EXCEPT ![head] = "woken"]
      /\ assigned' = [assigned EXCEPT ![head] = wants[head]]
      /\ todo' = todo - Diff(head) /\ todo' \in 0..UsizeMax
      /\ UNCHANGED <<permits, wants, waker, poller>>
  BY GrantAllIs
<1>3. notified' = S!Wake({head}) /\ Diff(head) <= todo
  BY DEF AddStep, GrantAll
<1>4. Lacks[List[1]] = Diff(head) /\ Len(List) > 0 /\ todo' \in Nat
  BY <1>1, <1>2, ImplAssumption DEF Lacks, Diff
<1>5. /\ Lacking(Tail(List), Lacks)
      /\ servedEnd \in 1..Len(List)
      /\ ServedOf(Tail(List), todo', Lacks) = servedEnd - 1
      /\ NeedOf(List, servedEnd, Lacks) = Diff(head) + NeedOf(Tail(List), servedEnd - 1, Lacks)
  <2>1. Lacks[List[1]] <= todo
    BY <1>3, <1>4
  <2>2. /\ Lacking(Tail(List), Lacks)
        /\ ServedOf(List, todo, Lacks) \in 1..Len(List)
        /\ ServedOf(Tail(List), todo - Lacks[List[1]], Lacks) = ServedOf(List, todo, Lacks) - 1
        /\ NeedOf(List, ServedOf(List, todo, Lacks), Lacks)
             = Lacks[List[1]] + NeedOf(Tail(List), ServedOf(List, todo, Lacks) - 1, Lacks)
    BY <1>1, <1>4, <2>1, ServedOfTail
  <2> QED
    BY <1>2, <1>4, <2>2 DEF servedEnd
<1>6. \A i \in 1..Len(List') : Lacks'[List'[i]] = Lacks[List'[i]]
  <2> TAKE i \in 1..Len(List')
  <2>1. List'[i] \in Clients /\ List'[i] # head
    <3>1. i + 1 \in 1..Len(List) /\ i + 1 # 1 /\ List'[i] = List[i+1]
      BY <1>2
    <3> QED
      BY <1>1, <3>1
  <2> QED
    BY <1>1, <1>2, <2>1 DEF Lacks
<1>7. servedEnd' = servedEnd - 1 /\ servedEnd - 1 \in 0..Len(List')
  <2>1. ServedOf(List', todo', Lacks') = ServedOf(List', todo', Lacks)
    BY <1>2, <1>4, <1>5, <1>6, ServedOfSame
  <2> QED
    BY <1>1, <1>2, <1>5, <2>1 DEF servedEnd
<1>8. leftEnd' = leftEnd
  <2>1. NeedOf(List', servedEnd - 1, Lacks') = NeedOf(List', servedEnd - 1, Lacks)
    <3>1. Lacking(List', Lacks) /\ todo' \in Nat /\ servedEnd - 1 \in 0..Len(List')
      BY <1>2, <1>4, <1>5, <1>7
    <3> QED
      BY <1>6, <3>1, ServedOfSame
  <2>2. NeedOf(List', servedEnd - 1, Lacks) \in Nat
    BY <1>2, <1>5, <1>7, NeedOfStep
  <2>3. Diff(head) \in Int
    BY <1>1, ImplAssumption DEF Diff
  <2> QED
    BY <1>1, <1>2, <1>5, <1>7, <2>1, <2>2, <2>3 DEF leftEnd
<1> DEFINE k == servedEnd
<1>9. k \in 1..Len(List) /\ servedEnd' = k - 1
  BY <1>5, <1>7
<1> HIDE DEF k
<1>10. doneEnd = doneEnd' \cup {head} /\ head \notin doneEnd'
  <2>1. doneEnd = {List[i] : i \in 1..k} /\ doneEnd' = {List'[i] : i \in 1..(k-1)}
    BY <1>9 DEF doneEnd, Firsts, k
  <2>2. ASSUME NEW i \in 1..k PROVE List[i] \in doneEnd' \cup {head}
    <3>1. CASE i = 1
      BY <1>1, <3>1
    <3>2. CASE i # 1
      <4>1. i - 1 \in 1..(k-1) /\ i - 1 \in 1..Len(List') /\ (i - 1) + 1 = i
        BY <1>1, <1>2, <1>9, <3>2
      <4>2. List'[i-1] = List[i]
        BY <1>2, <4>1
      <4> QED
        BY <2>1, <4>1, <4>2
    <3> QED
      BY <3>1, <3>2
  <2>3. ASSUME NEW i \in 1..(k-1) PROVE List'[i] \in doneEnd /\ List'[i] # head
    <3>1. i \in 1..Len(List') /\ i + 1 \in 1..k /\ i + 1 # 1
      BY <1>1, <1>2, <1>9
    <3>2. List'[i] = List[i+1] /\ i + 1 \in 1..Len(List)
      BY <1>2, <3>1
    <3>3. List[i+1] # List[1]
      BY <1>1, <3>1, <3>2
    <3>4. List[i+1] \in doneEnd
      BY <2>1, <3>1
    <3> QED
      BY <1>1, <3>2, <3>3, <3>4
  <2>4. head \in doneEnd
    BY <1>1, <1>9, <2>1
  <2> QED
    BY <2>1, <2>2, <2>3, <2>4
<1>11. k < Len(List) <=> k - 1 < Len(List')
  BY <1>1, <1>2, <1>9
<1>12. ASSUME k < Len(List) PROVE List'[k-1+1] = List[k+1] /\ List[k+1] # head
  <2>1. k \in 1..Len(List') /\ k - 1 + 1 = k /\ k + 1 \in 1..Len(List) /\ k + 1 # 1
    <3>1. Len(List) \in Nat /\ Len(List') = Len(List) - 1
      BY <1>1, <1>2
    <3> QED
      BY <1>9, <1>12, <3>1
  <2> QED
    BY <1>1, <1>2, <2>1
<1>13. AddEnds /\ AddEnds'
  BY <1>1, EndStates, EndStatesNext
<1>14. permitsEnd' = permitsEnd
  <2>1. permitsEnd = IF k < Len(List) THEN permits ELSE S!SaturatingAdd(permits, leftEnd)
    BY <1>13 DEF AddEnds, k
  <2>2. permitsEnd' = IF k - 1 < Len(List') THEN permits
                      ELSE S!SaturatingAdd(permits, leftEnd)
    BY <1>2, <1>8, <1>9, <1>13 DEF AddEnds, S!SaturatingAdd
  <2> QED
    BY <1>11, <2>1, <2>2
<1>15. waitersEnd' = waitersEnd
  <2>1. /\ waitersEnd = SubSeq(List, k + 1, Len(List))
        /\ waitersEnd' = SubSeq(Tail(List), k - 1 + 1, Len(Tail(List)))
    BY <1>2, <1>9, <1>13 DEF AddEnds, k
  <2>2. SubSeq(Tail(List), k - 1 + 1, Len(Tail(List))) = SubSeq(List, k + 1, Len(List))
    <3> DEFINE w == List
               u == Tail(List)
    <3>1. /\ w \in Seq(Clients) /\ Len(w) \in Nat /\ u \in Seq(Clients)
          /\ Len(u) = Len(w) - 1 /\ k \in 1..Len(w)
          /\ \A i \in 1..Len(u) : i + 1 \in 1..Len(w) /\ u[i] = w[i+1]
          /\ \A i \in 1..Len(w) : w[i] \in Clients
      BY <1>1, <1>2, <1>9
    <3> HIDE DEF w, u
    <3>2. /\ \A i \in (k-1+1)..Len(u) : u[i] \in Clients
          /\ \A i \in (k+1)..Len(w) : w[i] \in Clients
          /\ k - 1 + 1 \in Int /\ k + 1 \in Int /\ Len(u) \in Int /\ Len(w) \in Int
      BY <3>1
    <3>3. /\ SubSeq(u, k - 1 + 1, Len(u)) \in Seq(Clients)
          /\ Len(SubSeq(u, k - 1 + 1, Len(u)))
               = IF k - 1 + 1 <= Len(u) THEN Len(u) - (k - 1 + 1) + 1 ELSE 0
          /\ \A i \in 1..(Len(u) - (k - 1 + 1) + 1) :
               SubSeq(u, k - 1 + 1, Len(u))[i] = u[(k - 1 + 1) + i - 1]
      BY <3>2, SubSeqProperties
    <3>4. /\ SubSeq(w, k + 1, Len(w)) \in Seq(Clients)
          /\ Len(SubSeq(w, k + 1, Len(w)))
               = IF k + 1 <= Len(w) THEN Len(w) - (k + 1) + 1 ELSE 0
          /\ \A i \in 1..(Len(w) - (k + 1) + 1) :
               SubSeq(w, k + 1, Len(w))[i] = w[(k + 1) + i - 1]
      BY <3>2, SubSeqProperties
    <3>5. /\ Len(SubSeq(u, k - 1 + 1, Len(u))) = Len(w) - k
          /\ Len(SubSeq(w, k + 1, Len(w))) = Len(w) - k
      BY <3>1, <3>3, <3>4
    <3>6. ASSUME NEW i \in 1..(Len(w) - k)
          PROVE  SubSeq(u, k - 1 + 1, Len(u))[i] = SubSeq(w, k + 1, Len(w))[i]
      <4>1. /\ i \in 1..(Len(u) - (k - 1 + 1) + 1) /\ i \in 1..(Len(w) - (k + 1) + 1)
            /\ (k - 1 + 1) + i - 1 \in 1..Len(u)
            /\ (k - 1 + 1) + i - 1 + 1 = (k + 1) + i - 1
        BY <3>1
      <4>2. u[(k - 1 + 1) + i - 1] = w[(k + 1) + i - 1]
        BY <3>1, <4>1
      <4> QED
        BY <3>3, <3>4, <4>1, <4>2
    <3> QED
      BY <3>3, <3>4, <3>5, <3>6, SeqEqual DEF w, u
  <2> QED
    BY <2>1, <2>2
<1>16. stateEnd' = stateEnd
  <2>1. /\ stateEnd = [c \in Clients |-> IF c \in doneEnd THEN "woken" ELSE state[c]]
        /\ stateEnd' = [c \in Clients |-> IF c \in doneEnd' THEN "woken" ELSE state'[c]]
    BY <1>13 DEF AddEnds
  <2>2. \A c \in Clients : (IF c \in doneEnd THEN "woken" ELSE state[c])
                             = IF c \in doneEnd' THEN "woken" ELSE state'[c]
    BY <1>1, <1>2, <1>10
  <2> QED
    BY <2>1, <2>2
<1>17. assignedEnd' = assignedEnd
  <2> DEFINE short(c) == leftEnd > 0 /\ k < Len(List) /\ c = List[k+1]
  <2>1. /\ assignedEnd = [c \in Clients |->
                            IF c \in doneEnd THEN wants[c]
                            ELSE IF short(c) THEN (wants[c] - assigned[c]) - leftEnd
                                 ELSE assigned[c]]
        /\ assignedEnd' = [c \in Clients |->
                            IF c \in doneEnd' THEN wants[c]
                            ELSE IF short(c) THEN (wants[c] - assigned'[c]) - leftEnd
                                 ELSE assigned'[c]]
    <3>1. assignedEnd = [c \in Clients |->
                            IF c \in doneEnd THEN wants[c]
                            ELSE IF short(c) THEN (wants[c] - assigned[c]) - leftEnd
                                 ELSE assigned[c]]
      BY <1>13 DEF AddEnds, k
    <3>2. assignedEnd' = [c \in Clients |->
                            IF c \in doneEnd' THEN wants'[c]
                            ELSE IF leftEnd' > 0 /\ k - 1 < Len(List') /\ c = List'[k-1+1]
                                 THEN (wants'[c] - assigned'[c]) - leftEnd'
                                 ELSE assigned'[c]]
      BY <1>9, <1>13 DEF AddEnds
    <3>3. \A c : short(c) <=> leftEnd' > 0 /\ k - 1 < Len(List') /\ c = List'[k-1+1]
      BY <1>8, <1>11, <1>12
    <3> HIDE DEF short
    <3>4. \A c \in Clients :
            (IF c \in doneEnd' THEN wants'[c]
             ELSE IF leftEnd' > 0 /\ k - 1 < Len(List') /\ c = List'[k-1+1]
                  THEN (wants'[c] - assigned'[c]) - leftEnd' ELSE assigned'[c])
            = IF c \in doneEnd' THEN wants[c]
              ELSE IF short(c) THEN (wants[c] - assigned'[c]) - leftEnd ELSE assigned'[c]
      <4> TAKE c \in Clients
      <4>1. short(c) <=> leftEnd' > 0 /\ k - 1 < Len(List') /\ c = List'[k-1+1]
        BY <3>3
      <4>2. wants' = wants /\ leftEnd' = leftEnd
        BY <1>2, <1>8
      <4>3. CASE short(c)
        BY ONLY <4>1, <4>2, <4>3
      <4>4. CASE ~short(c)
        BY ONLY <4>1, <4>2, <4>4
      <4> QED
        BY <4>3, <4>4
    <3> QED
      BY <3>1, <3>2, <3>4
  <2>2. ~short(head)
    BY <1>12
  <2> HIDE DEF short
  <2>3. \A c \in Clients :
          (IF c \in doneEnd THEN wants[c]
           ELSE IF short(c) THEN (wants[c] - assigned[c]) - leftEnd ELSE assigned[c])
          = IF c \in doneEnd' THEN wants[c]
            ELSE IF short(c) THEN (wants[c] - assigned'[c]) - leftEnd ELSE assigned'[c]
    BY <1>1, <1>2, <1>10, <2>2
  <2> QED
    BY <2>1, <2>3
<1>18. notifiedEnd' = notifiedEnd
  <2>1. /\ notifiedEnd = [c \in Clients |-> IF c \in doneEnd /\ waker[c] = poller[c]
                                            THEN TRUE ELSE notified[c]]
        /\ notifiedEnd' = [c \in Clients |-> IF c \in doneEnd' /\ waker[c] = poller[c]
                                             THEN TRUE ELSE notified'[c]]
    BY <1>2, <1>13 DEF AddEnds
  <2>2. \A c \in Clients : notified'[c] = IF c = head /\ waker[c] = poller[c]
                                          THEN TRUE ELSE notified[c]
    BY <1>3 DEF S!Wake
  <2>3. \A c \in Clients :
          (IF c \in doneEnd /\ waker[c] = poller[c] THEN TRUE ELSE notified[c])
          = IF c \in doneEnd' /\ waker[c] = poller[c] THEN TRUE ELSE notified'[c]
    BY <1>10, <2>2
  <2> QED
    BY <2>1, <2>3
<1> QED
  BY <1>14, <1>15, <1>16, <1>17, <1>18 DEF endStates

\* What a walk from the node behind the first k of a chain comes to.
Behind(w, k) == IF k = Len(w) THEN Null ELSE w[k+1]
Visited(w) == {w[i] : i \in 1..Len(w)}

LEMMA WalkFrom ==
    ASSUME NEW pointer, NEW first, NEW w, Chain(pointer, first, w),
           NEW k \in 0..Len(w)
    PROVE  Visited(Follow(pointer, Behind(w, k))) = {w[i] : i \in (k+1)..Len(w)}
<1> DEFINE c == Behind(w, k)
           n == Len(w)
           u == SubSeq(w, k + 1, n)
<1>1. /\ w \in Seq(Clients) /\ n \in Nat
      /\ \A i \in 1..n : w[i] \in Clients
      /\ \A i, j \in 1..n : w[i] = w[j] => i = j
      /\ \A i \in 1..n : pointer[w[i]] = IF i = n THEN Null ELSE w[i+1]
  BY DEF Chain, Distinct
<1>2. u \in Seq(Clients) /\ Len(u) = n - k /\ \A i \in 1..(n-k) : u[i] = w[k+i]
  <2>1. /\ \A i \in (k+1)..n : w[i] \in Clients
        /\ k + 1 \in Int /\ n \in Int
    BY <1>1
  <2>2. /\ u \in Seq(Clients)
        /\ Len(u) = IF k + 1 <= n THEN n - (k + 1) + 1 ELSE 0
        /\ \A i \in 1..(n - (k + 1) + 1) : u[i] = w[(k + 1) + i - 1]
    BY <2>1, SubSeqProperties
  <2>3. Len(u) = n - k /\ n - (k + 1) + 1 = n - k
    BY <1>1, <2>2
  <2>4. \A i \in 1..(n-k) : (k + 1) + i - 1 = k + i
    BY <1>1
  <2> QED
    BY <2>2, <2>3, <2>4
<1> HIDE DEF n, u
<1>3. \A i \in 1..(n-k) : k + i \in 1..n /\ u[i] = w[k+i]
  BY <1>1, <1>2 DEF n
<1>4. Chain(pointer, c, u)
  <2>1. \A i, j \in 1..(n-k) : u[i] = u[j] => i = j
    <3> SUFFICES ASSUME NEW i \in 1..(n-k), NEW j \in 1..(n-k), u[i] = u[j]
                 PROVE  i = j
      OBVIOUS
    <3>1. k + i \in 1..n /\ k + j \in 1..n /\ w[k+i] = w[k+j]
      BY <1>3
    <3>2. k + i = k + j
      BY <1>1, <3>1
    <3> QED
      BY <1>1, <3>2
  <2>2. c = IF n - k = 0 THEN Null ELSE u[1]
    <3>1. k = n <=> n - k = 0
      BY <1>1 DEF n
    <3>2. k # n => 1 \in 1..(n-k)
      BY <1>1 DEF n
    <3> QED
      BY <1>3, <3>1, <3>2 DEF n, Behind
  <2>3. ASSUME NEW i \in 1..(n-k)
        PROVE  pointer[u[i]] = IF i = n - k THEN Null ELSE u[i+1]
    <3>1. pointer[u[i]] = IF k + i = n THEN Null ELSE w[k+i+1]
      BY <1>1, <1>3
    <3>2. k + i = n <=> i = n - k
      BY <1>1
    <3>3. ASSUME i # n - k PROVE u[i+1] = w[k+i+1]
      <4>1. i + 1 \in 1..(n-k) /\ k + (i + 1) = k + i + 1
        BY <1>1, <3>3
      <4> QED
        BY <1>3, <4>1
    <3> QED
      BY <3>1, <3>2, <3>3
  <2> QED
    BY <1>2, <2>1, <2>2, <2>3 DEF Chain, Distinct
<1>5. Follow(pointer, c) = u
  BY <1>4, FollowChain
<1>6. {u[i] : i \in 1..(n-k)} = {w[i] : i \in (k+1)..n}
  <2>1. \A i \in 1..(n-k) : k + i \in (k+1)..n
    BY <1>1
  <2>2. \A i \in (k+1)..n : i - k \in 1..(n-k) /\ k + (i - k) = i
    BY <1>1
  <2>3. ASSUME NEW i \in (k+1)..n PROVE w[i] \in {u[j] : j \in 1..(n-k)}
    <3>1. i - k \in 1..(n-k) /\ k + (i - k) = i
      BY <2>2
    <3>2. u[i-k] = w[i]
      BY <1>3, <3>1
    <3> QED
      BY <3>1, <3>2
  <2>4. ASSUME NEW i \in 1..(n-k) PROVE u[i] \in {w[j] : j \in (k+1)..n}
    BY <1>3, <2>1
  <2> QED
    BY <2>3, <2>4
<1> QED
  BY <1>2, <1>5, <1>6 DEF n, Visited

\* Once the close began, waking one more waiter changes nothing of what it comes to.
LEMMA WakeStepEnds ==
    ASSUME LInv, LInv', WakeStep
    PROVE  UNCHANGED <<endStates, closing>>
<1>1. /\ closing /\ closing' /\ todo = 0 /\ todo' = 0 /\ Linked
  BY WakingFacts DEF WakeStep, Waking
<1>2. PICK k \in 0..Len(List) :
        /\ Reached(k)
        /\ k + 1 \in 1..Len(List) /\ k + 1 \in 0..Len(List)
        /\ curr = List[k+1]
        /\ next[curr] = IF k + 1 = Len(List) THEN Null ELSE List[k+1+1]
  BY WakingFacts DEF WakeStep
<1>3. /\ state' = [state EXCEPT ![curr] = "woken"]
      /\ notified' = S!Wake({curr})
      /\ curr' = next[curr]
      /\ UNCHANGED <<permits, assigned, waker, poller, next, closing>>
  BY DEF WakeStep, links
<1>4. Chain(next, head, List) /\ Len(List) \in Nat
  BY <1>1, LinkedType DEF Linked, DoublyLinked
<1>5. Woken = {List[i] : i \in (k+1)..Len(List)}
  <2>1. curr = Behind(List, k)
    BY <1>2 DEF Reached, Behind
  <2>2. Visited(Follow(next, curr)) = {List[i] : i \in (k+1)..Len(List)}
    BY <1>4, <2>1, WalkFrom
  <2> QED
    BY <2>2 DEF Woken, ToWake, Visited
<1>6. Woken' = {List[i] : i \in (k+1+1)..Len(List)}
  <2>1. curr' = Behind(List, k + 1)
    BY <1>2, <1>3 DEF Behind
  <2>2. Visited(Follow(next, curr')) = {List[i] : i \in (k+1+1)..Len(List)}
    BY <1>2, <1>4, <2>1, WalkFrom
  <2> QED
    BY <1>3, <2>2 DEF Woken, ToWake, Visited
<1>7. \A c : c \in Woken <=> c \in Woken' \/ c = curr
  <2>1. \A i \in (k+1)..Len(List) : i = k + 1 \/ i \in (k+1+1)..Len(List)
    BY <1>2, <1>4
  <2>2. \A i \in (k+1+1)..Len(List) : i \in (k+1)..Len(List)
    BY <1>2, <1>4
  <2>3. k + 1 \in (k+1)..Len(List)
    BY <1>2, <1>4
  <2> QED
    BY <1>2, <1>5, <1>6, <2>1, <2>2, <2>3
<1>8. state \in [Clients -> {"absent", "inert", "waiting", "woken"}]
  BY <1>1, WakingFacts DEF P!TypeOK
<1>9. waitersEnd' = waitersEnd /\ permitsEnd' = permitsEnd /\ assignedEnd' = assignedEnd
  BY <1>1, <1>3 DEF waitersEnd, permitsEnd, assignedEnd, InTheEnd
<1>10. stateEnd' = stateEnd
  <2>1. /\ stateEnd = [c \in Clients |-> IF c \in Woken THEN "woken" ELSE state[c]]
        /\ stateEnd' = [c \in Clients |-> IF c \in Woken' THEN "woken" ELSE state'[c]]
    BY <1>1 DEF stateEnd
  <2>2. \A c \in Clients : (IF c \in Woken THEN "woken" ELSE state[c])
                             = IF c \in Woken' THEN "woken" ELSE state'[c]
    BY <1>3, <1>7, <1>8
  <2> QED
    BY <2>1, <2>2
<1>11. notifiedEnd' = notifiedEnd
  <2>1. /\ notifiedEnd = [c \in Clients |-> IF c \in Woken /\ waker[c] = poller[c]
                                            THEN TRUE ELSE notified[c]]
        /\ notifiedEnd' = [c \in Clients |-> IF c \in Woken' /\ waker[c] = poller[c]
                                             THEN TRUE ELSE notified'[c]]
    BY <1>1, <1>3 DEF notifiedEnd, S!Wake
  <2>2. \A c \in Clients : notified'[c] = IF c = curr /\ waker[c] = poller[c]
                                          THEN TRUE ELSE notified[c]
    BY <1>3 DEF S!Wake
  <2>3. \A c \in Clients :
          (IF c \in Woken /\ waker[c] = poller[c] THEN TRUE ELSE notified[c])
          = IF c \in Woken' /\ waker[c] = poller[c] THEN TRUE ELSE notified'[c]
    BY <1>7, <2>2
  <2> QED
    BY <2>1, <2>3
<1> QED
  BY <1>3, <1>9, <1>10, <1>11 DEF endStates

LEMMA CloseDoneEnds ==
    ASSUME LInv, LInv', CloseDone
    PROVE  UNCHANGED endStates /\ closing /\ closed'
<1>1. /\ closing /\ ~closing' /\ todo = 0 /\ todo' = 0 /\ Linked /\ curr = Null
      /\ closed' = TRUE
      /\ UNCHANGED <<permits, state, assigned, notified>>
  BY WakingFacts DEF CloseDone, Waking
<1>2. List' = <<>>
  <2>1. head' = Null /\ Linked' /\ TypeOK'
    BY DEF LInv, CloseDone
  <2>2. DoublyLinked(head', tail', next', prev', <<>>)
    <3>1. <<>> \in Seq(Clients) /\ Len(<<>>) = 0
      BY EmptySeq
    <3> QED
      BY <3>1 DEF CloseDone, DoublyLinked, Chain, Distinct
  <2> QED
    BY <2>2, ListIsNext
<1>3. Woken = {}
  <2>1. PICK k \in 0..Len(List) : Reached(k) /\ ~(k < Len(List))
    BY <1>1, WakingFacts
  <2>2. Chain(next, head, List) /\ Len(List) \in Nat
    BY <1>1, LinkedType DEF Linked, DoublyLinked
  <2>3. curr = Behind(List, k)
    BY <2>1 DEF Reached, Behind
  <2>4. Visited(Follow(next, curr)) = {List[i] : i \in (k+1)..Len(List)}
    BY <2>2, <2>3, WalkFrom
  <2>5. (k+1)..Len(List) = {}
    BY <2>1, <2>2
  <2> QED
    BY <2>4, <2>5 DEF Woken, ToWake, Visited
<1>4. /\ state \in [Clients -> {"absent", "inert", "waiting", "woken"}]
      /\ notified \in [Clients -> BOOLEAN]
  BY <1>1, WakingFacts DEF P!TypeOK
<1>5. waitersEnd' = waitersEnd /\ permitsEnd' = permitsEnd /\ assignedEnd' = assignedEnd
  BY <1>1, <1>2 DEF waitersEnd, permitsEnd, assignedEnd, InTheEnd
<1>6. stateEnd = state /\ stateEnd' = state
  BY <1>1, <1>3, <1>4 DEF stateEnd, InTheEnd
<1>7. notifiedEnd = notified /\ notifiedEnd' = notified
  BY <1>1, <1>3, <1>4 DEF notifiedEnd, InTheEnd, S!Wake
<1> QED
  BY <1>1, <1>5, <1>6, <1>7 DEF endStates

-----------------------------------------------------------------------------
(* Every call takes effect, as Semaphore says, when it begins.             *)

\* The first k waiters of w are served by n permits, and l are left.
Serves(w, n, k, l) == k = ServedOf(w, n, Lacks) /\ l = n - NeedOf(w, k, Lacks)

PermitsThen(w, k, l) == IF k < Len(w) THEN permits ELSE S!SaturatingAdd(permits, l)
StateThen(w, k) == [c \in Clients |-> IF c \in Firsts(w, k) THEN "woken" ELSE state[c]]
AssignedThen(w, k, l) ==
    [c \in Clients |-> IF c \in Firsts(w, k) THEN wants[c]
                       ELSE IF l > 0 /\ k < Len(w) /\ c = w[k+1]
                            THEN (wants[c] - assigned[c]) - l
                            ELSE assigned[c]]
NotifiedThen(w, k) ==
    [c \in Clients |-> IF c \in Firsts(w, k) /\ waker[c] = poller[c] THEN TRUE
                       ELSE notified[c]]

LEMMA AbstractAfter ==
    ASSUME Idle, NEW w, NEW n, NEW k, NEW l, Serves(w, n, k, l)
    PROVE  /\ Abstract!WaitersAfter(w, n) = SubSeq(w, k + 1, Len(w))
           /\ Abstract!PermitsAfter(w, n) = PermitsThen(w, k, l)
           /\ Abstract!StateAfter(w, n) = StateThen(w, k)
           /\ Abstract!AssignedAfter(w, n) = AssignedThen(w, k, l)
           /\ Abstract!Wake(Abstract!Completed(w, n)) = NotifiedThen(w, k)
<1>1. /\ waitersEnd = List /\ permitsEnd = permits /\ stateEnd = state
      /\ assignedEnd = assigned /\ notifiedEnd = notified
  BY IdleEnds
<1>2. \A j : Abstract!Need(w, j) = NeedOf(w, j, Lacks)
  BY <1>1 DEF Abstract!Need, Abstract!Total, Abstract!FirstOf, Abstract!Missing,
              Abstract!Units, Abstract!Cardinality,
              NeedOf, Firsts, Lacks, Total, Units, Cardinality
<1>3. Abstract!Served(w, n) = k
  BY <1>2 DEF Abstract!Served, ServedOf, Covers, Serves
<1>4. Abstract!Left(w, n) = l /\ Abstract!Completed(w, n) = Firsts(w, k)
  BY <1>2, <1>3 DEF Abstract!Left, Abstract!Completed, Abstract!FirstOf, Firsts, Serves
<1> QED
  BY <1>1, <1>3, <1>4
     DEF Abstract!WaitersAfter, Abstract!PermitsAfter, Abstract!StateAfter,
         Abstract!AssignedAfter, Abstract!IsShort, Abstract!Wake,
         Abstract!SaturatingAdd, S!SaturatingAdd,
         PermitsThen, StateThen, AssignedThen, NotifiedThen

\* A call that serves the queue as it is with todo' permits.
LEMMA BeginsEnds ==
    ASSUME LInv, LInv', Idle, ~closing', UNCHANGED links,
           UNCHANGED <<permits, state, wants, assigned, waker, poller, notified>>
    PROVE  /\ permitsEnd' = Abstract!PermitsAfter(waitersEnd, todo')
           /\ waitersEnd' = Abstract!WaitersAfter(waitersEnd, todo')
           /\ stateEnd' = Abstract!StateAfter(waitersEnd, todo')
           /\ assignedEnd' = Abstract!AssignedAfter(waitersEnd, todo')
           /\ notifiedEnd' = Abstract!Wake(Abstract!Completed(waitersEnd, todo'))
<1>1. List' = List /\ Lacks' = Lacks /\ waitersEnd = List
  BY SameList, IdleEnds DEF LInv, Lacks
<1>2. AddEnds'
  BY EndStatesNext
<1> DEFINE k == servedEnd'
           l == leftEnd'
<1>3. /\ Serves(List, todo', k, l)
      /\ doneEnd' = Firsts(List, k)
  BY <1>1 DEF servedEnd, leftEnd, doneEnd, Serves
<1>4. /\ waitersEnd' = SubSeq(List, k + 1, Len(List))
      /\ permitsEnd' = PermitsThen(List, k, l)
      /\ stateEnd' = StateThen(List, k)
      /\ assignedEnd' = AssignedThen(List, k, l)
      /\ notifiedEnd' = NotifiedThen(List, k)
  BY <1>1, <1>2, <1>3
     DEF AddEnds, S!SaturatingAdd, PermitsThen, StateThen, AssignedThen, NotifiedThen
<1> HIDE DEF k, l
<1> QED
  BY <1>1, <1>3, <1>4, AbstractAfter

LEMMA AddPermitsIs ==
    ASSUME LInv, LInv', Idle, NEW n \in Amounts, AddPermits(n)
    PROVE  Abstract!AddPermits(n)
<1>1. ~closing /\ ~closing' /\ todo' = n
  BY DEF Idle, AddPermits
<1>2. /\ permitsEnd' = Abstract!PermitsAfter(waitersEnd, n)
      /\ waitersEnd' = Abstract!WaitersAfter(waitersEnd, n)
      /\ stateEnd' = Abstract!StateAfter(waitersEnd, n)
      /\ assignedEnd' = Abstract!AssignedAfter(waitersEnd, n)
      /\ notifiedEnd' = Abstract!Wake(Abstract!Completed(waitersEnd, n))
  BY <1>1, BeginsEnds DEF AddPermits
<1> QED
  BY <1>2 DEF AddPermits, Abstract!AddPermits

LEMMA DropPermitIs ==
    ASSUME LInv, LInv', Idle, NEW c \in Clients, DropPermit(c)
    PROVE  Abstract!DropPermit(c)
<1>1. ~closing /\ ~closing' /\ todo' = held[c]
  BY DEF Idle, DropPermit
<1>2. /\ permitsEnd' = Abstract!PermitsAfter(waitersEnd, held[c])
      /\ waitersEnd' = Abstract!WaitersAfter(waitersEnd, held[c])
      /\ stateEnd' = Abstract!StateAfter(waitersEnd, held[c])
      /\ assignedEnd' = Abstract!AssignedAfter(waitersEnd, held[c])
      /\ notifiedEnd' = Abstract!Wake(Abstract!Completed(waitersEnd, held[c]))
  BY <1>1, BeginsEnds DEF DropPermit
<1> QED
  BY <1>2 DEF DropPermit, Abstract!DropPermit

LEMMA CloseIs ==
    ASSUME LInv, Idle, Close
    PROVE  Abstract!Close
<1>1. /\ closing' = TRUE /\ curr' = head /\ todo' = 0 /\ Linked
      /\ UNCHANGED <<permits, closed, state, wants, assigned, waker, held, leaked,
                     outcome, poller, notified, supply, head, tail, next, prev>>
  BY DEF LInv, Idle, Close, semaphore, links
<1>2. /\ waitersEnd = List /\ permitsEnd = permits /\ stateEnd = state
      /\ assignedEnd = assigned /\ notifiedEnd = notified
  BY IdleEnds
<1>3. Woken' = Abstract!FirstOf(List, Len(List))
  <2>1. Chain(next, head, List) /\ Len(List) \in Nat /\ 0 \in 0..Len(List)
    BY <1>1, LinkedType DEF Linked, DoublyLinked
  <2>2. head = Behind(List, 0)
    BY <1>1, LinkedType DEF Linked, Behind
  <2>3. Visited(Follow(next, head)) = {List[i] : i \in (0+1)..Len(List)}
    BY <2>1, <2>2, WalkFrom
  <2>4. Woken' = Visited(Follow(next, head))
    BY <1>1 DEF Woken, ToWake, Visited
  <2> QED
    BY <2>3, <2>4 DEF Abstract!FirstOf
<1>4. /\ waitersEnd' = <<>>
      /\ permitsEnd' = permits /\ assignedEnd' = assigned
      /\ stateEnd' = [c \in Clients |-> IF c \in Woken' THEN "woken" ELSE state[c]]
      /\ notifiedEnd' = [c \in Clients |-> IF c \in Woken' /\ waker[c] = poller[c]
                                           THEN TRUE ELSE notified[c]]
  BY <1>1 DEF waitersEnd, permitsEnd, assignedEnd, stateEnd, notifiedEnd, InTheEnd, S!Wake
<1> QED
  BY <1>1, <1>2, <1>3, <1>4 DEF Abstract!Close, Abstract!Wake

LEMMA DropAcquireIs ==
    ASSUME LInv, LInv', Idle, NEW c \in Clients, DropAcquire(c)
    PROVE  Abstract!DropAcquire(c)
<1> DEFINE w == P!WaitersWithout(c)
           k == servedEnd'
           l == leftEnd'
<1>1. /\ ~closing /\ ~closing' /\ P!IInv
      /\ waitersEnd = List /\ permitsEnd = permits /\ stateEnd = state
      /\ assignedEnd = assigned /\ notifiedEnd = notified
  BY IdleEnds DEF LInv, Idle, DropAcquire
<1>2. List' = w
  BY <1>1, DropAcquireLeaves
<1>3. Abstract!WaitersWithout(c) = w
  BY <1>1 DEF Abstract!WaitersWithout, P!WaitersWithout, Abstract!RemoveAt, P!RemoveAt
<1>4. /\ w \in Seq(Clients) /\ Len(w) \in Nat
      /\ \A i \in 1..Len(w) : w[i] \in Clients /\ w[i] # c
  <2>1. P!Queue(w)
    BY <1>1, P!WaitersWithoutQueue, ListAssumption
  <2>2. \A d \in Clients :
          (\E i \in 1..Len(w) : w[i] = d) <=> state[d] = "waiting" /\ d # c
    BY <1>1, P!WaitersWithoutQueue, ListAssumption
  <2> HIDE DEF w
  <2>3. w \in Seq(Clients)
    BY <2>1 DEF P!Queue
  <2>4. \A i \in 1..Len(w) : w[i] \in Clients
    BY <2>3
  <2> QED
    BY <2>2, <2>3, <2>4
<1> HIDE DEF w
<1>5. /\ todo' = assigned[c]
      /\ state' = [state EXCEPT ![c] = "absent"]
      /\ assigned' = [assigned EXCEPT ![c] = 0]
      /\ wants' = [wants EXCEPT ![c] = 0]
      /\ waker' = [waker EXCEPT ![c] = NoWaker]
      /\ outcome' = [outcome EXCEPT ![c] = "none"]
      /\ poller' = [poller EXCEPT ![c] = NoWaker]
      /\ notified' = [notified EXCEPT ![c] = FALSE]
      /\ UNCHANGED <<permits, closed, held, leaked, supply, closing>>
  BY DEF DropAcquire
<1>6. /\ state \in [Clients -> {"absent", "inert", "waiting", "woken"}]
      /\ wants \in [Clients -> 0..UsizeMax]
      /\ assigned \in [Clients -> 0..UsizeMax]
      /\ waker \in [Clients -> Wakers \cup {NoWaker}]
      /\ poller \in [Clients -> Wakers \cup {NoWaker}]
      /\ notified \in [Clients -> BOOLEAN]
      /\ todo' \in Nat
  BY <1>1, <1>5, ImplAssumption DEF P!IInv, P!TypeOK
<1>7. Lacking(w, Lacks') /\ \A i \in 1..Len(w) : Lacks[w[i]] = Lacks'[w[i]]
  <2>1. Lacking(w, Lacks')
    BY <1>1, <1>2, ListLacksNext DEF ListLacking
  <2>2. ASSUME NEW d \in Clients, d # c PROVE Lacks[d] = Lacks'[d]
    BY <1>5, <1>6, <2>2 DEF Lacks
  <2> QED
    BY <1>4, <2>1, <2>2
<1>8. Serves(w, todo', k, l) /\ k \in 0..Len(w)
  <2>1. k = ServedOf(w, todo', Lacks') /\ l = todo' - NeedOf(w, k, Lacks')
    BY <1>2 DEF servedEnd, leftEnd
  <2>2. k \in 0..Len(w)
    BY <1>6, <1>7, <2>1, ServedOfType
  <2>3. /\ ServedOf(w, todo', Lacks) = ServedOf(w, todo', Lacks')
        /\ NeedOf(w, k, Lacks) = NeedOf(w, k, Lacks')
    BY <1>6, <1>7, <2>2, ServedOfSame
  <2> QED
    BY <2>1, <2>2, <2>3 DEF Serves
<1>9. doneEnd' = Firsts(w, k) /\ AddEnds'
  BY <1>1, <1>2, EndStatesNext DEF doneEnd
<1> HIDE DEF k, l
<1>10. /\ Abstract!WaitersAfter(w, todo') = SubSeq(w, k + 1, Len(w))
       /\ Abstract!PermitsAfter(w, todo') = PermitsThen(w, k, l)
       /\ Abstract!StateAfter(w, todo') = StateThen(w, k)
       /\ Abstract!AssignedAfter(w, todo') = AssignedThen(w, k, l)
       /\ Abstract!Wake(Abstract!Completed(w, todo')) = NotifiedThen(w, k)
  BY <1>8, AbstractAfter
<1>11. c \notin Firsts(w, k) /\ (k < Len(w) => w[k+1] # c)
  <2>1. \A i \in 1..k : i \in 1..Len(w)
    BY <1>4, <1>8
  <2>2. k < Len(w) => k + 1 \in 1..Len(w)
    BY <1>4, <1>8
  <2> QED
    BY <1>4, <2>1, <2>2 DEF Firsts
<1>12. waitersEnd' = SubSeq(w, k + 1, Len(w)) /\ permitsEnd' = PermitsThen(w, k, l)
  BY <1>2, <1>5, <1>9 DEF AddEnds, PermitsThen, S!SaturatingAdd, k, l
<1>13. stateEnd' = [StateThen(w, k) EXCEPT ![c] = "absent"]
  <2>1. stateEnd' = [d \in Clients |-> IF d \in Firsts(w, k) THEN "woken" ELSE state'[d]]
    BY <1>9 DEF AddEnds
  <2> QED
    BY <1>5, <1>6, <1>11, <2>1 DEF StateThen
<1>14. assignedEnd' = [AssignedThen(w, k, l) EXCEPT ![c] = 0]
  <2>1. assignedEnd' = [d \in Clients |->
                          IF d \in Firsts(w, k) THEN wants'[d]
                          ELSE IF l > 0 /\ k < Len(w) /\ d = w[k+1]
                               THEN (wants'[d] - assigned'[d]) - l
                               ELSE assigned'[d]]
    BY <1>2, <1>9 DEF AddEnds, k, l
  <2> QED
    BY <1>5, <1>6, <1>11, <2>1 DEF AssignedThen
<1>15. notifiedEnd' = [NotifiedThen(w, k) EXCEPT ![c] = FALSE]
  <2>1. notifiedEnd' = [d \in Clients |-> IF d \in Firsts(w, k) /\ waker'[d] = poller'[d]
                                          THEN TRUE ELSE notified'[d]]
    BY <1>9 DEF AddEnds
  <2> QED
    BY <1>5, <1>6, <1>11, <2>1 DEF NotifiedThen
<1>16. Abstract!Pollable(c) /\ Abstract!Unused(c) = todo'
  BY <1>1, <1>5 DEF DropAcquire, S!Pollable, Abstract!Pollable, Abstract!Unused
<1> QED
  BY <1>1, <1>3, <1>5, <1>10, <1>12, <1>13, <1>14, <1>15, <1>16 DEF Abstract!DropAcquire

\* The calls that run no loop show the same in both.
LEMMA QuietEnds ==
    ASSUME TypeOK, TypeOK', Idle, Idle'
    PROVE  /\ waitersEnd = List /\ permitsEnd = permits /\ stateEnd = state
           /\ assignedEnd = assigned /\ notifiedEnd = notified
           /\ (closed \/ closing) = closed
           /\ waitersEnd' = List' /\ permitsEnd' = permits' /\ stateEnd' = state'
           /\ assignedEnd' = assigned' /\ notifiedEnd' = notified'
           /\ (closed' \/ closing') = closed'
<1>1. /\ closing = FALSE /\ closing' = FALSE
      /\ closed \in BOOLEAN /\ closed' \in BOOLEAN
  BY SameType, SameTypeNext DEF Idle, P!TypeOK
<1>2. /\ waitersEnd' = List' /\ permitsEnd' = permits' /\ stateEnd' = state'
      /\ assignedEnd' = assigned' /\ notifiedEnd' = notified'
  BY <1>1 DEF Idle, waitersEnd, permitsEnd, stateEnd, assignedEnd, notifiedEnd, InTheEnd
<1> QED
  BY <1>1, <1>2, IdleEnds

LEMMA QuietIs ==
    ASSUME TypeOK, TypeOK', Idle, Idle', OtherCall
    PROVE  Abstract!Next
<1>1. /\ waitersEnd = List /\ permitsEnd = permits /\ stateEnd = state
      /\ assignedEnd = assigned /\ notifiedEnd = notified
      /\ (closed \/ closing) = closed
      /\ waitersEnd' = List' /\ permitsEnd' = permits' /\ stateEnd' = state'
      /\ assignedEnd' = assigned' /\ notifiedEnd' = notified'
      /\ (closed' \/ closing') = closed'
  BY QuietEnds
<1>2. ASSUME NEW n \in Amounts, S!RemovePermits(n) PROVE Abstract!RemovePermits(n)
  BY <1>1, <1>2 DEF S!RemovePermits, Abstract!RemovePermits,
       S!SaturatingSub, Abstract!SaturatingSub,
       S!future, Abstract!future, S!observed, Abstract!observed
<1>3. ASSUME NEW c \in Clients, NEW n \in Requests, S!TryAcquire(c, n)
      PROVE  Abstract!TryAcquire(c, n)
  BY <1>1, <1>3 DEF S!TryAcquire, Abstract!TryAcquire, S!CanAcquire, Abstract!CanAcquire,
       S!future, Abstract!future, S!observed, Abstract!observed
<1>4. ASSUME NEW c \in Clients, NEW n \in Requests, S!Acquire(c, n)
      PROVE  Abstract!Acquire(c, n)
  BY <1>1, <1>4 DEF S!Acquire, Abstract!Acquire, S!observed, Abstract!observed
<1>5. ASSUME NEW c \in Clients, S!PollClosed(c) PROVE Abstract!PollClosed(c)
  BY <1>1, <1>5 DEF S!PollClosed, Abstract!PollClosed, S!Pollable, Abstract!Pollable,
       S!Resolve, Abstract!Resolve
<1>6. ASSUME NEW c \in Clients, S!PollWoken(c) PROVE Abstract!PollWoken(c)
  BY <1>1, <1>6 DEF S!PollWoken, Abstract!PollWoken, S!Pollable, Abstract!Pollable,
       S!Resolve, Abstract!Resolve
<1>7. ASSUME NEW c \in Clients, S!PollInertReady(c) PROVE Abstract!PollInertReady(c)
  BY <1>1, <1>7 DEF S!PollInertReady, Abstract!PollInertReady,
       S!Pollable, Abstract!Pollable, S!Resolve, Abstract!Resolve,
       S!Remaining, Abstract!Remaining, S!Taken, Abstract!Taken
<1>8. ASSUME NEW c \in Clients, NEW w \in Wakers, S!PollWaiting(c, w)
      PROVE  Abstract!PollWaiting(c, w)
  BY <1>1, <1>8 DEF S!PollWaiting, Abstract!PollWaiting, S!Pollable, Abstract!Pollable,
       S!Suspend, Abstract!Suspend, S!future, Abstract!future
<1>9. ASSUME NEW c \in Clients, S!LeakAcquire(c) PROVE Abstract!LeakAcquire(c)
  BY <1>1, <1>9 DEF S!LeakAcquire, Abstract!LeakAcquire, S!Pollable, Abstract!Pollable,
       S!future, Abstract!future, S!observed, Abstract!observed,
       S!Cardinality, Abstract!Cardinality
<1>10. ASSUME NEW c \in Clients, S!ForgetPermit(c) PROVE Abstract!ForgetPermit(c)
  BY <1>1, <1>10 DEF S!ForgetPermit, Abstract!ForgetPermit,
       S!future, Abstract!future, S!observed, Abstract!observed
<1> QED
  BY <1>2, <1>3, <1>4, <1>5, <1>6, <1>7, <1>8, <1>9, <1>10
     DEF OtherCall, Abstract!Next, Abstract!Poll

LEMMA EnqueueIsToo ==
    ASSUME LInv, TypeOK', Idle, Idle', NEW c \in Clients, NEW w \in Wakers,
           PollInertEnqueue(c, w)
    PROVE  Abstract!PollInertEnqueue(c, w)
<1>1. /\ waitersEnd = List /\ permitsEnd = permits /\ stateEnd = state
      /\ assignedEnd = assigned /\ notifiedEnd = notified
      /\ (closed \/ closing) = closed
      /\ waitersEnd' = List' /\ permitsEnd' = permits' /\ stateEnd' = state'
      /\ assignedEnd' = assigned' /\ notifiedEnd' = notified'
      /\ (closed' \/ closing') = closed'
  BY QuietEnds DEF LInv
<1>2. List' = Append(List, c)
  BY EnqueueIs DEF Idle
<1> QED
  BY <1>1, <1>2
     DEF PollInertEnqueue, Abstract!PollInertEnqueue, Abstract!PushBack,
         S!Pollable, Abstract!Pollable, S!Suspend, Abstract!Suspend,
         S!Remaining, Abstract!Remaining, S!Taken, Abstract!Taken

\* The iterations of the loops change nothing that Semaphore shows.
LEMMA LoopStutters ==
    ASSUME LInv, LInv', AddStep \/ WakeStep \/ CloseDone
    PROVE  UNCHANGED Abstract!vars
<1>1. CASE AddStep
  <2>1. UNCHANGED endStates
    <3>1. CASE StorePermits
      BY <1>1, <3>1, StorePermitsEnds
    <3>2. CASE GrantSome
      BY <1>1, <3>2, GrantSomeEnds
    <3>3. CASE GrantAll
      BY <1>1, <3>3, GrantAllEnds
    <3> QED
      BY <1>1, <3>1, <3>2, <3>3 DEF AddStep
  <2> QED
    BY <1>1, <2>1
       DEF AddStep, endStates, Abstract!vars, Abstract!future, Abstract!observed
<1>2. CASE WakeStep
  <2>1. UNCHANGED <<endStates, closing>>
    BY <1>2, WakeStepEnds
  <2> QED
    BY <1>2, <2>1
       DEF WakeStep, endStates, Abstract!vars, Abstract!future, Abstract!observed
<1>3. CASE CloseDone
  <2>1. UNCHANGED endStates /\ closing /\ closed'
    BY <1>3, CloseDoneEnds
  <2>2. (closed \/ closing) = (closed' \/ closing')
    BY <2>1
  <2> QED
    BY <1>3, <2>1, <2>2
       DEF CloseDone, endStates, Abstract!vars, Abstract!future, Abstract!observed
<1> QED
  BY <1>1, <1>2, <1>3

LEMMA NextIs == LInv /\ LInv' /\ [Next]_vars => [Abstract!Next]_(Abstract!vars)
<1> SUFFICES ASSUME LInv, LInv', [Next]_vars
             PROVE  [Abstract!Next]_(Abstract!vars)
  OBVIOUS
<1>0. TypeOK /\ TypeOK'
  BY DEF LInv
<1>1. CASE AddStep \/ WakeStep \/ CloseDone
  BY <1>1, LoopStutters
<1>2. ASSUME Idle, NEW n \in Amounts, AddPermits(n) PROVE Abstract!Next
  BY <1>2, AddPermitsIs DEF Abstract!Next
<1>3. ASSUME Idle, NEW c \in Clients, DropPermit(c) PROVE Abstract!Next
  BY <1>3, DropPermitIs DEF Abstract!Next
<1>4. ASSUME Idle, NEW c \in Clients, DropAcquire(c) PROVE Abstract!Next
  BY <1>4, DropAcquireIs DEF Abstract!Next
<1>5. ASSUME Idle, Close PROVE Abstract!Next
  BY <1>5, CloseIs DEF Abstract!Next
<1>6. ASSUME Idle, NEW c \in Clients, NEW w \in Wakers, PollInertEnqueue(c, w),
             UNCHANGED loops
      PROVE  Abstract!Next
  <2>1. Idle'
    BY <1>6 DEF Idle, loops
  <2>2. Abstract!PollInertEnqueue(c, w)
    BY <1>0, <1>6, <2>1, EnqueueIsToo
  <2> QED
    BY <2>2 DEF Abstract!Next, Abstract!Poll
<1>7. ASSUME Idle, OtherCall, UNCHANGED loops PROVE Abstract!Next
  <2>1. Idle'
    BY <1>7 DEF Idle, loops
  <2> QED
    BY <1>0, <1>7, <2>1, QuietIs
<1>8. CASE UNCHANGED vars
  <2>1. UNCHANGED <<permits, closed, state, wants, assigned, waker, held, leaked,
                    outcome, poller, notified, supply, head, tail, next, prev,
                    todo, closing, curr>>
    BY <1>8 DEF vars, semaphore, links, loops
  <2>2. List' = List /\ ToWake' = ToWake
    BY <2>1 DEF List, ToWake
  <2>3. UNCHANGED endStates
    BY <2>1, <2>2
       DEF endStates, waitersEnd, permitsEnd, stateEnd, assignedEnd, notifiedEnd,
           InTheEnd, Woken, S!WaitersAfter, S!PermitsAfter, S!StateAfter,
           S!AssignedAfter, S!Completed, S!Wake, S!SaturatingAdd, S!IsShort, S!Left,
           S!Served, S!Need, S!FirstOf, S!Missing, S!Total, S!Units, S!Cardinality
  <2> QED
    BY <2>1, <2>3 DEF endStates, Abstract!vars, Abstract!future, Abstract!observed
<1> QED
  BY <1>1, <1>2, <1>3, <1>4, <1>5, <1>6, <1>7, <1>8 DEF Next

LEMMA InitIs == Init => Abstract!Init
<1> SUFFICES ASSUME Init PROVE Abstract!Init
  OBVIOUS
<1>1. DoublyLinked(head, tail, next, prev, <<>>)
  <2>1. <<>> \in Seq(Clients) /\ Len(<<>>) = 0
    BY EmptySeq
  <2> QED
    BY <2>1 DEF Init, DoublyLinked, Chain, Distinct
<1>2. List = <<>>
  BY <1>1, ListIs
<1>3. /\ waitersEnd = List /\ permitsEnd = permits /\ stateEnd = state
      /\ assignedEnd = assigned /\ notifiedEnd = notified
  BY IdleEnds DEF Idle, Init
<1> QED
  BY <1>2, <1>3 DEF Init, S!Init, Abstract!Init

\* Nobody who uses the semaphore can tell its pointers and loops from a sequence
\* and from calls that take effect at once: each call takes effect when it
\* begins, and what its loop still does afterwards changes nothing.
THEOREM RefinesSemaphore == Spec => Refines
<1>1. Init => Abstract!Init
  BY InitIs
<1>2. LInv /\ LInv' /\ [Next]_vars => [Abstract!Next]_(Abstract!vars)
  BY NextIs
<1> QED
  BY <1>1, <1>2, Inductive, PTL DEF Spec, Refines, Abstract!Spec

-----------------------------------------------------------------------------
(* What SemaphoreProofs proves of the sequence holds of the pointers.      *)
A == INSTANCE SemaphoreProofs WITH
    waiters <- waitersEnd, permits <- permitsEnd, closed <- closed \/ closing,
    state <- stateEnd, assigned <- assignedEnd, notified <- notifiedEnd

LEMMA ImplementedAssumption == A!SemaphoreAssumption
BY ImplAssumption DEF A!SemaphoreAssumption, A!IsFiniteSet, IsFiniteSet

\* Serving a queue is the same in both instances.
LEMMA SameServing ==
    \A w, n : /\ Abstract!PermitsAfter(w, n) = A!PermitsAfter(w, n)
              /\ Abstract!WaitersAfter(w, n) = A!WaitersAfter(w, n)
              /\ Abstract!StateAfter(w, n) = A!StateAfter(w, n)
              /\ Abstract!AssignedAfter(w, n) = A!AssignedAfter(w, n)
              /\ Abstract!Wake(Abstract!Completed(w, n)) = A!Wake(A!Completed(w, n))
<1> TAKE w, n
<1>1. \A k : Abstract!Need(w, k) = A!Need(w, k)
  BY DEF Abstract!Need, Abstract!Total, Abstract!FirstOf, Abstract!Missing,
         Abstract!Units, Abstract!Cardinality,
         A!Need, A!Total, A!FirstOf, A!Missing, A!Units, A!Cardinality
<1>2. Abstract!Served(w, n) = A!Served(w, n)
  BY <1>1 DEF Abstract!Served, A!Served
<1>3. /\ Abstract!Left(w, n) = A!Left(w, n)
      /\ Abstract!Completed(w, n) = A!Completed(w, n)
  BY <1>1, <1>2 DEF Abstract!Left, A!Left, Abstract!Completed, A!Completed,
                    Abstract!FirstOf, A!FirstOf
<1> QED
  BY <1>2, <1>3
     DEF Abstract!PermitsAfter, A!PermitsAfter, Abstract!WaitersAfter, A!WaitersAfter,
         Abstract!StateAfter, A!StateAfter, Abstract!AssignedAfter, A!AssignedAfter,
         Abstract!Wake, A!Wake, Abstract!IsShort, A!IsShort,
         Abstract!SaturatingAdd, A!SaturatingAdd

LEMMA SamePoll ==
    ASSUME NEW c, NEW w, Abstract!Poll(c, w)
    PROVE  A!Poll(c, w)
<1>1. Abstract!PollClosed(c) => A!PollClosed(c)
  BY DEF Abstract!PollClosed, A!PollClosed, Abstract!Pollable, A!Pollable,
         Abstract!Resolve, A!Resolve
<1>2. Abstract!PollWoken(c) => A!PollWoken(c)
  BY DEF Abstract!PollWoken, A!PollWoken, Abstract!Pollable, A!Pollable,
         Abstract!Resolve, A!Resolve
<1>3. Abstract!PollInertReady(c) => A!PollInertReady(c)
  BY DEF Abstract!PollInertReady, A!PollInertReady, Abstract!Pollable, A!Pollable,
         Abstract!Resolve, A!Resolve, Abstract!Remaining, A!Remaining,
         Abstract!Taken, A!Taken
<1>4. Abstract!PollInertEnqueue(c, w) => A!PollInertEnqueue(c, w)
  BY DEF Abstract!PollInertEnqueue, A!PollInertEnqueue, Abstract!Pollable, A!Pollable,
         Abstract!Suspend, A!Suspend, Abstract!Remaining, A!Remaining,
         Abstract!Taken, A!Taken, Abstract!PushBack, A!PushBack
<1>5. Abstract!PollWaiting(c, w) => A!PollWaiting(c, w)
  BY DEF Abstract!PollWaiting, A!PollWaiting, Abstract!Pollable, A!Pollable,
         Abstract!Suspend, A!Suspend, Abstract!future, A!future
<1> QED
  BY <1>1, <1>2, <1>3, <1>4, <1>5 DEF Abstract!Poll, A!Poll

LEMMA SameDrop ==
    ASSUME NEW c, Abstract!DropAcquire(c)
    PROVE  A!DropAcquire(c)
<1>1. /\ Abstract!WaitersWithout(c) = A!WaitersWithout(c)
      /\ Abstract!Unused(c) = A!Unused(c)
      /\ Abstract!Pollable(c) = A!Pollable(c)
  BY DEF Abstract!WaitersWithout, A!WaitersWithout, Abstract!RemoveAt, A!RemoveAt,
         Abstract!Unused, A!Unused, Abstract!Pollable, A!Pollable
<1> QED
  BY <1>1, SameServing DEF Abstract!DropAcquire, A!DropAcquire

LEMMA SameNext == [Abstract!Next]_(Abstract!vars) => [A!Next]_(A!vars)
<1> SUFFICES ASSUME [Abstract!Next]_(Abstract!vars) PROVE [A!Next]_(A!vars)
  OBVIOUS
<1>1. Abstract!vars = A!vars /\ Abstract!vars' = A!vars'
  BY DEF Abstract!vars, A!vars, Abstract!future, A!future, Abstract!observed, A!observed
<1>2. ASSUME NEW n \in Amounts, Abstract!AddPermits(n) PROVE A!AddPermits(n)
  BY <1>2, SameServing DEF Abstract!AddPermits, A!AddPermits
<1>3. ASSUME NEW n \in Amounts, Abstract!RemovePermits(n) PROVE A!RemovePermits(n)
  BY <1>3 DEF Abstract!RemovePermits, A!RemovePermits,
       Abstract!SaturatingSub, A!SaturatingSub,
       Abstract!future, A!future, Abstract!observed, A!observed
<1>4. ASSUME Abstract!Close PROVE A!Close
  BY <1>4 DEF Abstract!Close, A!Close, Abstract!Wake, A!Wake, Abstract!FirstOf, A!FirstOf
<1>5. ASSUME NEW c \in Clients, NEW n \in Requests, Abstract!TryAcquire(c, n)
      PROVE  A!TryAcquire(c, n)
  BY <1>5 DEF Abstract!TryAcquire, A!TryAcquire, Abstract!CanAcquire, A!CanAcquire,
       Abstract!future, A!future, Abstract!observed, A!observed
<1>6. ASSUME NEW c \in Clients, NEW n \in Requests, Abstract!Acquire(c, n)
      PROVE  A!Acquire(c, n)
  BY <1>6 DEF Abstract!Acquire, A!Acquire, Abstract!observed, A!observed
<1>7. ASSUME NEW c \in Clients, Abstract!LeakAcquire(c) PROVE A!LeakAcquire(c)
  BY <1>7 DEF Abstract!LeakAcquire, A!LeakAcquire, Abstract!Pollable, A!Pollable,
       Abstract!future, A!future, Abstract!observed, A!observed,
       Abstract!Cardinality, A!Cardinality
<1>8. ASSUME NEW c \in Clients, Abstract!DropPermit(c) PROVE A!DropPermit(c)
  BY <1>8, SameServing DEF Abstract!DropPermit, A!DropPermit
<1>9. ASSUME NEW c \in Clients, Abstract!ForgetPermit(c) PROVE A!ForgetPermit(c)
  BY <1>9 DEF Abstract!ForgetPermit, A!ForgetPermit,
       Abstract!future, A!future, Abstract!observed, A!observed
<1>10. Abstract!Next => A!Next
  BY <1>2, <1>3, <1>4, <1>5, <1>6, <1>7, <1>8, <1>9, SamePoll, SameDrop
     DEF Abstract!Next, A!Next
<1> QED
  BY <1>1, <1>10

LEMMA Implements == Spec => A!Spec
<1>1. Abstract!Init => A!Init
  BY DEF Abstract!Init, A!Init
<1>2. [Abstract!Next]_(Abstract!vars) => [A!Next]_(A!vars)
  BY SameNext
<1> QED
  BY <1>1, <1>2, RefinesSemaphore, PTL DEF Refines, Abstract!Spec, A!Spec

\* However the releases and grants of the iterations of add_permits fall, no permit
\* is created, whatever the width of usize.
THEOREM NoPermitIsCreated ==
    ASSUME \A n \in Requests : n <= 2
    PROVE  Spec => []NoPermitCreated
<1>1. A!SmallRequests
  BY DEF A!SmallRequests
<1>2. A!Spec => []A!NoPermitCreated
  BY <1>1, ImplementedAssumption, A!NoPermitIsCreated
<1>3. A!NoPermitCreated => NoPermitCreated
  BY DEF NoPermitCreated, Abstract!NoPermitCreated, A!NoPermitCreated,
         Abstract!InCirculation, A!InCirculation,
         Abstract!Total, Abstract!Units, Abstract!Cardinality,
         A!Total, A!Units, A!Cardinality
<1> QED
  BY <1>2, <1>3, Implements, PTL

\* The pointers and the loops serve first come, first served, and never an outsider
\* before a waiter: in terms of what each call comes to, as Semaphore states it.
THEOREM PointersServeInOrder == Spec => Abstract!FifoGrants /\ Abstract!NoBarging
<1> DEFINE Ordered == \A c, d \in Clients :
                        c # d /\ stateEnd[c] = "waiting" /\ stateEnd'[c] = "waiting" =>
                          /\ Abstract!Before(c, d) => stateEnd'[d] # "woken"
                          /\ ~Abstract!Before(d, c) /\ stateEnd'[d] = "waiting"
                               => Abstract!Before(c, d)'
           OrderedA == \A c, d \in Clients :
                         c # d /\ stateEnd[c] = "waiting" /\ stateEnd'[c] = "waiting" =>
                           /\ A!Before(c, d) => stateEnd'[d] # "woken"
                           /\ ~A!Before(d, c) /\ stateEnd'[d] = "waiting"
                                => A!Before(c, d)'
           Alone == \A c \in Clients :
                      waitersEnd # <<>> /\ held'[c] > held[c] => stateEnd[c] = "woken"
<1>1. [OrderedA]_(A!vars) => [Ordered]_(Abstract!vars)
  BY DEF Abstract!Before, A!Before, Abstract!vars, A!vars, Abstract!future, A!future,
         Abstract!observed, A!observed
<1>2. [Alone]_(A!vars) => [Alone]_(Abstract!vars)
  BY DEF Abstract!vars, A!vars, Abstract!future, A!future, Abstract!observed, A!observed
<1>3. A!Spec => A!FifoGrants
  BY ImplementedAssumption, A!FirstComeFirstServed
<1>4. A!Spec => A!NoBarging
  BY ImplementedAssumption, A!NobodyBarges
<1> QED
  BY <1>1, <1>2, <1>3, <1>4, Implements, PTL
     DEF A!FifoGrants, A!NoBarging, Abstract!FifoGrants, Abstract!NoBarging

\* With requests of at most two permits, and as many in circulation as a usize
\* counts, none is lost either, however the loop of add_permits splits them among
\* the waiters.
THEOREM PointersLoseNoPermit ==
    ASSUME \A n \in Requests : n <= 2, MaxSupply <= UsizeMax
    PROVE  Spec => []Abstract!PermitsConserved
<1>1. A!SmallRequests
  BY DEF A!SmallRequests
<1>2. A!Spec => []A!PermitsConserved
  BY <1>1, ImplementedAssumption, A!NoPermitIsLost
<1>3. A!PermitsConserved => Abstract!PermitsConserved
  BY DEF Abstract!PermitsConserved, A!PermitsConserved,
         Abstract!InCirculation, A!InCirculation,
         Abstract!Total, Abstract!Units, Abstract!Cardinality,
         A!Total, A!Units, A!Cardinality
<1> QED
  BY <1>2, <1>3, Implements, PTL

\* A future that a call of add_permits or close completes has its waker called before
\* that call ends, when every poll of it brings the same waker.
THEOREM PointersWake ==
    ASSUME \A v, w \in Wakers : v = w
    PROVE  Spec => []Abstract!WakeupDelivered
<1>1. A!OneWaker
  BY DEF A!OneWaker
<1>2. A!Spec => []A!WakeupDelivered
  BY <1>1, ImplementedAssumption, A!WakeupReaches
<1>3. A!WakeupDelivered => Abstract!WakeupDelivered
  BY DEF Abstract!WakeupDelivered, A!WakeupDelivered
<1> QED
  BY <1>2, <1>3, Implements, PTL
=============================================================================
