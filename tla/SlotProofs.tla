------------------------------ MODULE SlotProofs ------------------------------
(***************************************************************************)
(* Lemmas on the semaphore inside of a bounded channel.  All requests are  *)
(* for one permit, so what Semaphore computes for any requests becomes     *)
(* simple: a permit that is added goes to the first sender that waits, or, *)
(* if there is none, to those that are free.                               *)
(***************************************************************************)
EXTENDS BoundedChannel, SumsTheorems, SequenceTheorems, FiniteSetTheorems, TLAPS

\* Tasks that wait for a slot and have none, each once.
Line(w) ==
    /\ w \in Seq(Tasks)
    /\ \A i, j \in 1..Len(w) : w[i] = w[j] => i = j
    /\ \A i \in 1..Len(w) : assigned[w[i]] = 0

SlotTypes ==
    /\ permits \in 0..UsizeMax
    /\ closed \in BOOLEAN
    /\ waiters \in Seq(Tasks)
    /\ state \in [Tasks -> {"absent", "inert", "waiting", "woken"}]
    /\ assigned \in [Tasks -> 0..1]
    /\ notified \in [Tasks -> BOOLEAN]

-----------------------------------------------------------------------------
(* What add_permits does to a line.                                        *)

\* Semaphore counts with its own copy of Total.
LEMMA SameTotal ==
    ASSUME NEW T, NEW f
    PROVE  S!Total(T, f) = Total(T, f)
BY DEF S!Total, Total, S!Units, Units, S!Cardinality, Cardinality

LEMMA LineNeeds ==
    ASSUME SlotTypes, NEW w, Line(w)
    PROVE  /\ Len(w) \in Nat
           /\ S!Need(w, 0) = 0
           /\ Len(w) > 0 => S!Need(w, 1) = 1
           /\ \A k \in 2..Len(w) : S!Need(w, k) \in Nat /\ S!Need(w, k) >= 2
<1> DEFINE M == S!Missing
<1>1. Len(w) \in Nat /\ \A i \in 1..Len(w) : w[i] \in Tasks
  BY DEF Line
<1>2. \A c \in Tasks : M[c] \in Nat
  BY DEF SlotTypes, S!Missing
<1>3. \A i \in 1..Len(w) : M[w[i]] = 1
  BY <1>1 DEF Line, S!Missing
<1> HIDE DEF M
<1>4. S!Need(w, 0) = 0
  <2>1. S!FirstOf(w, 0) = {}
    BY DEF S!FirstOf
  <2> QED
    BY <2>1, TotalEmpty, SameTotal DEF S!Need, M
<1>5. ASSUME Len(w) > 0 PROVE Total({w[1]}, M) = 1 /\ S!FirstOf(w, 1) = {w[1]}
  <2>1. M[w[1]] = 1
    BY <1>1, <1>3, <1>5
  <2>2. S!FirstOf(w, 1) = {w[1]}
    BY DEF S!FirstOf
  <2> QED
    BY <2>1, <2>2, TotalSingle
<1>6. ASSUME NEW k \in 2..Len(w) PROVE S!Need(w, k) \in Nat /\ S!Need(w, k) >= 2
  <2> DEFINE F == S!FirstOf(w, k)
  <2>1. /\ w[1] \in Tasks /\ w[2] \in Tasks /\ w[1] # w[2]
        /\ M[w[1]] = 1 /\ M[w[2]] = 1 /\ Len(w) > 0
    BY <1>1, <1>3, <1>6 DEF Line
  <2>2. {w[1]} \cup {w[2]} \in SUBSET F /\ F \in SUBSET Tasks
    BY <1>1, <1>6 DEF S!FirstOf
  <2>3. IsFiniteSet(F)
    BY <2>2, QueueAssumption, FS_Subset
  <2> HIDE DEF F
  <2>4. Total({w[1]} \cup {w[2]}, M) = Total({w[1]}, M) + M[w[2]]
    <3>1. IsFiniteSet({w[1]}) /\ w[2] \notin {w[1]}
      BY <2>1, FS_Singleton
    <3>2. \A y \in {w[1]} \cup {w[2]} : M[y] \in Nat
      BY <2>1
    <3> QED
      BY <3>1, <3>2, TotalAdd
  <2>5. /\ Total(F, M) \in Nat
        /\ Total({w[1]} \cup {w[2]}, M) <= Total(F, M)
    BY <1>2, <2>2, <2>3, TotalPart
  <2>6. Total({w[1]} \cup {w[2]}, M) = 2
    BY <1>5, <2>1, <2>4
  <2> QED
    BY <2>5, <2>6, SameTotal DEF F, S!Need, M
<1> QED
  BY <1>1, <1>4, <1>5, <1>6, SameTotal DEF S!Need, M

LEMMA LineServed ==
    ASSUME SlotTypes, NEW w, Line(w)
    PROVE  /\ S!Served(w, 0) = 0
           /\ Len(w) > 0 => S!Served(w, 1) = 1
           /\ Len(w) = 0 => \A n \in Nat : S!Served(w, n) = 0
<1>1. /\ Len(w) \in Nat
      /\ S!Need(w, 0) = 0
      /\ Len(w) > 0 => S!Need(w, 1) = 1
      /\ \A k \in 2..Len(w) : S!Need(w, k) \in Nat /\ S!Need(w, k) >= 2
  BY LineNeeds
<1> DEFINE Fits(k, n) == S!Need(w, k) <= n /\ (k < Len(w) => n < S!Need(w, k + 1))
<1>2. \A n \in Nat : S!Served(w, n) = CHOOSE k \in 0..Len(w) : Fits(k, n)
  BY DEF S!Served
<1>3. Fits(0, 0) /\ 0 \in 0..Len(w) /\ \A k \in 0..Len(w) : Fits(k, 0) => k = 0
  <2>1. Fits(0, 0)
    BY <1>1
  <2>2. ASSUME NEW k \in 0..Len(w), k # 0 PROVE ~Fits(k, 0)
    BY <1>1, <2>2, k = 1 \/ k \in 2..Len(w)
  <2> QED
    BY <1>1, <2>1, <2>2
<1>4. ASSUME Len(w) > 0
      PROVE  Fits(1, 1) /\ 1 \in 0..Len(w) /\ \A k \in 0..Len(w) : Fits(k, 1) => k = 1
  <2>1. Fits(1, 1)
    <3>1. CASE 1 < Len(w)
      <4>1. 2 \in 2..Len(w) /\ 1 + 1 = 2
        BY <1>1, <3>1
      <4> QED
        BY <1>1, <1>4, <4>1
    <3>2. CASE ~(1 < Len(w))
      BY <1>1, <1>4, <3>2
    <3> QED
      BY <3>1, <3>2
  <2>2. ~Fits(0, 1)
    BY <1>1, <1>4, 0 + 1 = 1
  <2>3. ASSUME NEW k \in 2..Len(w) PROVE ~Fits(k, 1)
    BY <1>1, <2>3
  <2>4. \A k \in 0..Len(w) : k = 0 \/ k = 1 \/ k \in 2..Len(w)
    BY <1>1
  <2>5. 1 \in 0..Len(w)
    BY <1>1, <1>4
  <2> HIDE DEF Fits
  <2> QED
    BY <2>1, <2>2, <2>3, <2>4, <2>5
<1>5. ASSUME Len(w) = 0, NEW n \in Nat
      PROVE  Fits(0, n) /\ 0 \in 0..Len(w) /\ \A k \in 0..Len(w) : k = 0
  BY <1>1, <1>5
<1> HIDE DEF Fits
<1>6. S!Served(w, 0) = 0
  BY <1>2, <1>3
<1>7. Len(w) > 0 => S!Served(w, 1) = 1
  BY <1>2, <1>4
<1>8. ASSUME Len(w) = 0, NEW n \in Nat PROVE S!Served(w, n) = 0
  BY <1>2, <1>5, <1>8
<1> QED
  BY <1>6, <1>7, <1>8

\* Nothing is added.
LEMMA AddNone ==
    ASSUME SlotTypes, NEW w, Line(w)
    PROVE  /\ S!PermitsAfter(w, 0) = permits
           /\ S!WaitersAfter(w, 0) = w
           /\ S!StateAfter(w, 0) = state
           /\ S!AssignedAfter(w, 0) = assigned
           /\ S!Wake(S!Completed(w, 0)) = notified
<1>1. /\ Len(w) \in Nat /\ w \in Seq(Tasks)
      /\ S!Served(w, 0) = 0 /\ S!Need(w, 0) = 0
  BY LineNeeds, LineServed DEF Line
<1>2. S!Completed(w, 0) = {} /\ S!Left(w, 0) = 0
  BY <1>1 DEF S!Completed, S!FirstOf, S!Left
<1>3. S!PermitsAfter(w, 0) = permits
  BY <1>1, <1>2, MaskAssumption DEF SlotTypes, S!PermitsAfter, S!SaturatingAdd
<1>4. S!WaitersAfter(w, 0) = w
  BY <1>1 DEF S!WaitersAfter
<1>5. S!StateAfter(w, 0) = state /\ S!Wake(S!Completed(w, 0)) = notified
  BY <1>2 DEF SlotTypes, S!StateAfter, S!Wake
<1>6. \A c : ~S!IsShort(w, 0, c)
  BY <1>2 DEF S!IsShort
<1>7. S!AssignedAfter(w, 0) = assigned
  BY <1>2, <1>6 DEF SlotTypes, S!AssignedAfter
<1> QED
  BY <1>3, <1>4, <1>5, <1>7

\* Nobody waits.
LEMMA AddFree ==
    ASSUME SlotTypes, NEW n \in Nat, permits + n <= UsizeMax
    PROVE  /\ S!PermitsAfter(<<>>, n) = permits + n
           /\ S!WaitersAfter(<<>>, n) = <<>>
           /\ S!StateAfter(<<>>, n) = state
           /\ S!AssignedAfter(<<>>, n) = assigned
           /\ S!Wake(S!Completed(<<>>, n)) = notified
<1> DEFINE w == <<>>
<1>1. Line(w) /\ Len(w) = 0 /\ w \in Seq(Tasks)
  BY DEF Line
<1> HIDE DEF w
<1>2. S!Served(w, n) = 0 /\ S!Need(w, 0) = 0
  BY <1>1, LineNeeds, LineServed
<1>3. S!Completed(w, n) = {} /\ S!Left(w, n) = n
  BY <1>2 DEF S!Completed, S!FirstOf, S!Left
<1>4. S!PermitsAfter(w, n) = permits + n
  BY <1>1, <1>2, <1>3, MaskAssumption DEF SlotTypes, S!PermitsAfter, S!SaturatingAdd
<1>5. S!WaitersAfter(w, n) = w
  BY <1>1, <1>2 DEF S!WaitersAfter
<1>6. S!StateAfter(w, n) = state /\ S!Wake(S!Completed(w, n)) = notified
  BY <1>3 DEF SlotTypes, S!StateAfter, S!Wake
<1>7. \A c : ~S!IsShort(w, n, c)
  BY <1>1, <1>2 DEF S!IsShort
<1>8. S!AssignedAfter(w, n) = assigned
  BY <1>3, <1>7 DEF SlotTypes, S!AssignedAfter
<1> QED
  BY <1>4, <1>5, <1>6, <1>8 DEF w

\* The first in the line gets the slot, and is woken.
LEMMA AddServed ==
    ASSUME SlotTypes, NEW w, Line(w), w # <<>>
    PROVE  /\ w[1] \in Tasks /\ assigned[w[1]] = 0
           /\ S!PermitsAfter(w, 1) = permits
           /\ S!WaitersAfter(w, 1) = Tail(w)
           /\ S!StateAfter(w, 1) = [state EXCEPT ![w[1]] = "woken"]
           /\ S!AssignedAfter(w, 1) = [assigned EXCEPT ![w[1]] = 1]
           /\ S!Wake(S!Completed(w, 1)) = [notified EXCEPT ![w[1]] = TRUE]
<1>1. /\ Len(w) \in Nat /\ Len(w) > 0 /\ w \in Seq(Tasks)
      /\ w[1] \in Tasks /\ assigned[w[1]] = 0
  BY DEF Line
<1>2. S!Served(w, 1) = 1 /\ S!Need(w, 1) = 1
  BY <1>1, LineNeeds, LineServed
<1>3. S!Completed(w, 1) = {w[1]} /\ S!Left(w, 1) = 0
  BY <1>2 DEF S!Completed, S!FirstOf, S!Left
<1>4. S!PermitsAfter(w, 1) = permits
  BY <1>1, <1>2, <1>3, MaskAssumption DEF SlotTypes, S!PermitsAfter, S!SaturatingAdd
<1>5. S!WaitersAfter(w, 1) = Tail(w)
  <2>1. S!WaitersAfter(w, 1) = SubSeq(w, 2, Len(w))
    BY <1>2, 1 + 1 = 2 DEF S!WaitersAfter
  <2> QED
    BY <1>1, <2>1
<1>6. S!StateAfter(w, 1) = [state EXCEPT ![w[1]] = "woken"]
  BY <1>1, <1>3 DEF SlotTypes, S!StateAfter
<1>7. S!Wake(S!Completed(w, 1)) = [notified EXCEPT ![w[1]] = TRUE]
  BY <1>1, <1>3 DEF SlotTypes, S!Wake
<1>8. \A c : ~S!IsShort(w, 1, c)
  BY <1>3 DEF S!IsShort
<1>9. S!AssignedAfter(w, 1) = [assigned EXCEPT ![w[1]] = 1]
  BY <1>1, <1>3, <1>8 DEF SlotTypes, S!AssignedAfter
<1> QED
  BY <1>1, <1>4, <1>5, <1>6, <1>7, <1>9

-----------------------------------------------------------------------------
(* The invariant of the semaphore inside of a channel.                     *)

SlotInv ==
    /\ SlotTypes
    /\ Line(waiters)
    /\ \A c \in Tasks :
         state[c] = "waiting" <=> \E i \in 1..Len(waiters) : waiters[i] = c
    /\ \A c \in Tasks : assigned[c] = 1 => state[c] = "woken"
    /\ \A c \in Tasks : ~closed /\ state[c] = "woken" => assigned[c] = 1
    /\ closed => waiters = <<>>
    /\ SendersWoken

\* The slots that are free or granted
Slots == permits + Total(Tasks, assigned)

\* Whether the futures that exist are the same after a step
SameFutures(T) == \A c \in T : state'[c] = "absent" <=> state[c] = "absent"

LEMMA SlotsType ==
    ASSUME SlotTypes
    PROVE  /\ Total(Tasks, assigned) \in Nat
           /\ Slots \in Nat /\ permits <= Slots
<1>1. Total(Tasks, assigned) \in Nat
  BY TotalType, QueueAssumption DEF SlotTypes
<1> QED
  BY <1>1 DEF SlotTypes, Slots

LEMMA SlotsTypeNext ==
    ASSUME SlotTypes'
    PROVE  Slots' \in Nat
<1> DEFINE f == assigned'
<1>1. \A c \in Tasks : f[c] \in Nat
  BY DEF SlotTypes
<1> HIDE DEF f
<1>2. Total(Tasks, f) \in Nat
  BY <1>1, TotalType, QueueAssumption
<1> QED
  BY <1>2 DEF Slots, SlotTypes, f

LEMMA GrantChanged ==
    ASSUME SlotTypes, NEW c \in Tasks, NEW n \in 0..1,
           assigned' = [assigned EXCEPT ![c] = n]
    PROVE  Total(Tasks, assigned') = Total(Tasks, assigned) - assigned[c] + n
<1> DEFINE f == assigned
           g == assigned'
<1>1. /\ \A d \in Tasks : f[d] \in Nat /\ g[d] \in Nat
      /\ \A d \in Tasks : d # c => g[d] = f[d]
      /\ g[c] = n
  BY DEF SlotTypes
<1> HIDE DEF f, g
<1>2. Total(Tasks, g) = Total(Tasks, f) - f[c] + g[c]
  BY <1>1, TotalUpdate, QueueAssumption
<1> QED
  BY <1>1, <1>2 DEF f, g

\* The first in the line leaves it.
LEMMA FirstLeaves ==
    ASSUME SlotInv, waiters # <<>>
    PROVE  /\ waiters[1] \in Tasks
           /\ state[waiters[1]] = "waiting" /\ assigned[waiters[1]] = 0
           /\ ~closed
           /\ Line(Tail(waiters))
           /\ \A d \in Tasks :
                (\E i \in 1..Len(Tail(waiters)) : Tail(waiters)[i] = d)
                  <=> state[d] = "waiting" /\ d # waiters[1]
<1> DEFINE c == waiters[1]
           w == Tail(waiters)
<1>1. /\ Line(waiters) /\ ~closed
      /\ waiters \in Seq(Tasks) /\ Len(waiters) \in Nat /\ Len(waiters) > 0
      /\ \A d \in Tasks :
           state[d] = "waiting" <=> \E i \in 1..Len(waiters) : waiters[i] = d
  BY DEF SlotInv, SlotTypes
<1>2. c \in Tasks /\ state[c] = "waiting" /\ assigned[c] = 0
  BY <1>1 DEF Line
<1>3. /\ w \in Seq(Tasks) /\ Len(w) = Len(waiters) - 1
      /\ \A i \in 1..Len(w) : w[i] = waiters[i + 1] /\ i + 1 \in 1..Len(waiters)
  BY <1>1
<1> HIDE DEF w
<1>4. Line(w)
  <2>1. \A i, j \in 1..Len(w) : w[i] = w[j] => i = j
    <3> SUFFICES ASSUME NEW i \in 1..Len(w), NEW j \in 1..Len(w), w[i] = w[j]
                 PROVE  i = j
      OBVIOUS
    <3>1. i + 1 = j + 1
      BY <1>1, <1>3 DEF Line
    <3> QED
      BY <1>1, <1>3, <3>1
  <2>2. \A i \in 1..Len(w) : assigned[w[i]] = 0
    BY <1>1, <1>3 DEF Line
  <2> QED
    BY <1>3, <2>1, <2>2 DEF Line
<1>5. ASSUME NEW d \in Tasks
      PROVE  (\E i \in 1..Len(w) : w[i] = d) <=> state[d] = "waiting" /\ d # c
  <2>1. ASSUME NEW i \in 1..Len(w), w[i] = d PROVE state[d] = "waiting" /\ d # c
    <3>1. i + 1 \in 1..Len(waiters) /\ waiters[i + 1] = d /\ i + 1 # 1
      BY <1>1, <1>3, <2>1
    <3> QED
      BY <1>1, <3>1 DEF Line
  <2>2. ASSUME state[d] = "waiting", d # c PROVE \E i \in 1..Len(w) : w[i] = d
    <3>1. PICK j \in 1..Len(waiters) : waiters[j] = d
      BY <1>1, <2>2
    <3>2. j - 1 \in 1..Len(w) /\ (j - 1) + 1 = j
      BY <1>1, <1>3, <2>2, <3>1
    <3> QED
      BY <1>3, <3>1, <3>2
  <2> QED
    BY <2>1, <2>2
<1> QED
  BY <1>1, <1>2, <1>4, <1>5 DEF w

\* A slot becomes free: the first sender that waits gets it.
LEMMA AddPreserves ==
    ASSUME SlotInv, NEW n \in Nat, AddPermits(n), Slots + n <= UsizeMax,
           n = 1 \/ waiters = <<>>
    PROVE  SlotInv' /\ Slots' = Slots + n /\ SameFutures(Tasks) /\ UNCHANGED closed
<1>1. SlotTypes /\ Line(waiters) /\ UNCHANGED closed
      /\ permits \in Nat /\ Slots \in Nat /\ permits <= Slots /\ UsizeMax \in Nat
  BY SlotsType, MaskAssumption DEF SlotInv, SlotTypes, AddPermits
<1>2. CASE waiters = <<>>
  <2>1. permits + n <= UsizeMax
    BY <1>1
  <2>2. /\ permits' = permits + n
        /\ UNCHANGED <<waiters, state, assigned, notified, closed>>
    BY <1>1, <1>2, <2>1, AddFree DEF AddPermits
  <2>3. SlotTypes'
    BY <1>1, <2>1, <2>2 DEF SlotTypes
  <2>4. SlotInv' /\ SameFutures(Tasks)
    BY <1>2, <2>2, <2>3 DEF SlotInv, SendersWoken, Line, SameFutures
  <2>5. Total(Tasks, assigned) \in Nat
    BY SlotsType DEF SlotInv
  <2> QED
    BY <1>1, <2>2, <2>4, <2>5 DEF Slots
<1>3. CASE waiters # <<>>
  <2> DEFINE c == waiters[1]
  <2>1. /\ c \in Tasks /\ assigned[c] = 0 /\ state[c] = "waiting" /\ ~closed
        /\ Line(Tail(waiters))
        /\ \A d \in Tasks :
             (\E i \in 1..Len(Tail(waiters)) : Tail(waiters)[i] = d)
               <=> state[d] = "waiting" /\ d # c
    BY <1>3, FirstLeaves
  <2>2. /\ permits' = permits
        /\ waiters' = Tail(waiters)
        /\ state' = [state EXCEPT ![c] = "woken"]
        /\ assigned' = [assigned EXCEPT ![c] = 1]
        /\ notified' = [notified EXCEPT ![c] = TRUE]
    BY <1>1, <1>3, AddServed DEF AddPermits
  <2> HIDE DEF c
  <2>3. SlotTypes'
    BY <1>1, <2>1, <2>2 DEF SlotTypes, Line
  <2>4. /\ state'[c] = "woken" /\ assigned'[c] = 1 /\ notified'[c]
        /\ \A d \in Tasks : d # c => /\ state'[d] = state[d]
                                     /\ assigned'[d] = assigned[d]
                                     /\ notified'[d] = notified[d]
    BY <1>1, <2>1, <2>2 DEF SlotTypes
  <2>5. \A d \in Tasks :
          state'[d] = "waiting" <=> \E i \in 1..Len(waiters') : waiters'[i] = d
    BY <2>1, <2>2, <2>4
  <2>6. Line(waiters)'
    <3>1. \A i \in 1..Len(waiters') : waiters'[i] \in Tasks /\ waiters'[i] # c
      BY <2>1, <2>2 DEF Line
    <3> QED
      BY <2>1, <2>2, <2>4, <3>1 DEF Line
  <2>7. \A d \in Tasks : /\ assigned'[d] = 1 => state'[d] = "woken"
                         /\ state'[d] = "woken" => assigned'[d] = 1
    BY <2>1, <2>4 DEF SlotInv
  <2>8. SendersWoken'
    BY <1>3, <2>2, <2>4 DEF SlotInv, SendersWoken
  <2>9. SameFutures(Tasks)
    BY <2>1, <2>4 DEF SameFutures
  <2>10. Slots' = Slots + 1
    <3>1. Total(Tasks, assigned') = Total(Tasks, assigned) - assigned[c] + 1
      BY <1>1, <2>1, <2>2, 1 \in 0..1, GrantChanged
    <3> QED
      BY <1>1, <2>1, <2>2, <3>1, SlotsType DEF Slots
  <2> QED
    BY <1>1, <1>3, <2>1, <2>3, <2>5, <2>6, <2>7, <2>8, <2>9, <2>10 DEF SlotInv
<1> QED
  BY <1>2, <1>3

\* The semaphore is closed: every sender that waits is woken, without a slot.
LEMMA CloseSemaphorePreserves ==
    ASSUME SlotInv, CloseSemaphore
    PROVE  SlotInv' /\ Slots' = Slots /\ SameFutures(Tasks) /\ closed'
<1> USE DEF CloseSemaphore
<1>1. SlotTypes'
  BY DEF SlotInv, SlotTypes
<1>2. Line(waiters)'
  BY DEF Line
<1>3. \A c \in Tasks : state'[c] # "waiting" /\ (assigned'[c] = 1 => state'[c] = "woken")
  BY DEF SlotInv, SlotTypes
<1>4. SendersWoken'
  BY DEF SlotInv, SlotTypes, SendersWoken
<1>5. Slots' = Slots /\ SameFutures(Tasks)
  BY DEF Slots, SameFutures, SlotInv, SlotTypes
<1> QED
  BY <1>1, <1>2, <1>3, <1>4, <1>5 DEF SlotInv

\* A free slot is taken, which is there only if nobody waits.
LEMMA TakeSlotPreserves ==
    ASSUME SlotInv, TakeSlot
    PROVE  SlotInv' /\ Slots' = Slots - 1 /\ UNCHANGED <<state, closed>> /\ ~closed
           /\ waiters = <<>>
<1> USE DEF TakeSlot, HasSlot, S!CanAcquire
<1>1. SlotTypes' /\ permits > 0
  BY MaskAssumption DEF SlotInv, SlotTypes
<1>2. waiters = <<>>
  BY <1>1 DEF SlotInv, SendersWoken
<1>3. Slots' = Slots - 1
  BY <1>1, SlotsType DEF Slots, SlotInv, SlotTypes
<1> QED
  BY <1>1, <1>2, <1>3 DEF SlotInv, SendersWoken, Line

\* A future is created ...
LEMMA CallPreserves ==
    ASSUME SlotInv, NEW c \in Tasks, state[c] = "absent",
           state' = [state EXCEPT ![c] = "inert"],
           UNCHANGED <<permits, closed, waiters, assigned, notified>>
    PROVE  SlotInv' /\ Slots' = Slots /\ state'[c] # "absent" /\ SameFutures(Tasks \ {c})
<1>1. SlotTypes' /\ \A d \in Tasks : state'[d] = IF d = c THEN "inert" ELSE state[d]
  BY DEF SlotInv, SlotTypes
<1> QED
  BY <1>1 DEF SlotInv, SendersWoken, Line, Slots, SameFutures

\* ... takes the free slot that it finds ...
LEMMA FreePreserves ==
    ASSUME SlotInv, NEW c \in Tasks, state[c] = "inert", HasSlot,
           state' = [state EXCEPT ![c] = "absent"], permits' = permits - 1,
           UNCHANGED <<closed, waiters, assigned, notified>>
    PROVE  /\ SlotInv' /\ Slots' = Slots - 1
           /\ state'[c] = "absent" /\ SameFutures(Tasks \ {c})
           /\ ~closed /\ waiters = <<>>
<1>1. permits > 0 /\ permits \in Nat /\ ~closed /\ assigned[c] # 1
  BY DEF HasSlot, S!CanAcquire, SlotInv, SlotTypes
<1>2. SlotTypes' /\ \A d \in Tasks : state'[d] = IF d = c THEN "absent" ELSE state[d]
  BY <1>1, MaskAssumption DEF SlotInv, SlotTypes
<1>3. waiters = <<>>
  BY <1>1 DEF SlotInv, SendersWoken
<1>4. Slots' = Slots - 1
  BY <1>1, SlotsType DEF Slots, SlotInv
<1> QED
  BY <1>1, <1>2, <1>3, <1>4 DEF SlotInv, SendersWoken, Line, SameFutures

\* ... or takes the slot that it was granted ...
LEMMA GrantedPreserves ==
    ASSUME SlotInv, NEW c \in Tasks, ~closed, state[c] = "woken",
           state' = [state EXCEPT ![c] = "absent"],
           assigned' = [assigned EXCEPT ![c] = 0],
           notified' = [notified EXCEPT ![c] = FALSE],
           UNCHANGED <<permits, closed, waiters>>
    PROVE  /\ SlotInv' /\ Slots' = Slots - 1
           /\ state'[c] = "absent" /\ SameFutures(Tasks \ {c})
<1>1. SlotTypes /\ assigned[c] = 1
  BY DEF SlotInv
<1>2. SlotTypes'
  BY <1>1 DEF SlotTypes
<1>3. /\ state'[c] = "absent" /\ assigned'[c] = 0
      /\ \A d \in Tasks : d # c => /\ state'[d] = state[d]
                                 /\ assigned'[d] = assigned[d]
                                 /\ notified'[d] = notified[d]
  BY <1>1 DEF SlotTypes
<1>4. Total(Tasks, assigned') = Total(Tasks, assigned) - 1 + 0
  BY <1>1, 0 \in 0..1, GrantChanged
<1>5. Slots' = Slots - 1
  BY <1>1, <1>4, SlotsType DEF Slots, SlotTypes
<1>6. Line(waiters)'
  <2>1. waiters \in Seq(Tasks) /\ \A i \in 1..Len(waiters) : waiters[i] \in Tasks
    BY DEF SlotInv, SlotTypes
  <2> QED
    BY <1>3, <2>1 DEF SlotInv, Line
<1>7. \A d \in Tasks :
        state'[d] = "waiting" <=> \E i \in 1..Len(waiters') : waiters'[i] = d
  BY <1>3 DEF SlotInv
<1>8. SendersWoken'
  <2>1. SendersWoken
    BY DEF SlotInv
  <2> QED
    BY <1>3, <2>1 DEF SendersWoken
<1>9. \A d \in Tasks : /\ assigned'[d] = 1 => state'[d] = "woken"
                       /\ ~closed' /\ state'[d] = "woken" => assigned'[d] = 1
  <2>1. \A d \in Tasks : /\ assigned[d] = 1 => state[d] = "woken"
                         /\ ~closed /\ state[d] = "woken" => assigned[d] = 1
    BY DEF SlotInv
  <2> QED
    BY <1>3, <2>1
<1>10. state'[c] = "absent" /\ SameFutures(Tasks \ {c})
  BY <1>3 DEF SameFutures
<1> QED
  BY <1>2, <1>5, <1>6, <1>7, <1>8, <1>9, <1>10 DEF SlotInv

\* ... or joins the line.
LEMMA JoinPreserves ==
    ASSUME SlotInv, NEW c \in Tasks, ~closed, state[c] = "inert", ~HasSlot,
           state' = [state EXCEPT ![c] = "waiting"], waiters' = S!PushBack(c),
           UNCHANGED <<permits, closed, assigned, notified>>
    PROVE  SlotInv' /\ Slots' = Slots /\ SameFutures(Tasks)
<1>1. /\ SlotTypes /\ permits = 0
      /\ waiters \in Seq(Tasks) /\ Len(waiters) \in Nat
      /\ \A i \in 1..Len(waiters) : waiters[i] \in Tasks /\ waiters[i] # c
      /\ assigned[c] = 0
  BY DEF HasSlot, S!CanAcquire, SlotInv, SlotTypes
<1>2. /\ waiters' \in Seq(Tasks)
      /\ Len(waiters') = Len(waiters) + 1
      /\ \A i \in 1..Len(waiters) : waiters'[i] = waiters[i]
      /\ waiters'[Len(waiters) + 1] = c
  BY <1>1 DEF S!PushBack
<1>3. /\ SlotTypes'
      /\ \A d \in Tasks : state'[d] = IF d = c THEN "waiting" ELSE state[d]
  BY <1>1, <1>2 DEF SlotTypes
<1>4. \A i \in 1..Len(waiters') : i \in 1..Len(waiters) \/ i = Len(waiters) + 1
  BY <1>1, <1>2
<1>5. Line(waiters)'
  BY <1>1, <1>2, <1>4 DEF Line, SlotInv
<1>6. ASSUME NEW d \in Tasks
      PROVE  state'[d] = "waiting" <=> \E i \in 1..Len(waiters') : waiters'[i] = d
  <2>1. (\E i \in 1..Len(waiters') : waiters'[i] = d)
          <=> d = c \/ \E i \in 1..Len(waiters) : waiters[i] = d
    BY <1>1, <1>2, <1>4
  <2> QED
    BY <1>3, <2>1 DEF SlotInv
<1>7. Slots' = Slots /\ SameFutures(Tasks)
  BY <1>3 DEF Slots, SameFutures
<1> QED
  BY <1>1, <1>3, <1>5, <1>6, <1>7 DEF SlotInv, SendersWoken

\* A future that waits is polled again.
LEMMA WaitingPreserves ==
    ASSUME SlotInv, NEW c \in Tasks, state[c] = "waiting",
           notified' = [notified EXCEPT ![c] = FALSE],
           UNCHANGED <<permits, closed, waiters, state, assigned>>
    PROVE  SlotInv' /\ Slots' = Slots
<1>1. SlotTypes' /\ \A d \in Tasks : d # c => notified'[d] = notified[d]
  BY DEF SlotInv, SlotTypes
<1> QED
  BY <1>1 DEF SlotInv, SendersWoken, Line, Slots

LEMMA SemaphoreStutters ==
    ASSUME SlotInv, UNCHANGED semaphore
    PROVE  SlotInv' /\ Slots' = Slots /\ UNCHANGED <<state, closed>>
  BY DEF semaphore, SlotInv, SlotTypes, SendersWoken, Line, Slots

-----------------------------------------------------------------------------
(* The drop of a future: it leaves the line, or passes its slot on.        *)

\* A sequence without its element at position p.
LEMMA Removed ==
    ASSUME NEW T, NEW w \in Seq(T), NEW p \in 1..Len(w)
    PROVE  LET v == SubSeq(w, 1, p - 1) \o SubSeq(w, p + 1, Len(w))
           IN  /\ v \in Seq(T) /\ Len(v) = Len(w) - 1
               /\ \A i \in 1..Len(v) : v[i] = w[IF i < p THEN i ELSE i + 1]
<1> DEFINE a == SubSeq(w, 1, p - 1)
           b == SubSeq(w, p + 1, Len(w))
           v == a \o b
<1>1. Len(w) \in Nat /\ p \in Nat /\ p >= 1 /\ p <= Len(w)
  OBVIOUS
<1>2. a \in Seq(T) /\ Len(a) = p - 1 /\ \A i \in 1..(p - 1) : a[i] = w[i]
  BY <1>1
<1>3. /\ b \in Seq(T) /\ Len(b) = Len(w) - p
      /\ \A i \in 1..(Len(w) - p) : b[i] = w[p + i]
  BY <1>1
<1> HIDE DEF a, b
<1>4. v \in Seq(T) /\ Len(v) = Len(a) + Len(b)
  BY <1>2, <1>3, ConcatProperties
<1>5. Len(v) = Len(w) - 1
  BY <1>1, <1>2, <1>3, <1>4
<1>6. ASSUME NEW i \in 1..Len(v) PROVE v[i] = w[IF i < p THEN i ELSE i + 1]
  <2>1. CASE i < p
    <3>1. v[i] = a[i] /\ i \in 1..(p - 1)
      BY <1>1, <1>2, <1>3, <1>5, <2>1
    <3> QED
      BY <1>2, <2>1, <3>1
  <2>2. CASE i >= p
    <3>1. v[i] = b[i - (p - 1)] /\ i - (p - 1) \in 1..(Len(w) - p)
      BY <1>1, <1>2, <1>3, <1>5, <2>2
    <3>2. b[i - (p - 1)] = w[p + (i - (p - 1))] /\ p + (i - (p - 1)) = i + 1
      BY <1>1, <1>3, <3>1
    <3> QED
      BY <1>1, <2>2, <3>1, <3>2
  <2> QED
    BY <1>1, <2>1, <2>2
<1> QED
  BY <1>4, <1>5, <1>6 DEF a, b

LEMMA LeaveLine ==
    ASSUME SlotInv, NEW c \in Tasks
    PROVE  /\ Line(S!WaitersWithout(c))
           /\ \A d \in Tasks :
                (\E i \in 1..Len(S!WaitersWithout(c)) : S!WaitersWithout(c)[i] = d)
                  <=> state[d] = "waiting" /\ d # c
           /\ state[c] # "waiting" => S!WaitersWithout(c) = waiters
           /\ S!WaitersWithout(c) # <<>> => waiters # <<>>
<1>1. /\ Line(waiters)
      /\ waiters \in Seq(Tasks) /\ Len(waiters) \in Nat
      /\ \A i \in 1..Len(waiters) : waiters[i] \in Tasks
      /\ \A d \in Tasks :
           state[d] = "waiting" <=> \E i \in 1..Len(waiters) : waiters[i] = d
  BY DEF SlotInv, SlotTypes
<1>2. CASE state[c] # "waiting"
  BY <1>1, <1>2 DEF S!WaitersWithout
<1>3. CASE state[c] = "waiting"
  <2> DEFINE p == CHOOSE i \in 1..Len(waiters) : waiters[i] = c
             w == S!WaitersWithout(c)
             at(i) == IF i < p THEN i ELSE i + 1
  <2>1. p \in 1..Len(waiters) /\ waiters[p] = c
    BY <1>1, <1>3
  <2>2. w = SubSeq(waiters, 1, p - 1) \o SubSeq(waiters, p + 1, Len(waiters))
    BY <1>3 DEF S!WaitersWithout, S!RemoveAt
  <2> HIDE DEF p, w
  <2>3. /\ w \in Seq(Tasks) /\ Len(w) = Len(waiters) - 1
        /\ \A i \in 1..Len(w) : w[i] = waiters[at(i)]
    BY <1>1, <2>1, <2>2, Removed
  <2>4. \A i \in 1..Len(w) : at(i) \in 1..Len(waiters) /\ at(i) # p
    BY <1>1, <2>1, <2>3
  <2>5. \A i, j \in 1..Len(w) : at(i) = at(j) => i = j
    BY <1>1, <2>1, <2>3
  <2>6. \A j \in 1..Len(waiters) : j # p => \E i \in 1..Len(w) : at(i) = j
    <3> SUFFICES ASSUME NEW j \in 1..Len(waiters), j # p
                 PROVE  \E i \in 1..Len(w) : at(i) = j
      OBVIOUS
    <3>1. CASE j < p
      <4>1. j \in 1..Len(w) /\ at(j) = j
        BY <1>1, <2>1, <2>3, <3>1
      <4> QED
        BY <4>1
    <3>2. CASE j > p
      <4>1. j - 1 \in 1..Len(w) /\ at(j - 1) = j
        BY <1>1, <2>1, <2>3, <3>2
      <4> QED
        BY <4>1
    <3> QED
      BY <1>1, <2>1, <3>1, <3>2
  <2> HIDE DEF at
  <2>7. Line(w)
    <3>1. \A i, j \in 1..Len(w) : w[i] = w[j] => i = j
      BY <1>1, <2>3, <2>4, <2>5 DEF Line
    <3>2. \A i \in 1..Len(w) : assigned[w[i]] = 0
      BY <1>1, <2>3, <2>4 DEF Line
    <3> QED
      BY <2>3, <3>1, <3>2 DEF Line
  <2>8. ASSUME NEW d \in Tasks
        PROVE  (\E i \in 1..Len(w) : w[i] = d) <=> state[d] = "waiting" /\ d # c
    <3>1. ASSUME NEW i \in 1..Len(w), w[i] = d PROVE state[d] = "waiting" /\ d # c
      BY <1>1, <2>1, <2>3, <2>4, <3>1 DEF Line
    <3>2. ASSUME state[d] = "waiting", d # c PROVE \E i \in 1..Len(w) : w[i] = d
      <4>1. PICK j \in 1..Len(waiters) : waiters[j] = d
        BY <1>1, <3>2
      <4>2. PICK i \in 1..Len(w) : at(i) = j
        BY <2>1, <2>6, <3>2, <4>1
      <4> QED
        BY <2>3, <4>1, <4>2
    <3> QED
      BY <3>1, <3>2
  <2>9. waiters # <<>>
    BY <2>1
  <2> QED
    BY <1>3, <2>7, <2>8, <2>9 DEF w
<1> QED
  BY <1>2, <1>3

\* A future is dropped, at any point: its slot is not lost.
LEMMA DropAcquirePreserves ==
    ASSUME SlotInv, NEW c \in Tasks, DropAcquire(c), Slots <= UsizeMax
    PROVE  /\ SlotInv' /\ Slots' = Slots /\ UNCHANGED closed
           /\ state'[c] = "absent" /\ SameFutures(Tasks \ {c})
<1> DEFINE w == S!WaitersWithout(c)
<1>1. /\ SlotTypes /\ SendersWoken /\ UNCHANGED closed
      /\ Line(w)
      /\ \A d \in Tasks :
           (\E i \in 1..Len(w) : w[i] = d) <=> state[d] = "waiting" /\ d # c
      /\ state[c] # "waiting" => w = waiters
      /\ w # <<>> => waiters # <<>>
      /\ permits \in Nat /\ UsizeMax \in Nat /\ assigned[c] \in 0..1
  BY LeaveLine, MaskAssumption DEF SlotInv, SlotTypes, DropAcquire
<1>2. \A d \in Tasks : /\ assigned[d] = 1 => state[d] = "woken"
                       /\ ~closed /\ state[d] = "woken" => assigned[d] = 1
  BY DEF SlotInv
<1>3. /\ permits' = S!PermitsAfter(w, assigned[c])
      /\ waiters' = S!WaitersAfter(w, assigned[c])
      /\ state' = [S!StateAfter(w, assigned[c]) EXCEPT ![c] = "absent"]
      /\ assigned' = [S!AssignedAfter(w, assigned[c]) EXCEPT ![c] = 0]
      /\ notified' = [S!Wake(S!Completed(w, assigned[c])) EXCEPT ![c] = FALSE]
  BY DEF DropAcquire, Granted
<1>4. CASE assigned[c] = 0
  <2>1. /\ permits' = permits /\ waiters' = w
        /\ state' = [state EXCEPT ![c] = "absent"]
        /\ assigned' = [assigned EXCEPT ![c] = 0]
        /\ notified' = [notified EXCEPT ![c] = FALSE]
    BY <1>1, <1>3, <1>4, AddNone
  <2> HIDE DEF w
  <2>2. SlotTypes'
    BY <1>1, <2>1 DEF SlotTypes, Line
  <2>3. /\ state'[c] = "absent" /\ assigned' = assigned
        /\ \A d \in Tasks : d # c => state'[d] = state[d] /\ notified'[d] = notified[d]
    BY <1>1, <1>4, <2>1 DEF SlotTypes
  <2>4. Line(waiters)'
    BY <1>1, <2>1, <2>3 DEF Line
  <2>5. \A d \in Tasks :
          state'[d] = "waiting" <=> \E i \in 1..Len(waiters') : waiters'[i] = d
    BY <1>1, <2>1, <2>3
  <2>6. \A d \in Tasks : /\ assigned'[d] = 1 => state'[d] = "woken"
                         /\ ~closed' /\ state'[d] = "woken" => assigned'[d] = 1
    BY <1>1, <1>2, <1>4, <2>3
  <2>7. SendersWoken' /\ (closed' => waiters' = <<>>)
    BY <1>1, <2>1, <2>3 DEF SlotInv, SendersWoken
  <2>8. Slots' = Slots /\ SameFutures(Tasks \ {c})
    BY <2>1, <2>3 DEF Slots, SameFutures
  <2> QED
    BY <1>1, <2>2, <2>3, <2>4, <2>5, <2>6, <2>7, <2>8 DEF SlotInv
<1>5. CASE assigned[c] = 1
  <2>1. state[c] = "woken" /\ w = waiters
    BY <1>1, <1>2, <1>5
  <2>2. Total(Tasks, assigned) \in Nat /\ Total(Tasks, assigned) >= 1
    <3>1. \A d \in Tasks : assigned[d] \in Nat
      BY <1>1 DEF SlotTypes
    <3>2. Total(Tasks, assigned) >= assigned[c]
      BY <3>1, QueueAssumption, TotalAtLeast
    <3> QED
      BY <1>1, <1>5, <3>2, SlotsType
  <2>3. CASE waiters = <<>>
    <3>1. permits + 1 <= UsizeMax
      BY <1>1, <2>2 DEF Slots
    <3>2. /\ permits' = permits + 1 /\ waiters' = waiters
          /\ state' = [state EXCEPT ![c] = "absent"]
          /\ assigned' = [assigned EXCEPT ![c] = 0]
          /\ notified' = [notified EXCEPT ![c] = FALSE]
      <4>1. w = <<>> /\ 1 \in Nat
        BY <2>1, <2>3
      <4> HIDE DEF w
      <4> QED
        BY <1>1, <1>3, <1>5, <2>3, <3>1, <4>1, AddFree
    <3> HIDE DEF w
    <3>3. SlotTypes'
      BY <1>1, <3>1, <3>2 DEF SlotTypes
    <3>4. /\ state'[c] = "absent" /\ assigned'[c] = 0
          /\ \A d \in Tasks : d # c => /\ state'[d] = state[d]
                                       /\ assigned'[d] = assigned[d]
                                       /\ notified'[d] = notified[d]
      BY <1>1, <3>2 DEF SlotTypes
    <3>5. Line(waiters)'
      BY <2>3, <3>2 DEF Line
    <3>6. \A d \in Tasks :
            state'[d] = "waiting" <=> \E i \in 1..Len(waiters') : waiters'[i] = d
      BY <2>1, <3>2, <3>4 DEF SlotInv
    <3>7. \A d \in Tasks : /\ assigned'[d] = 1 => state'[d] = "woken"
                           /\ ~closed' /\ state'[d] = "woken" => assigned'[d] = 1
      BY <1>1, <1>2, <3>4
    <3>8. SendersWoken' /\ waiters' = <<>>
      BY <1>1, <2>3, <3>2, <3>4 DEF SendersWoken
    <3>9. Slots' = Slots /\ SameFutures(Tasks \ {c})
      <4>1. Total(Tasks, assigned') = Total(Tasks, assigned) - 1 + 0
        BY <1>1, <1>5, <3>2, 0 \in 0..1, GrantChanged
      <4> QED
        BY <1>1, <2>2, <3>2, <3>4, <4>1 DEF Slots, SameFutures
    <3> QED
      BY <1>1, <3>3, <3>4, <3>5, <3>6, <3>7, <3>8, <3>9 DEF SlotInv
  <2>4. CASE waiters # <<>>
    <3> DEFINE e == waiters[1]
               t == Tail(waiters)
    <3>1. /\ e \in Tasks /\ assigned[e] = 0 /\ state[e] = "waiting" /\ ~closed
          /\ Line(t)
          /\ \A d \in Tasks :
               (\E i \in 1..Len(t) : t[i] = d) <=> state[d] = "waiting" /\ d # e
      BY <2>4, FirstLeaves
    <3>2. /\ permits' = permits /\ waiters' = t
          /\ state' = [[state EXCEPT ![e] = "woken"] EXCEPT ![c] = "absent"]
          /\ assigned' = [[assigned EXCEPT ![e] = 1] EXCEPT ![c] = 0]
          /\ notified' = [[notified EXCEPT ![e] = TRUE] EXCEPT ![c] = FALSE]
      BY <1>1, <1>3, <1>5, <2>1, <2>4, AddServed
    <3> HIDE DEF e, t, w
    <3>3. SlotTypes'
      <4>1. t \in Seq(Tasks)
        BY <3>1 DEF Line
      <4>2. [state EXCEPT ![e] = "woken"]
              \in [Tasks -> {"absent", "inert", "waiting", "woken"}]
        BY <1>1 DEF SlotTypes
      <4>3. state' \in [Tasks -> {"absent", "inert", "waiting", "woken"}]
        BY <3>2, <4>2
      <4>4. assigned' \in [Tasks -> 0..1]
        BY <1>1, <3>2 DEF SlotTypes
      <4>5. notified' \in [Tasks -> BOOLEAN]
        BY <1>1, <3>2 DEF SlotTypes
      <4> QED
        BY <1>1, <3>2, <4>1, <4>3, <4>4, <4>5 DEF SlotTypes
    <3>4. /\ c # e
          /\ state'[c] = "absent" /\ assigned'[c] = 0
          /\ state'[e] = "woken" /\ assigned'[e] = 1 /\ notified'[e]
          /\ \A d \in Tasks : d # c /\ d # e => /\ state'[d] = state[d]
                                                /\ assigned'[d] = assigned[d]
                                                /\ notified'[d] = notified[d]
      BY <1>1, <2>1, <3>1, <3>2 DEF SlotTypes
    <3>5. \A d \in Tasks :
            state'[d] = "waiting" <=> \E i \in 1..Len(waiters') : waiters'[i] = d
      <4>1. \A d \in Tasks : state'[d] = "waiting" <=> state[d] = "waiting" /\ d # e
        BY <2>1, <3>4
      <4> QED
        BY <3>1, <3>2, <4>1
    <3>6. Line(waiters)'
      <4>1. \A i \in 1..Len(t) : t[i] \in Tasks /\ t[i] # c /\ t[i] # e
        BY <2>1, <3>1 DEF Line
      <4>2. \A i \in 1..Len(t) : assigned'[t[i]] = 0
        BY <3>1, <3>4, <4>1 DEF Line
      <4> QED
        <5>1. waiters' = t /\ t \in Seq(Tasks)
          BY <3>1, <3>2 DEF Line
        <5>2. \A i, j \in 1..Len(t) : t[i] = t[j] => i = j
          BY <3>1 DEF Line
        <5> QED
          BY <4>2, <5>1, <5>2 DEF Line
    <3>7. \A d \in Tasks : /\ assigned'[d] = 1 => state'[d] = "woken"
                           /\ state'[d] = "woken" => assigned'[d] = 1
      BY <1>2, <3>1, <3>4
    <3>8. SendersWoken'
      <4>1. \A d \in Tasks : state'[d] = "woken" => notified'[d]
        BY <1>1, <3>4 DEF SendersWoken
      <4> QED
        BY <1>1, <2>4, <3>2, <4>1 DEF SendersWoken
    <3>9. Slots' = Slots
      <4> DEFINE f == assigned
                 g == [assigned EXCEPT ![e] = 1]
                 h == assigned'
      <4>1. /\ \A d \in Tasks : f[d] \in Nat /\ g[d] \in Nat /\ h[d] \in Nat
            /\ \A d \in Tasks : d # e => g[d] = f[d]
            /\ \A d \in Tasks : d # c => h[d] = g[d]
            /\ f[e] = 0 /\ g[e] = 1 /\ g[c] = 1 /\ h[c] = 0
        <5>1. assigned \in [Tasks -> 0..1] /\ c # e /\ e \in Tasks
          BY <1>1, <3>1, <3>4 DEF SlotTypes
        <5>2. assigned[c] = 1 /\ assigned[e] = 0
          BY <1>5, <3>1
        <5>3. assigned' = [[assigned EXCEPT ![e] = 1] EXCEPT ![c] = 0]
          BY <3>2
        <5> QED
          BY <5>1, <5>2, <5>3
      <4> HIDE DEF f, g, h
      <4>2. Total(Tasks, g) = Total(Tasks, f) - f[e] + g[e]
        BY <3>1, <4>1, TotalUpdate, QueueAssumption
      <4>3. Total(Tasks, h) = Total(Tasks, g) - g[c] + h[c]
        BY <4>1, TotalUpdate, QueueAssumption
      <4>4. Total(Tasks, f) = Total(Tasks, h)
        BY <2>2, <4>1, <4>2, <4>3 DEF f
      <4> QED
        BY <3>2, <4>4 DEF Slots, f, h
    <3>10. SameFutures(Tasks \ {c})
      BY <3>1, <3>4 DEF SameFutures
    <3> QED
      BY <1>1, <3>1, <3>3, <3>4, <3>5, <3>6, <3>7, <3>8, <3>9, <3>10 DEF SlotInv
  <2> QED
    BY <2>3, <2>4
<1> QED
  BY <1>1, <1>4, <1>5
=============================================================================
