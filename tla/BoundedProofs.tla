----------------------------- MODULE BoundedProofs -----------------------------
(***************************************************************************)
(* Theorems on BoundedChannel, for every finite set of tasks, every        *)
(* capacity, every width of the counters, and every number of upsets.      *)
(*                                                                         *)
(* What each action of Queue preserves is in QueueProofs, what each use of *)
(* the semaphore preserves in SlotProofs.  Here the two are tied together: *)
(* the slots add up, and semaphore and mask agree on who may send.         *)
(***************************************************************************)
EXTENDS SlotProofs, QueueProofs

Doings == Futures \cup Permits \cup {"idle"}

\* What the tasks do and what is counted.  A future has its Acquire inside, and
\* futures and permits keep the handle of a split channel in use.
Books ==
    /\ reserved \in Nat
    /\ doing \in [Tasks -> Doings]
    /\ forgotten \in 0..MaxUpset /\ surplus \in 0..MaxUpset
    /\ SlotsAccounted
    /\ \A c \in Tasks : state[c] = "absent" <=> doing[c] \notin Futures
    /\ split => \A c \in Tasks : doing[c] # "idle" => c \in handles

\* The semaphore is closed with the mask, except that the last sender, which nobody
\* could send after, closes the mask only.
Closes ==
    /\ closed => Shut
    /\ Shut => closed \/ (split /\ handles = {})
    /\ receiver = "dropped" => closed

IInv == QInv /\ SlotInv /\ Books /\ Closes /\ ReceiverNotified

\* The steps, whatever handle they go through.
LEMMA NextCases ==
    ASSUME Next
    PROVE  \/ \E c \in Tasks :
               \/ MaySend(c) /\ (TrySend(c) \/ \E p \in Permits : TryReserve(c, p))
               \/ MaySend(c) /\ \E f \in Futures : Call(c, f)
               \/ DropSender(c)
               \/ \E d \in Tasks : CloneSender(c, d)
               \/ \E own \in BOOLEAN : SplitChannel(c, own)
               \/ Poll(c) \/ Cancel(c)
               \/ SendReserved(c) \/ DropPermit(c) \/ DropOwned(c)
               \/ ForgetPermit(c) \/ SendPanics(c) \/ SendOwnedPanics(c)
           \/ Receive \/ End \/ Pend \/ StopReceiving
           \/ Close \/ DropReceiver \/ Reunite
<1> USE DEF Permits, Futures, MaySend
<1>1. CASE ChannelCall
  BY <1>1 DEF ChannelCall, Recv, SendCall
<1>2. ASSUME NEW c \in Tasks, SenderRefCall(c) \/ SenderCall(c)
      PROVE  \/ MaySend(c) /\ (TrySend(c) \/ \E p \in Permits : TryReserve(c, p))
             \/ MaySend(c) /\ \E f \in Futures : Call(c, f)
             \/ DropSender(c)
             \/ \E d \in Tasks : CloneSender(c, d)
  BY <1>2 DEF SenderRefCall, SenderCall, Sending, SendCall
<1>3. CASE ReceiverRefCall \/ ReceiverCall
  BY <1>3 DEF ReceiverRefCall, ReceiverCall, Receiving, Recv
<1>4. ASSUME NEW c \in Tasks, Split(c) \/ IntoSplit(c)
      PROVE  \E own \in BOOLEAN : SplitChannel(c, own)
  BY <1>4 DEF Split, IntoSplit
<1> HIDE DEF Permits, Futures, MaySend
<1> QED
  BY <1>1, <1>2, <1>3, <1>4 DEF Next

-----------------------------------------------------------------------------
(* The account.                                                            *)

Holders == {c \in Tasks : doing[c] \in Permits}

LEMMA HoldersType ==
    /\ IsFiniteSet(Holders) /\ Reservations = Cardinality(Holders) /\ Reservations \in Nat
    /\ Holders = {} => Reservations = 0
<1>1. IsFiniteSet(Holders)
  BY QueueAssumption, FS_Subset DEF Holders
<1>2. Reservations = Cardinality(Holders)
  BY DEF Reservations, Holders
<1> QED
  BY <1>1, <1>2, FS_CardinalityType, FS_EmptySet

LEMMA ReservationsChange ==
    ASSUME doing \in [Tasks -> Doings], NEW c \in Tasks, NEW what \in Doings,
           Become(c, what)
    PROVE  /\ (doing[c] \in Permits <=> what \in Permits) => Reservations' = Reservations
           /\ doing[c] \notin Permits /\ what \in Permits
                => Reservations' = Reservations + 1
           /\ doing[c] \in Permits /\ what \notin Permits
                => Reservations' = Reservations - 1
<1>1. \A d \in Tasks : doing'[d] = IF d = c THEN what ELSE doing[d]
  BY DEF Become
<1>2. /\ IsFiniteSet(Holders) /\ Reservations = Cardinality(Holders)
      /\ Reservations \in Nat /\ Reservations' = Cardinality(Holders')
  BY HoldersType DEF Reservations, Holders
<1>3. CASE doing[c] \in Permits /\ what \notin Permits
  <2>1. Holders' = Holders \ {c} /\ c \in Holders
    BY <1>1, <1>3 DEF Holders
  <2> QED
    BY <1>2, <1>3, <2>1, FS_RemoveElement
<1>4. CASE doing[c] \notin Permits /\ what \in Permits
  <2>1. Holders' = Holders \cup {c} /\ c \notin Holders
    BY <1>1, <1>4 DEF Holders
  <2> QED
    BY <1>2, <1>4, <2>1, FS_AddElement
<1>5. CASE doing[c] \in Permits <=> what \in Permits
  <2>1. Holders' = Holders
    BY <1>1, <1>5 DEF Holders
  <2> QED
    BY <1>2, <1>5, <2>1
<1> QED
  BY <1>3, <1>4, <1>5

\* The account, and that it fits into the counters.
LEMMA Account ==
    ASSUME IInv
    PROVE  /\ Slots \in Nat /\ Len(queue) \in Nat /\ reserved \in Nat
           /\ forgotten \in Nat /\ surplus \in Nat
           /\ Slots + Len(queue) + reserved = Capacity + surplus
           /\ Capacity + MaxUpset <= UsizeMax /\ surplus <= MaxUpset
           /\ Slots <= UsizeMax
           /\ Capacity \in Nat /\ MaxUpset \in Nat /\ UsizeMax \in Nat
           /\ reserved = Reservations + forgotten /\ Reservations \in Nat
           /\ permits \in Nat /\ permits <= Slots
           /\ \A c \in Tasks : doing[c] \in Permits => reserved > 0
<1>1. Slots \in Nat /\ permits \in Nat /\ permits <= Slots
  BY SlotsType DEF IInv, SlotInv, SlotTypes
<1>2. Len(queue) \in Nat
  BY DEF IInv, QInv, QueueTypeOK
<1>3. /\ Capacity + MaxUpset <= UsizeMax /\ Capacity \in Nat /\ MaxUpset \in Nat
      /\ UsizeMax \in Nat
  BY BoundedAssumption, MaskAssumption
<1>4. /\ reserved \in Nat /\ forgotten \in Nat /\ surplus \in Nat /\ surplus <= MaxUpset
      /\ Slots + Len(queue) + reserved = Capacity + surplus
      /\ reserved = Reservations + forgotten
  BY <1>3 DEF IInv, Books, SlotsAccounted, Slots
<1>5. Reservations \in Nat
  BY HoldersType
<1>6. ASSUME NEW c \in Tasks, doing[c] \in Permits PROVE reserved > 0
  <2>1. c \in Holders
    BY <1>6 DEF Holders
  <2>2. Reservations # 0
    BY <2>1, HoldersType, FS_EmptySet
  <2> QED
    BY <1>4, <1>5, <2>2
<1>7. Slots <= UsizeMax
  BY <1>1, <1>2, <1>3, <1>4
<1> QED
  BY <1>1, <1>2, <1>3, <1>4, <1>5, <1>6, <1>7

\* What task c does next
LEMMA BooksKept ==
    ASSUME IInv, NEW c \in Tasks, NEW what \in Doings, Become(c, what),
           SameFutures(Tasks \ {c}), state'[c] = "absent" <=> what \notin Futures,
           reserved' \in Nat, forgotten' \in 0..MaxUpset, surplus' \in 0..MaxUpset,
           SlotsAccounted',
           UNCHANGED split, handles \ {c} \subseteq handles',
           split => what = "idle" \/ c \in handles'
    PROVE  Books'
<1>1. doing \in [Tasks -> Doings] /\ doing' = [doing EXCEPT ![c] = what]
  BY DEF IInv, Books, Become
<1>2. /\ doing' \in [Tasks -> Doings] /\ doing'[c] = what
      /\ \A d \in Tasks : d # c => doing'[d] = doing[d]
  BY <1>1
<1>3. \A d \in Tasks : state'[d] = "absent" <=> doing'[d] \notin Futures
  BY <1>2 DEF IInv, Books, SameFutures
<1>4. split' => \A d \in Tasks : doing'[d] # "idle" => d \in handles'
  BY <1>2 DEF IInv, Books
<1> QED
  BY <1>2, <1>3, <1>4 DEF Books

\* The same where the tasks go on with what they do.
LEMMA BooksSame ==
    ASSUME IInv, QInv', SlotInv', UNCHANGED doing, SameFutures(Tasks),
           UNCHANGED <<reserved, forgotten, surplus>>,
           Slots' + Len(queue') = Slots + Len(queue),
           split' => split /\ \A c \in handles : doing[c] # "idle" => c \in handles'
    PROVE  Books'
<1>1. /\ Slots' \in Nat /\ Len(queue') \in Nat /\ Slots \in Nat /\ Len(queue) \in Nat
      /\ reserved \in Nat /\ surplus \in Nat /\ Capacity \in Nat
      /\ Slots + Len(queue) + reserved = Capacity + surplus
  <2>1. Slots' \in Nat
    BY SlotsTypeNext DEF SlotInv
  <2>2. Len(queue') \in Nat
    BY DEF QInv, QueueTypeOK
  <2> QED
    BY <2>1, <2>2, Account
<1>2. Slots' + Len(queue') + reserved' = Capacity + surplus'
  BY <1>1
<1>3. Reservations' = Reservations
  BY DEF Reservations
<1>4. SlotsAccounted'
  BY <1>2, <1>3 DEF IInv, Books, SlotsAccounted, Slots
<1>5. \A d \in Tasks : state'[d] = "absent" <=> doing'[d] \notin Futures
  BY DEF IInv, Books, SameFutures
<1>6. split' => \A d \in Tasks : doing'[d] # "idle" => d \in handles'
  BY DEF IInv, Books
<1> QED
  BY <1>4, <1>5, <1>6 DEF IInv, Books

\* A slot becomes a reserved one.
LEMMA SlotReserved ==
    ASSUME IInv
    PROVE  /\ (Slots - 1) + Len(queue) + (reserved + 1) = Capacity + surplus
           /\ reserved + 1 = (Reservations + 1) + forgotten
<1>1. \A s, l, r, k \in Int : s + l + r = k => (s - 1) + l + (r + 1) = k
  OBVIOUS
<1>2. \A r, n, f \in Int : r = n + f => r + 1 = (n + 1) + f
  OBVIOUS
<1>3. /\ Slots \in Int /\ Len(queue) \in Int /\ reserved \in Int /\ Capacity + surplus \in Int
      /\ Reservations \in Int /\ forgotten \in Int
      /\ Slots + Len(queue) + reserved = Capacity + surplus
      /\ reserved = Reservations + forgotten
  BY Account
<1> QED
  BY <1>1, <1>2, <1>3

\* A reserved slot becomes something else.
LEMMA SlotReleased ==
    ASSUME IInv, NEW c \in Tasks, doing[c] \in Permits
    PROVE  /\ Slots + (Len(queue) + 1) + (reserved - 1) = Capacity + surplus
           /\ (Slots + 1) + Len(queue) + (reserved - 1) = Capacity + surplus
           /\ (Slots + 1) + (Len(queue) + 1) + (reserved - 1) = Capacity + (surplus + 1)
           /\ Slots + (Len(queue) + 1) + reserved = Capacity + (surplus + 1)
           /\ reserved - 1 = (Reservations - 1) + forgotten
           /\ reserved = (Reservations - 1) + (forgotten + 1)
           /\ reserved - 1 \in Nat
           /\ Slots + 1 <= UsizeMax
<1>1. \A s, l, r, k, u \in Int :
        s + l + r = k + u =>
          /\ s + (l + 1) + (r - 1) = k + u
          /\ (s + 1) + l + (r - 1) = k + u
          /\ (s + 1) + (l + 1) + (r - 1) = k + (u + 1)
          /\ s + (l + 1) + r = k + (u + 1)
  OBVIOUS
<1>2. \A r, n, f \in Int :
        r = n + f => r - 1 = (n - 1) + f /\ r = (n - 1) + (f + 1)
  OBVIOUS
<1>3. \A s, l, r, k, u, m, x \in Nat :
        s + l + r = k + u /\ r > 0 /\ u <= m /\ k + m <= x => s + 1 <= x /\ r - 1 \in Nat
  OBVIOUS
<1>4. /\ Slots \in Nat /\ Len(queue) \in Nat /\ reserved \in Nat /\ reserved > 0
      /\ Capacity \in Nat /\ surplus \in Nat /\ MaxUpset \in Nat /\ UsizeMax \in Nat
      /\ Reservations \in Nat /\ forgotten \in Nat
      /\ Slots + Len(queue) + reserved = Capacity + surplus
      /\ surplus <= MaxUpset /\ Capacity + MaxUpset <= UsizeMax
      /\ reserved = Reservations + forgotten
  BY Account
<1>5. /\ Slots + (Len(queue) + 1) + (reserved - 1) = Capacity + surplus
      /\ (Slots + 1) + Len(queue) + (reserved - 1) = Capacity + surplus
      /\ (Slots + 1) + (Len(queue) + 1) + (reserved - 1) = Capacity + (surplus + 1)
      /\ Slots + (Len(queue) + 1) + reserved = Capacity + (surplus + 1)
  BY <1>1, <1>4
<1>6. reserved - 1 = (Reservations - 1) + forgotten
      /\ reserved = (Reservations - 1) + (forgotten + 1)
  BY <1>2, <1>4
<1>7. reserved - 1 \in Nat /\ Slots + 1 <= UsizeMax
  BY <1>3, <1>4
<1> QED
  BY <1>5, <1>6, <1>7

\* Neither semaphore nor mask is closed, and the handles stay as they are.
LEMMA ClosesKept ==
    ASSUME IInv, Shut' = Shut, UNCHANGED <<closed, split, handles, receiver>>
    PROVE  Closes'
  BY DEF IInv, Closes

LEMMA PushKeeps ==
    ASSUME IInv, NEW c \in Tasks, PushAndWake(c)
    PROVE  /\ QInv' /\ (ReceiverWoken => ReceiverWoken') /\ Shut' = Shut
           /\ Len(queue') = Len(queue) + 1
           /\ UNCHANGED <<split, handles, receiver, answer>>
<1>1. queue \in Seq(Tasks)
  BY DEF IInv, QInv, QueueTypeOK
<1>2. Len(queue') = Len(queue) + 1
  BY <1>1 DEF PushAndWake
<1> QED
  BY <1>2, PushPreserves DEF IInv, PushAndWake

LEMMA ChannelStutters ==
    ASSUME IInv, UNCHANGED channel
    PROVE  /\ QInv' /\ (ReceiverWoken => ReceiverWoken') /\ Shut' = Shut
           /\ Len(queue') = Len(queue)
           /\ UNCHANGED <<split, handles, receiver>>
<1>1. Len(queue') = Len(queue) /\ UNCHANGED <<split, handles, receiver>>
  BY DEF channel
<1> QED
  BY <1>1, StutterPreserves DEF IInv

-----------------------------------------------------------------------------
(* Sending without a future.                                               *)

LEMMA TrySendPreserves ==
    ASSUME IInv, NEW c \in Tasks, TrySend(c)
    PROVE  IInv'
<1>1. PushAndWake(c) /\ TakeSlot /\ UNCHANGED <<reserved, doing, forgotten, surplus>>
  BY DEF TrySend, upset
<1>2. /\ QInv' /\ (ReceiverWoken => ReceiverWoken') /\ Shut' = Shut
      /\ Len(queue') = Len(queue) + 1 /\ UNCHANGED <<split, handles, receiver>>
  BY <1>1, PushKeeps
<1>3. SlotInv' /\ Slots' = Slots - 1 /\ UNCHANGED <<state, closed>>
  BY <1>1, TakeSlotPreserves DEF IInv
<1>4. Slots' + Len(queue') = Slots + Len(queue)
  BY <1>2, <1>3, Account
<1>5. Books'
  BY <1>1, <1>2, <1>3, <1>4, BooksSame DEF SameFutures
<1>6. Closes'
  BY <1>2, <1>3, ClosesKept
<1> QED
  BY <1>1, <1>2, <1>3, <1>5, <1>6 DEF IInv, ReceiverNotified

LEMMA TryReservePreserves ==
    ASSUME IInv, NEW c \in Tasks, NEW p \in Permits, MaySend(c), TryReserve(c, p)
    PROVE  IInv'
<1>1. /\ TakeSlot /\ reserved' = reserved + 1 /\ Become(c, p) /\ doing[c] = "idle"
      /\ UNCHANGED channel /\ UNCHANGED <<forgotten, surplus>>
  BY DEF TryReserve, Idle, upset
<1>2. /\ QInv' /\ (ReceiverWoken => ReceiverWoken') /\ Shut' = Shut
      /\ Len(queue') = Len(queue) /\ UNCHANGED <<split, handles, receiver>>
  BY <1>1, ChannelStutters
<1>3. SlotInv' /\ Slots' = Slots - 1 /\ UNCHANGED <<state, closed>>
  BY <1>1, TakeSlotPreserves DEF IInv
<1>4. p \in Doings /\ p \notin Futures /\ "idle" \notin Permits /\ "idle" \notin Futures
  BY DEF Doings, Futures, Permits
<1>5. Reservations' = Reservations + 1
  BY <1>1, <1>4, ReservationsChange DEF IInv, Books
<1>6. SlotsAccounted'
  BY <1>1, <1>2, <1>3, <1>5, SlotReserved DEF SlotsAccounted, Slots
<1>7. Books'
  <2>1. state'[c] = "absent"
    BY <1>1, <1>3, <1>4 DEF IInv, Books
  <2>2. reserved' \in Nat /\ forgotten' \in 0..MaxUpset /\ surplus' \in 0..MaxUpset
    BY <1>1 DEF IInv, Books
  <2>3. split => c \in handles'
    BY <1>2 DEF MaySend
  <2> QED
    BY <1>1, <1>2, <1>3, <1>4, <1>6, <2>1, <2>2, <2>3, BooksKept DEF SameFutures
<1>8. Closes'
  BY <1>2, <1>3, ClosesKept
<1> QED
  BY <1>1, <1>2, <1>3, <1>7, <1>8 DEF IInv, ReceiverNotified

-----------------------------------------------------------------------------
(* Futures.                                                                *)

LEMMA FutureCalled ==
    ASSUME IInv, NEW c \in Tasks, NEW f \in Futures, MaySend(c), Call(c, f)
    PROVE  IInv'
<1>1. /\ Become(c, f) /\ doing[c] = "idle"
      /\ state' = [state EXCEPT ![c] = "inert"]
      /\ UNCHANGED channel /\ UNCHANGED <<permits, closed, waiters, assigned, notified>>
      /\ UNCHANGED <<reserved, forgotten, surplus>>
  BY DEF Call, Idle, upset
<1>2. /\ QInv' /\ (ReceiverWoken => ReceiverWoken') /\ Shut' = Shut
      /\ Len(queue') = Len(queue) /\ UNCHANGED <<split, handles, receiver>>
  BY <1>1, ChannelStutters
<1>3. f \in Doings /\ f \notin Permits /\ "idle" \notin Permits /\ "idle" \notin Futures
  BY DEF Doings, Futures, Permits
<1>4. state[c] = "absent"
  BY <1>1, <1>3 DEF IInv, Books
<1>5. SlotInv' /\ Slots' = Slots /\ state'[c] # "absent" /\ SameFutures(Tasks \ {c})
  BY <1>1, <1>4, CallPreserves DEF IInv
<1>6. Reservations' = Reservations
  BY <1>1, <1>3, ReservationsChange DEF IInv, Books
<1>7. SlotsAccounted'
  <2>1. /\ Slots' + Len(queue') + reserved' = Capacity + surplus'
        /\ reserved' = Reservations' + forgotten'
    BY <1>1, <1>2, <1>5, <1>6, Account
  <2> QED
    BY <2>1 DEF SlotsAccounted, Slots
<1>8. Books'
  <2>1. reserved' \in Nat /\ forgotten' \in 0..MaxUpset /\ surplus' \in 0..MaxUpset
    BY <1>1 DEF IInv, Books
  <2>2. split => c \in handles'
    BY <1>2 DEF MaySend
  <2> QED
    BY <1>1, <1>2, <1>3, <1>5, <1>7, <2>1, <2>2, BooksKept
<1>9. Closes'
  BY <1>1, <1>2, ClosesKept
<1> QED
  BY <1>1, <1>2, <1>5, <1>8, <1>9 DEF IInv, ReceiverNotified

\* A future that has its slot ends: the slot is used or kept.
LEMMA ObtainPreserves ==
    ASSUME IInv, NEW c \in Tasks, Obtain(c), UNCHANGED <<closed, forgotten, surplus>>,
           SlotInv', Slots' = Slots - 1, state'[c] = "absent",
           SameFutures(Tasks \ {c})
    PROVE  IInv'
<1>1. doing[c] \in Futures
  BY DEF Obtain, Futures
<1>2. /\ \A f \in Futures : f \notin Permits
      /\ Permits \subseteq Doings /\ "idle" \in Doings /\ "idle" \notin Permits
      /\ "idle" \notin Futures /\ \A p \in Permits : p \notin Futures
  BY DEF Doings, Futures, Permits
<1>3. CASE doing[c] = "send"
  <2>1. PushAndWake(c) /\ Become(c, "idle") /\ UNCHANGED reserved
    BY <1>3 DEF Obtain
  <2>2. /\ QInv' /\ (ReceiverWoken => ReceiverWoken') /\ Shut' = Shut
        /\ Len(queue') = Len(queue) + 1 /\ UNCHANGED <<split, handles, receiver>>
    BY <2>1, PushKeeps
  <2>3. Reservations' = Reservations
    BY <1>1, <1>2, <2>1, ReservationsChange DEF IInv, Books
  <2>4. SlotsAccounted'
    <3>1. /\ Slots' + Len(queue') + reserved' = Capacity + surplus'
          /\ reserved' = Reservations' + forgotten'
      BY <2>1, <2>2, <2>3, Account
    <3> QED
      BY <3>1 DEF SlotsAccounted, Slots
  <2>5. Books'
    <3>1. reserved' \in Nat /\ forgotten' \in 0..MaxUpset /\ surplus' \in 0..MaxUpset
      BY <2>1 DEF IInv, Books
    <3> QED
      BY <1>2, <2>1, <2>2, <2>4, <3>1, BooksKept
  <2>6. Closes'
    BY <2>2, ClosesKept
  <2> QED
    BY <2>2, <2>5, <2>6 DEF IInv, ReceiverNotified
<1>4. CASE doing[c] # "send"
  <2> DEFINE p == IF doing[c] = "reserve" THEN "permit" ELSE "owned"
  <2>1. reserved' = reserved + 1 /\ Become(c, p) /\ UNCHANGED channel
    BY <1>4 DEF Obtain
  <2>2. p \in Permits
    BY DEF Permits
  <2> HIDE DEF p
  <2>3. /\ QInv' /\ (ReceiverWoken => ReceiverWoken') /\ Shut' = Shut
        /\ Len(queue') = Len(queue) /\ UNCHANGED <<split, handles, receiver>>
    BY <2>1, ChannelStutters
  <2>4. Reservations' = Reservations + 1
    BY <1>1, <1>2, <2>1, <2>2, ReservationsChange DEF IInv, Books
  <2>5. SlotsAccounted'
    BY <2>1, <2>3, <2>4, SlotReserved DEF SlotsAccounted, Slots
  <2>6. Books'
    <3>1. reserved' \in Nat /\ forgotten' \in 0..MaxUpset /\ surplus' \in 0..MaxUpset
      BY <2>1 DEF IInv, Books
    <3>2. split => c \in handles'
      BY <1>1, <1>2, <2>3 DEF IInv, Books
    <3> QED
      BY <1>2, <2>1, <2>2, <2>3, <2>5, <3>1, <3>2, BooksKept
  <2>7. Closes'
    BY <2>3, ClosesKept
  <2> QED
    BY <2>3, <2>6, <2>7 DEF IInv, ReceiverNotified
<1> QED
  BY <1>3, <1>4

LEMMA PollPreserves ==
    ASSUME IInv, NEW c \in Tasks, Poll(c)
    PROVE  IInv'
<1>1. CASE PollGranted(c)
  <2>1. /\ SlotInv' /\ Slots' = Slots - 1
        /\ state'[c] = "absent" /\ SameFutures(Tasks \ {c})
    BY <1>1, GrantedPreserves DEF PollGranted, IInv
  <2> QED
    BY <1>1, <2>1, ObtainPreserves DEF PollGranted, upset
<1>2. CASE PollFree(c)
  <2>1. /\ SlotInv' /\ Slots' = Slots - 1
        /\ state'[c] = "absent" /\ SameFutures(Tasks \ {c})
    BY <1>2, FreePreserves DEF PollFree, IInv
  <2> QED
    BY <1>2, <2>1, ObtainPreserves DEF PollFree, upset
<1>3. CASE PollFull(c) \/ PollWaiting(c)
  <2>1. /\ UNCHANGED channel
        /\ UNCHANGED <<closed, reserved, doing, forgotten, surplus>>
    BY <1>3 DEF PollFull, PollWaiting, upset
  <2>2. SlotInv' /\ Slots' = Slots /\ SameFutures(Tasks)
    <3>1. CASE PollFull(c)
      BY <3>1, JoinPreserves DEF PollFull, IInv
    <3>2. CASE PollWaiting(c)
      <4>1. SlotInv' /\ Slots' = Slots
        BY <3>2, WaitingPreserves DEF PollWaiting, IInv
      <4>2. UNCHANGED state
        BY <3>2 DEF PollWaiting
      <4> QED
        BY <4>1, <4>2 DEF SameFutures
    <3> QED
      BY <1>3, <3>1, <3>2
  <2>3. /\ QInv' /\ (ReceiverWoken => ReceiverWoken') /\ Shut' = Shut
        /\ Len(queue') = Len(queue) /\ UNCHANGED <<split, handles, receiver>>
    BY <2>1, ChannelStutters
  <2>4. Books'
    BY <2>1, <2>2, <2>3, BooksSame
  <2>5. Closes'
    BY <2>1, <2>3, ClosesKept
  <2> QED
    BY <2>1, <2>2, <2>3, <2>4, <2>5 DEF IInv, ReceiverNotified
<1>4. CASE PollClosed(c)
  <2>1. /\ DropAcquire(c) /\ Become(c, "idle") /\ doing[c] \in Futures
        /\ UNCHANGED channel /\ UNCHANGED <<reserved, forgotten, surplus>>
    BY <1>4 DEF PollClosed, upset
  <2>2. /\ SlotInv' /\ Slots' = Slots /\ UNCHANGED closed
        /\ state'[c] = "absent" /\ SameFutures(Tasks \ {c})
    <3>1. Slots <= UsizeMax
      BY Account
    <3> QED
      BY <2>1, <3>1, DropAcquirePreserves DEF IInv
  <2>3. /\ QInv' /\ (ReceiverWoken => ReceiverWoken') /\ Shut' = Shut
        /\ Len(queue') = Len(queue) /\ UNCHANGED <<split, handles, receiver>>
    BY <2>1, ChannelStutters
  <2>4. /\ "idle" \in Doings /\ "idle" \notin Futures
        /\ "idle" \notin Permits /\ doing[c] \notin Permits
    BY <2>1 DEF Doings, Futures, Permits
  <2>5. Reservations' = Reservations
    BY <2>1, <2>4, ReservationsChange DEF IInv, Books
  <2>6. SlotsAccounted'
    BY <2>1, <2>2, <2>3, <2>5, Account DEF SlotsAccounted, Slots
  <2>7. Books'
    <3>1. reserved' \in Nat /\ forgotten' \in 0..MaxUpset /\ surplus' \in 0..MaxUpset
      BY <2>1 DEF IInv, Books
    <3> QED
      BY <2>1, <2>2, <2>3, <2>4, <2>6, <3>1, BooksKept
  <2>8. Closes'
    BY <2>2, <2>3, ClosesKept
  <2> QED
    BY <2>1, <2>2, <2>3, <2>7, <2>8 DEF IInv, ReceiverNotified
<1> QED
  BY <1>1, <1>2, <1>3, <1>4 DEF Poll

-----------------------------------------------------------------------------
(* The handles: they go with a future, with a permit, or by themselves.    *)

LEMMA HandleGone ==
    ASSUME IInv, NEW c \in Tasks, DropHandle(c), UNCHANGED closed
    PROVE  /\ QInv' /\ (ReceiverWoken => ReceiverWoken') /\ Closes'
           /\ Len(queue') = Len(queue)
           /\ UNCHANGED <<queue, answer, split, receiver>> /\ handles' = handles \ {c}
<1>1. /\ QInv' /\ (ReceiverWoken => ReceiverWoken')
      /\ Shut' <=> Shut \/ handles' = {}
  BY DropHandlePreserves DEF IInv
<1>2. /\ UNCHANGED <<queue, answer, split, receiver>>
      /\ handles' = handles \ {c} /\ c \in handles
  BY DEF DropHandle
<1>3. split
  BY <1>2, Counted DEF IInv
<1>4. Closes'
  BY <1>1, <1>2, <1>3 DEF IInv, Closes
<1> QED
  BY <1>1, <1>2, <1>4

LEMMA CancelPreserves ==
    ASSUME IInv, NEW c \in Tasks, Cancel(c)
    PROVE  IInv'
<1>1. /\ DropAcquire(c) /\ Become(c, "idle") /\ doing[c] \in Futures
      /\ UNCHANGED <<reserved, forgotten, surplus>>
      /\ DropHandle(c) \/ UNCHANGED channel
  BY DEF Cancel, upset
<1>2. /\ SlotInv' /\ Slots' = Slots /\ UNCHANGED closed
      /\ state'[c] = "absent" /\ SameFutures(Tasks \ {c})
  <2>1. Slots <= UsizeMax
    BY Account
  <2> QED
    BY <1>1, <2>1, DropAcquirePreserves DEF IInv
<1>3. /\ QInv' /\ (ReceiverWoken => ReceiverWoken') /\ Closes'
      /\ Len(queue') = Len(queue) /\ UNCHANGED split /\ handles \ {c} \subseteq handles'
  BY <1>1, <1>2, HandleGone, ChannelStutters, ClosesKept
<1>4. /\ "idle" \in Doings /\ "idle" \notin Futures
      /\ "idle" \notin Permits /\ doing[c] \notin Permits
  BY <1>1 DEF Doings, Futures, Permits
<1>5. Reservations' = Reservations
  BY <1>1, <1>4, ReservationsChange DEF IInv, Books
<1>6. SlotsAccounted'
  BY <1>1, <1>2, <1>3, <1>5, Account DEF SlotsAccounted, Slots
<1>7. Books'
  <2>1. reserved' \in Nat /\ forgotten' \in 0..MaxUpset /\ surplus' \in 0..MaxUpset
    BY <1>1 DEF IInv, Books
  <2> QED
    BY <1>1, <1>2, <1>3, <1>4, <1>6, <2>1, BooksKept
<1> QED
  BY <1>1, <1>2, <1>3, <1>7 DEF IInv, ReceiverNotified

LEMMA DropSenderPreserves ==
    ASSUME IInv, NEW c \in Tasks, DropSender(c)
    PROVE  IInv'
<1>1. /\ DropHandle(c) /\ doing[c] = "idle" /\ UNCHANGED semaphore
      /\ UNCHANGED <<reserved, doing, forgotten, surplus>>
  BY DEF DropSender, Idle, upset
<1>2. SlotInv' /\ Slots' = Slots /\ UNCHANGED <<state, closed>>
  BY <1>1, SemaphoreStutters DEF IInv
<1>3. /\ QInv' /\ (ReceiverWoken => ReceiverWoken') /\ Closes'
      /\ Len(queue') = Len(queue) /\ UNCHANGED split /\ handles' = handles \ {c}
  BY <1>1, <1>2, HandleGone
<1>4. Books'
  BY <1>1, <1>2, <1>3, BooksSame DEF SameFutures
<1> QED
  BY <1>1, <1>2, <1>3, <1>4 DEF IInv, ReceiverNotified

LEMMA CloneSenderPreserves ==
    ASSUME IInv, NEW c \in Tasks, NEW d \in Tasks, CloneSender(c, d)
    PROVE  IInv'
<1>1. /\ Clone(c, d) /\ UNCHANGED semaphore
      /\ UNCHANGED <<reserved, doing, forgotten, surplus>>
  BY DEF CloneSender, upset
<1>2. SlotInv' /\ Slots' = Slots /\ UNCHANGED <<state, closed>>
  BY <1>1, SemaphoreStutters DEF IInv
<1>3. /\ c \in handles /\ handles' = handles \cup {d}
      /\ Len(queue') = Len(queue) /\ UNCHANGED <<split, receiver>>
  BY <1>1 DEF Clone
<1>4. QInv' /\ (ReceiverWoken => ReceiverWoken') /\ Shut' = Shut
  BY <1>1, ClonePreserves DEF IInv
<1>5. Closes'
  BY <1>2, <1>3, <1>4 DEF IInv, Closes
<1>6. Books'
  BY <1>1, <1>2, <1>3, <1>4, BooksSame DEF SameFutures
<1> QED
  BY <1>1, <1>2, <1>4, <1>5, <1>6 DEF IInv, ReceiverNotified

\* The channel is split while nobody is in the middle of anything: all slots that
\* are not free are in the queue, reserved for a forgotten permit, or in surplus,
\* and the reset adds just those.
LEMMA SplitChannelPreserves ==
    ASSUME IInv, NEW c \in Tasks, NEW own \in BOOLEAN, SplitChannel(c, own)
    PROVE  IInv'
<1>1. /\ \A d \in Tasks : doing[d] = "idle"
      /\ Len(queue) + reserved <= MaxUpset /\ permits <= Capacity
      /\ SplitQueue(c, own) /\ AddPermits(Capacity - permits)
      /\ surplus' = Len(queue) + reserved
      /\ UNCHANGED <<reserved, doing, forgotten>>
  BY DEF SplitChannel, Idle
<1>2. QInv' /\ ReceiverWoken' /\ Shut' = Shut
  BY <1>1, SplitPreserves DEF IInv
<1>3. Len(queue') = Len(queue) /\ ~split /\ UNCHANGED receiver
  BY <1>1 DEF SplitQueue
<1>4. \A d \in Tasks : state[d] = "absent"
  <2>1. "idle" \notin Futures
    BY DEF Futures
  <2> QED
    BY <1>1, <2>1 DEF IInv, Books
<1>5. \A d \in Tasks : assigned[d] = 0
  BY <1>4 DEF IInv, SlotInv, SlotTypes
<1>6. waiters = <<>>
  <2>1. /\ waiters \in Seq(Tasks)
        /\ \A d \in Tasks :
             state[d] = "waiting" <=> \E i \in 1..Len(waiters) : waiters[i] = d
    BY DEF IInv, SlotInv, SlotTypes
  <2> QED
    BY <1>4, <2>1
<1>7. /\ Slots = permits /\ permits \in Nat /\ Capacity \in Nat /\ UsizeMax \in Nat
      /\ Capacity <= UsizeMax
  <2>1. Total(Tasks, assigned) = 0
    BY <1>5, TotalZero
  <2>2. /\ permits \in Nat /\ Capacity \in Nat /\ MaxUpset \in Nat /\ UsizeMax \in Nat
        /\ Capacity + MaxUpset <= UsizeMax
    BY Account
  <2> QED
    BY <2>1, <2>2 DEF Slots
<1>8. Capacity - permits \in Nat /\ Slots + (Capacity - permits) = Capacity
  BY <1>1, <1>7
<1>9. SlotInv' /\ Slots' = Capacity /\ SameFutures(Tasks) /\ UNCHANGED closed
  BY <1>1, <1>6, <1>7, <1>8, AddPreserves DEF IInv
<1>10. Reservations' = Reservations
  BY <1>1 DEF Reservations
<1>11. SlotsAccounted'
  <2>1. \A k, l, r \in Int : k + l + r = k + (l + r)
    OBVIOUS
  <2>2. Capacity + Len(queue) + reserved = Capacity + (Len(queue) + reserved)
        /\ reserved = Reservations + forgotten
    <3>1. /\ Capacity \in Nat /\ Len(queue) \in Nat /\ reserved \in Nat
          /\ reserved = Reservations + forgotten
      BY Account
    <3> QED
      BY <2>1, <3>1
  <2> QED
    BY <1>1, <1>3, <1>9, <1>10, <2>2 DEF SlotsAccounted, Slots
<1>12. Books'
  <2>1. surplus' \in 0..MaxUpset
    <3>1. surplus' = Len(queue) + reserved /\ Len(queue) + reserved <= MaxUpset
      BY <1>1
    <3>2. Len(queue) \in Nat /\ reserved \in Nat /\ MaxUpset \in Nat
      BY Account
    <3> QED
      BY <3>1, <3>2
  <2>2. \A d \in Tasks : state'[d] = "absent" <=> doing'[d] \notin Futures
    BY <1>1, <1>9 DEF IInv, Books, SameFutures
  <2> QED
    BY <1>1, <1>11, <2>1, <2>2 DEF IInv, Books
<1>13. Closes'
  BY <1>2, <1>3, <1>9 DEF IInv, Closes
<1> QED
  BY <1>2, <1>9, <1>12, <1>13 DEF IInv, ReceiverNotified

-----------------------------------------------------------------------------
(* Permits: they are used, dropped, forgotten, or lost to a panic.         *)

LEMMA SendReservedPreserves ==
    ASSUME IInv, NEW c \in Tasks, SendReserved(c)
    PROVE  IInv'
<1>1. /\ doing[c] \in Permits /\ PushAndWake(c) /\ reserved' = reserved - 1
      /\ Become(c, "idle") /\ UNCHANGED semaphore /\ UNCHANGED <<forgotten, surplus>>
  BY DEF SendReserved, upset
<1>2. /\ QInv' /\ (ReceiverWoken => ReceiverWoken') /\ Shut' = Shut
      /\ Len(queue') = Len(queue) + 1 /\ UNCHANGED <<split, handles, receiver>>
  BY <1>1, PushKeeps
<1>3. SlotInv' /\ Slots' = Slots /\ UNCHANGED <<state, closed>>
  BY <1>1, SemaphoreStutters DEF IInv
<1>4. /\ "idle" \in Doings /\ "idle" \notin Futures /\ "idle" \notin Permits
      /\ doing[c] \notin Futures
  BY <1>1 DEF Doings, Futures, Permits
<1>5. Reservations' = Reservations - 1
  BY <1>1, <1>4, ReservationsChange DEF IInv, Books
<1>6. SlotsAccounted'
  BY <1>1, <1>2, <1>3, <1>5, SlotReleased DEF SlotsAccounted, Slots
<1>7. Books'
  <2>1. reserved' \in Nat
    BY <1>1, SlotReleased
  <2>2. forgotten' \in 0..MaxUpset /\ surplus' \in 0..MaxUpset
    BY <1>1 DEF IInv, Books
  <2>3. state'[c] = "absent" /\ SameFutures(Tasks \ {c})
    BY <1>3, <1>4 DEF IInv, Books, SameFutures
  <2> QED
    BY <1>1, <1>2, <1>4, <1>6, <2>1, <2>2, <2>3, BooksKept
<1>8. Closes'
  BY <1>2, <1>3, ClosesKept
<1> QED
  BY <1>1, <1>2, <1>3, <1>7, <1>8 DEF IInv, ReceiverNotified

LEMMA PermitDropped ==
    ASSUME IInv, NEW c \in Tasks, DropPermit(c) \/ DropOwned(c)
    PROVE  IInv'
<1>1. /\ doing[c] \in Permits /\ reserved' = reserved - 1 /\ AddPermits(1)
      /\ Become(c, "idle") /\ UNCHANGED <<forgotten, surplus>>
      /\ DropHandle(c) \/ UNCHANGED channel
  BY DEF DropPermit, DropOwned, Permits, upset
<1>2. SlotInv' /\ Slots' = Slots + 1 /\ SameFutures(Tasks) /\ UNCHANGED closed
  BY <1>1, SlotReleased, 1 \in Nat, AddPreserves DEF IInv
<1>3. /\ QInv' /\ (ReceiverWoken => ReceiverWoken') /\ Closes'
      /\ Len(queue') = Len(queue) /\ UNCHANGED split /\ handles \ {c} \subseteq handles'
  BY <1>1, <1>2, HandleGone, ChannelStutters, ClosesKept
<1>4. /\ "idle" \in Doings /\ "idle" \notin Futures /\ "idle" \notin Permits
      /\ doing[c] \notin Futures
  BY <1>1 DEF Doings, Futures, Permits
<1>5. Reservations' = Reservations - 1
  BY <1>1, <1>4, ReservationsChange DEF IInv, Books
<1>6. SlotsAccounted'
  BY <1>1, <1>2, <1>3, <1>5, SlotReleased DEF SlotsAccounted, Slots
<1>7. Books'
  <2>1. reserved' \in Nat
    BY <1>1, SlotReleased
  <2>2. forgotten' \in 0..MaxUpset /\ surplus' \in 0..MaxUpset
    BY <1>1 DEF IInv, Books
  <2>3. state'[c] = "absent" /\ SameFutures(Tasks \ {c})
    BY <1>2, <1>4 DEF IInv, Books, SameFutures
  <2> QED
    BY <1>1, <1>3, <1>4, <1>6, <2>1, <2>2, <2>3, BooksKept
<1> QED
  BY <1>1, <1>2, <1>3, <1>7 DEF IInv, ReceiverNotified

\* `reserved` keeps counting the permit.
LEMMA PermitForgotten ==
    ASSUME IInv, NEW c \in Tasks, ForgetPermit(c)
    PROVE  IInv'
<1>1. /\ doing[c] \in Permits /\ forgotten < MaxUpset /\ forgotten' = forgotten + 1
      /\ Become(c, "idle") /\ UNCHANGED channel /\ UNCHANGED semaphore
      /\ UNCHANGED <<reserved, surplus>>
  BY DEF ForgetPermit, Permits
<1>2. /\ QInv' /\ Shut' = Shut
      /\ Len(queue') = Len(queue) /\ UNCHANGED <<split, handles, receiver>>
  BY <1>1, ChannelStutters
<1>3. SlotInv' /\ Slots' = Slots /\ UNCHANGED <<state, closed>>
  BY <1>1, SemaphoreStutters DEF IInv
<1>4. /\ "idle" \in Doings /\ "idle" \notin Futures /\ "idle" \notin Permits
      /\ doing[c] \notin Futures
  BY <1>1 DEF Doings, Futures, Permits
<1>5. Reservations' = Reservations - 1
  BY <1>1, <1>4, ReservationsChange DEF IInv, Books
<1>6. SlotsAccounted'
  BY <1>1, <1>2, <1>3, <1>5, SlotReleased, Account DEF SlotsAccounted, Slots
<1>7. forgotten' \in 0..MaxUpset /\ forgotten' # 0
  <2>1. forgotten < MaxUpset /\ forgotten' = forgotten + 1
    BY <1>1
  <2>2. forgotten \in Nat /\ MaxUpset \in Nat
    BY Account
  <2> QED
    BY <2>1, <2>2
<1>8. Books'
  <2>1. reserved' \in Nat /\ surplus' \in 0..MaxUpset
    BY <1>1 DEF IInv, Books
  <2>2. state'[c] = "absent" /\ SameFutures(Tasks \ {c})
    BY <1>3, <1>4 DEF IInv, Books, SameFutures
  <2> QED
    BY <1>1, <1>2, <1>4, <1>6, <1>7, <2>1, <2>2, BooksKept
<1>9. Closes'
  BY <1>2, <1>3, ClosesKept
<1> QED
  BY <1>2, <1>3, <1>7, <1>8, <1>9 DEF IInv, ReceiverNotified

\* The slot is free again, and the element is in the queue.
LEMMA SendPanicsPreserves ==
    ASSUME IInv, NEW c \in Tasks, SendPanics(c)
    PROVE  IInv'
<1>1. /\ doing[c] \in Permits /\ PushAndWake(c) /\ reserved' = reserved - 1
      /\ AddPermits(1) /\ Become(c, "idle") /\ surplus < MaxUpset
      /\ surplus' = surplus + 1 /\ UNCHANGED forgotten
  BY DEF SendPanics, Permits
<1>2. /\ QInv' /\ (ReceiverWoken => ReceiverWoken') /\ Shut' = Shut
      /\ Len(queue') = Len(queue) + 1 /\ UNCHANGED <<split, handles, receiver>>
  BY <1>1, PushKeeps
<1>3. SlotInv' /\ Slots' = Slots + 1 /\ SameFutures(Tasks) /\ UNCHANGED closed
  BY <1>1, SlotReleased, 1 \in Nat, AddPreserves DEF IInv
<1>4. /\ "idle" \in Doings /\ "idle" \notin Futures /\ "idle" \notin Permits
      /\ doing[c] \notin Futures
  BY <1>1 DEF Doings, Futures, Permits
<1>5. Reservations' = Reservations - 1
  BY <1>1, <1>4, ReservationsChange DEF IInv, Books
<1>6. SlotsAccounted'
  BY <1>1, <1>2, <1>3, <1>5, SlotReleased DEF SlotsAccounted, Slots
<1>7. Books'
  <2>1. reserved' \in Nat
    BY <1>1, SlotReleased
  <2>2. forgotten' \in 0..MaxUpset /\ surplus' \in 0..MaxUpset
    BY <1>1, Account DEF IInv, Books
  <2>3. state'[c] = "absent" /\ SameFutures(Tasks \ {c})
    BY <1>3, <1>4 DEF IInv, Books, SameFutures
  <2> QED
    BY <1>1, <1>2, <1>4, <1>6, <2>1, <2>2, <2>3, BooksKept
<1>8. Closes'
  BY <1>2, <1>3, ClosesKept
<1> QED
  BY <1>1, <1>2, <1>3, <1>7, <1>8 DEF IInv, ReceiverNotified

\* The handle goes, and nothing else is given back.
LEMMA SendOwnedPanicsPreserves ==
    ASSUME IInv, NEW c \in Tasks, SendOwnedPanics(c)
    PROVE  IInv'
<1>1. /\ doing[c] \in Permits /\ c \in handles
      /\ queue' = Append(queue, c) /\ handles' = handles \ {c}
      /\ mask' = Decreased(mask) /\ waker' = ~IsLast(mask) /\ woken' = WakeReceiver
      /\ waker /\ forgotten' = forgotten + 1 /\ surplus' = surplus + 1
      /\ surplus < MaxUpset /\ forgotten < MaxUpset
      /\ Become(c, "idle") /\ UNCHANGED semaphore
      /\ UNCHANGED <<split, owned, receiver, answer, reserved>>
  BY DEF SendOwnedPanics, Permits
<1>2. SlotInv' /\ Slots' = Slots /\ UNCHANGED <<state, closed>>
  BY <1>1, SemaphoreStutters DEF IInv
<1>3. /\ Coded' /\ mask' \in 0..UsizeMax /\ handles' \in SUBSET Tasks
      /\ Shut' <=> Shut \/ handles' = {}
  BY <1>1, HandleLess DEF IInv
<1>4. queue \in Seq(Tasks) /\ queue' \in Seq(Tasks) /\ Len(queue') = Len(queue) + 1
  BY <1>1 DEF IInv, QInv, QueueTypeOK
<1>5. QInv'
  <2>1. QueueTypeOK'
    BY <1>1, <1>3, <1>4 DEF IInv, QInv, QueueTypeOK, WakeReceiver
  <2>2. Registered'
    BY <1>1 DEF Registered, WakeReceiver
  <2> QED
    BY <1>3, <2>1, <2>2 DEF QInv
<1>6. /\ "idle" \in Doings /\ "idle" \notin Futures /\ "idle" \notin Permits
      /\ doing[c] \notin Futures
  BY <1>1 DEF Doings, Futures, Permits
<1>7. Reservations' = Reservations - 1
  BY <1>1, <1>6, ReservationsChange DEF IInv, Books
<1>8. SlotsAccounted'
  BY <1>1, <1>2, <1>4, <1>7, SlotReleased DEF SlotsAccounted, Slots
<1>9. forgotten' \in 0..MaxUpset /\ forgotten' # 0 /\ surplus' \in 0..MaxUpset
  <2>1. \A n, m \in Nat : n < m => n + 1 \in 0..m /\ n + 1 # 0
    OBVIOUS
  <2>2. forgotten \in Nat /\ surplus \in Nat /\ MaxUpset \in Nat
    BY Account
  <2> QED
    BY <1>1, <2>1, <2>2
<1>10. Books'
  <2>1. reserved' \in Nat
    BY <1>1 DEF IInv, Books
  <2>2. state'[c] = "absent" /\ SameFutures(Tasks \ {c})
    BY <1>2, <1>6 DEF IInv, Books, SameFutures
  <2> QED
    BY <1>1, <1>6, <1>8, <1>9, <2>1, <2>2, BooksKept
<1>11. Closes'
  <2>1. split
    BY <1>1, Counted DEF IInv
  <2> QED
    BY <1>1, <1>2, <1>3, <2>1 DEF IInv, Closes
<1> QED
  BY <1>2, <1>5, <1>9, <1>10, <1>11 DEF IInv, ReceiverNotified

-----------------------------------------------------------------------------
(* The receiver.                                                           *)

LEMMA ReceivePreserves ==
    ASSUME IInv, Receive
    PROVE  IInv'
<1>1. /\ Pop /\ AddPermits(1) /\ UNCHANGED <<reserved, doing, forgotten, surplus>>
  BY DEF Receive, FreeSlot, upset
<1>2. QInv' /\ ReceiverWoken' /\ Shut' = Shut
  BY <1>1, PopPreserves DEF IInv
<1>3. /\ Len(queue) > 0 /\ Len(queue') = Len(queue) - 1
      /\ UNCHANGED <<split, handles>> /\ receiver # "dropped" /\ receiver' = "idle"
  BY <1>1 DEF IInv, QInv, QueueTypeOK, Pop, Resume
<1>4. Slots + 1 <= UsizeMax /\ (Slots + 1) + (Len(queue) - 1) = Slots + Len(queue)
  <2>1. \A s, l, r, k, u, m, x \in Nat :
          s + l + r = k + u /\ l > 0 /\ u <= m /\ k + m <= x
            => s + 1 <= x /\ (s + 1) + (l - 1) = s + l
    OBVIOUS
  <2>2. /\ Slots \in Nat /\ Len(queue) \in Nat /\ reserved \in Nat
        /\ Capacity \in Nat /\ surplus \in Nat /\ MaxUpset \in Nat /\ UsizeMax \in Nat
        /\ Slots + Len(queue) + reserved = Capacity + surplus
        /\ surplus <= MaxUpset /\ Capacity + MaxUpset <= UsizeMax
    BY Account
  <2> QED
    BY <1>3, <2>1, <2>2
<1>5. SlotInv' /\ Slots' = Slots + 1 /\ SameFutures(Tasks) /\ UNCHANGED closed
  BY <1>1, <1>4, 1 \in Nat, AddPreserves DEF IInv
<1>6. Slots' + Len(queue') = Slots + Len(queue)
  BY <1>3, <1>4, <1>5
<1>7. Books'
  BY <1>1, <1>2, <1>3, <1>5, <1>6, BooksSame
<1>8. Closes'
  BY <1>2, <1>3, <1>5 DEF IInv, Closes
<1> QED
  BY <1>2, <1>5, <1>7, <1>8 DEF IInv, ReceiverNotified

\* While slots are reserved, and nobody has forgotten a permit, a task has a handle.
LEMMA EmptyHasSenders ==
    ASSUME IInv, ~IsEnd, forgotten = 0
    PROVE  ~(split /\ handles = {})
<1> SUFFICES ASSUME split, handles = {} PROVE FALSE
  OBVIOUS
<1>1. \A c \in Tasks : doing[c] \notin Permits
  <2>1. \A c \in Tasks : doing[c] = "idle"
    BY DEF IInv, Books
  <2> QED
    BY <2>1 DEF Permits
<1>2. reserved = 0
  <2>1. Holders = {}
    BY <1>1 DEF Holders
  <2> QED
    BY <2>1, HoldersType, Account
<1>3. ~Shut
  BY <1>2 DEF IsEnd
<1> QED
  BY <1>3, OpenHasSenders DEF IInv

LEMMA ReceiverPreserves ==
    ASSUME IInv, End \/ Pend \/ StopReceiving
    PROVE  IInv'
<1>1. /\ UNCHANGED semaphore /\ UNCHANGED <<reserved, doing, forgotten, surplus>>
      /\ Disconnect \/ (~IsEnd /\ Suspend) \/ CancelRecv
  BY DEF End, Pend, StopReceiving, TryRecvError, upset
<1>2. SlotInv' /\ Slots' = Slots /\ UNCHANGED <<state, closed>>
  BY <1>1, SemaphoreStutters DEF IInv
<1>3. /\ QInv' /\ Shut' = Shut
      /\ forgotten = 0 => ReceiverWoken'
  BY <1>1, DisconnectPreserves, SuspendPreserves, CancelRecvPreserves, EmptyHasSenders
  DEF IInv
<1>4. /\ Len(queue') = Len(queue) /\ UNCHANGED <<split, handles>>
      /\ receiver' = "dropped" => receiver = "dropped"
  BY <1>1 DEF Disconnect, Suspend, CancelRecv, Resume
<1>5. Books'
  BY <1>1, <1>2, <1>3, <1>4, BooksSame DEF SameFutures
<1>6. Closes'
  BY <1>2, <1>3, <1>4 DEF IInv, Closes
<1> QED
  BY <1>1, <1>2, <1>3, <1>5, <1>6 DEF IInv, ReceiverNotified

LEMMA CloseBothPreserves ==
    ASSUME IInv, Close \/ DropReceiver
    PROVE  IInv'
<1>1. /\ CloseSemaphore
      /\ CloseMask \/ DropReceiverHandle
      /\ UNCHANGED <<reserved, doing, forgotten, surplus>>
  BY DEF Close, DropReceiver, upset
<1>2. SlotInv' /\ Slots' = Slots /\ SameFutures(Tasks) /\ closed'
  BY <1>1, CloseSemaphorePreserves DEF IInv
<1>3. QInv' /\ (ReceiverWoken => ReceiverWoken') /\ Shut'
  BY <1>1, ClosePreserves DEF IInv
<1>4. Len(queue') = Len(queue) /\ UNCHANGED <<split, handles>>
  BY <1>1 DEF CloseMask, DropReceiverHandle
<1>5. Books'
  BY <1>1, <1>2, <1>3, <1>4, BooksSame
<1>6. Closes'
  BY <1>2, <1>3 DEF Closes
<1> QED
  BY <1>1, <1>2, <1>3, <1>5, <1>6 DEF IInv, ReceiverNotified

LEMMA ReunitePreserves ==
    ASSUME IInv, Reunite
    PROVE  IInv'
<1>1. /\ Rejoin /\ UNCHANGED semaphore
      /\ UNCHANGED <<reserved, doing, forgotten, surplus>>
  BY DEF Reunite, upset
<1>2. SlotInv' /\ Slots' = Slots /\ UNCHANGED <<state, closed>>
  BY <1>1, SemaphoreStutters DEF IInv
<1>3. QInv' /\ ReceiverWoken' /\ Shut /\ Shut'
  BY <1>1, RejoinPreserves DEF IInv
<1>4. /\ Len(queue') = Len(queue) /\ ~split'
      /\ receiver = "dropped" /\ receiver' = "idle"
  BY <1>1 DEF Rejoin
<1>5. Books'
  BY <1>1, <1>2, <1>3, <1>4, BooksSame DEF SameFutures
<1>6. Closes'
  BY <1>2, <1>3, <1>4 DEF IInv, Closes
<1> QED
  BY <1>2, <1>3, <1>5, <1>6 DEF IInv, ReceiverNotified

-----------------------------------------------------------------------------
LEMMA InitInvariant == Init => IInv
<1> SUFFICES ASSUME Init PROVE IInv
  OBVIOUS
<1> USE DEF Init
<1>1. Capacity \in Nat /\ Capacity <= UsizeMax /\ MaxUpset \in Nat /\ UsizeMax \in Nat
  <2>1. \A k, m, x \in Nat : k + m <= x => k <= x
    OBVIOUS
  <2>2. Capacity \in Nat /\ MaxUpset \in Nat /\ UsizeMax \in Nat
        /\ Capacity + MaxUpset <= UsizeMax
    BY BoundedAssumption, MaskAssumption
  <2> QED
    BY <2>1, <2>2
<1>2. QInv /\ ReceiverWoken /\ ~Shut
  BY <1>1, QueueInitInvariant
<1>3. Len(queue) \in Nat /\ Len(queue) <= Capacity /\ handles = {} /\ ~split
      /\ receiver = "idle"
  BY <1>1 DEF QueueInit, SeqOf
<1>4. permits \in 0..UsizeMax /\ permits + 0 + Len(queue) + 0 = Capacity + 0
  <2>1. \A k, l, x \in Nat : l <= k /\ k <= x
          => k - l \in 0..x /\ (k - l) + 0 + l + 0 = k + 0
    OBVIOUS
  <2> QED
    BY <1>1, <1>3, <2>1
<1>5. SlotTypes
  <2>1. waiters \in Seq(Tasks) /\ assigned \in [Tasks -> 0..1]
        /\ notified \in [Tasks -> BOOLEAN]
    OBVIOUS
  <2>2. state \in [Tasks -> {"absent", "inert", "waiting", "woken"}]
    OBVIOUS
  <2> QED
    BY <1>4, <2>1, <2>2 DEF SlotTypes
<1>6. SlotInv
  BY <1>5 DEF SlotInv, Line, SendersWoken
<1>7. Books
  <2>1. "idle" \notin Permits /\ "idle" \notin Futures /\ "idle" \in Doings
    BY DEF Doings, Futures, Permits
  <2>2. Total(Tasks, assigned) = 0
    BY TotalZero
  <2>3. Reservations = 0
    <3>1. Holders = {}
      BY <2>1 DEF Holders
    <3> QED
      BY <3>1, HoldersType
  <2>4. SlotsAccounted
    BY <1>4, <2>2, <2>3 DEF SlotsAccounted
  <2> QED
    BY <1>1, <1>3, <2>1, <2>4 DEF Books
<1>8. Closes
  BY <1>2, <1>3 DEF Closes
<1> QED
  BY <1>2, <1>6, <1>7, <1>8 DEF IInv, ReceiverNotified

LEMMA StepPreserves ==
    ASSUME IInv, [Next]_vars
    PROVE  IInv'
<1>1. CASE UNCHANGED vars
  <2>1. UNCHANGED channel /\ UNCHANGED semaphore
        /\ UNCHANGED <<reserved, doing, forgotten, surplus>>
    BY <1>1 DEF vars, upset
  <2>2. SlotInv' /\ Slots' = Slots /\ UNCHANGED <<state, closed>>
    BY <2>1, SemaphoreStutters DEF IInv
  <2>3. /\ QInv' /\ (ReceiverWoken => ReceiverWoken') /\ Shut' = Shut
        /\ Len(queue') = Len(queue) /\ UNCHANGED <<split, handles, receiver>>
    BY <2>1, ChannelStutters
  <2>4. Books'
    BY <2>1, <2>2, <2>3, BooksSame DEF SameFutures
  <2>5. Closes'
    BY <2>2, <2>3, ClosesKept
  <2> QED
    BY <2>1, <2>2, <2>3, <2>4, <2>5 DEF IInv, ReceiverNotified
<1>2. CASE Next
  BY <1>2, NextCases, TrySendPreserves, TryReservePreserves, FutureCalled,
     DropSenderPreserves, CloneSenderPreserves, SplitChannelPreserves,
     PollPreserves, CancelPreserves, SendReservedPreserves, PermitDropped,
     PermitForgotten, SendPanicsPreserves, SendOwnedPanicsPreserves,
     ReceivePreserves, ReceiverPreserves, CloseBothPreserves, ReunitePreserves
<1> QED
  BY <1>1, <1>2

\* The invariant of every behaviour of the channel.
THEOREM Invariance == Spec => []IInv
  BY InitInvariant, StepPreserves, PTL DEF Spec

-----------------------------------------------------------------------------
(* States.                                                                 *)

\* The counters never leave the word they are kept in, whatever its width.
THEOREM TypeCorrect == Spec => []TypeOK
<1>1. IInv => TypeOK
  BY DEF IInv, QInv, SlotInv, SlotTypes, Books, Doings, TypeOK
<1> QED
  BY <1>1, Invariance, PTL

\* No slot is lost or doubled by any mix of sending, reserving, cancelling, receiving,
\* closing and re-splitting, except by the upsets, which are counted.
THEOREM SlotsAreAccounted == Spec => []SlotsAccounted
<1>1. IInv => SlotsAccounted
  BY DEF IInv, Books
<1> QED
  BY <1>1, Invariance, PTL

\* No sender waits beside a free slot, or has one without being woken.
THEOREM SendersAreWoken == Spec => []SendersWoken
<1>1. IInv => SendersWoken
  BY DEF IInv, SlotInv
<1> QED
  BY <1>1, Invariance, PTL

\* Elements and the end of the senders wake the receiver that waits for them.
THEOREM ReceiverIsNotified == Spec => []ReceiverNotified
<1>1. IInv => ReceiverNotified
  BY DEF IInv
<1> QED
  BY <1>1, Invariance, PTL

\* Who may send finds the semaphore closed if and only if the mask says so.
LEMMA Agreement ==
    ASSUME IInv, NEW c \in Tasks, MaySend(c)
    PROVE  closed <=> Shut
<1>1. ~(split /\ handles = {})
  BY DEF MaySend
<1> QED
  BY <1>1 DEF IInv, Closes

\* The errors of try_send agree with is_closed, for whoever may send, over closing,
\* dropping and splitting.
THEOREM ErrorsAlwaysAgree == Spec => []ErrorsAgree
<1>1. IInv => ErrorsAgree
  BY Agreement DEF ErrorsAgree, TrySendError
<1> QED
  BY <1>1, Invariance, PTL

-----------------------------------------------------------------------------
(* Steps.                                                                  *)

\* An element of task c comes in, through a permit or while the channel is open.
Sent(c) ==
    /\ queue' = Append(queue, c)
    /\ UNCHANGED answer
    /\ UsesPermit(c) \/ (~Shut /\ (waiters = <<>> \/ UsesGrant(c)))

\* Who is in the middle of something may send.
LEMMA BusyMaySend ==
    ASSUME IInv, NEW c \in Tasks, doing[c] # "idle"
    PROVE  MaySend(c)
  BY DEF IInv, Books, MaySend

LEMMA PermitUsed ==
    ASSUME IInv, NEW c \in Tasks, doing[c] \in Permits, Become(c, "idle"),
           queue' = Append(queue, c), UNCHANGED answer
    PROVE  Sent(c)
<1>1. doing'[c] = "idle"
  BY DEF IInv, Books, Become
<1> QED
  BY <1>1 DEF Sent, UsesPermit

\* What a step does to the elements and the answer.
LEMMA StepKinds ==
    ASSUME IInv, [Next]_vars
    PROVE  \/ \E c \in Tasks : Sent(c)
           \/ Pop /\ UNCHANGED reserved
           \/ IsEnd /\ Disconnect
           \/ UNCHANGED <<queue, answer>>
<1> DEFINE Goal == \/ \E c \in Tasks : Sent(c)
                   \/ Pop /\ UNCHANGED reserved
                   \/ IsEnd /\ Disconnect
                   \/ UNCHANGED <<queue, answer>>
<1>1. ASSUME NEW c \in Tasks, MaySend(c), TrySend(c) PROVE Goal
  <2>1. TakeSlot /\ queue' = Append(queue, c) /\ UNCHANGED answer
    BY <1>1 DEF TrySend, PushAndWake
  <2>2. ~closed /\ waiters = <<>>
    BY <2>1, TakeSlotPreserves DEF IInv
  <2>3. ~Shut
    BY <1>1, <2>2, Agreement
  <2> QED
    BY <2>1, <2>2, <2>3 DEF Sent
<1>2. ASSUME NEW c \in Tasks, Poll(c) PROVE Goal
  <2>1. CASE PollGranted(c) /\ doing[c] = "send"
    <3>1. /\ ~closed /\ queue' = Append(queue, c) /\ UNCHANGED answer
          /\ state[c] = "woken" /\ state' = [state EXCEPT ![c] = "absent"]
      BY <2>1 DEF PollGranted, Obtain, PushAndWake
    <3>2. UsesGrant(c)
      BY <3>1 DEF UsesGrant, IInv, SlotInv, SlotTypes
    <3>3. ~Shut
      BY <2>1, <3>1, BusyMaySend, Agreement
    <3> QED
      BY <3>1, <3>2, <3>3 DEF Sent
  <2>2. CASE PollFree(c) /\ doing[c] = "send"
    <3>1. queue' = Append(queue, c) /\ UNCHANGED answer
      BY <2>2 DEF PollFree, Obtain, PushAndWake
    <3>2. ~closed /\ waiters = <<>>
      BY <2>2, FreePreserves DEF PollFree, IInv
    <3>3. ~Shut
      BY <2>2, <3>2, BusyMaySend, Agreement
    <3> QED
      BY <3>1, <3>2, <3>3 DEF Sent
  <2>3. CASE \/ (PollGranted(c) \/ PollFree(c)) /\ doing[c] # "send"
             \/ PollFull(c) \/ PollWaiting(c) \/ PollClosed(c)
    BY <2>3 DEF PollGranted, PollFree, PollFull, PollWaiting, PollClosed, Obtain, channel
  <2> QED
    BY <1>2, <2>1, <2>2, <2>3 DEF Poll
<1>3. ASSUME NEW c \in Tasks, SendReserved(c) \/ SendPanics(c) \/ SendOwnedPanics(c)
      PROVE  Goal
  <2>1. /\ doing[c] \in Permits /\ Become(c, "idle")
        /\ queue' = Append(queue, c) /\ UNCHANGED answer
    BY <1>3 DEF SendReserved, SendPanics, SendOwnedPanics, PushAndWake, Permits
  <2> QED
    BY <2>1, PermitUsed
<1>4. ASSUME NEW c \in Tasks,
             \/ \E p \in Permits : TryReserve(c, p)
             \/ \E f \in Futures : Call(c, f)
             \/ DropSender(c)
             \/ \E d \in Tasks : CloneSender(c, d)
             \/ \E own \in BOOLEAN : SplitChannel(c, own)
             \/ Cancel(c) \/ DropPermit(c) \/ DropOwned(c) \/ ForgetPermit(c)
      PROVE  UNCHANGED <<queue, answer>>
  BY <1>4 DEF TryReserve, Call, DropSender, CloneSender, SplitChannel, Cancel, DropPermit,
     DropOwned, ForgetPermit, channel, DropHandle, Clone, SplitQueue
<1>5. CASE Receive
  BY <1>5 DEF Receive
<1>6. CASE End
  BY <1>6 DEF End, TryRecvError
<1>7. CASE Pend \/ StopReceiving \/ Close \/ DropReceiver \/ Reunite
  BY <1>7 DEF Pend, StopReceiving, Close, DropReceiver, Reunite, Suspend, CancelRecv,
     CloseMask, DropReceiverHandle, Rejoin
<1>8. CASE UNCHANGED vars
  BY <1>8 DEF vars, channel
<1> HIDE DEF Goal
<1>9. CASE Next
  BY <1>9, <1>1, <1>2, <1>3, <1>4, <1>5, <1>6, <1>7, NextCases DEF Goal
<1> QED
  BY <1>8, <1>9 DEF Goal

\* The mask never opens again.
LEMMA ShutStays ==
    ASSUME IInv, [Next]_vars, Shut
    PROVE  Shut'
<1>1. \/ UNCHANGED channel
      \/ \E c \in Tasks :
           \/ PushAndWake(c) \/ DropHandle(c) \/ SendOwnedPanics(c)
           \/ \E d \in Tasks : Clone(c, d)
           \/ \E own \in BOOLEAN : SplitQueue(c, own)
      \/ CloseMask \/ DropReceiverHandle \/ Rejoin
      \/ Pop \/ Disconnect \/ Suspend \/ CancelRecv
  <2>1. CASE UNCHANGED vars
    BY <2>1 DEF vars
  <2>2. CASE Next
    <3>1. ASSUME NEW c \in Tasks,
                 \/ TrySend(c) \/ Poll(c) \/ Cancel(c)
                 \/ \E p \in Permits : TryReserve(c, p)
                 \/ \E f \in Futures : Call(c, f)
                 \/ SendReserved(c) \/ DropPermit(c) \/ DropOwned(c)
                 \/ ForgetPermit(c) \/ SendPanics(c)
          PROVE  UNCHANGED channel \/ PushAndWake(c) \/ DropHandle(c)
      BY <3>1 DEF TrySend, Poll, PollGranted, PollFree, PollFull, PollWaiting, PollClosed,
         Obtain, Cancel, TryReserve, Call, SendReserved, DropPermit, DropOwned,
         ForgetPermit, SendPanics
    <3>2. ASSUME NEW c \in Tasks,
                 \/ DropSender(c)
                 \/ \E d \in Tasks : CloneSender(c, d)
                 \/ \E own \in BOOLEAN : SplitChannel(c, own)
          PROVE  \/ DropHandle(c)
                 \/ \E d \in Tasks : Clone(c, d)
                 \/ \E own \in BOOLEAN : SplitQueue(c, own)
      BY <3>2 DEF DropSender, CloneSender, SplitChannel
    <3>3. ASSUME \/ Receive \/ End \/ Pend \/ StopReceiving
                 \/ Close \/ DropReceiver \/ Reunite
          PROVE  \/ CloseMask \/ DropReceiverHandle \/ Rejoin
                 \/ Pop \/ Disconnect \/ Suspend \/ CancelRecv
      BY <3>3 DEF Receive, End, Pend, StopReceiving, Close, DropReceiver, Reunite
    <3> QED
      BY <2>2, <3>1, <3>2, <3>3, NextCases
  <2> QED
    BY <2>1, <2>2
<1>2. QInv
  BY DEF IInv
<1>3. ASSUME NEW c \in Tasks, SendOwnedPanics(c) PROVE Shut'
  <2>1. /\ c \in handles /\ handles' = handles \ {c} /\ mask' = Decreased(mask)
        /\ UNCHANGED <<split, receiver>>
    BY <1>3 DEF SendOwnedPanics
  <2> QED
    BY <1>2, <2>1, HandleLess
<1>4. ASSUME NEW c \in Tasks,
             \/ PushAndWake(c) \/ DropHandle(c)
             \/ \E d \in Tasks : Clone(c, d)
             \/ \E own \in BOOLEAN : SplitQueue(c, own)
      PROVE  Shut'
  BY <1>2, <1>4, PushPreserves, DropHandlePreserves, ClonePreserves, SplitPreserves
<1>5. CASE CloseMask \/ DropReceiverHandle \/ Rejoin
  BY <1>2, <1>5, ClosePreserves, RejoinPreserves
<1>6. CASE Pop \/ Disconnect \/ Suspend \/ CancelRecv
  BY <1>2, <1>6, PopPreserves, DisconnectPreserves, SuspendPreserves, CancelRecvPreserves
<1>7. CASE UNCHANGED channel
  BY <1>2, <1>7, StutterPreserves
<1> QED
  BY <1>1, <1>3, <1>4, <1>5, <1>6, <1>7

\* After the end no slot is reserved any more.
LEMMA NoneReserved ==
    ASSUME IInv, [Next]_vars, Shut, reserved = 0
    PROVE  reserved' = 0
<1>1. \A c \in Tasks : doing[c] \notin Permits
  <2>1. \A c \in Tasks : doing[c] \in Permits => reserved > 0
    BY Account
  <2> QED
    BY <2>1
<1>2. ASSUME NEW c \in Tasks, NEW p \in Permits, MaySend(c), TryReserve(c, p) PROVE FALSE
  <2>1. ~closed
    BY <1>2, TakeSlotPreserves DEF TryReserve, IInv
  <2> QED
    BY <1>2, <2>1, Agreement
<1>3. ASSUME NEW c \in Tasks, Poll(c) PROVE UNCHANGED reserved
  <2>1. CASE PollGranted(c) \/ PollFree(c)
    <3>1. ~closed /\ doing[c] \in Futures
      BY <2>1 DEF PollGranted, PollFree, HasSlot, S!CanAcquire, Obtain, Futures
    <3>2. MaySend(c)
      BY <3>1, BusyMaySend DEF Futures
    <3> QED
      BY <3>1, <3>2, Agreement
  <2>2. CASE PollFull(c) \/ PollWaiting(c) \/ PollClosed(c)
    BY <2>2 DEF PollFull, PollWaiting, PollClosed
  <2> QED
    BY <1>3, <2>1, <2>2 DEF Poll
<1>4. ASSUME NEW c \in Tasks,
             \/ SendReserved(c) \/ DropPermit(c) \/ DropOwned(c)
             \/ SendPanics(c)
      PROVE  FALSE
  BY <1>1, <1>4 DEF SendReserved, DropPermit, DropOwned, SendPanics, Permits
<1>5. ASSUME NEW c \in Tasks,
             \/ TrySend(c) \/ (\E f \in Futures : Call(c, f))
             \/ DropSender(c) \/ Cancel(c) \/ ForgetPermit(c) \/ SendOwnedPanics(c)
             \/ (\E d \in Tasks : CloneSender(c, d))
             \/ \E own \in BOOLEAN : SplitChannel(c, own)
      PROVE  UNCHANGED reserved
  BY <1>5 DEF TrySend, Call, DropSender, Cancel, ForgetPermit, SendOwnedPanics, CloneSender,
     SplitChannel
<1>6. ASSUME \/ Receive \/ End \/ Pend \/ StopReceiving
             \/ Close \/ DropReceiver \/ Reunite \/ UNCHANGED vars
      PROVE  UNCHANGED reserved
  BY <1>6 DEF Receive, End, Pend, StopReceiving, Close, DropReceiver, Reunite, vars
<1> QED
  BY <1>2, <1>3, <1>4, <1>5, <1>6, NextCases

\* Once the channel is closed, by whomever, elements come in only through permits.
THEOREM NeverSentLate == Spec => NoLateSend
<1>1. ASSUME IInv, [Next]_vars
      PROVE  [Shut /\ Len(queue') > Len(queue) => \E c \in Tasks : UsesPermit(c)]_vars
  <2>1. queue \in Seq(Tasks) /\ Len(queue) \in Nat
    BY <1>1 DEF IInv, QInv, QueueTypeOK
  <2>2. Pop => ~(Len(queue') > Len(queue))
    BY <2>1 DEF Pop
  <2>3. UNCHANGED queue => ~(Len(queue') > Len(queue))
    BY <2>1
  <2> QED
    BY <1>1, <2>2, <2>3, StepKinds DEF Sent, Disconnect
<1> QED
  BY <1>1, Invariance, PTL DEF Spec, NoLateSend

\* While a sender waits nobody sends past it.
THEOREM NeverOvertaken == Spec => NoOvertaking
<1>1. ASSUME IInv, [Next]_vars
      PROVE  [waiters # <<>> /\ Len(queue') > Len(queue)
               => \E c \in Tasks : UsesPermit(c) \/ UsesGrant(c)]_vars
  <2>1. queue \in Seq(Tasks) /\ Len(queue) \in Nat
    BY <1>1 DEF IInv, QInv, QueueTypeOK
  <2>2. Pop => ~(Len(queue') > Len(queue))
    BY <2>1 DEF Pop
  <2>3. UNCHANGED queue => ~(Len(queue') > Len(queue))
    BY <2>1
  <2> QED
    BY <1>1, <2>2, <2>3, StepKinds DEF Sent, Disconnect
<1> QED
  BY <1>1, Invariance, PTL DEF Spec, NoOvertaking

-----------------------------------------------------------------------------
(* Refinement.                                                             *)

\* Every step is a step of the abstract channel, or invisible.
LEMMA AbstractStep ==
    ASSUME IInv, [Next]_vars
    PROVE  [Abstract!Next]_(Abstract!vars)
<1> DEFINE done == Shut /\ reserved = 0
<1> USE DEF Abstract!vars
<1>1. done \in BOOLEAN /\ done' \in BOOLEAN /\ (done => done')
  BY ShutStays, NoneReserved
<1>2. ASSUME NEW c \in Tasks, Sent(c) PROVE Abstract!Next
  <2>1. queue' = Append(queue, c) /\ UNCHANGED answer /\ ~done
    <3>1. doing[c] \in Permits => reserved > 0
      BY Account
    <3> QED
      BY <1>2, <3>1 DEF Sent, UsesPermit
  <2> QED
    BY <1>1, <2>1 DEF Abstract!Next, Abstract!Send
<1>3. CASE Pop /\ UNCHANGED reserved
  <2>1. done' = done
    BY <1>3 DEF Pop, Shut
  <2> QED
    BY <1>3, <2>1 DEF Abstract!Next, Abstract!Receive, Pop
<1>4. CASE IsEnd /\ Disconnect
  <2>1. done /\ done'
    BY <1>1, <1>4 DEF IsEnd
  <2> QED
    BY <1>4, <2>1 DEF Abstract!Next, Abstract!End, Disconnect
<1>5. CASE UNCHANGED <<queue, answer>>
  <2>1. done' = done \/ done'
    BY <1>1
  <2> QED
    BY <1>5, <2>1 DEF Abstract!Next, Abstract!Finish
<1> QED
  BY <1>2, <1>3, <1>4, <1>5, StepKinds

\* Elements come in order and once, and the end is announced only when none can
\* follow, not even from a reserved slot: the bounded channel implements Channel.
THEOREM ImplementsChannel == Spec => Refines
<1>1. Init => Abstract!Init
  <2>1. \A n : SeqOf(Tasks, n) \subseteq Seq(Tasks)
    BY DEF SeqOf
  <2> QED
    BY <2>1 DEF Init, QueueInit, Abstract!Init, Shut, IsClosed
<1> QED
  BY <1>1, AbstractStep, Invariance, PTL DEF Spec, Refines, Abstract!Spec
=============================================================================
