---------------------------- MODULE BoundedChannel ----------------------------
(***************************************************************************)
(* The bounded channel: src/src/bounded.rs over the bounded specialization *)
(* of src/src/queue.rs, which composes the queue with a semaphore.         *)
(*                                                                         *)
(* The semaphore holds one permit per free slot.  Sending acquires one and *)
(* forgets it, the element stands for it from then on; receiving adds one  *)
(* again.  A reserved slot is a forgotten permit that `reserved` counts.   *)
(*                                                                         *)
(* A task has at most one future or one channel permit at a time, and its  *)
(* futures are always polled with the same waker.                          *)
(*                                                                         *)
(* Three things upset this account, and are counted: a channel that holds  *)
(* elements is split, a permit is forgotten (mem::forget), and the waker   *)
(* of the receiver panics while a permit sends.                            *)
(***************************************************************************)
EXTENDS Queue, Sums

CONSTANTS
    Capacity, \* Bounded.max_capacity
    Upsets,   \* which of the three upsets happen
    MaxUpset  \* bound of the model: how many slots they concern at a time

ASSUME BoundedAssumption ==
    /\ Capacity \in Nat \ {0}
    /\ Upsets \subseteq {"split", "forget", "panic"}
    /\ MaxUpset \in Nat
    /\ Capacity + MaxUpset <= UsizeMax

VARIABLES
    permits, closed, waiters, \* Bounded.semaphore: its Shared
    state, assigned,          \* the Acquire future inside of a task's future
    notified,                 \* whether the task was woken since its last poll
    reserved,                 \* Bounded.reserved
    doing,                    \* what each task is in the middle of
    forgotten,                \* the permits that are counted but not held
    surplus                   \* the slots that are there twice

upset == <<forgotten, surplus>>
semaphore == <<permits, closed, waiters, state, assigned, notified>>
vars == <<channel, semaphore, reserved, doing, upset>>

\* The operators of the semaphore, for requests of one permit.
S == INSTANCE Semaphore WITH
    Clients <- Tasks, Wakers <- {"own"}, NoWaker <- "none",
    Requests <- {1}, Amounts <- 1..Capacity, InitPermits <- Capacity,
    MaxSupply <- Capacity, MaxLeaked <- 0,
    wants <- [c \in Tasks |-> 1], waker <- [c \in Tasks |-> "own"],
    poller <- [c \in Tasks |-> "own"], outcome <- [c \in Tasks |-> "none"],
    held <- [c \in Tasks |-> 0], leaked <- {}, supply <- Capacity

\* channel, with_initial_capacity and from_iter
Init ==
    /\ QueueInit(Capacity)
    /\ permits = Capacity - Len(queue)
    /\ closed = FALSE
    /\ waiters = <<>>
    /\ state = [c \in Tasks |-> "absent"]
    /\ assigned = [c \in Tasks |-> 0]
    /\ notified = [c \in Tasks |-> FALSE]
    /\ reserved = 0
    /\ doing = [c \in Tasks |-> "idle"]
    /\ forgotten = 0
    /\ surplus = 0

Futures == {"send", "reserve", "reserve_owned"}
Permits == {"permit", "owned"}

Idle(c) == doing[c] = "idle"
Become(c, what) == doing' = [doing EXCEPT ![c] = what]

-----------------------------------------------------------------------------
(* What the calls below do to the semaphore.                               *)

\* Semaphore::add_permits
AddPermits(n) ==
    /\ permits' = S!PermitsAfter(waiters, n)
    /\ waiters' = S!WaitersAfter(waiters, n)
    /\ state' = S!StateAfter(waiters, n)
    /\ assigned' = S!AssignedAfter(waiters, n)
    /\ notified' = S!Wake(S!Completed(waiters, n))
    /\ UNCHANGED closed

\* Mutant of Granted: a cancelled future keeps the slot it was granted.
GrantedLost(c) == 0
Granted(c) == assigned[c]

\* Acquire::drop
DropAcquire(c) ==
    LET w == S!WaitersWithout(c)
        n == Granted(c)
    IN  /\ permits' = S!PermitsAfter(w, n)
        /\ waiters' = S!WaitersAfter(w, n)
        /\ state' = [S!StateAfter(w, n) EXCEPT ![c] = "absent"]
        /\ assigned' = [S!AssignedAfter(w, n) EXCEPT ![c] = 0]
        /\ notified' = [S!Wake(S!Completed(w, n)) EXCEPT ![c] = FALSE]
        /\ UNCHANGED closed

\* Mutant of CloseSemaphore: only the mask learns that the channel is closed.
CloseSemaphoreNot == UNCHANGED semaphore

\* Semaphore::close
CloseSemaphore ==
    /\ closed' = TRUE
    /\ waiters' = <<>>
    /\ state' = [c \in Tasks |-> IF state[c] = "waiting" THEN "woken" ELSE state[c]]
    /\ notified' = [c \in Tasks |-> notified[c] \/ state[c] = "waiting"]
    /\ UNCHANGED <<permits, assigned>>

\* Mutant of HasSlot: an open channel is taken to have room.
HasSlotAlways == ~closed
HasSlot == S!CanAcquire(1)

\* Semaphore::try_acquire and Permit::forget
TakeSlot ==
    /\ HasSlot
    /\ permits' = permits - 1
    /\ UNCHANGED <<closed, waiters, state, assigned, notified>>

-----------------------------------------------------------------------------
(* Sending without a future.                                               *)

\* The error of try_send and try_reserve, which look at the semaphore only
TrySendError == IF closed THEN "Closed" ELSE "Full"

\* try_send
TrySend(c) ==
    /\ Idle(c)
    /\ TakeSlot
    /\ PushAndWake(c)
    /\ UNCHANGED <<reserved, doing, upset>>

\* try_reserve and try_reserve_owned
TryReserve(c, permit) ==
    /\ Idle(c)
    /\ TakeSlot
    /\ reserved' = reserved + 1
    /\ Become(c, permit)
    /\ UNCHANGED <<channel, upset>>

\* Permit::send and OwnedPermit::send, which returns the handle
SendReserved(c) ==
    /\ doing[c] \in Permits
    /\ PushAndWake(c)
    /\ reserved' = reserved - 1
    /\ Become(c, "idle")
    /\ UNCHANGED <<semaphore, upset>>

\* Permit::drop: unreserve(false)
DropPermit(c) ==
    /\ doing[c] = "permit"
    /\ reserved' = reserved - 1
    /\ AddPermits(1)
    /\ Become(c, "idle")
    /\ UNCHANGED <<channel, upset>>

\* OwnedPermit::drop: unreserve(false), then the drop of the handle
DropOwned(c) ==
    /\ doing[c] = "owned"
    /\ reserved' = reserved - 1
    /\ AddPermits(1)
    /\ Become(c, "idle")
    /\ DropHandle(c)
    /\ UNCHANGED upset

\* mem::forget of a Permit: it is never dropped.
ForgetPermit(c) ==
    /\ "forget" \in Upsets
    /\ forgotten < MaxUpset
    /\ doing[c] = "permit"
    /\ forgotten' = forgotten + 1
    /\ Become(c, "idle")
    /\ UNCHANGED <<channel, semaphore, reserved, surplus>>

\* The waker panics inside of Permit::send, which has pushed the element by then:
\* unwinding drops the permit as if it had not been used.
SendPanics(c) ==
    /\ "panic" \in Upsets
    /\ surplus < MaxUpset
    /\ doing[c] = "permit"
    /\ waker
    /\ PushAndWake(c)
    /\ reserved' = reserved - 1
    /\ AddPermits(1)
    /\ surplus' = surplus + 1
    /\ Become(c, "idle")
    /\ UNCHANGED forgotten

\* In OwnedPermit::send it unwinds through the handle: unreserve is never called.
SendOwnedPanics(c) ==
    /\ "panic" \in Upsets
    /\ surplus < MaxUpset /\ forgotten < MaxUpset
    /\ doing[c] = "owned"
    /\ c \in handles
    /\ waker
    /\ queue' = Append(queue, c)
    /\ handles' = handles \ {c}
    /\ mask' = Decreased(mask)
    /\ waker' = ~IsLast(mask)
    /\ woken' = WakeReceiver
    /\ forgotten' = forgotten + 1
    /\ surplus' = surplus + 1
    /\ Become(c, "idle")
    /\ UNCHANGED <<split, owned, receiver, answer, semaphore, reserved>>

-----------------------------------------------------------------------------
(* send, reserve and reserve_owned: async functions around Acquire.        *)

\* The call; nothing happens before the first poll.
Call(c, what) ==
    /\ Idle(c)
    /\ Become(c, what)
    /\ state' = [state EXCEPT ![c] = "inert"]
    /\ UNCHANGED <<channel, permits, closed, waiters, assigned, notified, reserved,
                   upset>>

\* What follows the await: the permit is forgotten, and the slot used or kept.
Obtain(c) ==
    \/ /\ doing[c] = "send"
       /\ PushAndWake(c)
       /\ Become(c, "idle")
       /\ UNCHANGED reserved
    \/ /\ doing[c] \in Futures \ {"send"}
       /\ reserved' = reserved + 1
       /\ Become(c, IF doing[c] = "reserve" THEN "permit" ELSE "owned")
       /\ UNCHANGED channel

PollGranted(c) ==
    /\ ~closed
    /\ state[c] = "woken"
    /\ state' = [state EXCEPT ![c] = "absent"]
    /\ assigned' = [assigned EXCEPT ![c] = 0]
    /\ notified' = [notified EXCEPT ![c] = FALSE]
    /\ Obtain(c)
    /\ UNCHANGED <<permits, closed, waiters, upset>>

PollFree(c) ==
    /\ state[c] = "inert"
    /\ HasSlot
    /\ state' = [state EXCEPT ![c] = "absent"]
    /\ permits' = permits - 1
    /\ Obtain(c)
    /\ UNCHANGED <<closed, waiters, assigned, notified, upset>>

PollFull(c) ==
    /\ ~closed
    /\ state[c] = "inert"
    /\ ~HasSlot
    /\ state' = [state EXCEPT ![c] = "waiting"]
    /\ waiters' = S!PushBack(c)
    /\ UNCHANGED <<channel, permits, closed, assigned, notified, reserved, doing,
                   upset>>

PollWaiting(c) ==
    /\ state[c] = "waiting"
    /\ notified' = [notified EXCEPT ![c] = FALSE]
    /\ UNCHANGED <<channel, permits, closed, waiters, state, assigned, reserved,
                   doing, upset>>

\* The error ends the future; reserve_owned returns the handle in it.
PollClosed(c) ==
    /\ closed
    /\ doing[c] \in Futures
    /\ DropAcquire(c)
    /\ Become(c, "idle")
    /\ UNCHANGED <<channel, reserved, upset>>

Poll(c) ==
    \/ PollGranted(c) \/ PollFree(c) \/ PollFull(c)
    \/ PollWaiting(c) \/ PollClosed(c)

\* The future is dropped; that of reserve_owned owns the handle.
Cancel(c) ==
    /\ doing[c] \in Futures
    /\ DropAcquire(c)
    /\ Become(c, "idle")
    /\ IF doing[c] = "reserve_owned" THEN DropHandle(c) ELSE UNCHANGED channel
    /\ UNCHANGED <<reserved, upset>>

-----------------------------------------------------------------------------
(* The receiver.                                                           *)

\* Mutant of FreeSlot: the slot goes past the tasks that wait for it.
FreeSlotUnfair ==
    permits' = permits + 1 /\ UNCHANGED <<closed, waiters, state, assigned, notified>>

FreeSlot == AddPermits(1)

Receive == Pop /\ FreeSlot /\ UNCHANGED <<reserved, doing, upset>>

\* Mutant of IsEnd: the reserved slots are not looked at.
IsEndUnreserved == Shut
IsEnd == reserved = 0 /\ Shut

\* The error of try_recv when there is no element
TryRecvError == IF IsEnd THEN "Disconnected" ELSE "Empty"

End ==
    /\ TryRecvError = "Disconnected"
    /\ Disconnect
    /\ UNCHANGED <<semaphore, reserved, doing, upset>>

Pend ==
    /\ TryRecvError = "Empty"
    /\ Suspend
    /\ UNCHANGED <<semaphore, reserved, doing, upset>>

StopReceiving == CancelRecv /\ UNCHANGED <<semaphore, reserved, doing, upset>>

\* Queue<T, Bounded>::close
Close == CloseMask /\ CloseSemaphore /\ UNCHANGED <<reserved, doing, upset>>

DropReceiver ==
    DropReceiverHandle /\ CloseSemaphore /\ UNCHANGED <<reserved, doing, upset>>

-----------------------------------------------------------------------------
(* The handles.                                                            *)

\* Channel::split and into_split take the channel by &mut and by value: nobody is
\* in the middle of anything.  The reset computes max_capacity -
\* available_permits, which panics below zero, and frees the slots of queued
\* elements and of forgotten permits as well.
SplitChannel(c, own) ==
    /\ \A d \in Tasks : Idle(d)
    /\ "split" \in Upsets \/ Len(queue) + reserved = 0
    /\ Len(queue) + reserved <= MaxUpset
    /\ permits <= Capacity
    /\ SplitQueue(c, own)
    /\ AddPermits(Capacity - permits)
    /\ surplus' = Len(queue) + reserved
    /\ UNCHANGED <<reserved, doing, forgotten>>

Split(c) == SplitChannel(c, FALSE)

IntoSplit(c) == SplitChannel(c, TRUE)

\* An owned handle inside of a future or a permit cannot be cloned.
CloneSender(c, d) ==
    /\ doing[c] \notin {"reserve_owned", "owned"}
    /\ Clone(c, d)
    /\ UNCHANGED <<semaphore, reserved, doing, upset>>

\* Futures and permits borrow or own their handle.
DropSender(c) ==
    Idle(c) /\ DropHandle(c) /\ UNCHANGED <<semaphore, reserved, doing, upset>>

Reunite == Rejoin /\ UNCHANGED <<semaphore, reserved, doing, upset>>

-----------------------------------------------------------------------------
(* What can be done with a channel and with a handle of each kind.         *)

Recv == Receive \/ End \/ Pend \/ StopReceiving

SendCall(c) ==
    TrySend(c) \/ TryReserve(c, "permit") \/ Call(c, "send") \/ Call(c, "reserve")

\* Channel, through a shared reference
ChannelCall == ~split /\ (Recv \/ Close \/ \E c \in Tasks : SendCall(c))

Sending(c) ==
    /\ c \in handles
    /\ SendCall(c) \/ DropSender(c) \/ \E d \in Tasks : CloneSender(c, d)

\* SenderRef
SenderRefCall(c) == Lent /\ Sending(c)

\* Sender
SenderCall(c) ==
    /\ owned
    /\ \/ Sending(c)
       \/ c \in handles /\ (TryReserve(c, "owned") \/ Call(c, "reserve_owned"))

Receiving == Recv \/ Close \/ DropReceiver

\* ReceiverRef
ReceiverRefCall == Lent /\ Receiving

\* Receiver
ReceiverCall == owned /\ Receiving

Next ==
    \/ ChannelCall
    \/ \E c \in Tasks :
        \/ Split(c) \/ IntoSplit(c)
        \/ SenderRefCall(c) \/ SenderCall(c)
        \/ Poll(c) \/ Cancel(c)
        \/ SendReserved(c) \/ DropPermit(c) \/ DropOwned(c)
        \/ ForgetPermit(c) \/ SendPanics(c) \/ SendOwnedPanics(c)
    \/ ReceiverRefCall
    \/ ReceiverCall
    \/ Reunite

Spec == Init /\ [][Next]_vars

-----------------------------------------------------------------------------
(* Fairness: a task polls a new future, and a future it was woken for; it  *)
(* uses or drops its permit; the receiving task polls when it is not       *)
(* suspended and when it was woken.  Each may poll at any other time too.  *)

FuturePoll(c) == (state[c] = "inert" \/ notified[c]) /\ Poll(c)

PermitUse(c) == SendReserved(c) \/ DropPermit(c) \/ DropOwned(c)

RecvPoll == (receiver = "idle" \/ woken) /\ (Receive \/ End \/ Pend)

FairSpec ==
    /\ Spec
    /\ \A c \in Tasks : WF_vars(FuturePoll(c)) /\ WF_vars(PermitUse(c))
    /\ WF_vars(RecvPoll)

-----------------------------------------------------------------------------
TypeOK ==
    /\ QueueTypeOK
    /\ permits \in 0..UsizeMax
    /\ closed \in BOOLEAN
    /\ waiters \in Seq(Tasks)
    /\ state \in [Tasks -> {"absent", "inert", "waiting", "woken"}]
    /\ assigned \in [Tasks -> 0..1]
    /\ notified \in [Tasks -> BOOLEAN]
    /\ reserved \in Nat
    /\ doing \in [Tasks -> Futures \cup Permits \cup {"idle"}]
    /\ {forgotten, surplus} \subseteq 0..MaxUpset

\* Every slot of the channel is in one place: free, granted to a future that has
\* not been polled since, reserved, or taken by an element.  So the channel never
\* holds more than its capacity, and no slot is lost by a cancellation.  What is
\* reserved is held by a task or forgotten; a slot is in two places only after one
\* of the upsets.
Reservations == Cardinality({c \in Tasks : doing[c] \in Permits})
SlotsAccounted ==
    /\ permits + Total(Tasks, assigned) + Len(queue) + reserved = Capacity + surplus
    /\ reserved = Reservations + forgotten

\* A sender waits only as long as no slot is free, and is woken when it is given
\* a slot, by a receiver or a cancellation, and when the channel is closed.
SendersWoken ==
    /\ waiters # <<>> => permits = 0
    /\ \A c \in Tasks : state[c] = "woken" => notified[c]

\* A suspended receiver is woken for elements and when the last sender is gone.
\* Only a forgotten permit, which passes for an element that is still to come,
\* keeps it suspended although nobody can send any more.
ReceiverNotified == forgotten = 0 => ReceiverWoken

\* Whether task c uses its permit, or its granted future, in a step
UsesPermit(c) == doing[c] \in Permits /\ doing'[c] = "idle"
UsesGrant(c) == state[c] = "woken" /\ state'[c] = "absent"

\* Once the channel is closed, whoever closed it, an element comes in only
\* through a slot that was reserved before.
NoLateSend ==
    [][Shut /\ Len(queue') > Len(queue) => \E c \in Tasks : UsesPermit(c)]_vars

\* As long as a sender waits nobody sends past it: elements come in through slots
\* that were reserved or granted before.
NoOvertaking ==
    [][waiters # <<>> /\ Len(queue') > Len(queue)
        => \E c \in Tasks : UsesPermit(c) \/ UsesGrant(c)]_vars

\* The errors of try_send come from the semaphore, the answer of is_closed from the
\* mask: who may send, with a handle or through the whole channel, is told the same
\* by both, over closing and re-splitting.
MaySend(c) == split => c \in handles
ErrorsAgree ==
    \A c \in Tasks : MaySend(c) => (TrySendError = "Closed" <=> Shut)

\* The documentation of the reset: "`permits` is never increased above the
\* specified `max_capacity`".
NeverAboveCapacity == permits <= Capacity

\* The documentation of close: it "notifies all waiters".  The end of the stream
\* is reached while the receiver is suspended, and the receiver is woken.
CloseNotifies == receiver = "pending" /\ queue = <<>> /\ IsEnd => woken

\* The bounded channel keeps the promise of a channel: the end is announced only
\* when no element can follow, not even one from a reserved slot.
Abstract == INSTANCE Channel
    WITH Elements <- Tasks, buffer <- queue, done <- (Shut /\ reserved = 0)
Refines == Abstract!Spec

\* A future that sends or reserves resolves, as long as the receiver receives and
\* permits are used: neither cancellations nor other senders starve it.
SendResolves ==
    \A c \in Tasks : doing[c] \in Futures ~> doing[c] \notin Futures
=============================================================================
