-------------------------------- MODULE Queue --------------------------------
(***************************************************************************)
(* The part of src/src/queue.rs that the bounded and the unbounded channel *)
(* share: the elements, the mask, the waker of the receiver, and the life  *)
(* of a channel, which is used as a whole (&Channel) or split into sender  *)
(* handles and a receiver.  Handles that borrow the channel leave it whole *)
(* again when they are gone; handles that own it take it with them.        *)
(*                                                                         *)
(* An element is named after the task that sent it.  Every task may own a  *)
(* sender handle; one task is the receiver.  Handles are not leaked.       *)
(***************************************************************************)
EXTENDS SequencesExt, Mask

CONSTANTS Tasks \* the tasks that send

ASSUME QueueAssumption == IsFiniteSet(Tasks) /\ Tasks # {}

VARIABLES
    mask,     \* Queue.mask
    queue,    \* Queue.queue
    waker,    \* whether Queue.waker is Some: it is the receiving task's
    split,    \* whether the channel is split
    owned,    \* whether the handles of the split channel own it
    handles,  \* the tasks that own a sender handle
    receiver, \* "idle", "pending" in RecvFuture or poll_recv, or "dropped"
    woken,    \* whether the pending receiver was woken since its last poll
    answer    \* what the receiver got last: an element, or "end"

channel == <<mask, queue, waker, split, owned, handles, receiver, woken, answer>>

\* A new channel, with up to n elements queued beforehand.
QueueInit(n) ==
    /\ mask = 0
    /\ queue \in SeqOf(Tasks, n)
    /\ waker = FALSE
    /\ split = FALSE
    /\ owned = FALSE
    /\ handles = {}
    /\ receiver = "idle"
    /\ woken = FALSE
    /\ answer = "none"

Lent == split /\ ~owned

Shut == IsClosed(mask, split)

\* Mutant of WakeReceiver: the waker is not called.
WakeReceiverNot == woken
WakeReceiver == woken \/ (receiver = "pending" /\ waker)

\* Queue::push_and_wake; the waker stays registered.
PushAndWake(c) ==
    /\ queue' = Append(queue, c)
    /\ woken' = WakeReceiver
    /\ UNCHANGED <<mask, waker, split, owned, handles, receiver, answer>>

-----------------------------------------------------------------------------
(* The handles.                                                            *)

\* Channel::split and into_split, and Queue::set_counted
SplitQueue(c, own) ==
    /\ ~split
    /\ receiver = "idle"
    /\ split' = TRUE
    /\ owned' = own
    /\ handles' = {c}
    /\ mask' = Reset(mask)
    /\ waker' = FALSE
    /\ UNCHANGED <<queue, receiver, woken, answer>>

\* Sender::clone
Clone(c, d) ==
    /\ c \in handles
    /\ d \notin handles
    /\ CanIncrease(mask)
    /\ handles' = handles \cup {d}
    /\ mask' = Increased(mask)
    /\ UNCHANGED <<queue, waker, split, owned, receiver, woken, answer>>

\* Mutant of LastWakes: the channel closes silently.
LastWakesNot(c) == UNCHANGED <<waker, woken>>
LastWakes(c) == IF IsLast(mask)
                THEN waker' = FALSE /\ woken' = WakeReceiver
                ELSE UNCHANGED <<waker, woken>>

\* Sender::drop and Queue::decrease_sender_count
DropHandle(c) ==
    /\ c \in handles
    /\ handles' = handles \ {c}
    /\ mask' = Decreased(mask)
    /\ LastWakes(c)
    /\ UNCHANGED <<queue, split, owned, receiver, answer>>

\* Receiver::drop: MaybeBoundedQueue::close, as far as the mask goes
DropReceiverHandle ==
    /\ split
    /\ receiver # "dropped"
    /\ receiver' = "dropped"
    /\ woken' = FALSE
    /\ mask' = Closed(mask, TRUE)
    /\ UNCHANGED <<queue, waker, split, owned, handles, answer>>

\* The borrow of the handles ends: the channel can be used as a whole again.
Rejoin ==
    /\ Lent
    /\ handles = {}
    /\ receiver = "dropped"
    /\ split' = FALSE
    /\ receiver' = "idle"
    /\ UNCHANGED <<mask, queue, waker, owned, handles, woken, answer>>

\* Channel::close through a shared reference, at any time; Receiver::close
\* takes the receiver by &mut, so it is not pending.
CloseMask ==
    /\ split => receiver = "idle"
    /\ mask' = Closed(mask, split)
    /\ UNCHANGED <<queue, waker, split, owned, handles, receiver, woken, answer>>

-----------------------------------------------------------------------------
(* The receiver: try_recv if it is idle, poll_recv in any case.            *)
Resume ==
    /\ receiver # "dropped"
    /\ receiver' = "idle"
    /\ woken' = FALSE

\* MaybeBoundedQueue::try_recv finds an element ...
Pop ==
    /\ queue # <<>>
    /\ queue' = Tail(queue)
    /\ answer' = Head(queue)
    /\ Resume
    /\ UNCHANGED <<mask, waker, split, owned, handles>>

\* ... or returns TryRecvError::Disconnected: poll_recv resolves to None ...
Disconnect ==
    /\ queue = <<>>
    /\ answer' = "end"
    /\ Resume
    /\ UNCHANGED <<mask, queue, waker, split, owned, handles>>

\* ... or TryRecvError::Empty: poll_recv registers the waker.
Suspend ==
    /\ queue = <<>>
    /\ receiver # "dropped"
    /\ receiver' = "pending"
    /\ waker' = TRUE
    /\ woken' = FALSE
    /\ UNCHANGED <<mask, queue, split, owned, handles, answer>>

\* The RecvFuture is dropped; its waker stays registered.
CancelRecv ==
    /\ receiver = "pending"
    /\ receiver' = "idle"
    /\ woken' = FALSE
    /\ UNCHANGED <<mask, queue, waker, split, owned, handles, answer>>

-----------------------------------------------------------------------------
QueueTypeOK ==
    /\ mask \in 0..UsizeMax
    /\ queue \in Seq(Tasks)
    /\ {waker, split, owned, woken} \subseteq BOOLEAN
    /\ handles \in SUBSET Tasks
    /\ receiver \in {"idle", "pending", "dropped"}
    /\ answer \in Tasks \cup {"none", "end"}

\* The number in the mask is the number of sender handles, whatever was cloned,
\* dropped, split and closed before; without a sender or without a receiver a
\* split channel is closed.
MaskExact ==
    /\ mask \div 2 = Cardinality(handles)
    /\ split /\ (handles = {} \/ receiver = "dropped") => Shut

\* A suspended receiver is woken when an element arrives, and when the last
\* sender is gone.
ReceiverWoken ==
    receiver = "pending" /\ (queue # <<>> \/ (split /\ handles = {})) => woken

\* Whatever is queued is received, one element after the other, as long as the
\* receiver is not dropped: no push leaves it asleep for good.
ElementReceived ==
    []<><<Pop>>_channel \/ []<>(queue = <<>> \/ receiver = "dropped")

\* When the last sender is gone the receiver learns of it: it comes to the end of
\* the stream, unless it is dropped.
EndReached ==
    split /\ handles = {} ~> (answer = "end" \/ receiver = "dropped")
=============================================================================
