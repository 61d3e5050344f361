--------------------------- MODULE UnboundedChannel ---------------------------
(***************************************************************************)
(* The unbounded channel: src/src/unbounded.rs over the unbounded          *)
(* specialization of src/src/queue.rs.  Sending never waits.               *)
(***************************************************************************)
EXTENDS Queue

CONSTANTS MaxQueue \* bound of the model: how many elements are queued

ASSUME UnboundedAssumption == MaxQueue \in Nat

\* channel, with_initial_capacity and channel_from_iter
Init == QueueInit(MaxQueue)

\* Mutant of Accepts: the closed bit is not looked at.
AcceptsAlways == TRUE
Accepts == ~Shut

\* UnsyncQueue::send; on a closed channel it fails and changes nothing.
Send(c) ==
    /\ Accepts
    /\ Len(queue) < MaxQueue
    /\ PushAndWake(c)

IsEnd == Shut

Receive == Pop \/ (IsEnd /\ Disconnect)

Pend == ~IsEnd /\ Suspend

-----------------------------------------------------------------------------
(* What can be done with a channel and with a handle of each kind.         *)

Recv == Receive \/ Pend \/ CancelRecv

\* UnboundedChannel, through a shared reference
ChannelCall == ~split /\ (Recv \/ CloseMask \/ \E c \in Tasks : Send(c))

\* UnboundedChannel::split
Split(c) == SplitQueue(c, FALSE)

\* UnboundedChannel::into_split
IntoSplit(c) == SplitQueue(c, TRUE)

\* Through a sender handle: send, clone and drop.
Sending(c) ==
    c \in handles /\ (Send(c) \/ DropHandle(c) \/ \E d \in Tasks : Clone(c, d))

\* UnboundedSenderRef
SenderRefCall(c) == Lent /\ Sending(c)

\* UnboundedSender
SenderCall(c) == owned /\ Sending(c)

\* Through the receiver handle: recv, try_recv, poll_recv, close and drop.
Receiving == Recv \/ CloseMask \/ DropReceiverHandle

\* UnboundedReceiverRef
ReceiverRefCall == Lent /\ Receiving

\* UnboundedReceiver
ReceiverCall == owned /\ Receiving

Next ==
    \/ ChannelCall
    \/ \E c \in Tasks :
        Split(c) \/ IntoSplit(c) \/ SenderRefCall(c) \/ SenderCall(c)
    \/ ReceiverRefCall
    \/ ReceiverCall
    \/ Rejoin

Spec == Init /\ [][Next]_channel

\* The receiving task polls when it is not suspended, and when it was woken; it
\* may do so at any other time as well.
RecvPoll == (receiver = "idle" \/ woken) /\ (Receive \/ Pend)

FairSpec == Spec /\ WF_channel(RecvPoll)

-----------------------------------------------------------------------------
TypeOK == QueueTypeOK

\* The unbounded channel keeps the promise of a channel: in order, each element
\* once, and nothing after the end, over closing, dropping and re-splitting.
Abstract == INSTANCE Channel WITH Elements <- Tasks, buffer <- queue, done <- Shut
Refines == Abstract!Spec
=============================================================================
