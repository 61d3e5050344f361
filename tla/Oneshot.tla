------------------------------- MODULE Oneshot -------------------------------
(***************************************************************************)
(* The oneshot channel of src/src/oneshot.rs: a slot for one value, split  *)
(* into a sender and a receiver.  The receiver is a future itself; the     *)
(* sender may await `closed`.  A channel may be split again once both      *)
(* handles that borrow it are gone; handles that own it end it.            *)
(*                                                                         *)
(* Handles are not leaked: mem::forget of a handle is not modelled.        *)
(***************************************************************************)
EXTENDS Integers, Sequences

CONSTANTS
    Values,    \* what is sent
    NoValue,   \* Option::None of the slot
    Wakers,    \* the wakers of the tasks that poll the two futures
    NoWaker,   \* Option::None of a waker
    MaxSplits  \* bound of the model: how often the channel is split

ASSUME OneshotAssumption ==
    /\ NoValue \notin Values
    /\ NoWaker \notin Wakers
    /\ MaxSplits \in Nat

VARIABLES
    value,        \* Slot.value
    recv_waker,   \* Slot.recv_waker
    close_waker,  \* Slot.close_waker
    closed,       \* Slot.closed
    tx,           \* the sender: "none", "idle", or "pending" in `closed`
    rx,           \* the receiver: "none", "idle", or "pending" in its `poll`
    tx_poller, rx_poller, \* the wakers of their last Pending polls ...
    tx_woken, rx_woken,   \* ... and whether they were woken since
    splits,       \* how often the channel was split ...
    owned,        \* ... and whether its handles own it
    accepted,     \* the values for which `send` returned Ok
    received,     \* the values the receiver got
    ended         \* whether a receiver was told that the channel is closed

slot == <<value, recv_waker, close_waker, closed>>
sender == <<tx, tx_poller, tx_woken>>
receiver == <<rx, rx_poller, rx_woken>>
history == <<accepted, received, ended>>
life == <<splits, owned>>
vars == <<slot, sender, receiver, life, history>>

Init ==
    /\ value = NoValue
    /\ recv_waker = NoWaker
    /\ close_waker = NoWaker
    /\ closed = FALSE
    /\ tx = "none" /\ tx_poller = NoWaker /\ tx_woken = FALSE
    /\ rx = "none" /\ rx_poller = NoWaker /\ rx_woken = FALSE
    /\ splits = 0
    /\ owned = FALSE
    /\ accepted = <<>>
    /\ received = <<>>
    /\ ended = FALSE

\* split and into_split: two handles of the slot as it is.
Handles(own) ==
    /\ ~owned
    /\ tx = "none"
    /\ rx = "none"
    /\ splits < MaxSplits
    /\ tx' = "idle"
    /\ rx' = "idle"
    /\ splits' = splits + 1
    /\ owned' = own
    /\ UNCHANGED <<slot, tx_poller, tx_woken, rx_poller, rx_woken, history>>

\* OneshotChannel::split
Split == Handles(FALSE)

\* OneshotChannel::into_split
IntoSplit == Handles(TRUE)

-----------------------------------------------------------------------------
(* The sender.                                                             *)

\* Mutant of MaySend: the flag is ignored.
MaySendAlways == TRUE
MaySend == ~closed

\* Mutant of WakeReceiver: the receiver is not told.
WakeNobody == rx_woken
WakeReceiver == rx_woken \/ (rx = "pending" /\ recv_waker = rx_poller)

\* Sender::send consumes the sender: it ends with Sender::drop.
Send(v) ==
    /\ tx = "idle"
    /\ IF MaySend
       THEN /\ value' = v
            /\ accepted' = Append(accepted, v)
            /\ rx_woken' = WakeReceiver
       ELSE UNCHANGED <<value, accepted, rx_woken>>
    /\ closed' = TRUE
    /\ tx' = "none"
    /\ UNCHANGED <<recv_waker, close_waker, tx_poller, tx_woken, rx, rx_poller,
                   life, received, ended>>

\* Sender::drop sets the flag and wakes nobody.
DropSender ==
    /\ tx = "idle"
    /\ tx' = "none"
    /\ closed' = TRUE
    /\ UNCHANGED <<value, recv_waker, close_waker, tx_poller, tx_woken,
                   receiver, life, history>>

\* Sender::poll_closed
PollClosed(w) ==
    /\ tx # "none"
    /\ tx_woken' = FALSE
    /\ IF closed
       THEN /\ tx' = "idle"
            /\ tx_poller' = NoWaker
            /\ UNCHANGED close_waker
       ELSE /\ tx' = "pending"
            /\ tx_poller' = w
            /\ close_waker' = w
    /\ UNCHANGED <<value, recv_waker, closed, receiver, life, history>>

\* The future of `closed` is dropped; its waker stays in the slot.
CancelClosed ==
    /\ tx = "pending"
    /\ tx' = "idle"
    /\ tx_poller' = NoWaker
    /\ tx_woken' = FALSE
    /\ UNCHANGED <<slot, receiver, life, history>>

-----------------------------------------------------------------------------
(* The receiver.                                                           *)

\* Mutant of WakeSender: only the flag is set.
WakeSenderNot == tx_woken
WakeSender == tx_woken \/ (tx = "pending" /\ close_waker = tx_poller)

\* Slot::close_and_wake
CloseAndWake ==
    IF closed
    THEN UNCHANGED <<closed, tx_woken>>
    ELSE closed' = TRUE /\ tx_woken' = WakeSender

\* Receiver::close
Close ==
    /\ rx = "idle"
    /\ CloseAndWake
    /\ UNCHANGED <<value, recv_waker, close_waker, tx, tx_poller, receiver,
                   life, history>>

\* Mutant of ClosedByReceiver: a dropped receiver does not close the channel.
ClosedByReceiverNot == UNCHANGED <<closed, tx_woken>>
ClosedByReceiver == CloseAndWake

\* Receiver::drop
DropReceiver ==
    /\ rx # "none"
    /\ rx' = "none"
    /\ rx_poller' = NoWaker
    /\ rx_woken' = FALSE
    /\ ClosedByReceiver
    /\ UNCHANGED <<value, recv_waker, close_waker, tx, tx_poller, life, history>>

\* Mutant of MayEnd: the flag is looked at before the value.
MayEndEarly == closed
MayEnd == value = NoValue /\ closed

\* Mutant of HasValue: the slot is taken for full.
HasValueAlways == TRUE
HasValue == value # NoValue

\* Slot::try_recv with an answer: the value if there is one, or the end.
Answer ==
    \/ /\ HasValue
       /\ value' = NoValue
       /\ received' = Append(received, value)
       /\ UNCHANGED ended
    \/ /\ MayEnd
       /\ ended' = TRUE
       /\ UNCHANGED <<value, received>>

\* Receiver::try_recv; TryRecvError::Empty changes nothing.
TryRecv ==
    /\ rx = "idle"
    /\ Answer
    /\ UNCHANGED <<recv_waker, close_waker, closed, sender, receiver, life,
                   accepted>>

\* Receiver::poll with an answer
PollReady ==
    /\ rx # "none"
    /\ Answer
    /\ rx' = "idle"
    /\ rx_poller' = NoWaker
    /\ rx_woken' = FALSE
    /\ UNCHANGED <<recv_waker, close_waker, closed, sender, life, accepted>>

\* Receiver::poll without: every poll stores its waker.
PollPending(w) ==
    /\ rx # "none"
    /\ value = NoValue
    /\ ~closed
    /\ rx' = "pending"
    /\ rx_poller' = w
    /\ rx_woken' = FALSE
    /\ recv_waker' = w
    /\ UNCHANGED <<value, close_waker, closed, sender, life, history>>

\* The receiver is no longer awaited, but kept.
CancelRecv ==
    /\ rx = "pending"
    /\ rx' = "idle"
    /\ rx_poller' = NoWaker
    /\ rx_woken' = FALSE
    /\ UNCHANGED <<slot, sender, life, history>>

-----------------------------------------------------------------------------
(* What can be done with a handle of each kind.                            *)

Sending ==
    \/ \E v \in Values : Send(v)
    \/ DropSender
    \/ \E w \in Wakers : PollClosed(w)
    \/ CancelClosed

\* SenderRef
SenderRefCall == ~owned /\ Sending

\* Sender
SenderCall == owned /\ Sending

Receiving ==
    \/ Close
    \/ DropReceiver
    \/ TryRecv
    \/ PollReady
    \/ \E w \in Wakers : PollPending(w)
    \/ CancelRecv

\* ReceiverRef
ReceiverRefCall == ~owned /\ Receiving

\* Receiver
ReceiverCall == owned /\ Receiving

Next ==
    \/ Split \/ IntoSplit
    \/ SenderRefCall \/ SenderCall
    \/ ReceiverRefCall \/ ReceiverCall

Spec == Init /\ [][Next]_vars

\* The receiver is polled when it is not suspended and when it was woken, the
\* future of `closed` when it was woken; both may be polled at other times too.
RecvPoll ==
    /\ rx = "idle" \/ rx_woken
    /\ PollReady \/ \E w \in Wakers : PollPending(w)

ClosedPoll == tx_woken /\ \E w \in Wakers : PollClosed(w)

FairSpec == Spec /\ WF_vars(RecvPoll) /\ WF_vars(ClosedPoll)

-----------------------------------------------------------------------------
TypeOK ==
    /\ value \in Values \cup {NoValue}
    /\ {recv_waker, close_waker, tx_poller, rx_poller}
         \subseteq Wakers \cup {NoWaker}
    /\ {closed, tx_woken, rx_woken, ended, owned} \subseteq BOOLEAN
    /\ {tx, rx} \subseteq {"none", "idle", "pending"}
    /\ splits \in 0..MaxSplits
    /\ accepted \in Seq(Values)
    /\ received \in Seq(Values)

\* An accepted value is received or still in the slot, once, whatever is closed,
\* dropped or split again in between: no value is lost or overwritten.
ValueKept ==
    accepted = received \o (IF value = NoValue THEN <<>> ELSE <<value>>)

\* Who is told that the channel is closed has got every value that was ever
\* accepted, and none is accepted afterwards.
EndIsFinal == ended => accepted = received

\* A suspended receiver is woken when a value arrives.
ReceiverWoken == rx = "pending" /\ value # NoValue => rx_woken

\* A suspended receiver is woken when the sender is gone.
ReceiverWokenAtEnd == rx = "pending" /\ closed => rx_woken

\* A sender suspended in `closed` is woken when the channel is closed.
SenderWoken == tx = "pending" /\ closed => tx_woken

\* No value is accepted when nobody is left to receive it.
NoSendIntoVoid == [][accepted' # accepted => rx # "none"]_vars

\* A value in the slot is received, unless the receiver is dropped: whichever task
\* polls last is the one that is woken.
ValueReceived == value # NoValue ~> (value = NoValue \/ rx = "none")

\* Whoever awaits `closed` is told when the channel is closed, also when that
\* happens between two of its polls.
ClosedResolves == tx = "pending" /\ closed ~> tx # "pending"
=============================================================================
