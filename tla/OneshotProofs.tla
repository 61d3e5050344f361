---------------------------- MODULE OneshotProofs ----------------------------
(***************************************************************************)
(* Theorems on Oneshot, for every set of values and wakers and any number  *)
(* of splits.                                                              *)
(*                                                                         *)
(* The invariants are not inductive as they stand.  That no value is       *)
(* overwritten rests on Fresh: a channel that is not closed has never      *)
(* carried a value, for sending one closes it.  That wakers reach the      *)
(* pending task rests on Registered: who is pending has stored the waker   *)
(* of its last poll, also when an earlier pair of handles left one behind. *)
(***************************************************************************)
EXTENDS Oneshot, SequenceTheorems, TLAPS

Fresh ==
    ~closed => /\ value = NoValue
               /\ accepted = <<>>
               /\ received = <<>>
               /\ ~ended

Registered ==
    /\ rx = "pending" => recv_waker = rx_poller
    /\ tx = "pending" => close_waker = tx_poller

\* A sender outlives its receiver only on a closed channel.
Deserted == tx # "none" /\ rx = "none" => closed

\* The end was announced when the slot was empty, for good.
EndEmpty == ended => value = NoValue

IInv ==
    /\ TypeOK
    /\ Fresh
    /\ Registered
    /\ Deserted
    /\ EndEmpty
    /\ ValueKept
    /\ ReceiverWoken
    /\ SenderWoken

-----------------------------------------------------------------------------
(* What the history says when a value is stored and when it is taken.      *)

LEMMA StoreValue ==
    ASSUME NEW v \in Values
    PROVE  Append(<<>>, v) = <<>> \o <<v>>
  OBVIOUS

LEMMA TakeValue ==
    ASSUME NEW r \in Seq(Values), NEW v \in Values
    PROVE  r \o <<v>> = Append(r, v) \o <<>>
<1>1. Append(r, v) = r \o <<v>>
  BY AppendProperties, ConcatProperties
<1>2. Append(r, v) \in Seq(Values)
  BY AppendProperties
<1> QED BY <1>1, <1>2, ConcatEmptySeq

-----------------------------------------------------------------------------
(* The invariant.                                                          *)

LEMMA InitInvariant == Init => IInv
<1> SUFFICES ASSUME Init PROVE IInv
  OBVIOUS
<1> USE OneshotAssumption DEF Init
<1>1. <<>> \in Seq(Values)
  BY EmptySeq
<1>2. TypeOK
  <2>1. accepted \in Seq(Values) /\ received \in Seq(Values)
    BY <1>1
  <2>2. splits \in 0..MaxSplits
    OBVIOUS
  <2>3. {closed, tx_woken, rx_woken, ended, owned} \subseteq BOOLEAN
    OBVIOUS
  <2> QED
    BY <2>1, <2>2, <2>3 DEF TypeOK
<1>3. ValueKept
  BY <1>1, ConcatEmptySeq DEF ValueKept
<1> QED
  BY <1>2, <1>3
  DEF IInv, Fresh, Registered, Deserted, EndEmpty, ReceiverWoken, SenderWoken

\* One lemma per action, grouped by what it does to the slot: sending ...
LEMMA SendInvariant ==
    ASSUME IInv, NEW v \in Values, Send(v)
    PROVE  IInv'
<1> USE OneshotAssumption DEF IInv, life
<1> SUFFICES ASSUME MaySend PROVE IInv'
  BY DEF Send, MaySend, TypeOK, Fresh, Registered, Deserted, EndEmpty,
         ValueKept, ReceiverWoken, SenderWoken
<1>1. value = NoValue /\ accepted = <<>> /\ received = <<>> /\ ~ended
  BY DEF MaySend, Fresh
<1>2. value' = v /\ accepted' = <<v>> /\ received' = <<>>
  BY <1>1 DEF Send
<1>3. TypeOK'
  BY <1>2 DEF Send, WakeReceiver, TypeOK
<1>4. ValueKept'
  BY <1>2 DEF ValueKept
<1>5. ReceiverWoken'
  BY DEF Send, WakeReceiver, Registered, ReceiverWoken
<1> QED
  BY <1>1, <1>3, <1>4, <1>5
  DEF Send, Fresh, Registered, Deserted, EndEmpty, SenderWoken

\* ... receiving ...
LEMMA AnswerInvariant ==
    ASSUME IInv, Answer,
           closed' = closed, recv_waker' = recv_waker, close_waker' = close_waker,
           tx' = tx, tx_poller' = tx_poller, tx_woken' = tx_woken,
           UNCHANGED life, accepted' = accepted,
           rx # "none",
           \/ UNCHANGED receiver
           \/ rx' = "idle" /\ rx_poller' = NoWaker /\ rx_woken' = FALSE
    PROVE  IInv'
<1> USE OneshotAssumption DEF IInv, life
<1>1. CASE MayEnd /\ ended' = TRUE /\ UNCHANGED <<value, received>>
  BY <1>1 DEF MayEnd, receiver, TypeOK, Fresh, Registered, Deserted, EndEmpty,
              ValueKept, ReceiverWoken, SenderWoken
<1>2. CASE /\ HasValue
           /\ value' = NoValue
           /\ received' = Append(received, value)
           /\ UNCHANGED ended
  <2>1. value \in Values /\ received \in Seq(Values)
    BY <1>2 DEF HasValue, TypeOK
  <2>2. received \o <<value>> = received' \o <<>> /\ received' \in Seq(Values)
    BY <1>2, <2>1, TakeValue, AppendProperties
  <2>3. ValueKept'
    BY <1>2, <2>2 DEF ValueKept, HasValue
  <2>4. TypeOK'
    BY <1>2, <2>2 DEF receiver, TypeOK
  <2> QED
    BY <1>2, <2>3, <2>4 DEF HasValue, receiver, Fresh, Registered, Deserted,
                            EndEmpty, ReceiverWoken, SenderWoken
<1> QED BY <1>1, <1>2 DEF Answer

\* ... closing ...
LEMMA CloseInvariant ==
    ASSUME IInv, Close \/ DropReceiver
    PROVE  IInv'
<1> USE OneshotAssumption DEF IInv, life
<1>1. CloseAndWake
  BY DEF Close, DropReceiver, ClosedByReceiver
<1>2. /\ UNCHANGED <<value, recv_waker, close_waker, tx, tx_poller, life, history>>
      /\ \/ UNCHANGED receiver
         \/ rx' = "none" /\ rx_poller' = NoWaker /\ rx_woken' = FALSE
  BY DEF Close, DropReceiver
<1>3. closed'
  BY <1>1 DEF CloseAndWake
<1>4. closed' \in BOOLEAN /\ tx_woken' \in BOOLEAN
  BY <1>1 DEF CloseAndWake, WakeSender, TypeOK
<1>5. TypeOK'
  BY <1>2, <1>4 DEF receiver, history, TypeOK
<1>6. SenderWoken'
  BY <1>1, <1>2 DEF CloseAndWake, WakeSender, Registered, SenderWoken
<1>7. EndEmpty' /\ ValueKept'
  BY <1>2 DEF history, EndEmpty, ValueKept
<1>8. Registered' /\ ReceiverWoken'
  BY <1>2 DEF receiver, Registered, ReceiverWoken
<1> QED
  BY <1>3, <1>5, <1>6, <1>7, <1>8 DEF Fresh, Deserted

\* The steps, whatever handle they go through.
LEMMA NextCases ==
    ASSUME Next
    PROVE  \/ \E own \in BOOLEAN : Handles(own)
           \/ \E v \in Values : Send(v)
           \/ DropSender
           \/ \E w \in Wakers : PollClosed(w)
           \/ CancelClosed
           \/ Close \/ DropReceiver
           \/ TryRecv
           \/ PollReady
           \/ \E w \in Wakers : PollPending(w)
           \/ CancelRecv
  BY DEF Next, Split, IntoSplit, SenderRefCall, SenderCall, Sending,
         ReceiverRefCall, ReceiverCall, Receiving

\* ... and all that leaves the value and its history alone.
LEMMA StepInvariant ==
    ASSUME IInv, [Next]_vars
    PROVE  IInv'
<1> USE OneshotAssumption DEF life
<1>1. ASSUME NEW own \in BOOLEAN, Handles(own) PROVE IInv'
  BY <1>1 DEF IInv, Handles, slot, history, TypeOK, Fresh, Registered, Deserted,
              EndEmpty, ValueKept, ReceiverWoken, SenderWoken
<1>2. ASSUME NEW v \in Values, Send(v) PROVE IInv'
  BY <1>2, SendInvariant
<1>3. CASE DropSender
  BY <1>3 DEF IInv, DropSender, receiver, history, TypeOK, Fresh, Registered,
              Deserted, EndEmpty, ValueKept, ReceiverWoken, SenderWoken
<1>4. ASSUME NEW w \in Wakers, PollClosed(w) PROVE IInv'
  BY <1>4 DEF IInv, PollClosed, receiver, history, TypeOK, Fresh, Registered,
              Deserted, EndEmpty, ValueKept, ReceiverWoken, SenderWoken
<1>5. CASE CancelClosed
  BY <1>5 DEF IInv, CancelClosed, slot, receiver, history, TypeOK, Fresh,
              Registered, Deserted, EndEmpty, ValueKept, ReceiverWoken,
              SenderWoken
<1>6. CASE Close \/ DropReceiver
  BY <1>6, CloseInvariant
<1>7. CASE TryRecv
  BY <1>7, AnswerInvariant DEF TryRecv, sender, receiver
<1>8. CASE PollReady
  BY <1>8, AnswerInvariant DEF PollReady, sender
<1>9. ASSUME NEW w \in Wakers, PollPending(w) PROVE IInv'
  BY <1>9 DEF IInv, PollPending, sender, history, TypeOK, Fresh, Registered,
              Deserted, EndEmpty, ValueKept, ReceiverWoken, SenderWoken
<1>10. CASE CancelRecv
  BY <1>10 DEF IInv, CancelRecv, slot, sender, history, TypeOK, Fresh,
               Registered, Deserted, EndEmpty, ValueKept, ReceiverWoken,
               SenderWoken
<1>11. CASE UNCHANGED vars
  BY <1>11 DEF IInv, vars, slot, sender, receiver, history, TypeOK, Fresh,
               Registered, Deserted, EndEmpty, ValueKept, ReceiverWoken,
               SenderWoken
<1> QED
  BY <1>1, <1>2, <1>3, <1>4, <1>5, <1>6, <1>7, <1>8, <1>9, <1>10, <1>11, NextCases

\* The invariant of every behaviour of the channel.
THEOREM Invariance == Spec => []IInv
<1>1. Init => IInv
  BY InitInvariant
<1>2. IInv /\ [Next]_vars => IInv'
  BY StepInvariant
<1> QED
  BY <1>1, <1>2, PTL DEF Spec

-----------------------------------------------------------------------------
\* The slot and the handles stay of their types.
THEOREM TypeCorrect == Spec => []TypeOK
<1>1. IInv => TypeOK
  BY DEF IInv
<1> QED
  BY <1>1, Invariance, PTL

\* An accepted value is received or in the slot, once.
THEOREM NoValueIsLost == Spec => []ValueKept
<1>1. IInv => ValueKept
  BY DEF IInv
<1> QED
  BY <1>1, Invariance, PTL

\* Whoever is told of the end has got everything that was ever accepted.
THEOREM TheEndIsFinal == Spec => []EndIsFinal
<1>1. IInv => EndIsFinal
  BY ConcatEmptySeq DEF IInv, TypeOK, EndEmpty, ValueKept, EndIsFinal
<1> QED
  BY <1>1, Invariance, PTL

\* A value wakes the receiver that waits for it.
THEOREM ValueWakesReceiver == Spec => []ReceiverWoken
<1>1. IInv => ReceiverWoken
  BY DEF IInv
<1> QED
  BY <1>1, Invariance, PTL

\* Closing wakes the sender that waits for it.
THEOREM CloseWakesSender == Spec => []SenderWoken
<1>1. IInv => SenderWoken
  BY DEF IInv
<1> QED
  BY <1>1, Invariance, PTL

\* No value is accepted when the receiver is gone.
THEOREM NothingSentIntoVoid == Spec => NoSendIntoVoid
<1>1. IInv /\ [Next]_vars => (accepted' # accepted => rx # "none")
  <2> SUFFICES ASSUME IInv, [Next]_vars, accepted' # accepted
               PROVE  rx # "none"
    OBVIOUS
  <2>1. PICK v \in Values : Send(v)
    BY NextCases DEF vars, slot, sender, receiver, history, Handles, DropSender,
           PollClosed, CancelClosed, Close, DropReceiver, TryRecv, PollReady,
           PollPending, CancelRecv
  <2>2. tx = "idle" /\ ~closed
    BY <2>1 DEF Send, MaySend
  <2> QED
    BY <2>2 DEF IInv, Deserted
<1> QED
  BY <1>1, Invariance, PTL DEF Spec, NoSendIntoVoid
=============================================================================
