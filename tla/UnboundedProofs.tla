--------------------------- MODULE UnboundedProofs ---------------------------
(***************************************************************************)
(* Theorems on UnboundedChannel, for every finite set of tasks and every   *)
(* width of the mask: the mask counts the sender handles, the receiver is  *)
(* woken, and the channel keeps the promise of Channel.  What each action  *)
(* of Queue preserves is in QueueProofs.                                   *)
(***************************************************************************)
EXTENDS UnboundedChannel, QueueProofs

IInv == QInv /\ ReceiverWoken

\* The steps, whatever handle they go through.
LEMMA NextCases ==
    ASSUME Next
    PROVE  \/ \E c \in Tasks :
               \/ \E own \in BOOLEAN : SplitQueue(c, own)
               \/ DropHandle(c)
               \/ \E d \in Tasks : Clone(c, d)
               \/ Send(c)
           \/ DropReceiverHandle
           \/ Rejoin
           \/ CloseMask
           \/ Receive \/ Pend \/ CancelRecv
  BY DEF Next, ChannelCall, Split, IntoSplit, SenderRefCall, SenderCall, Sending,
         ReceiverRefCall, ReceiverCall, Receiving, Recv

\* What a step does: it keeps the invariant, never reopens the channel, and closes
\* it only where nothing is sent or received.
LEMMA StepPreserves ==
    ASSUME IInv, [Next]_channel
    PROVE  /\ IInv'
           /\ Shut => Shut'
           /\ Shut' # Shut => UNCHANGED <<queue, answer>>
<1> DEFINE Goal == /\ IInv'
                   /\ Shut => Shut'
                   /\ Shut' # Shut => UNCHANGED <<queue, answer>>
<1> USE DEF IInv
<1>1. ASSUME NEW c \in Tasks, NEW own \in BOOLEAN, SplitQueue(c, own) PROVE Goal
  BY <1>1, SplitPreserves
<1>2. ASSUME NEW c \in Tasks, NEW d \in Tasks, Clone(c, d) PROVE Goal
  BY <1>2, ClonePreserves
<1>3. ASSUME NEW c \in Tasks, DropHandle(c) PROVE Goal
  <2>1. UNCHANGED <<queue, answer>>
    BY <1>3 DEF DropHandle
  <2> QED
    BY <1>3, <2>1, DropHandlePreserves
<1>4. CASE CloseMask \/ DropReceiverHandle
  <2>1. UNCHANGED <<queue, answer>>
    BY <1>4 DEF CloseMask, DropReceiverHandle
  <2> QED
    BY <1>4, <2>1, ClosePreserves
<1>5. CASE Rejoin
  <2>1. UNCHANGED <<queue, answer>>
    BY <1>5 DEF Rejoin
  <2> QED
    BY <1>5, <2>1, RejoinPreserves
<1>6. ASSUME NEW c \in Tasks, Send(c) PROVE Goal
  BY <1>6, PushPreserves DEF Send
<1>7. CASE Receive
  BY <1>7, PopPreserves, DisconnectPreserves DEF Receive
<1>8. CASE Pend
  BY <1>8, SuspendPreserves, OpenHasSenders DEF Pend, IsEnd
<1>9. CASE CancelRecv
  BY <1>9, CancelRecvPreserves
<1>10. CASE UNCHANGED channel
  BY <1>10, StutterPreserves
<1> HIDE DEF IInv, Goal
<1> QED
  BY <1>1, <1>2, <1>3, <1>4, <1>5, <1>6, <1>7, <1>8, <1>9, <1>10, NextCases DEF Goal

\* The invariant of every behaviour of the channel.
THEOREM Invariance == Spec => []IInv
<1>1. Init => IInv
  BY QueueInitInvariant, UnboundedAssumption DEF Init, IInv
<1> QED
  BY <1>1, StepPreserves, PTL DEF Spec

-----------------------------------------------------------------------------
\* The mask of mask.rs counts the sender handles, and says closed when no
\* sender or no receiver is left, over cloning, dropping and re-splitting.
THEOREM MaskIsExact == Spec => []MaskExact
<1>1. IInv => MaskExact
  BY MaskOfSenders DEF IInv
<1> QED
  BY <1>1, Invariance, PTL

\* Elements and the end of the senders wake the receiver that waits for them.
THEOREM ReceiverIsWoken == Spec => []ReceiverWoken
<1>1. IInv => ReceiverWoken
  BY DEF IInv
<1> QED
  BY <1>1, Invariance, PTL

\* The channel stays of its type; the number of senders never leaves the word it is
\* kept in, whatever its width.
THEOREM TypeCorrect == Spec => []TypeOK
<1>1. IInv => TypeOK
  BY DEF IInv, QInv, TypeOK
<1> QED
  BY <1>1, Invariance, PTL

-----------------------------------------------------------------------------
\* Every step is a step of the abstract channel, or invisible.
LEMMA AbstractStep ==
    ASSUME IInv, [Next]_channel
    PROVE  [Abstract!Next]_(Abstract!vars)
<1> USE DEF Abstract!vars
<1>1. Shut \in BOOLEAN /\ Shut' \in BOOLEAN
  BY DEF Shut, IsClosed
<1>2. ASSUME NEW c \in Tasks, Send(c) PROVE Abstract!Next
  <2>1. ~Shut /\ queue' = Append(queue, c) /\ UNCHANGED answer
    BY <1>2 DEF Send, Accepts, PushAndWake
  <2> QED
    BY <1>1, <2>1 DEF Abstract!Next, Abstract!Send
<1>3. CASE Pop
  <2>1. UNCHANGED Shut
    BY <1>3 DEF Pop, Shut
  <2> QED
    BY <1>3, <2>1 DEF Abstract!Next, Abstract!Receive, Pop
<1>4. CASE IsEnd /\ Disconnect
  <2>1. UNCHANGED Shut
    BY <1>4 DEF Disconnect, Shut
  <2> QED
    BY <1>4, <2>1 DEF Abstract!Next, Abstract!End, IsEnd, Disconnect
<1>5. CASE UNCHANGED <<queue, answer>>
  <2>1. Shut' = Shut \/ Shut'
    BY <1>1, StepPreserves
  <2> QED
    BY <1>5, <2>1 DEF Abstract!Next, Abstract!Finish
<1>6. \/ \E c \in Tasks : Send(c)
      \/ Pop
      \/ IsEnd /\ Disconnect
      \/ UNCHANGED <<queue, answer>>
  BY NextCases DEF channel, SplitQueue, DropHandle, Clone, DropReceiverHandle, Rejoin,
         CloseMask, Receive, Pend, Suspend, CancelRecv
<1> QED
  BY <1>2, <1>3, <1>4, <1>5, <1>6

\* Elements come in order and once, and nothing follows the end of the stream:
\* the unbounded channel implements Channel.
THEOREM ImplementsChannel == Spec => Refines
<1>1. Init => Abstract!Init
  BY UnboundedAssumption DEF Init, QueueInit, SeqOf, Abstract!Init, Shut, IsClosed
<1> QED
  BY <1>1, AbstractStep, Invariance, PTL DEF Spec, Refines, Abstract!Spec
=============================================================================
