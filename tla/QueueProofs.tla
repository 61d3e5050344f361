----------------------------- MODULE QueueProofs -----------------------------
(***************************************************************************)
(* Lemmas on the actions of Queue, for both channels: the mask stands for  *)
(* the closed bit and the number of sender handles, and the receiver is    *)
(* woken.  Each lemma is about one action and says what it preserves, and  *)
(* whether the channel is shut afterwards.                                 *)
(*                                                                         *)
(* MaskExact is not inductive: it does not say that the mask of a channel  *)
(* that is not split is 0 or 1, which split and re-split start from, nor   *)
(* that the last sender leaves exactly 1.  Coded does.                     *)
(***************************************************************************)
EXTENDS Queue, FiniteSetTheorems, TLAPS

-----------------------------------------------------------------------------
(* Arithmetic of the mask.                                                 *)

LEMMA Halves ==
    ASSUME NEW n \in Nat
    PROVE  /\ (2 * n) % 2 = 0 /\ (2 * n + 1) % 2 = 1
           /\ (2 * n) \div 2 = n /\ (2 * n + 1) \div 2 = n
  OBVIOUS

\* The mask of n senders, and the bit above which their number is kept.
Codes(n) == {2 * n, 2 * n + 1}

LEMMA CodesRead ==
    ASSUME NEW n \in Nat, NEW m \in Codes(n)
    PROVE  /\ m \in Nat
           /\ m \div 2 = n
           /\ IsClosed(m, TRUE) <=> m = 2 * n + 1
  BY Halves DEF Codes, IsClosed

LEMMA CodesWritten ==
    ASSUME NEW n \in Nat, NEW m \in Codes(n)
    PROVE  /\ Increased(m) \in Codes(n + 1)
           /\ IsClosed(Increased(m), TRUE) <=> IsClosed(m, TRUE)
           /\ Closed(m, TRUE) = 2 * n + 1
           /\ n > 1 => /\ ~IsLast(m)
                       /\ Decreased(m) \in Codes(n - 1)
                       /\ IsClosed(Decreased(m), TRUE) <=> IsClosed(m, TRUE)
           /\ n = 1 => IsLast(m) /\ Decreased(m) = 1
<1>1. CASE m = 2 * n
  BY <1>1, Halves, n + 1 \in Nat, 2 * n + 2 = 2 * (n + 1), 2 * n - 2 = 2 * (n - 1)
  DEF Codes, Increased, Closed, IsClosed, IsLast, Decreased
<1>2. CASE m = 2 * n + 1
  BY <1>2, Halves, n + 1 \in Nat, 2 * n + 2 = 2 * (n + 1), 2 * n - 2 = 2 * (n - 1)
  DEF Codes, Increased, Closed, IsClosed, IsLast, Decreased
<1> QED BY <1>1, <1>2 DEF Codes

-----------------------------------------------------------------------------
(* The invariant.                                                          *)

Senders == Cardinality(handles)

Coded ==
    /\ split => /\ mask \in Codes(Senders)
                /\ handles = {} => mask = 1
                /\ receiver = "dropped" => Shut
    /\ ~split => mask \in {0, 1} /\ handles = {} /\ receiver # "dropped"

\* Who is pending and was not woken can be woken.
Registered == receiver = "pending" => waker \/ woken

QInv == QueueTypeOK /\ Coded /\ Registered

LEMMA SendersType ==
    ASSUME NEW H \in SUBSET Tasks
    PROVE  /\ IsFiniteSet(H)
           /\ Cardinality(H) \in 0..Cardinality(Tasks)
           /\ Cardinality(H) = 0 <=> H = {}
<1> USE QueueAssumption
<1>1. IsFiniteSet(H) /\ Cardinality(H) <= Cardinality(Tasks)
  BY FS_Subset
<1>2. Cardinality(H) \in Nat /\ Cardinality(Tasks) \in Nat
  BY <1>1, FS_CardinalityType
<1> QED
  BY <1>1, <1>2, FS_EmptySet

\* The word has room for the closed bit next to every number of senders it holds.
LEMMA ClosedFits ==
    ASSUME NEW n \in Nat, 2 * n <= UsizeMax
    PROVE  2 * n + 1 <= UsizeMax
<1>1. UsizeMax \in Nat /\ UsizeMax % 2 = 1
  BY MaskAssumption
<1>2. 2 * n # UsizeMax
  BY <1>1, Halves
<1> QED
  BY <1>1, <1>2

LEMMA ShutType == Shut \in BOOLEAN
  BY DEF Shut, IsClosed

\* The number of senders, when there is a handle.
LEMMA Counted ==
    ASSUME QInv
    PROVE  /\ handles \in SUBSET Tasks
           /\ Senders \in Nat /\ (Senders = 0 <=> handles = {})
           /\ handles # {} => split /\ mask \in Codes(Senders)
<1>1. handles \in SUBSET Tasks /\ split \in BOOLEAN
  BY DEF QInv, QueueTypeOK
<1> QED
  BY <1>1, SendersType DEF QInv, Coded, Senders

LEMMA QueueInitInvariant ==
    ASSUME NEW n \in Nat, QueueInit(n)
    PROVE  QInv /\ ReceiverWoken /\ ~Shut
<1> USE DEF QueueInit
<1>1. queue \in Seq(Tasks)
  BY DEF SeqOf
<1>2. mask \in 0..UsizeMax
  BY MaskAssumption
<1>3. {waker, split, owned, woken} \subseteq BOOLEAN
  OBVIOUS
<1>4. QueueTypeOK
  BY <1>1, <1>2, <1>3 DEF QueueTypeOK
<1> QED
  BY <1>4 DEF QInv, Coded, Registered, ReceiverWoken, Shut, IsClosed

-----------------------------------------------------------------------------
(* The steps that change the mask.                                         *)

LEMMA SplitPreserves ==
    ASSUME QInv, NEW c \in Tasks, NEW own \in BOOLEAN, SplitQueue(c, own)
    PROVE  QInv' /\ ReceiverWoken' /\ Shut' = Shut
<1>1. mask \in {0, 1} /\ handles' = {c} /\ mask' = mask + 2 /\ ~split /\ split'
  BY DEF QInv, Coded, SplitQueue, Reset
<1>2. Cardinality(handles') = 1
  BY <1>1, FS_Singleton
<1>3. mask' \in Codes(Senders')
  BY <1>1, <1>2 DEF Codes, Senders
<1>4. mask' \in 0..UsizeMax
  BY <1>1, MaskAssumption
<1>5. QueueTypeOK'
  BY <1>1, <1>4 DEF QInv, QueueTypeOK, SplitQueue
<1>6. 2 % 2 = 0 /\ 3 % 2 = 1
  OBVIOUS
<1>7. Shut' = Shut
  BY <1>1, <1>6 DEF Shut, IsClosed
<1> QED
  BY <1>1, <1>3, <1>5, <1>7 DEF QInv, Coded, Registered, ReceiverWoken, SplitQueue

LEMMA ClonePreserves ==
    ASSUME QInv, NEW c \in Tasks, NEW d \in Tasks, Clone(c, d)
    PROVE  QInv' /\ (ReceiverWoken => ReceiverWoken') /\ Shut' = Shut
<1>1. handles \in SUBSET Tasks /\ c \in handles /\ d \notin handles
      /\ handles' = handles \cup {d} /\ mask' = Increased(mask) /\ split' = split
  BY DEF QInv, QueueTypeOK, Clone
<1>2. split /\ mask \in Codes(Senders) /\ Senders \in Nat
  BY <1>1, Counted
<1>3. Senders' = Senders + 1
  <2>1. IsFiniteSet(handles)
    BY <1>1, SendersType
  <2> QED
    BY <1>1, <2>1, FS_AddElement DEF Senders
<1>4. /\ mask' \in Codes(Senders')
      /\ IsClosed(mask', TRUE) <=> IsClosed(mask, TRUE)
  BY <1>1, <1>2, <1>3, CodesWritten
<1>5. mask' \in 0..UsizeMax
  <2>1. mask \in 0..UsizeMax /\ mask + 2 <= UsizeMax
    BY DEF QInv, QueueTypeOK, Clone, CanIncrease
  <2> QED
    BY <1>1, <2>1, MaskAssumption DEF Increased
<1>6. QueueTypeOK'
  BY <1>1, <1>5 DEF QInv, QueueTypeOK, Clone
<1>7. Shut' = Shut
  BY <1>1, <1>2, <1>4 DEF Shut, IsClosed
<1>8. Registered' /\ (ReceiverWoken => ReceiverWoken')
  BY <1>1 DEF QInv, Registered, ReceiverWoken, Clone
<1>9. Coded'
  <2>1. handles' # {} /\ receiver' = receiver
    BY <1>1 DEF Clone
  <2> QED
    BY <1>1, <1>2, <1>4, <1>7, <2>1 DEF QInv, Coded
<1> QED
  BY <1>6, <1>7, <1>8, <1>9 DEF QInv

\* A handle less; the last one leaves 1.
LEMMA HandleLess ==
    ASSUME QInv, NEW c \in handles,
           handles' = handles \ {c}, mask' = Decreased(mask),
           UNCHANGED <<split, receiver>>
    PROVE  /\ Coded'
           /\ mask' \in 0..UsizeMax
           /\ handles' \in SUBSET Tasks
           /\ IsLast(mask) <=> handles' = {}
           /\ Shut' <=> Shut \/ handles' = {}
<1>1. handles \in SUBSET Tasks /\ handles' \in SUBSET Tasks
  BY DEF QInv, QueueTypeOK
<1>2. split /\ mask \in Codes(Senders) /\ Senders \in Nat \ {0}
  BY Counted
<1>3. Senders' = Senders - 1 /\ (handles' = {} <=> Senders = 1)
  <2>1. Cardinality(handles \ {c}) = Cardinality(handles) - 1
    BY <1>1, SendersType, FS_RemoveElement
  <2>2. handles' = {} <=> Cardinality(handles') = 0
    BY <1>1, SendersType
  <2> QED
    BY <1>1, <1>2, <2>1, <2>2 DEF Senders
<1>4. /\ mask' \in Codes(Senders')
      /\ handles' = {} => mask' = 1
      /\ IsLast(mask) <=> handles' = {}
      /\ IsClosed(mask', TRUE) <=> IsClosed(mask, TRUE) \/ handles' = {}
  <2>1. CASE Senders = 1
    <3>1. mask' = 1 /\ IsLast(mask)
      BY <1>2, <2>1, CodesWritten
    <3>2. 1 \in Codes(0) /\ 1 - 1 = 0
      BY DEF Codes
    <3> QED
      BY <1>3, <2>1, <3>1, <3>2 DEF IsClosed
  <2>2. CASE Senders > 1
    <3>1. /\ mask' \in Codes(Senders') /\ ~IsLast(mask)
          /\ IsClosed(mask', TRUE) <=> IsClosed(mask, TRUE)
      BY <1>2, <1>3, <2>2, CodesWritten
    <3>2. handles' # {}
      BY <1>3, <2>2
    <3> QED
      BY <3>1, <3>2
  <2>3. Senders = 1 \/ Senders > 1
    BY <1>2
  <2> QED
    BY <2>1, <2>2, <2>3
<1>5. mask' \in 0..UsizeMax
  <2>1. mask \in 0..UsizeMax /\ UsizeMax >= 3
    BY MaskAssumption DEF QInv, QueueTypeOK
  <2> QED
    BY <2>1, MaskAssumption DEF Decreased, IsLast
<1>6. Shut' <=> Shut \/ handles' = {}
  BY <1>2, <1>4 DEF Shut
<1>7. Coded'
  BY <1>2, <1>4, <1>6 DEF QInv, Coded
<1> QED
  BY <1>1, <1>4, <1>5, <1>6, <1>7

LEMMA DropHandlePreserves ==
    ASSUME QInv, NEW c \in Tasks, DropHandle(c)
    PROVE  /\ QInv' /\ (ReceiverWoken => ReceiverWoken')
           /\ Shut' <=> Shut \/ handles' = {}
<1>1. c \in handles /\ handles' = handles \ {c} /\ mask' = Decreased(mask)
      /\ UNCHANGED <<queue, split, owned, receiver, answer>>
  BY DEF DropHandle
<1>2. /\ Coded' /\ mask' \in 0..UsizeMax /\ handles' \in SUBSET Tasks
      /\ IsLast(mask) <=> handles' = {}
      /\ Shut' <=> Shut \/ handles' = {}
  BY <1>1, HandleLess
<1>3. /\ waker' \in BOOLEAN /\ woken' \in BOOLEAN
      /\ Registered'
      /\ receiver = "pending" /\ (handles' = {} \/ woken) => woken'
  <2>1. CASE IsLast(mask)
    BY <1>1, <2>1
    DEF QInv, QueueTypeOK, Registered, DropHandle, LastWakes, WakeReceiver
  <2>2. CASE ~IsLast(mask)
    BY <1>1, <1>2, <2>2 DEF QInv, QueueTypeOK, Registered, DropHandle, LastWakes
  <2> QED
    BY <2>1, <2>2
<1>4. QueueTypeOK'
  BY <1>1, <1>2, <1>3 DEF QInv, QueueTypeOK
<1>5. ReceiverWoken => ReceiverWoken'
  BY <1>1, <1>3 DEF ReceiverWoken
<1> QED
  BY <1>2, <1>3, <1>4, <1>5 DEF QInv

LEMMA ClosePreserves ==
    ASSUME QInv, CloseMask \/ DropReceiverHandle
    PROVE  QInv' /\ (ReceiverWoken => ReceiverWoken') /\ Shut'
<1>1. /\ mask' = Closed(mask, split)
      /\ UNCHANGED <<queue, waker, split, owned, handles, answer>>
  BY DEF CloseMask, DropReceiverHandle
<1>2. \/ UNCHANGED <<receiver, woken>>
      \/ split /\ receiver' = "dropped" /\ woken' = FALSE
  BY DEF CloseMask, DropReceiverHandle
<1>3. handles \in SUBSET Tasks /\ split \in BOOLEAN
  BY DEF QInv, QueueTypeOK
<1>4. Senders \in Nat /\ (Senders = 0 <=> handles = {}) /\ Senders' = Senders
  BY <1>1, Counted DEF Senders
<1>5. CASE split
  <2>1. mask' = 2 * Senders + 1
    BY <1>1, <1>4, <1>5, CodesWritten DEF QInv, Coded
  <2>2. mask' \in Codes(Senders) /\ IsClosed(mask', TRUE)
    BY <1>4, <2>1, CodesRead DEF Codes
  <2>3. mask' \in 0..UsizeMax
    <3>1. mask \in Codes(Senders) /\ mask <= UsizeMax
      BY <1>5, MaskAssumption DEF QInv, Coded, QueueTypeOK
    <3>2. 2 * Senders <= UsizeMax
      BY <1>4, <3>1, MaskAssumption DEF Codes
    <3> QED
      BY <1>4, <2>1, <3>2, ClosedFits, MaskAssumption
  <2>4. QueueTypeOK'
    BY <1>1, <1>2, <2>3 DEF QInv, QueueTypeOK
  <2>5. split' /\ Shut'
    BY <1>1, <1>5, <2>2 DEF Shut, IsClosed
  <2>6. handles' = {} => mask' = 1
    BY <1>1, <1>4, <2>1
  <2>7. Coded'
    BY <1>4, <2>2, <2>5, <2>6 DEF Coded
  <2> QED
    BY <1>1, <1>2, <2>4, <2>5, <2>7 DEF QInv, Registered, ReceiverWoken
<1>6. CASE ~split
  <2>1. mask' = 1 /\ 1 \in 0..UsizeMax
    BY <1>1, <1>3, <1>6, MaskAssumption DEF Closed
  <2>2. QueueTypeOK'
    BY <1>1, <1>2, <1>6, <2>1 DEF QInv, QueueTypeOK
  <2>3. Shut'
    BY <1>1, <1>6, <2>1 DEF Shut, IsClosed
  <2> QED
    BY <1>1, <1>2, <1>6, <2>1, <2>2, <2>3
    DEF QInv, Coded, Registered, ReceiverWoken
<1> QED BY <1>3, <1>5, <1>6

LEMMA RejoinPreserves ==
    ASSUME QInv, Rejoin
    PROVE  QInv' /\ ReceiverWoken' /\ Shut /\ Shut'
<1>1. mask = 1 /\ mask' = 1 /\ handles' = {} /\ ~split' /\ receiver' = "idle"
  BY DEF QInv, Coded, Rejoin, Lent
<1>2. QueueTypeOK'
  BY <1>1 DEF QInv, QueueTypeOK, Rejoin
<1>3. Shut /\ Shut'
  BY <1>1, 1 % 2 = 1 DEF Shut, IsClosed
<1> QED
  BY <1>1, <1>2, <1>3 DEF QInv, Coded, Registered, ReceiverWoken

-----------------------------------------------------------------------------
(* The steps that leave the mask and the handles alone.                    *)

LEMMA PushPreserves ==
    ASSUME QInv, NEW c \in Tasks, PushAndWake(c)
    PROVE  QInv' /\ (ReceiverWoken => ReceiverWoken') /\ Shut' = Shut
<1> USE DEF PushAndWake
<1>1. queue' \in Seq(Tasks)
  BY DEF QInv, QueueTypeOK
<1>2. QueueTypeOK'
  BY <1>1 DEF QInv, QueueTypeOK, WakeReceiver
<1>3. Coded' /\ Shut' = Shut
  BY DEF QInv, Coded, Senders, Shut
<1> QED
  BY <1>2, <1>3 DEF QInv, Registered, ReceiverWoken, WakeReceiver

LEMMA PopPreserves ==
    ASSUME QInv, Pop
    PROVE  QInv' /\ ReceiverWoken' /\ Shut' = Shut
<1> USE DEF Pop, Resume
<1>1. queue' \in Seq(Tasks) /\ answer' \in Tasks
  BY DEF QInv, QueueTypeOK
<1>2. QueueTypeOK'
  BY <1>1 DEF QInv, QueueTypeOK
<1>3. Coded' /\ Shut' = Shut
  BY DEF QInv, Coded, Senders, Shut
<1> QED
  BY <1>2, <1>3 DEF QInv, Registered, ReceiverWoken

LEMMA DisconnectPreserves ==
    ASSUME QInv, Disconnect
    PROVE  QInv' /\ ReceiverWoken' /\ Shut' = Shut
<1> USE DEF Disconnect, Resume
<1>1. QueueTypeOK'
  BY DEF QInv, QueueTypeOK
<1>2. Coded' /\ Shut' = Shut
  BY DEF QInv, Coded, Senders, Shut
<1> QED
  BY <1>1, <1>2 DEF QInv, Registered, ReceiverWoken

LEMMA SuspendPreserves ==
    ASSUME QInv, Suspend
    PROVE  /\ QInv' /\ Shut' = Shut
           /\ ~(split /\ handles = {}) => ReceiverWoken'
<1> USE DEF Suspend
<1>1. QueueTypeOK'
  BY DEF QInv, QueueTypeOK
<1>2. Coded' /\ Shut' = Shut
  BY DEF QInv, Coded, Senders, Shut
<1> QED
  BY <1>1, <1>2 DEF QInv, Registered, ReceiverWoken

LEMMA CancelRecvPreserves ==
    ASSUME QInv, CancelRecv
    PROVE  QInv' /\ ReceiverWoken' /\ Shut' = Shut
<1> USE DEF CancelRecv
<1>1. QueueTypeOK'
  BY DEF QInv, QueueTypeOK
<1>2. Coded' /\ Shut' = Shut
  BY DEF QInv, Coded, Senders, Shut
<1> QED
  BY <1>1, <1>2 DEF QInv, Registered, ReceiverWoken

LEMMA StutterPreserves ==
    ASSUME QInv, UNCHANGED channel
    PROVE  QInv' /\ (ReceiverWoken => ReceiverWoken') /\ Shut' = Shut
  BY DEF channel, QInv, QueueTypeOK, Coded, Senders, Shut, Registered, ReceiverWoken

\* An open channel that is split has senders.
LEMMA OpenHasSenders ==
    ASSUME QInv, ~Shut
    PROVE  ~(split /\ handles = {})
  BY 1 % 2 = 1 DEF QInv, Coded, Shut, IsClosed

LEMMA MaskOfSenders == QInv => MaskExact
<1> SUFFICES ASSUME QInv PROVE MaskExact
  OBVIOUS
<1>1. Senders \in Nat /\ (handles = {} => Senders = 0) /\ split \in BOOLEAN
  BY Counted DEF QInv, QueueTypeOK
<1>2. mask \div 2 = Senders
  BY <1>1, CodesRead DEF QInv, Coded, Codes
<1>3. split /\ (handles = {} \/ receiver = "dropped") => Shut
  BY OpenHasSenders DEF QInv, Coded
<1> QED
  BY <1>2, <1>3 DEF MaskExact, Senders
=============================================================================
