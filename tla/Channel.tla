------------------------------- MODULE Channel -------------------------------
(***************************************************************************)
(* What a channel promises to its receiver, whatever its capacity and its  *)
(* handles: the elements come in the order they were sent, each once, and  *)
(* the end of the stream is announced only when nothing can follow it.     *)
(***************************************************************************)
EXTENDS Sequences

CONSTANTS Elements

VARIABLES
    buffer, \* sent and not yet received
    done,   \* whether no element can be sent any more
    answer  \* the last answer of the receiver: an element, or "end"

vars == <<buffer, done, answer>>

\* Elements may have been queued when the channel is made.
Init == buffer \in Seq(Elements) /\ done = FALSE /\ answer = "none"

\* The last element may be the one after which nothing can follow.
Send(e) ==
    /\ ~done
    /\ buffer' = Append(buffer, e)
    /\ done' \in BOOLEAN
    /\ UNCHANGED answer

Finish == done' = TRUE /\ UNCHANGED <<buffer, answer>>

Receive ==
    /\ buffer # <<>>
    /\ buffer' = Tail(buffer)
    /\ answer' = Head(buffer)
    /\ UNCHANGED done

End ==
    /\ done
    /\ buffer = <<>>
    /\ answer' = "end"
    /\ UNCHANGED <<buffer, done>>

Next == (\E e \in Elements : Send(e)) \/ Finish \/ Receive \/ End

Spec == Init /\ [][Next]_vars
=============================================================================
