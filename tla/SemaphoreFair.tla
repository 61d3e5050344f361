---------------------------- MODULE SemaphoreFair ----------------------------
(***************************************************************************)
(* The semaphore under an executor that keeps its word.                    *)
(*                                                                         *)
(* Tasks use the semaphore the way src/src/semaphore.rs shows it in use:   *)
(* they await an Acquire future and drop the Permit they got.  The         *)
(* executor polls a future once when it is created and again each time the *)
(* waker it passed was woken, never spontaneously, so a lost wake-up       *)
(* suspends a task for good.  Futures may still be cancelled at any point, *)
(* granted or not, and the semaphore may be closed.                        *)
(***************************************************************************)
EXTENDS Semaphore

\* A future is polled for the first time, or because it was woken.
Scheduled(c) ==
    /\ state[c] = "inert" \/ notified[c]
    /\ outcome[c] \in {"none", "pending"}
    /\ \E w \in Wakers : Poll(c, w)

\* `.await` drops the future when it resolves; the permit outlives it.
Finish(c) == outcome[c] \in {"ok", "err"} /\ DropAcquire(c)

Cancel(c) == outcome[c] \in {"none", "pending"} /\ DropAcquire(c)

Release(c) == state[c] = "absent" /\ DropPermit(c)

FairNext ==
    \/ Close
    \/ \E c \in Clients :
        \/ \E n \in Requests : Acquire(c, n)
        \/ Scheduled(c)
        \/ Finish(c)
        \/ Cancel(c)
        \/ Release(c)

\* Nothing obliges a client to acquire or to cancel, or anybody to close.
FairSpec ==
    /\ Init /\ [][FairNext]_vars
    /\ \A c \in Clients :
        /\ WF_vars(Scheduled(c))
        /\ WF_vars(Finish(c))
        /\ WF_vars(Release(c))

\* Every suspended acquisition is resolved in the end (or cancelled), whatever
\* the others request, cancel or hold on to for a while: big requests are not
\* starved by small ones, and no wake-up is lost.
NoStarvation ==
    \A c \in Clients : outcome[c] = "pending" ~> outcome[c] # "pending"
=============================================================================
