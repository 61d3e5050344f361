---------------------------- MODULE SemaphoreImpl ----------------------------
(***************************************************************************)
(* The semaphore as src/src/semaphore.rs computes it: the waiters are      *)
(* linked through pointers inside the futures, add_permits serves them in  *)
(* a loop and close wakes them in a loop, one iteration per step.  A call  *)
(* that started such a loop ends before the next call begins.              *)
(*                                                                         *)
(* Module Semaphore does each of these calls at once, on a sequence and in *)
(* closed form; Refines states that nobody can tell the difference.        *)
(***************************************************************************)
EXTENDS Integers, Sequences, FiniteSets

CONSTANTS
    Clients, Wakers, NoWaker, Requests, Amounts, InitPermits, UsizeMax,
    MaxSupply, MaxLeaked,
    Null         \* ptr::null()

ASSUME ImplAssumption ==
    /\ Null \notin Clients
    /\ IsFiniteSet(Clients)
    /\ NoWaker \notin Wakers
    /\ UsizeMax \in Nat
    /\ {MaxSupply, MaxLeaked} \subseteq Nat
    /\ Requests \cup Amounts \subseteq 0..UsizeMax
    /\ InitPermits \in 0..UsizeMax
    /\ InitPermits <= MaxSupply

VARIABLES
    permits, closed, state, wants, assigned, waker, held, leaked,
    outcome, poller, notified, supply,   \* as in Semaphore
    head, tail,  \* WaiterQueue
    next, prev,  \* Waiter.next and Waiter.prev
    todo,        \* the counter n of a running add_permits, 0 without one
    closing,     \* whether close is running ...
    curr         \* ... and the waiter its loop has reached

links == <<head, tail, next, prev>>
loops == <<todo, closing, curr>>
semaphore == <<permits, closed, state, wants, assigned, waker, held, leaked,
               outcome, poller, notified, supply>>
vars == <<semaphore, links, loops>>

-----------------------------------------------------------------------------
\* The nodes that a walk from c along the pointers comes to, at most all of them;
\* having come to Null it stays there.  List is what a walk over the queue reads.
Walk(pointer, c) ==
    LET Node[i \in 1..Cardinality(Clients)] ==
          IF i = 1 THEN c ELSE IF Node[i-1] = Null THEN Null ELSE pointer[Node[i-1]]
    IN  Node
Follow(pointer, c) ==
    [i \in 1..Cardinality({j \in 1..Cardinality(Clients) : Walk(pointer, c)[j] # Null})
       |-> Walk(pointer, c)[i]]
List == Follow(next, head)

S == INSTANCE Semaphore WITH waiters <- List

Init ==
    /\ head = Null
    /\ tail = Null
    /\ next = [c \in Clients |-> Null]
    /\ prev = [c \in Clients |-> Null]
    /\ todo = 0
    /\ closing = FALSE
    /\ curr = Null
    /\ S!Init

Idle == todo = 0 /\ ~closing

-----------------------------------------------------------------------------
(* WaiterQueue *)

\* Mutant of LinkBack: the new tail does not point back.
LinkBackOneWay(c) == prev
LinkBack(c) == IF tail = Null THEN prev ELSE [prev EXCEPT ![c] = tail]

PushBack(c) ==
    /\ head' = IF tail = Null THEN c ELSE head
    /\ next' = IF tail = Null THEN next ELSE [next EXCEPT ![tail] = c]
    /\ prev' = LinkBack(c)
    /\ tail' = c

\* The memory of the removed waiter is freed: its own links are reset.
TryRemove(c) ==
    /\ head' = IF prev[c] = Null THEN next[c] ELSE head
    /\ tail' = IF next[c] = Null THEN prev[c] ELSE tail
    /\ next' = [d \in Clients |-> IF d = c THEN Null
                                  ELSE IF d = prev[c] THEN next[c] ELSE next[d]]
    /\ prev' = [d \in Clients |-> IF d = c THEN Null
                                  ELSE IF d = next[c] THEN prev[c] ELSE prev[d]]

\* The links of a waiter that is not in the queue are freed with it.
Free(c) ==
    /\ next' = [next EXCEPT ![c] = Null]
    /\ prev' = [prev EXCEPT ![c] = Null]
    /\ UNCHANGED <<head, tail>>

\* Mutant of TailAfterPop: the tail outlives the last waiter.
TailAfterPopStale == tail
TailAfterPop == IF next[head] = Null THEN Null ELSE tail

PopFront ==
    /\ head' = next[head]
    /\ tail' = TailAfterPop
    /\ prev' = IF next[head] = Null THEN prev
               ELSE [prev EXCEPT ![next[head]] = Null]
    /\ UNCHANGED next

-----------------------------------------------------------------------------
(* Shared::add_permits, one iteration at a time.                           *)
Diff(c) == wants[c] - assigned[c]

StorePermits ==
    /\ head = Null
    /\ permits' = S!SaturatingAdd(permits, todo)
    /\ todo' = 0
    /\ UNCHANGED <<state, assigned, notified, links>>

GrantSome ==
    /\ head # Null
    /\ Diff(head) > todo
    /\ assigned' = [assigned EXCEPT ![head] = Diff(head) - todo]
    /\ todo' = 0
    /\ UNCHANGED <<permits, state, notified, links>>

\* Mutant of Rest: the loop goes on with what it started with.
RestUnspent(c) == todo
Rest(c) == todo - Diff(c)

GrantAll ==
    /\ head # Null
    /\ Diff(head) <= todo
    /\ assigned' = [assigned EXCEPT ![head] = wants[head]]
    /\ todo' = Rest(head)
    /\ state' = [state EXCEPT ![head] = "woken"]
    /\ notified' = S!Wake({head})
    /\ PopFront
    /\ UNCHANGED permits

AddStep ==
    /\ todo > 0
    /\ StorePermits \/ GrantSome \/ GrantAll
    /\ UNCHANGED <<closed, wants, waker, held, leaked, outcome, poller, supply,
                   closing, curr>>

AddPermits(n) ==
    /\ supply + n <= MaxSupply
    /\ todo' = n
    /\ supply' = supply + n
    /\ UNCHANGED <<permits, closed, state, wants, assigned, waker, held, leaked,
                   outcome, poller, notified, links, closing, curr>>

DropPermit(c) ==
    /\ held[c] > 0
    /\ held' = [held EXCEPT ![c] = 0]
    /\ todo' = held[c]
    /\ UNCHANGED <<permits, closed, state, wants, assigned, waker, leaked,
                   outcome, poller, notified, supply, links, closing, curr>>

DropAcquire(c) ==
    /\ S!Pollable(c)
    /\ IF state[c] = "waiting" THEN TryRemove(c) ELSE Free(c)
    /\ todo' = assigned[c]
    /\ state' = [state EXCEPT ![c] = "absent"]
    /\ assigned' = [assigned EXCEPT ![c] = 0]
    /\ wants' = [wants EXCEPT ![c] = 0]
    /\ waker' = [waker EXCEPT ![c] = NoWaker]
    /\ outcome' = [outcome EXCEPT ![c] = "none"]
    /\ poller' = [poller EXCEPT ![c] = NoWaker]
    /\ notified' = [notified EXCEPT ![c] = FALSE]
    /\ UNCHANGED <<permits, closed, held, leaked, supply, closing, curr>>

-----------------------------------------------------------------------------
(* Shared::close and the loop of WaiterQueue::wake_all.                    *)
Close ==
    /\ closing' = TRUE
    /\ curr' = head
    /\ UNCHANGED <<semaphore, links, todo>>

WakeStep ==
    /\ closing
    /\ curr # Null
    /\ state' = [state EXCEPT ![curr] = "woken"]
    /\ notified' = S!Wake({curr})
    /\ curr' = next[curr]
    /\ UNCHANGED <<permits, closed, wants, assigned, waker, held, leaked,
                   outcome, poller, supply, links, todo, closing>>

CloseDone ==
    /\ closing
    /\ curr = Null
    /\ closed' = TRUE
    /\ head' = Null
    /\ tail' = Null
    /\ closing' = FALSE
    /\ UNCHANGED <<permits, state, wants, assigned, waker, held, leaked,
                   outcome, poller, notified, supply, next, prev, todo, curr>>

-----------------------------------------------------------------------------
PollInertEnqueue(c, w) ==
    /\ S!Pollable(c)
    /\ ~closed
    /\ state[c] = "inert"
    /\ wants[c] > permits
    /\ assigned' = [assigned EXCEPT ![c] = S!Taken(wants[c])]
    /\ permits' = S!Remaining(wants[c])
    /\ state' = [state EXCEPT ![c] = "waiting"]
    /\ waker' = [waker EXCEPT ![c] = w]
    /\ PushBack(c)
    /\ S!Suspend(c, w)
    /\ UNCHANGED <<closed, wants, held, leaked, supply>>

\* The calls that neither run a loop nor touch the queue.
OtherCall ==
    /\ UNCHANGED links
    /\ \/ \E n \in Amounts : S!RemovePermits(n)
       \/ \E c \in Clients :
            \/ \E n \in Requests : S!TryAcquire(c, n) \/ S!Acquire(c, n)
            \/ \E w \in Wakers :
                  \/ S!PollClosed(c) \/ S!PollWoken(c) \/ S!PollInertReady(c)
                  \/ S!PollWaiting(c, w)
            \/ S!LeakAcquire(c)
            \/ S!ForgetPermit(c)

Next ==
    \/ AddStep
    \/ WakeStep
    \/ CloseDone
    \/ /\ Idle
       /\ \/ \E n \in Amounts : AddPermits(n)
          \/ \E c \in Clients : DropPermit(c) \/ DropAcquire(c)
          \/ Close
          \/ \E c \in Clients, w \in Wakers :
                PollInertEnqueue(c, w) /\ UNCHANGED loops
          \/ OtherCall /\ UNCHANGED loops

Spec == Init /\ [][Next]_vars

-----------------------------------------------------------------------------
TypeOK ==
    /\ S!TypeOK
    /\ {head, tail, curr} \subseteq Clients \cup {Null}
    /\ next \in [Clients -> Clients \cup {Null}]
    /\ prev \in [Clients -> Clients \cup {Null}]
    /\ todo \in 0..UsizeMax
    /\ closing \in BOOLEAN

\* The links of the queue are those of a doubly linked list: read backwards
\* from the tail it is the same list, and its ends point nowhere.
Reversed(s) == [i \in 1..Len(s) |-> s[Len(s) + 1 - i]]
WellLinked ==
    /\ List = Reversed(Follow(prev, tail))
    /\ head = Null <=> tail = Null
    /\ head # Null => prev[head] = Null /\ next[tail] = Null

\* Whatever is reachable from the queue, or from the loop of wake_all, is a
\* future that waits (or was just woken by that loop): no freed one is linked.
NoDangling ==
    \A c \in Clients :
        c \in {List[i] : i \in 1..Len(List)} \cup {curr} =>
            state[c] = "waiting" \/ (closing /\ state[c] = "woken")

\* add_permits is called with at most what was taken before: the arithmetic of
\* its loop neither wraps nor runs out of waiters that still miss something.
LoopInRange ==
    /\ \A i \in 1..Len(List) : ~closing => Diff(List[i]) > 0
    /\ todo > 0 /\ head # Null => permits = 0

\* The loops and the pointers implement the semaphore on a sequence: each call
\* takes effect when it begins, and the iterations that follow change nothing
\* of what Semaphore shows.  InTheEnd is what a running add_permits comes to.
ToWake == Follow(next, curr)
Woken == {ToWake[i] : i \in 1..Len(ToWake)}
InTheEnd(now, then) == IF todo = 0 THEN now ELSE then

waitersEnd == IF closing THEN <<>> ELSE InTheEnd(List, S!WaitersAfter(List, todo))
permitsEnd == InTheEnd(permits, S!PermitsAfter(List, todo))
stateEnd == IF closing
            THEN [c \in Clients |-> IF c \in Woken THEN "woken" ELSE state[c]]
            ELSE InTheEnd(state, S!StateAfter(List, todo))
assignedEnd == InTheEnd(assigned, S!AssignedAfter(List, todo))
notifiedEnd == IF closing THEN S!Wake(Woken)
               ELSE InTheEnd(notified, S!Wake(S!Completed(List, todo)))

Abstract == INSTANCE Semaphore WITH
    waiters <- waitersEnd, permits <- permitsEnd, closed <- closed \/ closing,
    state <- stateEnd, assigned <- assignedEnd, notified <- notifiedEnd
Refines == Abstract!Spec

\* At usize::MAX the loop of add_permits loses permits, but however the releases
\* and grants of its iterations fall, still none is created.
NoPermitCreated == Abstract!NoPermitCreated
=============================================================================
