------------------------------ MODULE Semaphore ------------------------------
(***************************************************************************)
(* The single-threaded asynchronous semaphore of src/src/semaphore.rs.     *)
(*                                                                         *)
(* The crate is !Sync: every call runs to its end before another one       *)
(* begins, so an action is one whole call (Acquire::poll, Acquire::drop,   *)
(* Permit::drop, add_permits, close ...).  What interleaves are the calls  *)
(* of different clients: between two polls of an Acquire future any other  *)
(* call may happen, and a future may be dropped or leaked at any point.    *)
(*                                                                         *)
(* A client owns at most one Acquire future and one Permit at a time.      *)
(* The intrusive waiter list is abstracted to the sequence it stands for;  *)
(* module SemaphoreImpl models its pointers and loops.                     *)
(***************************************************************************)
EXTENDS Integers, Sequences, FiniteSets, SequencesExt, Sums

CONSTANTS
    Clients,     \* who calls the semaphore
    Wakers,      \* the wakers of the tasks that poll its futures
    NoWaker,     \* Option::None of a waker cell
    Requests,    \* the permit counts clients ask for
    Amounts,     \* the permit counts they add and remove
    InitPermits, \* the argument of Semaphore::new
    UsizeMax,    \* usize::MAX
    MaxSupply,   \* bound of the model: permits never added beyond it
    MaxLeaked    \* bound of the model: futures that may be leaked

ASSUME SemaphoreAssumption ==
    /\ IsFiniteSet(Clients)
    /\ NoWaker \notin Wakers
    /\ UsizeMax \in Nat
    /\ {MaxSupply, MaxLeaked} \subseteq Nat
    /\ Requests \cup Amounts \subseteq 0..UsizeMax
    /\ InitPermits \in 0..UsizeMax
    /\ InitPermits <= MaxSupply

VARIABLES
    permits,  \* Shared.permits: the permits nobody holds
    closed,   \* Shared.closed
    waiters,  \* Shared.waiters: the enqueued futures, front first
    state,    \* Waiter.state, or "absent" while the client owns no future
    wants,    \* Waiter.wants
    assigned, \* Waiter.permits: what the future has collected so far
    waker,    \* Waiter.waker: written once, when the future is enqueued
    held,     \* Permit.count of the client's permit, 0 without one
    leaked,   \* clients whose boxed future was passed to mem::forget
    outcome,  \* what the last poll of the future returned
    poller,   \* the waker the last Pending poll of the future was given ...
    notified, \* ... and whether it was woken since
    supply    \* permits in circulation: initial + added - removed - forgotten

future == <<state, wants, assigned, waker>>
observed == <<outcome, poller, notified>>
vars == <<permits, closed, waiters, future, held, leaked, observed, supply>>

-----------------------------------------------------------------------------
(* Shared::add_permits: a loop that serves the queue from its front until  *)
(* the n permits are used up or nobody waits.  Its effect in closed form   *)
(* (module SemaphoreImpl runs the loop itself): the longest prefix of the *)
(* queue that n covers is served; what is left goes to the next waiter, if *)
(* there is one, and to the semaphore otherwise.                           *)
Missing == [c \in Clients |-> wants[c] - assigned[c]]
FirstOf(w, k) == {w[i] : i \in 1..k}
Need(w, k) == Total(FirstOf(w, k), Missing)

Served(w, n) ==
    CHOOSE k \in 0..Len(w) :
        /\ Need(w, k) <= n
        /\ k < Len(w) => n < Need(w, k + 1)

Completed(w, n) == FirstOf(w, Served(w, n))
Left(w, n) == n - Need(w, Served(w, n))

IsShort(w, n, c) ==
    /\ Left(w, n) > 0
    /\ Served(w, n) < Len(w)
    /\ c = w[Served(w, n) + 1]

WaitersAfter(w, n) == SubSeq(w, Served(w, n) + 1, Len(w))

\* The line of the partial grant reads `waiter.permits.set(diff - n)`.
AssignedAfter(w, n) ==
    [c \in Clients |-> IF c \in Completed(w, n) THEN wants[c]
                       ELSE IF IsShort(w, n, c)
                            THEN (wants[c] - assigned[c]) - Left(w, n)
                            ELSE assigned[c]]

StateAfter(w, n) ==
    [c \in Clients |-> IF c \in Completed(w, n) THEN "woken" ELSE state[c]]

SaturatingAdd(a, b) == IF a + b > UsizeMax THEN UsizeMax ELSE a + b

\* Mutant of SaturatingSub: a plain subtraction.
PlainSub(a, b) == a - b
SaturatingSub(a, b) == IF a < b THEN 0 ELSE a - b

\* Mutants of PermitsAfter: the rest is not kept for the next waiter; permits
\* given to waiters are counted as free as well.
PermitsAfterSpill(w, n) == SaturatingAdd(permits, Left(w, n))
PermitsAfterTwice(w, n) == SaturatingAdd(permits, n)
PermitsAfter(w, n) ==
    IF Served(w, n) < Len(w) THEN permits ELSE SaturatingAdd(permits, Left(w, n))

\* Mutant of Wake: the waker is not called.
WakeNobody(S) == notified

\* wake_by_ref on the wakers stored by the futures in S.
Wake(S) == [c \in Clients |-> IF c \in S /\ waker[c] = poller[c] THEN TRUE
                              ELSE notified[c]]

-----------------------------------------------------------------------------
Init ==
    /\ permits = InitPermits
    /\ closed = FALSE
    /\ waiters = <<>>
    /\ state = [c \in Clients |-> "absent"]
    /\ wants = [c \in Clients |-> 0]
    /\ assigned = [c \in Clients |-> 0]
    /\ waker = [c \in Clients |-> NoWaker]
    /\ held = [c \in Clients |-> 0]
    /\ leaked = {}
    /\ outcome = [c \in Clients |-> "none"]
    /\ poller = [c \in Clients |-> NoWaker]
    /\ notified = [c \in Clients |-> FALSE]
    /\ supply = InitPermits

\* Semaphore::add_permits
AddPermits(n) ==
    /\ supply + n <= MaxSupply
    /\ permits' = PermitsAfter(waiters, n)
    /\ waiters' = WaitersAfter(waiters, n)
    /\ state' = StateAfter(waiters, n)
    /\ assigned' = AssignedAfter(waiters, n)
    /\ notified' = Wake(Completed(waiters, n))
    /\ supply' = supply + n
    /\ UNCHANGED <<closed, wants, waker, held, leaked, outcome, poller>>

\* Semaphore::remove_permits
RemovePermits(n) ==
    /\ permits' = SaturatingSub(permits, n)
    /\ supply' = supply - (permits - permits')
    /\ UNCHANGED <<closed, waiters, future, held, leaked, observed>>

\* Semaphore::close
Close ==
    /\ closed' = TRUE
    /\ waiters' = <<>>
    /\ state' = [c \in Clients |-> IF c \in FirstOf(waiters, Len(waiters))
                                   THEN "woken" ELSE state[c]]
    /\ notified' = Wake(FirstOf(waiters, Len(waiters)))
    /\ UNCHANGED <<permits, wants, assigned, waker, held, leaked,
                   outcome, poller, supply>>

\* Mutant of CanAcquire: the closed flag is not consulted.
CanAcquireClosed(n) == n <= permits

\* Shared::try_acquire::<true>
CanAcquire(n) == ~closed /\ n <= permits

\* Semaphore::try_acquire_many when it succeeds; it changes nothing otherwise
TryAcquire(c, n) ==
    /\ state[c] = "absent"
    /\ held[c] = 0
    /\ CanAcquire(n)
    /\ permits' = permits - n
    /\ held' = [held EXCEPT ![c] = n]
    /\ UNCHANGED <<closed, waiters, future, leaked, observed, supply>>

\* Semaphore::acquire_many
Acquire(c, n) ==
    /\ state[c] = "absent"
    /\ held[c] = 0
    /\ state' = [state EXCEPT ![c] = "inert"]
    /\ wants' = [wants EXCEPT ![c] = n]
    /\ UNCHANGED <<permits, closed, waiters, assigned, waker, held, leaked,
                   observed, supply>>

-----------------------------------------------------------------------------
(* Acquire::poll, by what poll_acquire finds.                              *)
Pollable(c) == state[c] # "absent" /\ c \notin leaked

\* Poll::Ready: the state becomes Woken whatever it was.
Resolve(c, result) ==
    /\ state' = [state EXCEPT ![c] = "woken"]
    /\ outcome' = [outcome EXCEPT ![c] = result]
    /\ poller' = [poller EXCEPT ![c] = NoWaker]
    /\ notified' = [notified EXCEPT ![c] = FALSE]

\* Poll::Pending, to a task that polled with waker w.
Suspend(c, w) ==
    /\ outcome' = [outcome EXCEPT ![c] = "pending"]
    /\ poller' = [poller EXCEPT ![c] = w]
    /\ notified' = [notified EXCEPT ![c] = FALSE]

PollClosed(c) ==
    /\ Pollable(c)
    /\ closed
    /\ Resolve(c, "err")
    /\ UNCHANGED <<permits, closed, waiters, wants, assigned, waker, held,
                   leaked, supply>>

\* The permits move from the future into a Permit; polled once more, a
\* resolved future hands out a Permit of count 0.
PollWoken(c) ==
    /\ Pollable(c)
    /\ ~closed
    /\ state[c] = "woken"
    /\ held' = [held EXCEPT ![c] = @ + assigned[c]]
    /\ assigned' = [assigned EXCEPT ![c] = 0]
    /\ Resolve(c, "ok")
    /\ UNCHANGED <<permits, closed, waiters, wants, waker, leaked, supply>>

\* Shared::try_acquire::<false>: all that is free, if that is not enough.
Taken(n) == IF n > permits THEN permits ELSE n

\* Mutant of Remaining: handing out everything does not reset the counter.
RemainingStale(n) == IF n > permits THEN permits ELSE permits - n
Remaining(n) == permits - Taken(n)

PollInertReady(c) ==
    /\ Pollable(c)
    /\ ~closed
    /\ state[c] = "inert"
    /\ wants[c] <= permits
    /\ permits' = Remaining(wants[c])
    /\ held' = [held EXCEPT ![c] = @ + Taken(wants[c])]
    /\ Resolve(c, "ok")
    /\ UNCHANGED <<closed, waiters, wants, assigned, waker, leaked, supply>>

\* Mutant of PushBack: a stack instead of a queue.
PushFront(c) == <<c>> \o waiters
PushBack(c) == Append(waiters, c)

\* Too few permits: take them all, store the waker, join the queue.
PollInertEnqueue(c, w) ==
    /\ Pollable(c)
    /\ ~closed
    /\ state[c] = "inert"
    /\ wants[c] > permits
    /\ assigned' = [assigned EXCEPT ![c] = Taken(wants[c])]
    /\ permits' = Remaining(wants[c])
    /\ state' = [state EXCEPT ![c] = "waiting"]
    /\ waker' = [waker EXCEPT ![c] = w]
    /\ waiters' = PushBack(c)
    /\ Suspend(c, w)
    /\ UNCHANGED <<closed, wants, held, leaked, supply>>

\* A waiter that is polled again stays as it is: the waker w is not stored.
PollWaiting(c, w) ==
    /\ Pollable(c)
    /\ ~closed
    /\ state[c] = "waiting"
    /\ Suspend(c, w)
    /\ UNCHANGED <<permits, closed, waiters, future, held, leaked, supply>>

Poll(c, w) ==
    \/ PollClosed(c)
    \/ PollWoken(c)
    \/ PollInertReady(c)
    \/ PollInertEnqueue(c, w)
    \/ PollWaiting(c, w)

-----------------------------------------------------------------------------
(* Acquire::drop: leave the queue, then give back what was collected.      *)

\* Mutant of WaitersWithout: the future stays linked.
WaitersStale(c) == waiters
WaitersWithout(c) ==
    IF state[c] = "waiting"
    THEN RemoveAt(waiters, CHOOSE i \in 1..Len(waiters) : waiters[i] = c)
    ELSE waiters

\* Mutant of Unused: nothing is returned.
UnusedLost(c) == 0
Unused(c) == assigned[c]

DropAcquire(c) ==
    LET w == WaitersWithout(c)
        n == Unused(c)
    IN  /\ Pollable(c)
        /\ permits' = PermitsAfter(w, n)
        /\ waiters' = WaitersAfter(w, n)
        /\ state' = [StateAfter(w, n) EXCEPT ![c] = "absent"]
        /\ assigned' = [AssignedAfter(w, n) EXCEPT ![c] = 0]
        /\ wants' = [wants EXCEPT ![c] = 0]
        /\ waker' = [waker EXCEPT ![c] = NoWaker]
        /\ outcome' = [outcome EXCEPT ![c] = "none"]
        /\ poller' = [poller EXCEPT ![c] = NoWaker]
        /\ notified' = [Wake(Completed(w, n)) EXCEPT ![c] = FALSE]
        /\ UNCHANGED <<closed, held, leaked, supply>>

\* mem::forget of a boxed future: it stays where it is and is never touched
\* again by its owner (the comment of poll_acquire_initial).
LeakAcquire(c) ==
    /\ Pollable(c)
    /\ Cardinality(leaked) < MaxLeaked
    /\ leaked' = leaked \cup {c}
    /\ UNCHANGED <<permits, closed, waiters, future, held, observed, supply>>

\* Permit::drop
DropPermit(c) ==
    /\ held[c] > 0
    /\ held' = [held EXCEPT ![c] = 0]
    /\ permits' = PermitsAfter(waiters, held[c])
    /\ waiters' = WaitersAfter(waiters, held[c])
    /\ state' = StateAfter(waiters, held[c])
    /\ assigned' = AssignedAfter(waiters, held[c])
    /\ notified' = Wake(Completed(waiters, held[c]))
    /\ UNCHANGED <<closed, wants, waker, leaked, outcome, poller, supply>>

\* Permit::forget
ForgetPermit(c) ==
    /\ held[c] > 0
    /\ held' = [held EXCEPT ![c] = 0]
    /\ supply' = supply - held[c]
    /\ UNCHANGED <<permits, closed, waiters, future, leaked, observed>>

Next ==
    \/ \E n \in Amounts : AddPermits(n) \/ RemovePermits(n)
    \/ Close
    \/ \E c \in Clients :
        \/ \E n \in Requests : TryAcquire(c, n) \/ Acquire(c, n)
        \/ \E w \in Wakers : Poll(c, w)
        \/ DropAcquire(c)
        \/ LeakAcquire(c)
        \/ DropPermit(c)
        \/ ForgetPermit(c)

Spec == Init /\ [][Next]_vars

-----------------------------------------------------------------------------
TypeOK ==
    /\ permits \in 0..UsizeMax
    /\ closed \in BOOLEAN
    /\ waiters \in Seq(Clients)
    /\ state \in [Clients -> {"absent", "inert", "waiting", "woken"}]
    /\ wants \in [Clients -> 0..UsizeMax]
    /\ assigned \in [Clients -> 0..UsizeMax]
    /\ waker \in [Clients -> Wakers \cup {NoWaker}]
    /\ held \in [Clients -> 0..UsizeMax]
    /\ leaked \in SUBSET Clients
    /\ outcome \in [Clients -> {"none", "pending", "ok", "err"}]
    /\ poller \in [Clients -> Wakers \cup {NoWaker}]
    /\ notified \in [Clients -> BOOLEAN]
    /\ supply \in Int
    /\ supply <= MaxSupply

\* The queue holds exactly the futures in state Waiting, each once: try_remove
\* never unlinks a future that is not linked, and no future is freed while it
\* is still linked.
QueueExact ==
    /\ \A i, j \in 1..Len(waiters) : waiters[i] = waiters[j] => i = j
    /\ \A c \in Clients :
         state[c] = "waiting" <=> \E i \in 1..Len(waiters) : waiters[i] = c

\* Only the front waiter may have collected permits, and every waiter still
\* misses some: `wants - permits` of add_permits never underflows and its loop
\* never serves a waiter for free.
OnlyFrontPartial ==
    \A i \in 1..Len(waiters) :
        /\ assigned[waiters[i]] < wants[waiters[i]]
        /\ i > 1 => assigned[waiters[i]] = 0

\* No permit lies idle while somebody waits for one.
NoIdlePermits == waiters # <<>> => permits = 0

\* No call loses a permit or creates one: those free, those collected by
\* futures and those held make up the supply, as long as the supply cannot
\* exceed usize::MAX.
InCirculation == permits + Total(Clients, assigned) + Total(Clients, held)
PermitsConserved == InCirculation = supply

\* At usize::MAX saturating_add loses permits, but still none is created.
NoPermitCreated == InCirculation <= supply

\* A suspended future whose request was completed (or refused by close) has
\* had the waker of its last poll woken since.
WakeupDelivered ==
    \A c \in Clients : outcome[c] = "pending" /\ state[c] = "woken" => notified[c]

\* While futures wait, nobody else obtains permits: an acquisition succeeds only
\* for a future that add_permits served.
NoBarging ==
    [][\A c \in Clients :
         waiters # <<>> /\ held'[c] > held[c] => state[c] = "woken"]_vars

\* Futures are served in the order of their first poll: while one waits, nobody
\* behind it is granted its request, and nobody joins or moves ahead of it.
Before(c, d) ==
    \E i, j \in 1..Len(waiters) : i < j /\ waiters[i] = c /\ waiters[j] = d
FifoGrants ==
    [][\A c, d \in Clients :
         c # d /\ state[c] = "waiting" /\ state'[c] = "waiting" =>
           /\ Before(c, d) => state'[d] # "woken"
           /\ ~Before(d, c) /\ state'[d] = "waiting" => Before(c, d)']_vars

\* A closed semaphore stays closed, has no waiters and hands out no permit.
ClosedIsFinal ==
    [][closed => /\ closed' /\ waiters' = <<>>
                 /\ \A c \in Clients : held'[c] <= held[c]]_vars
=============================================================================
