# A verification project for `async-unsync`

`async-unsync` is a Rust crate of asynchronous, **single-threaded** (`!Sync`)
primitives: a semaphore, a bounded and an unbounded MPSC channel, and a oneshot
channel.  Every method runs to its end before another one starts, so there are
no data races; what is hard is everything that happens *between* two polls of a
future: other clients acquire, release, cancel, close and split while a future
is suspended, and a future may be dropped or leaked at any point.

Paths below are relative to the repository (`src/semaphore.rs` and so on).

## 1. Inventory

| component | source | state | operations |
|---|---|---|---|
| semaphore accounting and futures | `src/semaphore.rs` 16-425 | `permits`, `closed`, per future `wants`, `permits`, `state`, `waker`; per permit `count` | `new`, `add_permits`, `remove_permits`, `close`, `try_acquire[_many]`, `acquire[_many]`, `Acquire::poll`/`drop`, `Permit::drop`/`forget` |
| waiter queue | `src/semaphore.rs` 427-600 | `head`, `tail`, `next`, `prev` | `push_back`, `try_remove`, `pop_front`, `wake_all` |
| sender mask | `src/mask.rs` | one `usize`: closed bit and sender count | `reset`, `is_closed`, `close`, `increase_sender_count`, `decrease_sender_count` |
| queue | `src/queue.rs` | `mask`, `queue`, `pop_count`, `waker` | `new`, `push_and_wake`, `pop_front`, `set_counted`, `poll_recv`, `decrease_sender_count` |
| bounded channel | `src/bounded.rs`, `src/queue.rs` | the queue, a semaphore, `max_capacity`, `reserved` | `channel`, `with_initial_capacity`, `from_iter`, `split`, `into_split`, `try_send`, `send`, `try_reserve[_owned]`, `reserve[_owned]`, `send`/`drop` of both permits, `recv`, `try_recv`, `close`, handles cloned and dropped |
| unbounded channel | `src/unbounded.rs`, `src/queue.rs` | the queue | `channel`, `channel_from_iter`, `split`, `into_split`, `send`, `recv`, `try_recv`, `close`, handles cloned and dropped |
| oneshot channel | `src/oneshot.rs` | `value`, `recv_waker`, `close_waker`, `closed` | `split`, `into_split`, `send`, `poll_closed`, `close`, `try_recv`, `poll`, handles dropped |
| errors | `src/error.rs` | none | what an operation answers when it fails; conversions and `Display` |

**How they interact.**  A bounded channel owns a semaphore with one permit per
free slot.  Sending acquires a permit and *forgets* it, the element in the queue
standing for it; receiving adds a permit, which may complete the request of the
sender that waits longest.  Both channels wake their receiver through a waker
stored in the queue.  Tasks and executor are outside of the crate: they poll
futures and are called back through wakers.

**What is hard.**

* Cancellation: a future may be dropped when it is new, enqueued, partly served,
  granted but not yet polled, or refused; in every case its permits must go on
  to the next waiter and the queue must forget it.
* Fairness: a newcomer must not overtake the queue, not even between a grant and
  the poll of the granted future.
* Close: granted futures resolve to an error and return what they were granted.
* Wake-ups: each suspended future must be woken when its condition comes true.
* Accounting across components: permits, queued elements and reservations of a
  bounded channel add up to its capacity, over splits and re-splits.
* Arithmetic at `0` and at `usize::MAX`.
* Permits that are forgotten (`mem::forget`) and wakers that panic while an element
  is sent: the code tolerates both, and the account of the slots shows it.

**What makes each component correct.**

* semaphore: no permit is lost or created; first come, first served; nobody
  barges; no permit idle while somebody waits; close is final; every grant wakes.
* waiter queue: always a well-formed doubly linked list of exactly the waiting
  futures; it implements a sequence.
* mask: a number that stands for the pair (closed, sender count).
* channels: elements arrive once, in order; the end of the stream is announced
  only when nothing can follow it; the receiver is woken for elements and for
  the end.
* bounded channel: every slot is in one place; nobody sends past a suspended sender;
  semaphore and mask tell senders the same; nothing but a reserved slot is used
  after close.
* oneshot: a value that was accepted is received unless the receiver goes away;
  both sides are woken.

## 2. Modules

| module | models |
|---|---|
| `Sums` | the sum of a function over a finite set, as a cardinality |
| `Semaphore` | the semaphore, one action per call, the waiter list as a sequence |
| `SemaphoreFair` | the semaphore with an executor and fairness |
| `SemaphoreImpl` | the semaphore with the pointers of its list and its loops step by step |
| `Mask`, `Queue` | what the two channels share: the mask, the elements, the receiver's waker, the handles |
| `UnboundedChannel` | the unbounded channel over `Queue` |
| `BoundedChannel` | the bounded channel over `Queue` and the operators of `Semaphore` |
| `Channel` | what both channels promise, abstractly |
| `Oneshot` | the oneshot channel |
| `MCSemaphore`, `MCSemaphoreImpl`, `MCBoundedChannel` | instances for TLC |
| `SumsTheorems` | lemmas on sums, and that a set of numbers has a least element |
| `SemaphoreProofs` | theorems on `Semaphore` |
| `SemaphoreImplProofs` | theorems on `SemaphoreImpl` and its refinement |
| `QueueProofs` | lemmas on each action of `Queue`, for both channels |
| `UnboundedProofs` | theorems on `UnboundedChannel` |
| `SlotProofs`, `BoundedProofs` | lemmas on the semaphore inside of a bounded channel, theorems on the channel |
| `OneshotProofs` | theorems on `Oneshot` |

### Semaphore

A *client* is a place for one `Acquire` future and one `Permit`; a task that uses
several is several clients.  `state[c]` is `Waiter.state` (`"absent"` without a
future), `wants[c]`, `assigned[c]` and `waker[c]` are `Waiter.wants`,
`Waiter.permits` and `Waiter.waker`, `held[c]` is `Permit.count`, `waiters` is
the queue from its head.  `outcome`, `poller` and `notified` record what a task
observes: the result of its last poll, the waker it passed, and whether that
waker was called since.  `supply` counts the permits put in circulation.  `Requests`
are the counts that clients ask for, `Amounts` those that they add and remove.

`add_permits` is a loop over the front of the queue; here it is given in closed
form (`Served` is the longest prefix of the queue that the permits cover), and
`SemaphoreImpl` runs the loop itself.  `Acquire::drop`, `Permit::drop` and
`Semaphore::add_permits` all contain it.

### SemaphoreImpl

`head`, `tail`, `next` and `prev` are the pointers of `WaiterQueue` and `Waiter`.
`todo` is the counter of a running `add_permits`, `curr` the position of a
running `wake_all`; no other call begins before these loops end.  `List` is what
a walk from `head` along `next` comes to; `Walk` is a recursive function of a bounded
index, so that it is defined for pointers that form no list as well, and that there
is none but a list is what has to be shown.  `Refines` says that it implements
`Semaphore`: each call takes effect when it begins, and the mapping (`waitersEnd`,
`permitsEnd`, `stateEnd`, `assignedEnd`, `notifiedEnd`) computes what its loop is
still going to do.  Calls that run no loop are those of `Semaphore`, read with the
list that the pointers link (`OtherCall`).

### Queue, UnboundedChannel, BoundedChannel

`mask`, `queue` and `waker` are the fields of `Queue<T, B>`; an element is named
after the task that sent it.  A channel may be made with elements in it
(`from_iter`).  `split` says whether it is used through handles, `handles` which
tasks own a sender handle, `receiver` what the receiver is doing (between `Suspend`
and its next poll it is `"pending"`), and `woken` whether its waker was called since.
The actions of `Queue` are what `src/queue.rs` does for both channels; each channel
adds its part to them.

The crate has three faces of each channel, and each has an action for what it lets
one do: the whole channel behind a shared reference (`ChannelCall`), handles that
borrow it after `split` (`SenderRefCall`, `ReceiverRefCall`), and handles that own
it after `into_split` (`SenderCall`, `ReceiverCall`).  `owned` tells the last two
apart.  When all borrowed handles are gone the borrow may end and the channel be used
as a whole again, or be split again (`Rejoin`); when all owned handles are gone, so
is the channel.  The handle of a sender is counted in the mask: `clone` uses a
checked addition and does not return where the word is full (`CanIncrease`).

`BoundedChannel` keeps the fields of the semaphore inside of the channel and
computes every change of them with the operators of `Semaphore`, instantiated
for requests of one permit.  `doing[c]` is the future (`"send"`, `"reserve"`,
`"reserve_owned"`) or the channel permit (`"permit"`, `"owned"`) of task `c`.  A
poll that obtains the semaphore's permit forgets it and pushes the element, or
raises `reserved`, in the same step: there is no `await` in between.  Dropping
the future of `reserve_owned`, or an owned permit, drops the handle in it.

Three things upset the account of the slots; which of them happen is a constant
(`Upsets`), and they are counted:

* `"split"`: a channel that holds elements is split.  The reset frees the slots of
  these elements as well; `surplus` counts the slots that are there twice.
* `"forget"`: a `Permit` goes to `mem::forget`.  `reserved` keeps counting it;
  `forgotten` is how many there are.
* `"panic"`: the receiver's waker panics inside of `Permit::send` or
  `OwnedPermit::send`, the panic is caught and the program goes on.  The element
  is queued by then.  Unwinding drops the `Permit`, which gives its slot back
  (`surplus`); an `OwnedPermit` has given up its handle, which unwinding
  drops, and `reserved` keeps counting it (`forgotten`) beside the element
  (`surplus`).
  In `try_send` and `send` the panic comes after the last change of state
  (`src/queue.rs:156-160`), so it is the same step as without it.

`MaxUpset` bounds how many slots they concern at a time; it has any value in the
proofs.

The errors are what their constructors tell apart: `TrySendError` asks the semaphore
only, `TryRecvError` the mask and `reserved`.

`Channel` has a buffer, a flag that no element can follow, and the last answer
of the receiver.  An unbounded channel is *done* when it is closed, a bounded one
when it is closed and no slot is reserved.

### Oneshot

The fields of `Slot`, both handles with the waker of their last `Pending` poll
and whether it was called since, and the history of accepted and received
values.  A channel may be split again when both handles that borrow it are gone;
the slot then still has the flag and the wakers of before.  Handles that own it
(`into_split`) end it.

## 3. What is checked

| run | question | bounds |
|---|---|---|
| `semaphore` | all safety properties of the semaphore | 3 clients, requests and amounts 0..2, supply at most 3 |
| `semaphore_three_permits` | requests of three permits (finding) | requests 1 and 3, amounts of 1, no permits at first |
| `semaphore_moved_task` | a future polled by two tasks (finding) | 2 wakers |
| `semaphore_fair` | no request starves | 3 clients, requests 1 and 2, no permits added or removed |
| `semaphore_impl` | the list and the loops implement the semaphore, also at `usize::MAX` | 3 clients, requests and amounts 1 and 2, `UsizeMax` 2, supply at most 3 |
| `bounded` | slots, wake-ups, errors, order and end of the bounded channel | 3 tasks, capacity 2, all upsets, `MaxUpset` 1 |
| `bounded_fair` | senders and receiver of the bounded channel make progress | 2 tasks, capacity 1, no upsets |
| `bounded_resplit` | splitting a channel that holds elements (finding) | 2 tasks, capacity 1, upset `"split"` |
| `bounded_close` | the end of the stream while the receiver is suspended (finding) | 2 tasks, capacity 1, no upsets |
| `unbounded` | mask, wake-ups, order, end and progress of the unbounded channel | 3 tasks, `UsizeMax` 5, 2 elements |
| `oneshot` | safety and progress of the oneshot channel | 2 values, 2 wakers, 2 splits |
| `oneshot_sender_dropped` | a sender dropped without a value (finding) | 1 value |

**Bounds.**  Three clients are enough for a waiter with one ahead and one behind it,
which is all the list operations and the loop can tell apart, and for a newcomer next
to a queue of two.  Requests of two permits against a supply of one to three give
partial grants; zero is the boundary the code treats as "granted at once".  In
`semaphore_impl` the supply grows past `UsizeMax`, so that the saturating addition
loses permits.

With three tasks over two slots a bounded channel has a waiting sender next to
an element and a reservation, and, after a cancellation, one next to a grant that
was not polled yet.  One upset at a time shows each of them beside every other call.
`bounded_fair` is smaller, because liveness over three tasks takes too long; two
tasks that compete for one slot suffice for one to wait for the other, and the
upsets are left out, as a forgotten permit does suspend the receiver for good (see
`ReceiverNotified`).  `UsizeMax` is 7 there, above every count that is reached; in
`unbounded` it is 5, so that the mask has room for two senders and the clone that
would be a third overflows.  Three tasks make two clones, of which either may be the last
handle.  Two splits of the oneshot show what a pair of handles leaves to the
next one.

**Deadlock** is checked for the semaphore.  A channel whose owned handles are all
gone is at its end, and so is a oneshot whose splits are used up: the runs of the
channels say `CHECK_DEADLOCK FALSE`.

**Fairness.**

* `SemaphoreFair` assumes of the executor that a future that is new or was woken is
  polled again, that an `.await` that has resolved drops its future, and that a
  permit is dropped in the end.  A future is *never* polled without a reason, so a
  lost wake-up shows as starvation.
* `BoundedChannel!FairSpec` assumes the same of its senders (`FuturePoll`), that
  channel permits are used or dropped (`PermitUse`), and that the receiving task
  polls when it is not suspended and when it was woken (`RecvPoll`).  Other polls are
  allowed, as an executor may poll spuriously, but none is assumed.
* `UnboundedChannel!FairSpec` and `Oneshot!FairSpec` assume this of the receiver, and
  of a sender that awaits `closed`.

All are weak fairness: an executor polls a woken task in the end, whatever else is
scheduled in between.  Nobody is obliged to acquire, to send, to cancel, to drop a
handle or to close.

**Findings.**

* `semaphore_three_permits`: `src/semaphore.rs:316` stores `diff - n`, what is
  still missing, where line 558 says "The counter of already collected permits."
  In the run a future asks for three permits while none is free, and is enqueued
  with none collected; one permit is added, and the counter becomes 3 - 1 = 2: two
  permits are in circulation where one was supplied.  A future that has collected
  one of three before would get (3 - 1) - 1 = 1 for the next one, so the same line
  can lose a permit as well.  With requests of at most two permits the two
  counts agree, which is why the other runs and the theorem on conservation ask for
  no more; how many permits are added at a time does not matter.
* `semaphore_moved_task`: `src/semaphore.rs:378` does not store the waker of a
  second poll.
* `bounded_resplit`: `src/queue.rs:363-367` frees every slot when a channel is
  split, also those that elements occupy, here of a channel made with one element.
  The split channel then takes more elements than its capacity, and receiving them
  raises the permits above `max_capacity`, which lines 364-365 exclude; the next
  split would underflow.
* `bounded_close`: `close` does not wake the receiver (`src/queue.rs:371-375`),
  where line 406 says "Closes the queue and notifies all waiters."  The same holds
  of the unbounded channel (lines 343-345).
* `oneshot_sender_dropped`: `Drop` of both senders (`src/oneshot.rs:93-99`,
  151-156) sets the flag and wakes nobody; a suspended receiver never resumes.

Three more observations have no run.  The comment of `src/mask.rs:13` says that
`reset` "Resets the closed bit"; a counted mask keeps it, and the test
`split_after_close` relies on that.  `src/bounded.rs:64-66` says that `from_iter`
panics if the capacity is zero; it does not (`src/queue.rs:115-128`).  And
`src/queue.rs:156-160` orders `forget` before `push_and_wake` because a waker may
panic; `Permit::send` (`src/bounded.rs:885-889`) has the opposite order, so a panic
there returns the slot of an element that is queued (`SendPanics`).

## 4. What is proved

Nothing is assumed but the named assumptions on the constants in each module and
what a theorem states after `ASSUME`.  There is no bound on tasks, clients, queues,
capacities or upsets, and the width of a word is a constant.

**`SemaphoreProofs`**, for every finite set of clients, every set of requests and of
amounts added or removed, and every `usize::MAX`:

* the inductive invariant `IInv`: `TypeOK`, `QueueExact`, `OnlyFrontPartial` and
  `NoIdlePermits`, strengthened by `Accounts` (a future collects at most what it
  wants, and only while its client holds no permit) and `NoneWaitsClosed`.  None
  of the parts is inductive alone: that the subtraction `wants - permits` is
  defined needs `OnlyFrontPartial`, which needs that a future joins the queue
  only when no permit is free, which is `NoIdlePermits`;
* hence `TypeCorrect`, `QueueIsExact`, `PartialGrantsAtFront`, `NoPermitIsIdle`,
  and the action properties `NobodyBarges` and `CloseIsFinal`;
* `NoPermitIsLost`, under the assumption that no future asks for more than two permits and
  that the supply fits a `usize`, and `NoPermitIsCreated`, under the first of these
  only.  Both follow from `Covered`: what is in circulation is at most the supply,
  and exactly the supply where no addition saturates.  The amounts that are added or
  removed are any.  That requests are small is necessary: see the finding;
* `WakeupReaches`, if a future is always polled with the same waker; see the
  other finding.

The core is a chain of lemmas about `add_permits` (`NeedStep` to `ServePreserves`)
stated for any queue of waiting futures and any number of permits: `AddPermits`,
`DropPermit` and `DropAcquire` are three uses of it.  Sums over clients are
cardinalities of sets of pairs (`Sums`), so that the facts about them follow from
the theorems on finite sets, without induction over data.

`FirstComeFirstServed` follows from `IInv` too.  `InOrder` says what a step
keeps of the order, and has one lemma per call; all that serve the queue share
`ServeInOrder`, and a cancelled future is taken out in order by `WithoutInOrder`.

**`SemaphoreImplProofs`** proves every property of the run `semaphore_impl`, for any
number of clients, any requests and any width of a `usize`: `TypeCorrect`,
`ListWellLinked`, `NothingDangles`, `LoopStaysInRange`, the refinement
`RefinesSemaphore`, and, for requests of at most two permits, `NoPermitIsCreated`.

*The pointers.*  `DoublyLinked` says of a sequence that `head`, `tail`, `next` and
`prev` link exactly it.  A walk visits at most as many nodes as there are clients,
and what it reads is a recursive function; `WalkChain` shows that it reads the
linked sequence by exhibiting the solution of the recursion, and `FollowChain`
that therefore only one sequence is linked, namely `List`.  What each operation of
the list does is stated once about pointers in general: `AppendLinked` (`push_back`),
`TailLinked` (`pop_front`) and `RemoveLinked` (`try_remove`).

*The invariant* is `LInv`, checked after every step, also between two iterations:

* `Linked`: the pointers link `List` both ways.  `WellLinked` alone is not inductive,
  as it only compares two walks;
* `Unlinked`: a future that is new has null links.  `push_back` relies on that: it
  does not reset the `next` of what it appends, nor the `prev` in an empty list;
* outside of `close`, the whole invariant `P!IInv` of `SemaphoreProofs`, read with
  `waiters <- List`, holds also *between* two iterations of `add_permits`: what the
  loop has left is a queue as good as any.  Here `NoIdlePermits` is what shows that
  the loop never serves a waiter while permits are free;
* inside of `close`, `Waking`: that invariant is broken there, as the list still holds
  futures that were woken.  `Reached(k)` says that the first `k` of the list are, that
  the others wait, and that `curr` is the one after them.

*The refinement.*  `NeedOf` and `ServedOf` are `Need` and `Served` of `Semaphore` over
any function that says what each future lacks, so that two moments of a loop can be
compared.  `ServedOfTail` is one iteration: if the permits cover the first waiter,
they serve one more than what is left of them serves of the rest of the queue.  That
`ServedOf` denotes anything is a least-element argument (`ServedOfType`).  `AddEnds`
puts the mapping in these terms.  `StorePermitsEnds`, `GrantSomeEnds`,
`GrantAllEnds`, `WakeStepEnds` and `CloseDoneEnds` then show that an iteration
changes nothing of what the loop comes to, and `AddPermitsIs`, `DropPermitIs`,
`DropAcquireIs`, `CloseIs`, `EnqueueIsToo` and `QuietIs` that each call is the step of
`Semaphore` with its name.  That the closed form of `add_permits` is what its loop
computes is therefore proved, the partial grant of `src/semaphore.rs:316` included.

*What carries over.*  `Implements` makes the theorems of `SemaphoreProofs` available for
the pointers and the loops: `NoPermitIsCreated`, `PointersLoseNoPermit`,
`PointersServeInOrder` and `PointersWake` are instances of them.

**`QueueProofs`** has the invariant `QInv` of what the channels share and, for each
action of `Queue`, what it preserves and whether the channel is shut afterwards.
`MaskExact` is not inductive: `Coded` adds that the mask of a channel that is not
split is 0 or 1, and that the last sender leaves exactly 1.  The arithmetic is in
`CodesRead` and `CodesWritten`, and `HandleLess` is the step from `n` senders to
`n - 1`.  `Registered` says that a pending receiver has a waker to be woken by.

**`UnboundedProofs`** proves from these, for any finite set of tasks and any bound on
the queue, that the mask is exact and never leaves its word, that the receiver is
woken, and that `UnboundedChannel` implements `Channel`.

**`BoundedProofs`** proves every safety property of `BoundedChannel`, with all three
upsets, and that it implements `Channel`.  The invariant is
`IInv == QInv /\ SlotInv /\ Books /\ Closes /\ ReceiverNotified`:

* `SlotInv` is about the semaphore.  As every request is for one permit, what
  `Semaphore` computes for any requests becomes simple (`AddFree`, `AddServed`):
  a permit that is added goes to the first who waits, or is free.  `SlotProofs`
  has one lemma for each thing the channel does to the semaphore;
* `Books` ties the account of the slots (`SlotsAccounted`) to what the tasks do.  It
  needs that futures and semaphore agree on who has an `Acquire`, and that
  everybody who is in the middle of something has a handle;
* `Closes` relates the two flags: the semaphore is closed with the mask, except that
  the last sender, after whom nobody could ask, closes the mask only;
* `ReceiverNotified` needs the account: that a channel with no permit forgotten and no
  sender left has no reservation, so that its mask says so too.

None is inductive without the others: that `reserved - 1` and `permits + 1` stay in
a word is the account, which is kept because nobody is in the middle of anything
when a channel is split, which is known from `Books`.

**`OneshotProofs`** proves every invariant of `Oneshot` and `NoSendIntoVoid`, for all
values, wakers and numbers of splits.  The strengthening is `Fresh` (a channel
that is not closed has never carried a value: sending one closes it, so none is
overwritten), `Registered` (who is pending has stored the waker of its last
poll), `Deserted` (a sender outlives its receiver only on a closed channel) and
`EndEmpty`.

**Only model-checked**: liveness under fairness (`NoStarvation`, `SendResolves`,
`ElementReceived`, `EndReached` of both channels, `ValueReceived`, `ClosedResolves`),
which is out of reach of the prover.  Every invariant and every action property of
the passing runs, and every refinement, is a theorem.

## 5. Plan

The order of the work, most important first.

1. Done: the semaphore and its list, the channels over `Queue`, the oneshot.
2. Done: progress of the channels and of the oneshot under an executor.
3. Done: owned handles, preloaded channels, permits that are forgotten, wakers that
   panic while a permit sends.
4. Done: the proofs on the bounded channel, order and account of the semaphore.
5. Done: the linked list and the loops of the semaphore, and their refinement, as
   theorems.
6. Open: several futures or permits per task; leaked handles and leaked futures of a
   channel.

## 6. Not modelled

* `Debug`, `Display` and the conversions of error types: no state.  `into_deque`
  and the getters only read, or end the channel.
* Allocation, and `pop_count` with the shrinking of the queue's storage
  (`src/queue.rs:272-303`): no element changes.
* Overlapping `RecvFuture`s: `src/queue.rs:325-330` documents that the earlier one
  may stay pending for good, so nothing is promised of it.
* Wakers that panic or call back inside of the semaphore's `add_permits`
  (`src/semaphore.rs:327`): the waiter is still linked when its waker runs.  If
  it unwinds there, a freed waiter stays in the list and the next call dereferences
  it; the behaviour is undefined from then on, and no promise is left to check.
* `mem::forget` of a channel's handle or of one of its futures: the count in the
  mask then stays above the number of handles, and the channel just never closes by
  itself.  Leaked `Acquire` futures are modelled in `Semaphore`.
* The tests and the benchmark are clients of the crate.
