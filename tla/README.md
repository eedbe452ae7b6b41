# A TLA+ verification project for linux-kernel-learn

The repository is a notebook about the Linux kernel: a copy of the kernel's
`list.h` with an example program, small loadable modules with the user
programs that exercise them, documents that explain them, and the unmodified
source of Linux 4.4.1 that the documents are about. This project models the
repository's own programs and the parts of the kernel that carry them: the
linked list, the wait queues, the sleeping locks (the counting semaphore, the
mutex with its optimistic spin queue, wait/wound mutexes, reader/writer
semaphores), and the character device and module code that decides whether a
driver can be opened, used and removed safely.

Paths below are relative to `src/`; `K/` stands for `linux-4.4.1/`.

## Inventory

| Part | State | Operations | What is hard, and what makes it right |
|---|---|---|---|
| Linked list, `src/list_example/list.h` | `next`/`prev` of every `list_head` | init, add, del, replace, move, rotate, cut, splice, tests, loops | Aliasing when lists are empty or singular; loops whose entries go away. The pointers must spell the same list in both directions after any sequence of calls. |
| ARP table, `src/list_example/main.c` | one list of three entries | fill, print, look up, free | The lookup result is used unchecked, so a wrong `NULL` is fatal; at the end the entries are freed one after the other, still on the list. |
| Counting semaphore, `K/kernel/locking/semaphore.c` | `count`, `wait_list`, `waiter.up` on each waiter's stack | `down*()`, `up()` | The lock is dropped while a waiter sleeps: signal, timer and `up()` race. Permits are neither lost nor invented, and are handed over in order. |
| Mutex, `K/kernel/locking/mutex.c`, `K/arch/x86/include/asm/mutex_64.h` | `count`, `owner`, `wait_lock`, `wait_list`, `osq` | `mutex_lock*()`, `mutex_trylock()`, `mutex_unlock()` | The count is changed with and without `wait_lock` by fast paths, spinners and slow paths. Exclusion, and no sleeper left behind. |
| Optimistic spin queue, `K/kernel/locking/osq_lock.c` | `tail`, one node per CPU | `osq_lock()`, `osq_unlock()` | Waiters unlink themselves from the middle of the queue without a lock. Exclusion, no write to a node that has left, no CPU waiting for ever. |
| Reader/writer semaphore, `K/kernel/locking/rwsem-xadd.c`, `rwsem.c`, `K/arch/x86/include/asm/rwsem.h`, `K/arch/x86/lib/rwsem.S` | `count` (active lockers and biases in one word), `owner`, `osq`, `wait_lock`, `wait_list` | `down_read()`, `down_write()`, trylocks, `up_*()`, `downgrade_write()` | Writers steal the lock while a waker hands it to readers; releases skip the wakeup when they see a spinner. Many readers or one writer, no lost wakeup, no reader past a queued writer. |
| Wait/wound mutex, `K/kernel/locking/mutex.c`, `K/include/linux/ww_mutex.h` | a mutex, `ctx`; a context's `stamp` and `acquired` | `ww_acquire_init()`, `ww_mutex_lock*()`, `ww_mutex_trylock()`, `ww_mutex_unlock()` | `ctx` is written without `wait_lock`; sleepers must be told to look at it again; stamps wrap around. The younger context backs off, the older never, nobody is stuck. |
| Wait queue, `K/kernel/sched/wait.c`, `K/include/linux/wait.h` | a list of entries on the waiters' stacks | `wait_event*()`, `wait_woken()`, `wait_on_bit*()`, `wake_up*()` | The waiter looks at its entry without the lock while the waker unlinks it; wakeups race with queueing and with signals. No access to a stack that is gone, no wakeup missed or lost. |
| Character devices, `K/fs/char_dev.c`, `K/drivers/base/map.c`, `src/module/chardriver/mychar_dev.c` | `chrdevs[]`, `cdev_map`, kobject counts, `inode->i_cdev` | register, unregister, open, close, evict | `open()` drops its lock in the middle; `rmmod` races with it. No use of a freed cdev, no lost reference. |
| Module references, `K/kernel/module.c` | `mod->state`, `mod->refcnt` | insmod, rmmod, `try_module_get()`, `module_put()` | rmmod takes the base reference away and gives it back. No code freed while it is in use. |
| Physical memory device, `src/module/memory/Access_Physical_Memory/dram.c` | `dram_size`, the file position | `my_read()`, `my_llseek()` | Reads are cut at page boundaries; the size is not a multiple of a page. |
| File viewer, `.../fileview.cpp` | position, increment, buffer | keys | A window takes several short reads; bounds at both ends. |
| User program of the character device, `src/module/chardriver/write_read_usermode.c`; the driver's buffers | two static buffers | read, write | Unlocked buffers. Not modelled yet. |
| Page table walk, `src/module/memory/paging_lowmem/paging_lowmem.c` | one page | load, unload | The page is never freed. Not modelled yet. |
| Hello world, `src/module/helloworld/` | none | load, unload | Nothing to check. |
| Other locks of the kernel (queued spinlocks, sleepable RCU, real-time mutexes, lockdep) | | | Not modelled, see below. |

The mutex and the semaphore keep their waiters in lists of `list.h`; the mutex
and the reader/writer semaphore take the spin queue before they spin; a
wait/wound mutex is a mutex with a context; a wait queue is a list of `list.h`
and the one user of its lockless test; `register_chrdev()` is called from a
module's init function and `unregister_chrdev()` from its exit function, and
`open()` holds references to the module that rmmod counts.

`PROJECT.json` lists the hazards of this code line by line, with the
properties that would catch each one going wrong.

## Modules

| Module | Models | Uses |
|---|---|---|
| `ListSeq` | a list of `list.h` as the sequence its users see | |
| `ListSeqProofs` | lemmas about `ListSeq` and the sequence operators it uses | `ListSeq` |
| `ListOps` | the functions of `list.h` on the memory of `next` and `prev`, write by write in the order of the code | |
| `ListHead`, `MCListHead`, `ListHeadProofs` | any sequence of legal calls on some heads and entries | `ListOps` |
| `ArpTable`, `ListHeadProofs` | `main.c` | `ListOps` |
| `MCPrograms` | `main.c`, and then the viewer, in one instance for TLC | `ArpTable`, `FileView` |
| `Semaphore`, `MCSemaphore`, `SemaphoreOsqProofs` | `semaphore.c` | `ListSeq` |
| `Mutex`, `MutexProofs` | `mutex.c` for x86-64 | `ListSeq` |
| `QueueLock` | the abstract lock: first come, first served, waiters may leave | `ListSeq` |
| `Osq`, `SemaphoreOsqProofs` | `osq_lock.c`, shown to implement `QueueLock` | `QueueLock` |
| `RWLock` | the abstract reader/writer lock: many readers or one writer | |
| `RWSem`, `RWSemProofs` | `rwsem-xadd.c` with the fast paths of x86-64, shown to implement `RWLock` | `ListSeq`, `RWLock` |
| `WwMutex`, `MCWwMutex`, `WwMutexProofs` | the wait/wound part of `mutex.c`, and callers that follow `ww_mutex.h` | `ListSeq` |
| `WaitQueue`, `MCWaitQueue`, `WaitQueueProofs` | `wait.c` and `wait.h`, on the pointers of the list | `ListOps` |
| `CharDev`, `MCCharDev`, `CharDevProofs` | `char_dev.c`, `map.c`, module references, `__fput()`, the init and exit functions of `mychar_dev.c` and `dram.c` | |
| `Dram`, `FileView`, `CharDevProofs` | `dram.c`'s methods, and `fileview.cpp` on that device | |

How the state and the steps correspond to the code:

* **Semaphore.** Everything happens under `sem->lock` except the sleep, so an
  action is one critical section: a call of `down*()` up to
  `schedule_timeout()`, one turn of the loop of `__down_common()` after it
  (`Resume`), `up()`. Signals, timers and wakeups from elsewhere are actions
  of the environment. Who holds a permit is not recorded by the code; the
  model knows it from the task's program counter.
* **Mutex.** Every access to `lock->count`, and every access to `lock->owner`
  that is made without `wait_lock`, is an action of its own. What the scheduler
  decides (`need_resched()`, `owner->on_cpu`) is nondeterministic. The spin
  queue appears as an atomic lock, which the next item justifies.
* **Spin queue.** One action per access to a word that another CPU uses.
  `arrival` is a history variable: the order of the `xchg` of `lock->tail`.
* **Reader/writer semaphore.** Every access to `sem->count` is an action of its
  own, also those made under `wait_lock`, because fast paths and spinners do not
  take that lock. A reader's `waiter.task` is cleared when it leaves the list
  of the model; the wakeup is the step after that. `Readers` and `Writers`, who has the
  lock, are computed from program counters: a reader has it from the moment the waker
  gives it, before it knows.
* **Wait/wound mutex.** The mutex underneath is that of `Mutex`, without
  `owner` and the spin queue: a task may spin or not, and stop at any time. Accesses
  to `ctx` and to the count are actions of their own. The caller is modelled as
  `ww_mutex.h` asks it to behave: on `-EDEADLK` it unlocks everything, takes the
  contended lock with `ww_mutex_lock_slow()` and starts its plan again, where that lock
  returns `-EALREADY`. `age` is a history variable, the contexts in the order of their
  creation, against which the wrapping stamps are checked.
* **Wait queue.** The list is the memory of `ListOps`. What happens under
  `q->lock` is one action, except what others read or write without it: the
  three writes of `list_del_init()` by the waker, the two reads of
  `list_empty_careful()` by the waiter, the entry's flag, task states and the
  condition. The condition is a bit that exclusive waiters set, so that a lost wakeup
  has consequences.
* **Lists.** The memory is a record of two functions, `next` and `prev`. Each
  operator of `ListOps` applies the assignments of the C function in its order,
  so that what happens when two of the cells are the same is what the
  code does. `lists` in `ListHead` is what the caller expects.
* **Character devices.** An action is one critical section of `chrdevs_lock`
  or `cdev_lock`, one operation on the map under its mutex, or one update of a
  reference count; allocations may fail at any time. A region is a whole major
  because both drivers register all 256 minors.
* **File viewer.** A byte is named by its address, so the buffer shows
  what was read and from where. The typed address may wrap in `strtoull()`.

Definitions named `X_Variant` and marked "Faulty" are versions of `X` with a
plausible mistake. No specification uses them; substituting one for `X` must
break the property named with it in `PROJECT.json`, which shows that the
property depends on that line of the code.

## Runs

| Run | Instance | What it shows |
|---|---|---|
| `semaphore` | 3 tasks, 1 permit, 1 jiffy, 1 `up()` from elsewhere | `PermitsConserved`, `NoPermitPastWaiters`, `WaitListExact`, `NoOvertaking`; `EveryWaiterServed` under fairness |
| `mutex` | 3 tasks, 3 killable calls, fatal signals | `TypeOK`, `MutualExclusion`, `CountMeaning`, `NoLostWakeup`, `OwnerHolds`, `WaitListExact`; `EveryCallReturns` under fairness |
| `osq` | 3 CPUs, any number of calls | `TypeOK`, `NoWriteToIdleNode`, `NeighboursStable`, `ImplementsQueueLock`; `EveryCallReturns` under fairness, if the calls stop |
| `rwsem` | 3 tasks, 4 calls, a mask of 7 | `CountDecodes`, `NoLostWakeup`, `NoBarging`, `IsRWLock` (the refinement of `RWLock`); `EveryCallReturns` under fairness |
| `ww_mutex` | 2 locks, 2 contexts that lock them in opposite orders, one of them interruptible, 1 task without a context that takes the lock `b`, 3 calls, stamps of 3 bits that wrap at the first | `ContextsRight`, `OldestStays`; `SleepersMayWait`, about locks with two users; `EveryPlanEnds`, under fairness and while `CountTells` |
| `wait_queue` | 3 tasks, 3 calls, six ways to wait, signals | `EntriesLive`, `QueueSound`; `EveryWaitReturns` under fairness |
| `list_head` | 2 heads, 4 entries, any number of calls | `Represents`, `TestsRight`, `LoopSound` |
| `programs` | the ARP table with 3 entries, addresses from a set of 3; the viewer with windows of 3 lines of 2 bytes, pages of 8, 29 bytes of memory | `PrintsTable`, `LookupRight`; `WindowShown`, `EndReached` |
| `char_dev` | `mychar_dev` and `dram`, two nodes for one and one for the other, 3 processes | `NoDanglingCdev`, `ModulePinned`, `RefsExact`, `OpenSucceeds` |
| `chardev_unmap`, `ww_deadlock`, `file_end` | two drivers with one major; 4 contexts and 2 locks; the viewer as above | the disagreements described below |

Why the bounds are enough. The safety properties of the semaphore, the mutex, the spin
queue, the reader/writer semaphore, the wait queue, the character devices, the lists, the ARP table and the viewer, and
`ContextsRight` and `OldestStays` of the wait/wound mutexes, are also proved for any number of tasks and calls
(see Proofs); for them a run is a check of the formulas, and its bounds matter for liveness only. In the
semaphore and the mutex three tasks give a holder, a waiter and a third party who takes, releases,
spins or is interrupted in between. `MaxCalls` keeps the mutex's count finite, since
failing calls decrement it for good. In the spin queue three CPUs are a
holder and two neighbours who leave together; the number of calls is not bounded (four
CPUs were checked for the safety properties as well, without error). In the
reader/writer semaphore three tasks are a waker, a reader at the front of the
queue and a writer that steals the lock; four calls let one of them call again before a
late wakeup reaches it. Four tasks with six calls were checked with symmetry for the safety
properties, without error. The mask only has to exceed the number of tasks, as 2^32 - 1 does. In the
wait queue three tasks are a waker, an exclusive waiter that is interrupted, and the
one to whom the wakeup has to be passed; five calls were checked as well, with symmetry, and no
state has sleepers only. For wait/wound mutexes two contexts, two locks and a third party are
what a back-off needs. `ww_deadlock` shows what goes wrong in a longer queue, so the two properties about waiters
do not claim to hold of this code in general. `SleepersMayWait` is about locks that at most two tasks ask for (`Paired`);
in the run this is the lock `a`, while `b` has three users. `EveryPlanEnds` has the premise that the test in
`ww_mutex_set_context_fastpath()` is never wrong (`CountTells`): when it finds a count of 0, only the first waiter, whom the
unlock before has woken, may have other locks. With three calls the test cannot be wrong, so the run checks the conclusion
on every behaviour. With four calls it can; that was checked too, as were
four contexts (11.6 million states without a deadlock where `CountTells` holds) and three contexts around three locks that each two of them
share (2.3 million states, `SleepersMayWait` and `NoDeadlock`), all without error. Four entries on two lists give every
combination of empty, singular and longer lists for the operations with two lists. Three
processes are enough for two that race in `chrdev_open()` while a third keeps
or drops a reference. The page of 8 bytes is no multiple of the window of 6, so that
windows start and end at different places of a page, as on the real device (where
windows of 256 start at multiples of 16).

Deadlock is checked except where the calls are bounded (the mutex, the reader/writer semaphore,
the wait queue, wait/wound mutexes) and in `programs` (they end). In the
former, `EveryCallReturns`, `EveryWaitReturns` and `EveryPlanEnds` say more than the absence of deadlock.

Symmetry among tasks, CPUs, processes, heads or entries is used where the
properties are invariants or action properties; the runs with
liveness use none.

### Fairness

* `Semaphore`: a runnable task runs, an armed timer expires, and a holder calls
  `up()` some day. The first two are the scheduler's and the timers'; the third is
  the contract of the lock. Nobody is obliged to call `down*()`, and no signal is
  promised.
* `Mutex`: every task that is not idle and not asleep makes its next step, which includes
  the holder's unlock. Sleepers wake only if somebody wakes them.
* `Osq`: every CPU in `osq_lock()` or `osq_unlock()` goes on (preemption is
  off there, and the queue's users hold it for a bounded spin); so `need_resched()` also becomes true
  some day for a CPU that is never served, as the scheduler's tick sees to. `EveryCallReturns` is
  conditional on new calls stopping: `osq_wait_next()` polls two words, and may look at each at the
  wrong moment while others keep joining and leaving behind it.
* `RWSem`, `WwMutex`, `WaitQueue`: every task that runs makes its next step, which
  includes giving back what it holds; a sleeper makes none until somebody wakes it. The calls are
  bounded, since writers may steal the lock, and tasks that spin may take a ww_mutex, past the
  same sleeper for ever: the code does not promise more. Wakeups from elsewhere, which the loops of the
  reader/writer semaphore tolerate, are not in `RWSem`.

### Memory model

Memory is sequentially consistent. The mutex's transitions are locked
instructions of x86-64 or happen under `wait_lock`; `osq_lock.c` passes pointers by `xchg` and `cmpxchg`, which are full
barriers, and by release and acquire operations. The reader/writer semaphore works on its count with locked
instructions. `set_current_state()`, `smp_store_mb()` and the `smp_mb()` after the store of `lock->ctx` order what
wait queues and wait/wound mutexes need. `waitqueue_active()` relies on a barrier of its callers, which is
taken to be there. What a weaker machine would do with the plain stores in
`osq_lock.c` and with lockless readers of `list.h` is not covered.

## Proofs

TLAPS proves the following for every value of the constants that satisfies the named
assumptions. All of them are of the form `Spec => []Inv`, `Spec => [][A]_vars`, or that a
specification implements an abstract one. Some have a hypothesis about the constants, or one
(`[]StampsClose`) about the behaviour.

| Module | Proved | From |
|---|---|---|
| `MutexProofs` | `TypeOK`, `MutualExclusion`, `CountMeaning`, `WaitListExact`, `OwnerHolds`, `NoLostWakeup` | `NULL` is not a task, natural bounds |
| `SemaphoreOsqProofs` | of the spin queue: `TypeOK`, `NoWriteToIdleNode`, `NeighboursStable`, and `ImplementsQueueLock`, the refinement of `QueueLock` | `NULL` is not a CPU |
| | of the semaphore: `SemTypeOK`, `PermitsConserved`, `NoPermitPastWaiters`, `WaitListExact`, `HandoffWakes`, `NoOvertaking` (an action property) | a finite set of tasks, natural bounds |
| `RWSemProofs` | `TypeOK`, `CountDecodes`, `NoLostWakeup`, `NoBarging` (an action property), and `IsRWLock`, the refinement of `RWLock` | a finite set of tasks, fewer than the active mask can count (2^32 - 1 in the code) |
| `WwMutexProofs` | `ContextsRight`, `OldestStays` (an action property) | a finite set of locks, plans that are sequences of locks; for `OldestStays`, `StampsClose` |
| | `SleepersMayWait` | as for `OldestStays`; tasks without a context lock one lock at a time |
| | `NoDeadlock` | as above; at most two tasks ask for a lock that is taken together with others |
| `WaitQueueProofs` | `EntriesLive`, `QueueSound` | the head is not a task, `NULL` is neither |
| `CharDevProofs` | `TypeOK`, `RefsExact`, `ModulePinned`, `NoDanglingCdev`, `OpenSucceeds` | a finite set of processes; no two drivers ask for one major |
| | of the viewer on the memory device: `WindowShown`, `EndReached` | a page and a window of any size but zero, a memory of any size, steps of whole lines |
| `ListHeadProofs` | of `ListHead`: `Represents`, `TestsRight`, `LoopSound` | heads are no entries, `LIST_POISON1` and `LIST_POISON2` are neither and differ |
| | of `ArpTable`: `PrintsTable`, `LookupRight` | `NULL` and the head are no entries |

Sets are assumed finite where a property counts their members. Three of the modules
(`SemaphoreOsqProofs`, `CharDevProofs`, `ListHeadProofs`) extend two specifications that have nothing to do
with each other; so `Semaphore`, `FileView` and `ArpTable` have names of their own for what
every specification has: `SemInit`, `ViewNext`, `ArpSpec`.

**Semaphore.** The inductive invariant is the conjunction of the five state properties. They
need each other: that a permit is conserved when `__up()` hands it over follows from the
first waiter being one without a permit, which is `WaitListExact`; that a failing
waiter takes no permit with it follows from the same; that `up()` wakes
somebody asleep, or awake already, needs `HandoffWakes`. `PermitsConserved` is about
`Cardinality(SemHolders)`, so each step shows which one element joins or leaves. `NoOvertaking`
follows from what a step that gives a task a permit looks like: either the list is empty
(`NoPermitPastWaiters`), or `__up()` gave it to the head of the list.

**Mutex.** The inductive invariant adds to the properties:

* `WaitLockHeld`: whoever is in a locked part of the slow path holds `wait_lock`, so at most one is;
* `OwnerSet`: the owner is past the store of `lock->owner` and before its clearing;
* `CountBound`: the count is at least minus the number of calls, which types it;
* `MarkedContended`: a waiter that got the mutex left the count negative, which it keeps until it is
  off the list and, if it was the last, sets the count to 0;
* `NobodyForgotten`: `NoLostWakeup` also for a waiter that has not gone to sleep yet. This is the
  strengthening that makes it inductive: the waiter that decides to sleep has just made the count negative
  under `wait_lock`, and only an unlock, a taker or another holder of `wait_lock` can change that.

**Spin queue.** `Links` says how the nodes hang together while CPUs join, leave and pass the
lock on: a waiter is known to its predecessor by at most one of three, the `next` pointer, a CPU that has
taken it from there, and a CPU that has unlinked itself and is about to write it. This is all that
`NoWriteToIdleNode` and `NeighboursStable` need. It does not say that the waiters are one queue in the order of
arrival. `Order` adds that there are numbers for the CPUs in the queue, each next after its predecessor's,
by which `arrival` is sorted; that they exist, rather than a definition of them by recursion along
`prev`, is enough, and each step says what the new numbers are. The refinement follows: who sees
`locked` is the first of `arrival`.

**Reader/writer semaphore.** The invariant has four parts.

* `Shape`: types; what each task called; who holds `wait_lock`, who is on the wait list and on the spin
  queue, and what a waker knows about the front of the list.
* `Decoded`: `CountDecodes` as a sum of cardinalities of disjoint sets of tasks, so that a step moves one task
  in or out. Since the sets are disjoint and there are fewer tasks than the mask can count, the
  low half never overflows, and each comparison of the code reads back what it means to read.
* `Excluded`: who may have the lock with whom, which gives the refinement of `RWLock`. It is inductive only with
  `Decoded`, since every guard that lets somebody in is a comparison of the count.
* `QueueMinded`: a non-empty list has a holder, or a task on its way to wake it. Also a task
  that has failed in a fast path and not taken its bias back counts, since it will look at the list.

`NoBarging`: a fast path lets a reader in only if the count is not negative. Then there is no waiting bias in it, and the
list is empty or has only readers on it that a waker is about to let in.

**Wait/wound mutex.** `ContextsRight` relates three things that are written at different times
by different steps: the mutex underneath, `lock->ctx`, and `ctx->acquired`. It is inductive with the meaning of the count,
with `ctx` being `NULL` wherever the holder is before the store or past the clearing, and with each task's
list of locks having no duplicates (`-EALREADY` rests on that).

`OldestStays` compares stamps, which wrap. `AgeInv` says what they mean: `age` lists the contexts in use, each
with more stamps given out since its own than the next one, counted modulo the range. Then the code's
`ctx->stamp - hold_ctx->stamp <= LONG_MAX` says who is older as long as less than half of the range is given out during the life of
one context, across the wrap too. This is the hypothesis `StampsClose` of the theorem: the code has it from the width of a
`long` alone, with nothing that enforces it. `StampsStayClose` shows that it follows from `MaxCalls <= LONG_MAX`, which the
run `ww_mutex` satisfies with equality while its stamps wrap.

`SleepersMayWait` and `NoDeadlock`. A waiter that is not the first in its queue may sleep behind an older context without being told,
and `ww_deadlock` makes a deadlock of it. What the code does guarantee is about locks with at most two users, which
is a condition on the callers' plans (`Paired`), not on what happens in a behaviour. Such a lock may be held
together with locks that have more users. The proof of `SleepersMayWait` has these parts:

* `QueueInv`: a task in the wait loop is on the list of its lock, and has `wait_lock` unless it sleeps.
* `PlanInv`: a caller asks for, waits for and has only locks of its plan.
* `FirstInv`: nobody sleeps for a lock it has, since `-EALREADY` comes first (`NotOwn`). So of two users the one that
  waits for the other is the first in the queue; behind it there can only be one that has the lock already and is about to find out.
* `NotLost`: the first waiter has left the count negative; where it is not any more, an unlock is on its way to wake
  it. So a holder that sets `ctx`, reads a count of 0 and wakes nobody leaves nobody behind.
* `HasLooked`: the waiter has seen the present `ctx` and is not younger, or the holder that set it or an unlock is about
  to wake it.

With a second waiter `NotLost` fails: the first waiter's `xchg()` makes the count negative again after a taker
read 0, and what it tells the others is lost.

`NoDeadlock` says that not all the tasks sleep that have not returned. It is proved for callers whose locks are shared by two tasks
wherever they are nested (`Nested(l) => Paired(l)`): chains and rings of any number of contexts and locks are among them, and locks
that are taken singly may have any number of users. Suppose all sleep. `AttendInv` says that no wakeup is lost, for
whatever tasks wait: if the count is not negative while somebody waits, somebody is awake and about to look. So
somebody has each lock that is waited for, and sleeps, so that it has two locks in its plan. `OwnInv` says that it has a context, and `ctx`
names it. Then each sleeper that has locks waits for a younger one, by `SleepersMayWait`, which the youngest of them cannot (`age` has a
last one). `AttendInv` and `OwnInv` need no condition on the plans. `ww_deadlock` has a nested lock with four users.

**Wait queue.** The proof is about pointers. There is a set `R` of cells that `next` and `prev`
arrange in a ring through the head: on `R` they are inverse to each other, and some numbers grow along it from the head on.
Without the numbers, that `next` and `prev` are inverse would allow a second cycle apart from the head, which a
waker never walks. What `list_add()`, `list_add_tail()`, `list_del()` and `list_del_init()` do to rings is
a lemma for each. An entry outside `R` points to itself, or a waker who has the lock is between the
writes of `list_del_init()`. Then `list_empty_careful()`, which reads the two pointers at different
times, sees both pointing to the entry only when the waker is done with it: that is `EntriesLive`. A task that may sleep is in
`R`, which is `QueueSound`. Whether there are finitely many tasks does not matter.

**Character devices.** The invariant says what `insmod`, `rmmod`, `open()` and `close()` have done at each step, and
counts two kinds of references exactly: those to a module and those to a cdev. Neither count is
inductive alone. The module's keeps `rmmod` from unmapping a cdev that has users, so the users' references
are never the last ones to the cdev; so the inode still caches the cdev that `open()` counted, and `close()`
drops the reference of the right module. The theorems have the hypothesis `DistinctMajors`, which the drivers of the
repository satisfy (200 and 85). It is a hypothesis and not an assumption of the module because `chardev_unmap` shows,
with an instance that does not satisfy it, that it is needed.

**Lists.** `Spells(m, h, q)` says that the pointers of a memory `m` lead from the head `h` through the sequence `q` and
back to `h`, in both directions. There are three layers of lemmas: what each function of `list.h` does to `next` and `prev`
as functions, whatever cells coincide; what that does to the list spelled out, which needs no induction along the chain, because the
new pointers are known at every index of the new sequence, for `list_splice()` and `list_cut_position()`
too; and what it does to all lists together. The last uses that lists of different heads have no cell in common,
and that an entry which is on no list is pointed to by none (`Rep`). With this `Represents` follows. `TestsRight` also needs `Stale`:
an entry on no list that was never initialised, or was removed with `list_del()`, does not point to itself. `LoopSound` needs more than it
says: also while a loop has dropped the lock (`list_safe_reset_next()`), what it owes a visit stays
behind the cursor on the list (`LoopInv`).

**ARP table.** The table is one list in the sense of `Spells`. The loops are at its `k`-th cell for some `k`; the first `k` addresses are
printed, and none of the first `k` is the one looked up. `LookupRight` includes that `main()`, which does not test the result, dies
exactly if the address is not in the table.

**Viewer.** The reads fill the buffer from its start without a gap, and the file position is that of the next byte; a
read of no bytes means that the memory ends. So the window shows the bytes of the file that fall into it, however the page boundaries fall; what it shows behind
them is `NoneBeyondEnd`, which `file_end` refutes. `EndReached` is arithmetic
about `posmax`, which rounds down to a line, together with `WindowShown`.

`ListSeqProofs` states once what appending to, deleting from and taking the head of a list without
duplicates does to its members and their order; the proofs about the semaphore, the mutex, the spin queue, the reader/writer
semaphore and the wait/wound mutex cite it.

The inductive invariants were checked with TLC on the instances of the runs before they were proved. `HandoffWakes`, and
`TypeOK` of the semaphore, the reader/writer semaphore and the character devices, are proved and need no run
of their own.

Only model-checked:

* Liveness under fairness (`EveryWaiterServed`, `EveryCallReturns`, `EveryWaitReturns`, `EveryPlanEnds`): out of the
  prover's reach.
* What happens to sleepers of locks with more than two users: the code promises them nothing, as `ww_deadlock` shows. For
  them there is `EveryPlanEnds` with its premise.

## What the checks found

* `chardev_unmap`: `__unregister_chrdev()` gives the major back before
  `cdev_del()` removes the probe, and the probe is removed by device number. A
  driver that registers the same major in between loses its probe, while the
  freed cdev of the first stays in the map, where the next `open()` finds it.
  With distinct majors (run `char_dev`) this cannot happen.
* `ww_deadlock`: the unlock slow path sets the count to 1 although tasks are
  queued, and wakes the first of them. A context that takes the lock just then,
  by the fast path, sets `lock->ctx`, reads a count of 0 and concludes that
  nobody waits. The woken waiter marks the lock contended again and sleeps. A second
  waiter, younger than the new holder and holding another lock, is never woken
  to see the new `ctx`; when the holder asks for that other lock, it
  sleeps too, being the older. All tasks of the run use contexts and follow the rules
  of `ww_mutex.h`.
* `file_end`: `my_read()` of `dram.c` compares only the start of a read with the size of
  the memory; a read in the last page returns the bytes up to the end of the
  page, although the comment in line 64 says "we cannot read beyond the end-of-file". The
  End key of the viewer then shows bytes past the end: with the `dram_size` of the driver, `0x25f5ffff8`, eight of them.

Observed in the models, without a run of their own:

* When the registration fails, `chrdev_init()` of `mychar_dev.c` ends without a return
  value. If what the caller sees is not negative, the module stays loaded, and
  its exit function later unregisters the driver that owns the major. (`Careless` in `CharDev`.)
* `__ww_mutex_lock_check_stamp()` reads `hold_ctx->stamp` under `wait_lock`, and a
  comment in `mutex_optimistic_spin()` says that this guarantees a valid context. But the holder's
  `ww_mutex_unlock()` takes `wait_lock` only if the count is negative, and the count of a
  contended lock is not negative while an unlock has set it to 1 and a newcomer has taken it
  to 0: a waiter between its `xchg` of the count and the read can meet a context that is gone.
  The model reaches such states, and lets the read give any result there (`Gone`).
* `abort_exclusive_wait()` passes a wakeup on with the mode of the waiter that leaves. An
  interruptible waiter thus does not pass it on to an uninterruptible one; waiters of one queue have to
  agree. The six ways to wait in `MCWaitQueue` do.

Seen while reading, and not modelled: `chrdev_init()` prints that the registration failed when
it succeeded and the other way round; `paging_lowmem.c` declares `vaddr` twice, so that its exit
function frees address 0 and the page stays allocated.

## Not modelled, and why

* The width of the counters: 2^31 permits or failing calls are out of reach of
  any run.
* In `mutex.c` and `rwsem-xadd.c`: lock debugging, deadlock injection, and the fast paths of
  other architectures.
* In `wait.c`: timeouts (`Semaphore` has the race of a timer with a wakeup), `wait_on_atomic_t()`, the
  `_locked` forms, and the hashing of bits to queues, by which waiters for other bits can share
  a queue: `wake_bit_function()` skips them.
* `mychar_dev.c`'s two buffers and the program that reads and writes them: the driver has no lock and
  documents that; every property of the buffers' contents fails with two users, and with one there is nothing to interleave.
* `paging_lowmem.c` runs once at load and prints; the one thing it keeps is the page it forgets.
* Queued spinlocks: their correctness is about `xchg` and `cmpxchg` on mixed-size parts of one word;
  models here take spinlocks as atomic sections. Sleepable RCU: `srcu.c` is about per-CPU counters
  read without order, for which sequentially consistent memory would show too little.
* In `char_dev.c`: ranges of minors, dynamic majors, `/proc/devices`,
  `base_probe()` with `request_module()`. A driver's `open()` is taken to
  succeed, as those of the repository do.
* In `fileview.cpp`: drawing, formats, terminal modes, editing of the typed address.
* `container_of()`: an entry is its `list_head`.
* The hash lists of `list.h`'s kernel original are not in the repository's copy. The rest of
  Linux 4.4.1 is reference material; of its other locks, `rtmutex.c` depends on the scheduler's priorities,
  `lockdep.c` checks the users of locks, and tree RCU is about weakly ordered memory.

## Plan

Done: the list, the semaphore, the mutex, the spin queue, the character
devices, the viewer, reader/writer semaphores, wait/wound mutexes, wait queues; proofs of all the safety
properties of the runs that pass, and of both refinements. Left:

1. Liveness, which only TLC checks, on the instances of the runs.
2. Shorter proofs: the cases of `RWSemProofs` and `WwMutexProofs` that say what a step leaves alone have a common form.
3. The components that are not modelled, if the repository's own modules come to use them.
