# A TLA+ model of the Raspberry Pi bare-metal kernel

The repository is a small preemptive kernel for the BCM2835: threads, a
round-robin scheduler driven by the timer IRQ, Pintos-style semaphores, locks
and condition variables, a page allocator and a block allocator, and drivers for
the timer, the screen and GPIO. Paths below are relative to `src/src/`.

## The system

| Component | State | Operations | Hard part |
|---|---|---|---|
| Thread scheduler, `threads/thread.c`, `arm_asm/contextSwitch.s` | `struct thread` (status, tid, saved frame, list elements), `ready_list`, `all_list`, `idle_thread`, `thread_ticks` | `thread_start`, `thread_create`, `thread_block`, `thread_unblock`, `thread_yield`, `thread_exit`, `idle`, `schedule` | two ways of switching (from a thread, from an IRQ) over the same frames; boot before there is an idle thread; pages of dead threads reused |
| IRQ entry and exit, `arm_asm/interruptsHandlers.s`, `threads/interrupt.c` | the pushed frame, `in_external_interrupt`, `was_irq_generated`, `yield_on_return` | `irq_handler_int`, `interrupts_dispatch_irq`, `interrupts_set_level` | preemption between any two instructions that run with IRQs on |
| Interrupt dispatcher, `threads/interrupt.c` | `irq_handlers[]`, the controller's enable and pending registers | `interrupts_register_irq`, `interrupts_enable_irq`, the scan | lines raised during the scan |
| Timer, `devices/timer.c` | CS, CLO, C1, C3 | `timer_init`, `timer_irq_handler`, `timer_set_interval`, `timer_msleep` | the counter goes on while the driver computes; 32-bit wrap; one status register for four compares |
| Semaphores, `threads/synch.c` | value, waiters | `sema_down`, `sema_try_down`, `sema_up` | barging: a woken thread may find the unit gone |
| Locks, condition variables, `threads/synch.c` | semaphore and holder; list of `semaphore_elem` on the waiters' stacks | `lock_*`, `cond_*` | `holder` is written outside masked sections; `cond_wait` is four steps |
| Pages, `threads/palloc.c`, `lib/kernel/bitmap.c` | two pools, each a bitmap and a lock | `palloc_get_multiple`, `palloc_free_multiple` | freeing takes no lock; bit operations are read-modify-write |
| Blocks, `threads/malloc.c` | descriptors, arenas, free lists | `malloc`, `calloc`, `realloc`, `free` | size arithmetic; arenas given back while others allocate |
| Console, `lib/kernel/console.c` | console lock, depth, `write_cnt` | `vprintf`, `puts`, `putbuf`, `putchar` | the lock is never switched on, so tasks, the scheduler and interrupt handlers write at once |
| Screen, `devices/video.c`, `arm_asm/drawing.s`, `arm_asm/memoryCopy.s` | cursor, colour, frame buffer | `video_putc`, `SetForeColour`, `DrawCharacter`, `memory_fastest_copy` | one cursor and one colour for all threads; wrapping and scrolling |
| Lists, `lib/kernel/list.c` | links of elements and headers | all of `list.h` | stale pointers of removed elements; order of pointer writes |
| Hash table, `lib/kernel/hash.c` | bucket array, counts | all of `hash.h` | growing and shrinking, allocations that fail |
| C library, `lib/` | | | sequential |

Interactions: everything that sleeps goes through semaphores, which call
`thread_block`/`thread_unblock`; the timer IRQ calls `thread_tick`, which asks
`interrupts_dispatch_irq` to yield; `thread_create` takes a page from palloc with
IRQs masked and `thread_schedule_tail` gives it back, masked too; locks are
semaphores; malloc uses locks and the console would. Every thread switch prints, so
the console is written to from every context there is. The hash table takes its
bucket array from malloc and its chains from the lists; nothing in the kernel uses
it yet.

## Modules

| Module | Models |
|---|---|
| `Threads` | scheduler, idle thread, IRQ preemption, semaphores |
| `RoundRobin` | what the scheduler promises: FIFO dispatch, idle last |
| `Synch` | locks and condition variables over semaphores |
| `Monitor` | what they promise: a Mesa monitor |
| `Interrupts` | dispatcher, controller, acknowledgement by the timer |
| `Timer` | system timer and its driver: compare, sleep, wrap |
| `Palloc` | page allocator and its bitmaps |
| `Malloc` | block allocator over the page allocator |
| `Links` | linked lists, as pointers: initialising, linking and unlinking |
| `Lists` | the rest of `list.c` over `Links`: splicing, sorting, reversing, ... |
| `ListSeq` | what they promise: sequences, and the results of the calls |
| `Hash` | the hash table |
| `Dictionary` | what it promises: a set with one element per key, and the results of the calls |
| `Video` | what the functions of `video.c` do to the screen, as operators |
| `Console` | tasks and masked code printing on it |
| `MCThreads`, `MCSynch`, `MCPalloc`, `MCMalloc`, `MCConsole`, `MCInterrupts` | instances for TLC |
| `SchedulerProofs` | proofs about `Threads`: types, the inductive invariant and what follows, `RoundRobin` |
| `SynchProofs` | proofs about `Synch`, and that it implements `Monitor` |
| `DevicesProofs` | proofs about `Interrupts` and about `Timer` |
| `PallocProofs`, `MallocProofs` | proofs about the modules they are named after |
| `ConsoleProofs` | proofs about `Console` and the functions of `Video` |
| `ContainersProofs` | proofs about `Hash` and `Links`, that they implement `Dictionary` and `ListSeq` |
| `DataLemmas` | lemmas about queues, least numbers and division that several proofs use |
| `MCDevices`, `MCLibrary` | instances of several modules, `Interrupts` and `Timer`, `Lists`, `Hash` and `Console`: a behaviour is of one of them |

A definition marked `mutant` is a wrong version of the definition after it. The
specifications never use it; it is there to show that a property notices the bug
when the wrong version takes the right one's place.

### Threads

There is one CPU. A section that runs with IRQs masked is one action; an action
ends where IRQs may be on or where the CPU changes hands. `cpu` holds the SYSTEM
mode registers as the model needs them: stack (`sp`, the page, hence the thread),
IRQ mask, point in the code, object at hand and the local `old_level`.
`stack_frame` is `struct thread.stack_frame`, `irq_frame` the frame pushed by
`irq_handler_int`. A task is at `"user"` and may call anything there is at any
time; that replaces the demonstration tasks of `init.c`.

 - `schedule()` outside an IRQ is `Schedule`: it stores the running context in the
   thread, loads the next one and includes `thread_schedule_tail()` (new slice,
   RUNNING, reaping of a dying thread's page). Inside an IRQ it is part of
   `IrqYield`, which exchanges the pushed frame.
 - A blocked or preempted function continues where its frame says: `SemaDownRetry`
   tests the value again, `ThreadYieldReturn` and `IdleResume` restore the level.
 - `thread_create()` is two actions, since it restores the level before
   `thread_unblock()`. From `thread_start()` it is one: IRQs are still masked.
   With no free page it is `ThreadCreateFails`, which leaves IRQs masked as the
   code does.
 - Each ASSERT whose condition is about modelled state is a test; failing it is
   `Panic`, which halts.
 - `palloc_get_page()`'s and `allocate_tid()`'s locks are only taken in sections
   that mask IRQs, so here they are never contended; palloc is "some free page".

### Synch

Any thread that is not asleep may take the next step: IRQs are on between
semaphore operations, and `Threads` shows that the scheduler may run anyone. The
semaphore inside a `semaphore_elem` on a waiter's stack is named by the waiter.
Tasks call within the rules of `synch.h` (release what they hold); the ASSERTs
test whether the code agrees.

`cond_wait()` joins the condition's list, releases the lock step by step and then
sleeps; `Monitor` does all that at once. The mapping counts a thread as waiting once it
has given the lock up (`Joined`), and as inside until then. Only the thread at the end
of a list can still be on its way (`WaitersExact`), since joining takes the lock.

### Interrupts

A handler is named by the line it was registered for. `unserved` is a history of
events whose driver has not run, `due` one of the lines that were pending when the IRQ
was taken and whose driver has not run. The controller and the devices are external; a
pending line is one that is up and enabled. `Half` stands for 32. Besides the
timer, the model has a second driver and a compare nobody registered. The timer's driver
writes the status register back as a whole (`timer.c:72`), which takes every compare's
line down (`Acknowledged`). With drivers for two compares, one would take the other's line
down before the scan gets there, and `PendingServed` fails; the kernel has one, for
compare 1, and so has the run.

### Palloc

Pages are numbered from the start of free memory. Setting or clearing a bit is a
load and a store of its word. `Masked` says whether clients call with IRQs masked,
as `thread_create()` and `thread_schedule_tail()` do, or may be preempted inside,
as a task calling palloc or malloc would be. The scan is one step in both: a finer
scan only adds interleavings to the run that already fails. `PoolOf` leaves out the
`NOT_REACHED()` for a page of neither pool, which `GroupsInPool` excludes. In the instance
each pool has pages beside its bitmap.

### Malloc

A descriptor is named by its block size, an address is a page and an offset, and
an `arena` is the header at the start of a page. The geometry is a parameter: pages
of 64 bytes with a header of 40 and blocks of 8 or more stand for 4096, 12 and 16,
so that an arena holds three blocks or one and fills up and empties often.
`size_t` has `SizeRange` values and its sums and products wrap. A thread holds the
lock of a descriptor from `MallocLock` to `MallocPop` or `MallocFails`, and from
`FreeBlock` to `FreeGave` while it gives an emptied arena's page back; between these
steps, between the copy and the free of `realloc()`, and between `free()`'s look at
the arena and its locked part, other threads run.

Callers have IRQs on, so they are preempted inside palloc as well. `palloc[t]` is the call
of palloc that thread `t` is in: it flips the bits of its pages one by one, each by a load
of the word (`MarkLoad`, `ResetLoad`) and a later store (`MarkNext`, `ResetNext`,
`PallocGot`, `PallocGave`). The way out of the pool takes its lock (`PoolLocked`), the way
back takes none. The scan is one step, but finds any free group, not the first alone:
pages may come back behind it. A call that finds none does so as of the start of its scan.
The wiping of pages and the `bitmap_all()` ASSERT of `palloc_free_multiple()` are part of
the step that enters it.

A store from a stale load undoes what others stored since; `lost` says that this has
happened. It does happen (run `palloc_race` shows what follows: a page handed out twice),
so the properties of `Malloc` are of the time before: they say that malloc.c itself, and
its use of palloc between any two loads and stores, are right as long as the bitmap keeps
its updates. The instance follows behaviours up to that point (constraint `NothingLost`);
the steps that lose an update are among those it takes.

What blocks contain, hence
`memset()` and `memcpy()`, is left out. A call that returns NULL before it touched
anything (size 0, `calloc()`'s test, no pages for a big block) is no step. Callers free
what they hold, once. `Unlisted` is the loop of `free()` that takes the blocks of an
emptied arena off the list; it is a recursive function, so that it can be reasoned about.

### Lists

`links` is `prev` and `next` of all elements and of the two headers of each list; an
element that was never linked is zero and one that was removed keeps what it had.
Loops of `Lists` are recursive operators on the links. Each function is one step, since the
kernel calls them masked or under a lock. `call` records the last call and its
result, so that the refinement compares results too. `owner` is the caller's
knowledge of where an element is: a caller links only elements in no list, removes
only elements in one, passes `list_splice()` a range of a list and a place outside
it, and `list_unique()` another list or NULL for the duplicates, as the comments ask.
`Links` has the functions that `thread.c`, `synch.c`, `malloc.c` and `hash.c` call, and
no recursive operator, so that it can be proved about: `Walked` follows the links by a
recursive function.

### Hash

A bucket is the sequence that `ListSeq` shows a list to be. `datum` gives each element
its key and its hash value; equal keys have equal values. `Rehash` is all of
`rehash()`: the loop that rounds the bucket count down to a power of two, the early
return, the failed allocation, the move of every element to the front of its new
bucket. `arrays` counts the bucket arrays that malloc gave and free did not get
back. The iterator is the bucket and the place in it, 0 for the head; a call that
changes the table ends its validity, as the comments say. `hcall` records the last
call and its result for the refinement. The minimum of 4 buckets and the ratio of 2
are parameters, so that four elements make the table grow twice.

### Timer

`CLO` advances by `Tick` between any two steps; `Wrap` stands for 2^32. Masked code
(boot and handler) keeps up with the counter: at most `MaxLag` ticks pass between two
of its steps, fewer than an interval. A task that sleeps is under no such bound, as
interrupts and other threads hold it up. `timer_set_interval()` is a read of CLO and
a write of C1 apart. The subtraction of timestamps is the signed one of `int`. `left`
of a sleep is a history variable: the ticks it still has to wait.

### Video and Console

`Video` has no variables: a screen is a record of the frame buffer's bytes, the cursor
and the colour, and each function of `video.c` maps a screen to the next one.
`video_putc()` masks interrupts, hence is one step of `Console`. A pixel is
`BYTES_PER_PIXEL` bytes of the colour's value; a glyph is a set of dots.
`LoopLeaves` is a loop of `memory_fastest_copy()`: what it leaves of a number of bytes.
The copy goes to lower addresses by at least a block, so it is one step of the bytes.

In `Console` a task runs the loop of `init.c`'s tasks: it sets the colour, then prints,
character by character, and `write_cnt++` is a load and a store. Code with interrupts
masked (handlers, `schedule()`, the loop of `init()`) prints a message in one step,
between any two steps of tasks. `use_console_lock` is false in all of it, since
`console_init()` is never called. It could not simply be called: `schedule()` prints
while the current thread is no longer RUNNING, and with the lock on and held by
another thread that print would block, that is, call `schedule()` from inside itself.
`paper` and `ink` are the history the screen is compared with: the lines of text and
the colour each character was written in. The parameter of
`SetForeColour` is a `uint16_t`, so the range check of `drawing.s:38` is left out. `write_cnt` is an `int64_t`;
its two words are loaded and stored as one, which makes a difference only when a carry
into the upper word, after 2^32 characters, is torn.

## Runs

| Run | Instance | Result |
|---|---|---|
| `threads_safety` | main, 3 pages, 1 semaphore, tids to 5, values to 2, tasks mask IRQs | invariants, action property and refinement hold; 252,890 states up to symmetry of pages |
| `threads_live` | main, 2 pages, tids to 3 | `ReadyRuns`, `BootCompletes` hold |
| `create_level` | 2 pages, tasks never mask IRQs | `TasksPreemptible` violated |
| `synch` | 4 threads, 1 condition | invariants, refinement and liveness hold |
| `devices` | controller: two registers of 3 lines, drivers on lines 1 (a timer compare) and 2, an invalid number; timer: 16 counter values, interval 4, sleeps of 5 (boot), 3 (handler) and 2 (task) | holds, from every value of the counter |
| `irq_high_line` | a driver on a line of the second register | `RunsRegisteredHandler` violated |
| `palloc_masked` | 9 pages, 2 clients, 2-bit words | holds |
| `palloc_race` | the same, preemptible, 32-bit words | `NoDoubleAllocation` violated |
| `malloc_safety` | 2 threads, 3 pages, descriptors 8 and 16, sizes 8, 9 and 33 (a big block of two pages), products 16, 152 and 272, 4 blocks in use, 256 values of `size_t` | holds until an update of the bitmap is lost; 687,606 states up to symmetry of threads |
| `calloc_wrap` | the same, with the product 17 * 17 | `ProductFits` violated |
| `library` | lists: 3 elements, 2 lists, keys with a tie and keys all apart; hash: 4 elements, all keys apart or two alike, at least 1 bucket; console: 3 rows of 2 characters, 2 tasks with 2 messages each, 1 message of masked code | holds; 866,996 states, among them every state of the lists and of stale pointers |
| `scroll_copy` | the console of `library` | `ScrollCopiesAll` violated |

Why the bounds are enough: three pages hold the idle thread, a waiter and a
waker beside main; five tids make pages be reused and the pool run out; a value
of 2 lets two units be up while threads wait, which is where a lost wakeup would
show. The liveness run has no more tids than pages, so `thread_create()` never
fails in it: after a failure IRQs stay masked (run `create_level`), a task that
loops is never preempted, and `ReadyRuns` would be false. Two-bit words make
groups of three cross a word boundary. Three pages let two descriptors and a big block
compete and memory run out, and two threads meet in the same arena. With 256 values of
`size_t`, 152 is the largest size that does not wrap with its header and the rounding to
pages (`Fits`); the product 272 wraps to 16, which `calloc()` refuses, and 289 to 33,
which it does not. Three elements
give the sort three runs, hence two passes, and a tie shows whether it is stable.
Four elements and a minimum of one bucket take the hash table through one, two and
four buckets and back, with collisions at every size. The boot sleep is longer than
the interval, as in the code (ten times), so the first match happens while masked,
and since every start value is tried, the wrap of the counter falls into every step.
Four messages and a masked one fill lines, wrap them and scroll, and the rows moved by a scroll take all three loops
of the copy.
Deadlock is not checked for `Synch`, whose
tasks may all wait for a signal that no one is left to send, nor where a
violation is expected, nor for `library`, since the tasks of `Console` end; calls of
`Lists` and `Hash` are always possible.

Findings: `thread_create()` returns with IRQs masked when there is no page
(`thread.c:229`); a pending line of the second register runs the handler of the
line 32 below (`interrupt.c:234`; latent, the kernel registers line 1 only); bits
are not set atomically as `bitmap.c:147` says, and with preemptible clients a page
is handed out twice; `memory_fastest_copy()` stops one byte short
(`memoryCopy.s:52`), so every scroll leaves a byte behind. `ScreenShowsText` therefore
excepts these bytes (`LeftBehind`) and holds everywhere else. `calloc()`'s test
(`malloc.c:168`) misses products that wrap to a number not below the factors, against the
comment above it. Seen on the way and not the subject of a run:

 - `write_cnt` (`console.c:58`: "Number of characters written to console") loses the
   characters that others write between its load and its store, so it is only a lower
   bound; `CountNotOver` is that it is one.
 - `malloc()` answers sizes within a header and a page of the largest `size_t` with a small
   block, since the sum wraps (`malloc.c:111`).
 - The timer's driver acknowledges all compares (`timer.c:72`), harmless with one driver.

### Fairness

`Threads`: an IRQ handler finishes (weak fairness of `IrqEnd`); the timer is
re-armed in every tick and its IRQ stays pending while masked, so it is taken if
IRQs are on again and again (strong fairness of `IrqDispatch`); a thread that is
dispatched again and again advances through kernel code, since a step is far
shorter than a tick (strong fairness per thread); a task that masked IRQs unmasks
them some time. Tasks are under no other obligation: they may loop for ever.
`Synch`: a thread in the middle of a function goes on, which `ReadyRuns` gives.
`Interrupts`: a pending IRQ is taken and the scan goes on. `Timer`: time passes, and the
CPU goes on in masked code and takes a pending IRQ; nothing is assumed of the task.
`TicksForever` then shows what `Threads` assumes of the timer: another IRQ always
comes. There is no claim that
every `sema_down()` or `lock_acquire()` returns: a woken thread can lose the unit
to a newcomer any number of times.

## Proofs

Checked by TLAPS for every value of the constants that satisfies the named
assumptions of the modules.

| Theorem | States | Of |
|---|---|---|
| `TypeCorrect` | `[]TypeOK` | `Threads` |
| `Invariance` | `[]IInv` | |
| `PanicFree` | `[]NoPanic` | |
| `OwnStacks` | `[]StacksMatch` | |
| `ElemShared` | `[]ElemDiscipline` | |
| `NobodyLost` | `[]NoThreadLost` | |
| `SliceBound` | `[]SliceRespected` | |
| `WakeupsKept` | `[]NoLostWakeup` | |
| `TidsDistinct` | `[]AllListExact` | |
| `RoundRobinRefined` | `ImplementsRoundRobin` | |
| `SynchInvariance` | `[]SInv` | `Synch` |
| `SynchPanicFree` | `[]NoPanic` | |
| `LockExclusive` | `[]MutualExclusion` | |
| `ListsExact` | `[]Bookkeeping` | |
| `WakeupKept` | `[]NoLostWakeup` | |
| `SignalKept` | `[]NoLostSignal` | |
| `MonitorRefined` | `ImplementsMonitor` | |
| `DispatchInvariance` | `[]DInv` | `Interrupts` |
| `DriverBeforeLine` | `[]EnabledHasDriver` | |
| `PendingAllServed` | `[]PendingServed`, if `KernelDrivers` | |
| `TimerInvariance` | `[]TimerInv` | `Timer` |
| `NextMatchAhead` | `[]MatchAhead` | |
| `SleepsFully` | `NotEarly`, an action property | |
| `PallocInvariance` | `[]PInv`, if `Masked` | `Palloc` |
| `FreeAsserted` | `[]NoPanic`, if `Masked` | |
| `PagesApart` | `[]NoDoubleAllocation`, if `Masked` | |
| `BitmapTrue` | `[]MapExact`, if `Masked` | |
| `GroupsPlaced` | `[]GroupsInPool`, if `Masked` | |
| `MallocInvariance` | `[](lost \/ MInv)` | `Malloc` |
| `AllocatorPanicFree` | `[]NoPanic` | |
| `ArenasTrue` | `[]ArenasExact` | |
| `BlocksDisjoint` | `[]BlocksApart` | |
| `RequestHeld` | `[]HoldsRequest` | |
| `CountBounded` | `ConsoleSpec => []CountNotOver` | `Console` |
| `TextShown` | `ConsoleSpec => []ScreenShowsText` | |
| `CursorStays` | `ConsoleSpec => []CursorOnScreen` | |
| `TableStaysExact` | `HashSpec => []TableExact` | `Hash` |
| `HashIsDictionary` | `HashSpec => ImplementsDictionary` | |
| `ListsAreSequences` | `LinkSpec => ImplementsSequences` | `Links` |

Each is `Spec => ...` unless the table says otherwise. Two hypotheses are about the
callers. `Masked`: clients of
palloc run with IRQs masked; without it the run `palloc_race` refutes the conclusion.
`KernelDrivers`: drivers are registered for lines of the first register only, at most one
of them for a timer compare, as in the kernel; without the first part see run
`irq_high_line`, without the second the shared status register. The theorems about
`Malloc` have no hypothesis about callers, but speak of the time until an update of the
page bitmap is lost, and `HoldsRequest` of the requests that fit.

### Threads

Assumed: main is not a page of the pool, the pool is finite, `NULL` is no thread, tasks
use the two levels there are.

`NoPanic` is not inductive, nor are the others alone. `schedule()` asserts that it
finds a live thread. That takes an exact run queue (`RunQueueExact`: its head is
READY) and an idle thread for when the queue is empty; before `idle()` has run
there is none, so `IdlePhase` says that the thread that will become it is then
READY or RUNNING, hence queued when main blocks in `thread_start()`.
`thread_unblock()` asserts BLOCKED. For `sema_up()` that is `WaitListExact`; for
`thread_create()`, preempted between making a thread and unblocking it,
`UnblockPending`: each new thread has exactly one thread about to unblock it.
`ContextsFit` ties status to the saved point in the code, so that, for example,
the creator cannot be dead. `StacksMatch` makes `thread_current()`'s ASSERTs hold and
says whose context each action reads.

Nearly every action is a special case of one lemma, `SwitchInv`: the running thread
leaves a context and a status behind, and another thread, or itself, goes on.
Actions that only move the running thread on switch to itself (`LocalInv`,
`CpuInv`), voluntary switches go through `ScheduleInv`, the end of a time slice is
`IrqYieldInv`. Waking (`WakeInv`), creation (`ThreadCreateInv`, `ThreadStartInv`) and
the naming of `idle_thread` (`IdleInitInv`) have proofs of their own. `Schedulable`
is the argument that there always is a next thread.

With the invariant, the refinement of `RoundRobin` follows action by action from what
`schedule()` does to the queue, and the counting of woken threads for `NoLostWakeup`
from the one thread each action moves.

### Synch

Assumed: there are threads and conditions, under names of their own. `SInv` is the
conjunction of the five invariants of the run: `NoPanic` needs an exact holder, the
holder needs mutual exclusion, a signal finds a waiter that has left the lock only
because of mutual exclusion, and a wakeup reaches its thread because the lists are
exact. `MonitorRefined` maps every step under `SInv`.

### Interrupts and Timer

`PendingServed` is not inductive: `DueInv` adds that a line that is due is up and enabled
until its driver has run, so that the scan finds it when it comes there. The driver that
runs in between takes down no other line that is due, by `KernelDrivers`, and the handler
found in the table is the line's own (`DInv`).

For the timer, `WriteAhead` follows the compare value between the read of CLO and the
write of C1, and `Timed` says what CLO tells about a sleep in progress. Assumed: sleeps
and the interval are less than half the counter's range, and masked code keeps up
(`MaxLag`). The arithmetic modulo the range is in a few lemmas (`Difference`, `Wrapped`).

### Palloc

`PInv` describes the middle of calls: the bitmap says what clients own plus what the one
call in progress has set or not yet reset (`MapSays`, `Partial`), the word it loaded is
still the bitmap's (`WordFresh`, which is what masking buys), and groups lie in their
pools (`GroupsInside`) and apart. The layout of the pools by `init_pool()` is a matter of
lemmas about `BmPages` and `Base`. Assumed: each pool has room for its own bitmap, which
`init_pool()` panics without.

### Malloc

Assumed of the geometry: the header fits in a page and every descriptor's arena has room
for a block. `MInv` has five parts.

 - `CallInv`: a block is held by one caller or one call, and a descriptor's lock is held by
   exactly the thread that is in `malloc()` for it or in `free()` giving its page back; no
   update is lost and nothing has panicked.
 - `MemInv`: what is held or listed is a block of the arena at its page, lists have no
   duplicates and nothing held on them, the counter is the number of listed blocks and the
   rest are held (`CountExact`, also while the lock is), and every page is in one arena or
   `Spare`: free, or on its way in or out of palloc.
   `FullLocked` is the strengthening that the assertion in `free()` needs: an arena without
   blocks in use exists only between `malloc()`'s refill and its pop, under the lock, so
   `free()`, which has the lock, never sees one and never counts past `blocks_per_arena`.
 - `FreeNoted` is why the arena that `free()` reads before it takes the lock is still the
   right one after: the block it holds keeps the arena alive.
 - `PageInv`, of calls of palloc: the pages a call has marked or has yet to reset have
   their bits set and are in no other call, those it has yet to mark are free, and one
   call marks at a time.
 - `CallsLinked`: marking is done by `malloc()`, with an empty free list if it is for an
   arena, and resetting by `free()`.

`Spare` is what makes the calls of palloc manageable: only entering `palloc_free_multiple()`
and leaving `palloc_get_multiple()` change it, while the loads and the stores in between,
as long as none is stale, move pages within it (`LoadStep`, `MarkStep`, `ResetStep`). Since
`lost` is never taken back (`LostStays`), each step is between two states without loss, or
there is nothing to show.

The lemmas `MemPop`, `MemPush`, `MemRefill`, ... say what one change of memory does to
`MemInv`, and one lemma per action (`PopInv`, `FreeBlockInv`, ...) puts it together with
the calls. `BlocksApart` then is arithmetic: an extent lies in the pages of one arena or
in one spare page (`ExtentPages`), pages of different arenas are apart, and the blocks of
one are multiples of its block size (`BlocksOfArena`). For `HoldsRequest` the invariant
`FitInv` adds the blocks that `realloc()` is moving, the calls that have picked a
descriptor and those that are getting the pages of a big block; `BigPagesFit` is that a
request that fits gets enough pages, and `Steady` says that an arena does not change its size under a block in use.
What `Unlisted` computes is proved without the library's induction theorems, which the
provers cannot instantiate, by the least length for which it would fail
(`LeastNatural`, `LoopExists`, `UnlistedStays`).

### Console

Assumed: tasks are finitely many and print messages of at least one character, in
colours other than the black of the background; a character fits on the screen. The screen need not be
a whole number of characters wide or high.

A count that a task loaded is stale when it stores it, so `CountNotOver` needs
`LoadedNotOver`: what any task has in its register was no more than what had been written
or counted, and that only grows.

`ScreenShowsText` says nothing of the cursor, so `TextInv` adds that it stands at the end
of the last line of the paper, which always has room for a character (`Agrees`), and that
a task inside `printf()` has a character left. Most of the proof is geometry. Which row,
column and dot a byte of the frame buffer belongs to is a matter of quotients and
remainders (`Quotient`, `Remainder`, `Shift` of `DataLemmas`); a byte that a scroll copies
comes from the same dot one row below, and the bytes its last loop misses are
`LeftBehind`. Then one lemma each for a glyph, a line feed with and without a scroll, and
a wrap says that `Agrees` goes from screen and paper to the next ones. A message of masked
code is a fold over its characters; that `Agrees` holds after each is shown by the least
number of characters after which it would not. `CursorOnScreen` follows: no character is
clipped and no access falls outside the frame buffer.

### Hash

Assumed: finitely many elements; equal keys have equal hash values; the minimum number of
buckets is a power of two, and the ratio aimed at is not 0.

`HashInv`: each element is in the bucket its hash value names and nowhere twice (`Sound`),
the bucket count is the minimum times a power of two (`PowerCount`), no two elements have
a key in common and they are counted exactly (`Full`), one array is allocated if the table is open, and an
iterator is at a place of a bucket (`Placed`). That there are no duplicates follows only
because equal keys have equal values and so meet in one bucket, which is why `Sound` must
survive a rehash; that the bucket of a value is below the count (`AndBound`) and that the
mask works at all needs powers of two.

What the operators compute is proved from below. `And` by halves of its arguments; `2^n`
as the number of subsets of a set, since the provers know the power only by its
definition; `x & (x - 1)` is 0 only for a power of two and
otherwise not below any power of two that x is not below (`Lowered`), so the loop that
rounds the bucket count ends in a power of two and no lower than the minimum; a traversal meets
every element once, and the move of all elements to new buckets keeps them all. These are
recursive functions, and each such lemma is again by the least number for which it would
fail. The refinement then says, call by call, what an insertion, a deletion, a search, a
step of the iterator and the visiting functions do to the set of elements.

### Lists

Assumed: finitely many elements, and `NULL`, elements and headers are different things.

`LinkInv` says that there are sequences that the links show (`Shows`): each list's `next`
pointers lead from its head along the sequence to its tail, and `prev` the same way back;
no element occurs twice, and the one list an element is in is the one its caller believes
it to be in. Nothing is said of the pointers of elements in no list. From this no node is
at two places (`OneAt`), so the four pointers that `list_insert()` writes, and the two that
`list_remove()` does, touch one list at one place (`InsertShows`, `RemoveShows`), and the
ASSERTs hold (`PutStep`, `TakeStep`). `WalkShows` is that a walk finds these sequences.
The theorem is what `Threads`, `Synch`, `Malloc` and `Hash` rest on when they take a list
for a sequence: all the list functions that the kernel calls are covered.

### Only model-checked

 - Liveness (`ReadyRuns`, `BootCompletes`, `LockTaken`, `SignalledReturns`,
   `BroadcastWakesAll`, `EventsServed`, `TicksForever`): fairness and ENABLED are out of
   the prover's reach.
 - The functions of `list.c` that nothing in the kernel calls (`list_splice()`,
   `list_reverse()`, `list_sort()`, `list_insert_ordered()`, `list_unique()`, size, maximum
   and minimum) against `ListSeq`: they are recursive operators, which the prover cannot
   take.

## Plan

Done: scheduler with IRQs and semaphores, its abstract round robin, locks and
conditions with their monitor, the IRQ dispatcher, the timer, the page and the block
allocator, lists against sequences, the hash table against a dictionary, the console
on the screen; and the proofs of every safety invariant, action property and refinement
that a passing run checks, that of the lists for the functions in use. Left: `list_sort()` and the
other functions of `Lists` as recursive functions, so that they can be proved about too.

## Not modelled

 - Text formatting (`stdio.c`), string functions, number parsing, sorting and searching
   arrays (`stdlib.c`), the random number generator: sequential code whose results no
   state of the kernel depends on.
 - The mailbox, frame buffer negotiation, GPIO (device I/O); serial (empty functions).
 - `video_new_line_faster`, `_slower` and `_slowest`, `video_clean`, `DrawLine`: never run.
 - The console lock when on: never switched on, see above.
 - The SWI dispatcher (prints only), priorities (stored, not used by the scheduler),
   names and statistics of threads.
 - The hash functions `hash_bytes`, `hash_string`, `hash_int`: a hash value is data.
 - `bitmap.c` beyond what the page allocator calls.
