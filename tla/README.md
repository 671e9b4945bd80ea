# TLA+ specifications of the ldd3 workshop drivers

Specifications, model-checking configurations and machine-checked proofs for
the Linux drivers in this repository (scull, edu, jiq, jit, qus).  `PROJECT.json`
maps every definition to the lines it models and lists the runs, mutants,
hazards, findings and theorems.

## The system

| part | source | concurrency | module |
|---|---|---|---|
| scull pipe devices | `scull/pipe.c`, `pipe.h`, `mutex_sparse.h` | processes, one mutex, three wait queues, signals | `ScullPipe`, `PipeRing`, `PipeFifo` |
| scull bare devices | `scull/main.c`, `scull.h` | processes, one mutex per device | `ScullDev`, `SparseFile` |
| scull ioctl | `scull/ioctl.c` | none held: races on three globals | `ScullDev` (quantum), `ScullPipe` (pipe length) |
| scull /proc listing | `scull/proc.c` | the device mutex; readers against unloading | `ScullDev` (`scull_seq_show`), `ScullModule` (the iteration) |
| scull load and unload | `scull/main.c`, `pipe.c` | users of the devices and of /proc meanwhile | `ScullModule` |
| edu interrupt test | `edu/irq.c`, `state.h`, `sysfs.c` | callers, hard handler, handler thread, timer, a spinlock | `EduIrq` |
| edu removal | `edu/init.c` 35-89 | races with all of the above | `EduIrq` |
| edu probe, version, inverse | `edu/init.c`, `sysfs.c` | users of the attributes meanwhile | `EduProbe` |
| jiq | `jiq/jiq.c` | work queues, tasklet, timer on shared data | `Jiq` |
| jit | `jit/jit.c` | timer and tasklet against the reader, signals | `Jit` |
| qus | `qus/qus.c` | calls serialised by the USB core | `Qus` |

scull's devices share nothing but the module's globals.  The ioctls change
these without a lock; a bare device copies `scull_quantum` and `scull_qset`
when it is trimmed, a pipe copies `scull_p_len` when it is opened.  So one
device and the ioctls that reach it make one module.  edu is one device with
one lock.  jiq, jit and qus share nothing with the others.

## Modules

**`PipeRing`** is the arithmetic of the circular buffer: `spacefree`, the
counts of one read and one write, the wrap.  A pointer is its offset from
`dev->buf`; `size_t` is modulo `SizeMod`.

**`ScullPipe`** is one pipe.  `op[t]` is the call process `t` is in and `at[t]`
how far it got; the device's fields are variables of their own name.  A
critical section is one step, as all state it touches is either under the lock
or only read outside it.  What the code does without the lock is separate:
queueing on a wait queue, each of the two pointer loads of a wait condition
(in either order), the sleep, the wake-up after the unlock.  `mem` holds the
bytes, `got[t]` the bytes a read delivers until it returns.  Failures of
`kmalloc` and of user copies, and signals where the code looks for one, are
choices.  `stranded` is a history variable: the writers that were on `outq`
when an open reset the ring, whom nobody wakes for the space this makes.
`Proper` selects the pipe with `PROPER_FIFO_BEH_IDX`.

**`PipeFifo`** is what the pipe promises: a bounded queue, each byte delivered
once and in order, dropped only by an open or by the last close.  `ScullPipe`
implements it with `q` the unread part of the ring and `users` the open files.

**`ScullDev`** is one bare device with its list of quantum sets, the ioctls on
the two globals (each load and store a step; the two stores of a reset in
either order) and the bytes the /proc listing reads.  What is under `dev->lock`
is one step.  `wedged` is the device after a division by zero with the lock
held.  `out` is the result of the read that has just ended.

**`SparseFile`** is what it promises: an array of bytes with a size.
`ScullDev` implements it with `content[p]` the byte reached by walking to `p`.
A byte never stored may be delivered as anything, as `kmem_cache_alloc` does
not clear its objects.

**`EduIrq`** is the interrupt test.  Every section under `edu->lock` is two
steps, the lock and the rest, because the hard handler tries the lock; the
thread's read of the status before the lock is a step of its own.  With
`edu->use_msi` every raise sends one message, which `MayLose` lets get lost;
without it (`msi = "off"`) the line interrupts while the status is not zero.
`MsiSettings` are the settings to start from.  `woken` is the
request for the handler thread, which is kept while the thread runs.
`pc = "bug"` is a caller stopped by `add_timer` on a pending timer.  Removal is
modelled to the point where the device is freed.

**`EduProbe`** is `qedu_probe` and `qedu_remove` for one device.  `held` is what
the driver has acquired; every acquiring step succeeds or goes to the label the
code goes to, and the labels release what the code releases.  Meanwhile
processes enter `version` and `inverse` as soon as each attribute exists and
contend for `edu->lock`, which probe holds nearly to its end.  The values of
the registers are left out.

**`ScullModule`** is `scull_init_module`, `scull_p_init`, both cleanups and the
/proc iteration.  `have` is what the module holds, `ready` the devices whose
fields are initialised, `cdevs` the devices users can open while init still
runs.  An open device keeps the module loaded; `remove_proc_entry` waits for
the readers inside.  A write may put an object in the last slot of an array,
which no trim frees (`objects`); `kmem_cache_destroy` then keeps the cache
(`old_cache`).

**`Qus`** is `qus_probe`, `qus_disconnect` and the reference count.

**`Jiq`** is the four files that print a page from a work queue, a delayed work
queue, a tasklet or a timer, all through the one global `jiq_data`.  `jiq_print`
is two steps, as others may change `len` and `m` between its loads and its
stores; `data->len +=` may use either value.  Text is counted, not built:
`count[r]` is the fill of a file's page.  `together` chooses the readers, whose
reads overlap (`Overlaps`) or do not (`Turns`).  A signal may end the sleep in
every file.  jitimer then deletes its timer; the other files leave their
callback running, and it prints in the next read's page and announces its end.
`interrupted` is a history variable: the files whose reads a signal has ended
since a read last found no reader and no callback.  The properties of pages are
about `Undisturbed` reads: they do not overlap, and no signal has left a
callback of a work or tasklet file behind.  The wake-up is about all reads,
except (`TimerKept`) that a signal in jitimer may delete the timer a tasklet's
reader depends on, when jitimer has reset the flag between the tasklet's last
run and that reader's look at it.

**`Jit`** is the delay files, with a clock that wraps, and the files filled by a
timer or tasklet that schedules itself, each read with data of its own.  A
signal leaves data and callback behind; the callback is followed until it ends.
A reader that finds no loops left frees its data although the callback may
still have to wake up its wait queue: the model reaches `callback = "wake"` with
`live` false, and `JitPrintsInRead` is only about callbacks that still print.

`MCScullPipe`, `MCScullDev` and `MCEduIrq` give the constants values.
`MCDrivers` does so for the five modules above, which share no state: a
behaviour of its specification is a behaviour of one of them.
Operators named for what goes wrong (`SleepUnchecked`, `UnlockForgotten`,
`TrimKeepsLen`, ...) stand before the definition they are a faulty version of;
no specification uses them, the mutants in `PROJECT.json` do.

## Runs

Every passing run explores its whole state space.  Each property is checked
where it is hardest to keep.  The type invariants, `MutexInv`, `LockInv`,
`JiqFits`, `HandlersHaveDevice`, `QusDataAlive` and `NoDivideError` are in no
run: the theorems below prove them for every instance.

| run | instance | shows |
|---|---|---|
| `pipe_calls` | a reader (`O_RDONLY` blocking, or `O_RDWR` non-blocking) and a writer, every call, every failure, zero counts, signals, 2 byte values | `NoLostData`, `AsyncOnlyOpen`, and `FifoSpec`: `PipeFifo` is implemented |
| `pipe_default` | 3 processes on an ordinary pipe, length 3, set to 2 and 0 by SCULL_P_IOCTSIZE, signals to the writer | `RingOK`, `OpenHasBuffer`, `NoLostSpace` |
| `pipe_proper` | 3 processes on the proper pipe, failing allocations, signals to two | `CountsCover`, `WriterHasBuffer`, `NoLostOpen` |
| `pipe_live` | 3 processes, length 2, no signals | `ReadProgress`, `WriteProgress`, `NonblockReturns` |
| `dev_bare` | quantum 2 or 1 (or 0, after a failed `__get_user`), set of 2 or 1, 2 objects, 2 byte values, every failure | `ArraysFit`, `Owned`, `NoOverrun`, `ReadsDivide`, `ReadsAllocateNothing`, and `FileSpec`: `SparseFile` is implemented |
| `edu_test` | 2 callers, signals to one, removal, with MSI and with a shared line | `OneTest`, `NoLostWakeup`, `TestHasEnd`, `GoneIsQuiet`, `TestEnds`, `Acknowledged` |
| `edu_loss` | 3 callers, lost messages, removal, no signals | `BusyHasTest` |
| `drivers`, jiq | two or three readers by turns or two overlapping, a page of 5 characters with a heading and lines of 1, signals in every file | `JiqQuiet`, `JiqWhole` (undisturbed reads), `JiqNoLostWake`, `JiqReadEnds` |
| `drivers`, jit | a clock of 8 ticks from every start, a delay of 3, 3 lines, signals | `JitDelays`, `JitWhole`, `JitPrintsInRead`, `JitReadEnds` |
| `drivers`, edu | 2 users of the attributes, every failure of probe, with and without MSI and the default DMA mask | `ProbeNothingLeft`, `AttributesHaveDevice`, `ProbeEnds` |
| `drivers`, scull | 2 bare devices, 2 pipes, 2 readers of /proc, every failure of init, writes to last slots | `OpenIsReady`, `ProcSeesReady`, `UnloadLeavesObjects` |
| `drivers`, qus | every failure of probe | `QusReleased` |

Runs whose property is violated, each a disagreement between the code and a
line of the repository:

| run | the line | what the code does |
|---|---|---|
| `pipe_eof` | README.md:24, proper FIFO behaviour | a sleeping reader is not told that the last writer closed |
| `dev_trim` | main.c:47, "empty out scull device" | the last slot of each array is not freed (and so, after unloading, neither is the cache: `UnloadLeavesObjects`) |
| `edu_stale` | README.md:44, timeout support | a late callback fails the next test |
| `edu_remove` | init.c:53, "wait for after-process IRQ" | `free_irq` waits under the lock the thread needs |

Five more disagreements have no run: `qedu_timeout` returns without re-arming
the timer when the status is still raised (irq.c:72), so a test whose message
is lost never ends and `TestEnds` holds only without losses, where `edu_test`
checks it; `spacefree` asserts a lock that `scull_getwritespace` has dropped (pipe.c:131,
215); an open records the length SCULL_P_IOCTSIZE set without reallocating
(pipe.c:92); a quantum raised by an ioctl exceeds the objects of the cache
(main.c:66); the exchanging ioctls are two plain accesses where scull.h:91 says
"atomically".

### Bounds

* Pipe: length 3 is the least at which a ring has a full state of more than one
  byte and both pointers wrap apart; length 2 (one usable cell) suffices for
  progress.  Two processes give every pair of calls; the third is needed for
  two waiters of one kind, or for an open that resets the ring under a reader
  and a writer.  `CountMax` bounds the leaked counts: an open that would exceed
  it stays outside.  `SizeMod` is 256: only its being larger than twice the
  lengths matters.
* Device: positions 0, 1 and 3 are, with quantum 2 and set 2, both bytes of a
  quantum and the end of the next quantum, and after a trim that adopts a
  smaller quantum or set they are in the second or a later set.  One process issues the ioctls,
  load by load and store by store, against any file operation.  `PrintMax` is
  within the object, as 500 is within the default 4000.  `Objs` bounds the objects; a write that
  finds none left does not happen, which costs nothing as allocations may fail
  anyway.  Objects are interchangeable: symmetry.
* edu: two callers give one in a test and one to be refused or to come next;
  `edu_loss` has a third, so that one waits while two contend.  There is no counter to bound.
* jiq: `LIMIT` 3 in a page of 5 lets a page take a heading and lines and be
  found full by a later print; `data->len` is kept at the first value beyond
  `LIMIT`, as the code only compares it with that.  The overlapping pairs mix a
  bare `schedule()` with a wait for `end`, and two users of `end`.  Readers that
  take turns are those of three kinds of callback, or of the two work files.
  `MaxReads` bounds the reads begun after a signal until everything is at
  rest again: one where readers take turns, which meets all that the
  interrupted read left; none where reads overlap, as the other read is there
  already.  A reader may be signalled again at any time.
* jit: with `Wrap` 8 and every start, the delay of 3 plus up to 2 ticks of
  lateness crosses the wrap at each of its points, and stays below half of it
  as in the code.
* scull load: two devices of each kind give a first, a last and a failure
  between; two readers of /proc, two users of edu's attributes and one qus
  device give every pair of contexts there is.

Deadlock is not checked where a system may stop: all pipe users asleep (two
readers, no writer), the edu device removed or a caller stopped by the kernel.  It is checked
in `dev_bare`, `dev_trim` and `drivers`.

### Fairness

`ScullPipe`: weak fairness of each process inside the kernel, strong fairness
of taking the mutex (kernel mutexes queue their waiters and hand over to a
waiter that is passed over too often).  No fairness for calls from user space
or for signals.  `EduIrq`: weak fairness of callers inside the kernel, of the
delivery of a message, the handlers, the expiry of a pending timer and the
callback; strong fairness of the spinlock (queued spinlocks are first come,
first served).  None for calls, signals, the loss of messages or the start of
removal.  `Jiq`, `Jit`, `EduProbe`: weak fairness of a reader inside the
kernel, of scheduled work, tasklets and timers, of the clock, of probe, remove
and the processes inside an attribute; none for reads, signals or the start of
probe and remove.  `ScullModule` and `Qus` have no liveness property.

## Proofs

For every value of the constants that satisfies the named assumptions, checked
by TLAPS.  Every invariant and action property of a passing run has a theorem
of its own, and so have both refinements; what several theorems share is one
inductive invariant, proved in a lemma.

### scull pipe

* `RingInv` (`ScullPipeProofs`, lemma `RingSafe`) is `TypeOK /\ MutexInv /\ RingOK`,
  which is inductive: `MutexInv` is needed because a critical section may only
  be left by the holder, `TypeOK` for the arithmetic.  The step is proved in
  three groups of conjuncts (control, ring, counting), each action by action.
  The heart are `ReadStaysInRing` and `WriteStaysInRing`: the counts cut at the
  end of the buffer or below `rp` keep `Advance` in the ring, also for lengths
  0 and 1.  `MutexCorrect` and `RingCorrect` follow.
* `SpaceDivideCorrect`: if no length of 0 is set, `spacefree` never divides by
  it without the lock (stage `oops`).  The length *is* 0 before the first open;
  `ZeroInv` says that then both pointers, and every pointer a process has
  loaded, are 0 too, so the division is not reached.
* `CountsCorrect` and `WriterBufferCorrect` (`ScullPipeBufferProofs`):
  `CountsCover` and `WriterHasBuffer`, if nobody opens the proper pipe `O_RDWR`
  (`NoProperRdwr`; with it the statement is false, as such a file is counted as
  a reader and uncounted as both).
* `BufferCorrect`: `OpenHasBuffer`, under `NoProperRdwr`, unless the proper
  pipe meets a failing allocation (`EarlyCount`): there a writer counts itself
  before it has memory, and a reader may be let in without a buffer.
  All three follow from `BufferInv`: `RingInv`; the counts are at least the
  number of files they stand for and at most `CountMax` (`Cover`); a counted
  writer means a buffer, `EarlyCount` apart (`Backed`), which is what a reader's
  open of the proper pipe relies on; and an open file has its buffer.  Steps that
  are neither opens nor the release are shown to be quiet once and for all; when
  the release frees the buffer, the counts are 0 and so nobody has it open.
* `DataWakeCorrect`, `SpaceWakeCorrect`, `AsyncCorrect` (`ScullPipeWakeProofs`):
  `NoLostData`, `NoLostSpace` and `AsyncOnlyOpen`.  The first two speak of
  sleepers only and are not inductive: a process that has loaded one pointer and
  not yet the other may be about to sleep on a stale value.  `WakeInv` therefore
  says that as long as there is data and no writer on its way to the wake-up, no
  process on `inq` sleeps *or holds a pointer that will send it to sleep*, and
  the same for space, `outq` and readers.  Each action is classed by what it
  does to others and to itself, and each class keeps `WakeInv`.
* `OpenWakeCorrect`: `NoLostOpen`, under `NoProperRdwr`, from `BufferInv`.
* `FifoCorrect` (`ScullPipeFifoProofs`): a pipe implements `PipeFifo` and stays
  within its allocation, under `NoProperRdwr`, `~EarlyCount` and `FixedLen`.
  Every step maps to a step of the queue or a stutter; `BufferInv` supplies that
  a reader or writer has a buffer and that whoever frees it is the last user.
  `ReadCells`, `WriteCells` and `SpacefreeIs` are the arithmetic: a read moves
  the oldest cells out, a write cuts its count so that it touches no unread
  cell, and the one cell kept free tells full from empty.  `FixedLen` (no
  SCULL_P_IOCTSIZE to another length) is assumed because an open records a new
  length for the old allocation, and the model's `mem` is no faithful memory
  past it; `WithinBuffer` is the part of the theorem that needs it.

### scull bare device

* `ArraysCorrect`, `OwnedCorrect`, `ReadsDivideCorrect` and `TypeCorrect`
  (`ScullDevProofs`), for all sizes, positions, failures and interleaved ioctls.
  `DevInv` is their inductive form by groups: the globals and sizes, the
  objects, the list.
* `NeverWedged`: no division by zero under the lock, by a write either, if
  nobody sets a quantum of 0 (`NoZeroQuantum`: as an argument, or by a faulting
  `__get_user`) and `quantum_len * qset_len` does not overflow (`NoWrap`).
* `OverrunCorrect`: `NoOverrun` if no quantum, and nothing the listing prints,
  exceeds the objects (`QuantumFits`; without it the property is false).
* `ReadsCorrect`: `ReadsAllocateNothing` under `NoWrap`; the invariant adds
  `Reached`, the list is as long as `len` needs.
* `FileCorrect`: under `NoWrap` and `QuantumFits` `ScullDev` implements
  `SparseFile`.  The core is that positions and (node, slot, offset) triples
  correspond one to one, so a write changes the bytes it should and no other.

### edu

* `LockCorrect`, `OneTestCorrect`, `WakeupCorrect`, `GoneCorrect`
  (`EduIrqProofs`): `TypeOK /\ LockInv`, `OneTest`, `NoLostWakeup` and
  `GoneIsQuiet`, with signals, lost messages and removal (a message may still be
  on its way when the device is gone).  The inductive
  invariant `Safe` adds `Drained`: after the attributes are removed no caller
  is left, and after `del_timer_sync` nobody is left to arm the timer.
* `TestHasEndCorrect`: `TestHasEnd` if no message gets lost.  It needs
  `Handled`: a raised status is signalled, or the hard handler has seen it, or
  the thread is woken or has read it, so `qedu_timeout` may leave it alone.
* `BusyCorrect`: `BusyHasTest` if nobody is signalled, from `Owned`: the `WAIT`
  bit belongs to a running test or to a caller the kernel has stopped, and the
  latter holds the lock for ever.
* `ProbeReleases`, `HandlersCorrect`, `AttributesCorrect` (`DriverProofs`), for
  any number of users of the attributes, from `ProbeInv`: a table of what is
  held, and of who may be inside, at every point of probe and removal.

### scull module, qus

* `OpenReadyCorrect`, `ProcReadyCorrect`, `UnloadedCorrect` (`DriverProofs`): for
  any number of devices, pipes and readers, from `ScullInv`, a table of the same
  kind for init and cleanup.  `UnloadedCorrect` states what is left exactly:
  nothing, or the objects of last slots and their cache.
* `QusReleasedCorrect`, `QusDataCorrect`: `QusReleased` and `QusDataAlive`.

### jit, jiq

* `JitWholeCorrect`, `JitPrintsCorrect` (`DeferProofs`), from `JitCount`: lines
  printed and loops left add up, and a callback that is left has live data.
* `JitDelayCorrect`: `JitDelays`.  `Clocked` ties what the code sees to what has
  passed: `jiffies` is the start plus the ticks elapsed, reduced modulo `Wrap`,
  and the ticks stay below half of `Wrap` beyond the delay.  `ClockDifference`
  is the arithmetic: the signed difference of two such counters is the
  difference of the ticks.
* `JiqWakeCorrect`: `JiqNoLostWake` for any overlaps and signals, from `JiqWaker`
  (which callback or print a sleeper still has).
* `JiqQuietCorrect`, `JiqFitsCorrect`, `JiqWholeCorrect`: for undisturbed reads,
  from `JiqOwn` and `JiqPage`: the data belong to one reader, what a print has
  loaded is still true, and the page never holds more than `len` says.
  `JiqDisturbed` and `JiqRestStep` show that reads are undisturbed again only
  from a read that finds everything at rest, and that both hold from there.

Assumptions: `EduAssumption`, `EduUsersAssumption` (the contexts are distinct);
`SizeModAssumption` and `PipeAssumption` (finitely many processes, twice the
lengths and twice the counts below `SizeMod`, which is 2^64 in the code);
`DevAssumption` (sizes within their bounds, model values distinct);
`ScullModuleAssumption`; `JiqAssumption` (a line fits in what `LIMIT` leaves of
the page, one reader of jitimer); `JitAssumption` (delays up to half the range
of jiffies, at least one line).

Only model-checked, by the runs above: liveness (`ReadProgress`,
`WriteProgress`, `NonblockReturns`, `TestEnds`, `Acknowledged`, `JiqReadEnds`,
`JitReadEnds`, `ProbeEnds`), which needs fairness and `ENABLED` and is out of
the prover's reach.

## Not modelled

* `jiq`: closing a file in which a signal has left a callback printing (the
  readers of the model keep their files open), what `seq_read` does when such a
  callback or an overlapping read overflows a page, two readers of jitimer at
  once (the code sets up the timer again while it may be pending, whose effect
  is the kernel's), and unloading with a callback scheduled, which the module
  does not wait for.
* `edu`: a second device.  `qedu_dev` is one global that the next probe
  overwrites; everything here is about one device.  DMA and the factorial
  registers have no code yet.
* `scull`: what the kernel does with the mutex and the character device of a bare
  device when creating the cache has failed and cleanup goes through devices
  that were never initialised: `ScullModule` takes the steps the code takes and
  gives the kernel's calls no effect.
* The contents of quanta and pipe buffers before anything is stored, beyond
  "anything"; the wording of what is printed.
* The shell scripts and Makefiles: insmod, mknod, chmod, no program state.
