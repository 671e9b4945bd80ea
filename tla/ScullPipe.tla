------------------------------ MODULE ScullPipe ------------------------------
(***************************************************************************)
(* One scullpipe device (scull/pipe.c) and the processes that use it.      *)
(*                                                                         *)
(* op[t] is the system call process t is in and at[t] how far it got:      *)
(*    "user"     outside the driver                                        *)
(*    "lock"     blocked in mutex_lock(&dev->lock)                         *)
(*    "cs"       holding dev->lock                                         *)
(*    "queue"    unlocked, about to queue itself on a wait queue           *)
(*    "check"    queued, about to evaluate the wait condition              *)
(*    "recheck"  in the middle of that evaluation, one pointer loaded      *)
(*    "asleep"   in schedule()                                             *)
(*    "wake"     unlocked, about to wake the other side                    *)
(*    "oops"     stopped by a division by zero                             *)
(* "reopen" and "reread" are the second and later rounds of the loops of   *)
(* scull_p_proper_open and scull_p_read.                                   *)
(*                                                                         *)
(* A wait queue is the set of processes queued on it; a wake-up takes them *)
(* off it (autoremove_wake_function).  A signal is a choice at the points  *)
(* where the code looks for one: a contended mutex_lock_interruptible(),   *)
(* the wait loops and signal_pending().  User counts and bytes are chosen  *)
(* when they are used.                                                     *)
(***************************************************************************)
EXTENDS PipeRing, Sequences, FiniteSets

CONSTANTS
  Procs,         \* processes; each has at most one file open on the device
  NoProc,        \* lock holder when the mutex is free
  NoFile,        \* file of a process that has none
  Opens,         \* Opens[t]: the flags process t may open the device with
  Calls,         \* the calls they make on an open file, release apart
  Data,          \* byte values
  Counts,        \* byte counts user space asks for
  InitLen,       \* scull_p_len when the module is loaded
  PLens,         \* values SCULL_P_IOCTSIZE is called with
  MaxLen,        \* bound on all of these lengths
  Proper,        \* dev->idx = PROPER_FIFO_BEH_IDX
  MayFail,       \* kmalloc may fail
  MayFault,      \* copy_{to,from}_user may fail
  Signalled,     \* processes that may receive signals
  CountMax       \* bound on dev->readers and dev->writers

Null == -1

FileFlags == [mode : {"r", "w", "rw"}, nonblock : BOOLEAN]

ASSUME PipeAssumption ==
  /\ NoProc \notin Procs
  /\ NoFile \notin FileFlags
  /\ IsFiniteSet(Procs)
  /\ Opens \in [Procs -> SUBSET FileFlags]
  /\ Counts \subseteq Nat
  /\ InitLen \in Nat /\ PLens \subseteq Nat /\ MaxLen \in Nat
  /\ \A n \in PLens \cup {InitLen} : n <= MaxLen
  /\ 2 * MaxLen < SizeMod
  /\ {Proper, MayFail, MayFault} \subseteq BOOLEAN
  /\ Signalled \subseteq Procs
  /\ CountMax \in Nat /\ 2 * CountMax < SizeMod

VARIABLES
  op, at, file,            \* the processes
  local,                   \* local[t]: pointer loaded, or events polled for
  got,                     \* got[t]: bytes the read t is in has delivered
  lock,                    \* dev->lock
  buf,                     \* bytes allocated at dev->buf, or Null
  buf_len, rp, wp,         \* dev->buf_len, dev->rp, dev->wp
  mem,                     \* the bytes at dev->buf
  readers, writers,        \* dev->readers, dev->writers
  inq, outq, openq,        \* wait queues
  async_q,                 \* files registered for SIGIO
  scull_p_len,
  stranded                 \* history: on outq when an open reset the ring

ring == <<buf, buf_len, rp, wp, mem>>
counts == <<readers, writers>>
queues == <<inq, outq, openq, stranded>>
vars == <<op, at, file, local, got, lock, ring, counts, queues, async_q,
          scull_p_len>>

Ops == {"none", "open", "reopen", "read", "reread", "write", "poll",
        "release"}
Stages == {"user", "lock", "cs", "queue", "check", "recheck", "asleep", "wake",
           "oops"}
NoLocal == <<"none", 0>>

CanRead(t) == file[t].mode \in {"r", "rw"}
CanWrite(t) == file[t].mode \in {"w", "rw"}

Init ==
  /\ op = [t \in Procs |-> "none"]
  /\ at = [t \in Procs |-> "user"]
  /\ file = [t \in Procs |-> NoFile]
  /\ local = [t \in Procs |-> NoLocal]
  /\ got = [t \in Procs |-> <<>>]
  /\ lock = NoProc
  /\ buf = Null /\ buf_len = 0 /\ rp = 0 /\ wp = 0
  /\ mem \in [0..(MaxLen - 1) -> Data]
  /\ readers = 0 /\ writers = 0
  /\ inq = {} /\ outq = {} /\ openq = {} /\ stranded = {}
  /\ async_q = {}
  /\ scull_p_len = InitLen

-----------------------------------------------------------------------------
(* Control flow.                                                           *)

Goto(t, o, s) ==
  /\ op' = [op EXCEPT ![t] = o]
  /\ at' = [at EXCEPT ![t] = s]

Return(t) == Goto(t, "none", "user")

In(t, o, s) == op[t] = o /\ at[t] = s

UnlockForgotten == UNCHANGED lock

Unlock == lock' = NoProc

Close(t) == file' = [file EXCEPT ![t] = NoFile]

(* User space enters the driver.                                           *)
Open(t) ==
  /\ In(t, "none", "user") /\ file[t] = NoFile
  /\ \E f \in Opens[t] : file' = [file EXCEPT ![t] = f]
  /\ Goto(t, "open", "lock")
  /\ UNCHANGED <<local, got, lock, ring, counts, queues, async_q, scull_p_len>>

Call(t, o) ==
  /\ In(t, "none", "user") /\ file[t] # NoFile /\ o \in Calls \cup {"release"}
  /\ Goto(t, o, "lock")
  /\ UNCHANGED <<file, lock, ring, counts, queues, scull_p_len>>

Read(t) == Call(t, "read") /\ CanRead(t) /\ UNCHANGED <<local, got, async_q>>

Write(t) == Call(t, "write") /\ CanWrite(t) /\ UNCHANGED <<local, got, async_q>>

(* What poll(2) waits for is the caller's choice.                          *)
Poll(t) ==
  /\ Call(t, "poll")
  /\ \E ev \in {"in", "out"} : local' = [local EXCEPT ![t] = <<ev, 0>>]
  /\ UNCHANGED <<got, async_q>>

ReleaseKeepsAsync(t) == Call(t, "release") /\ UNCHANGED <<local, got, async_q>>

(* scull_p_release drops the file from async_q before it takes the lock.   *)
Release(t) ==
  /\ Call(t, "release")
  /\ async_q' = async_q \ {t}
  /\ UNCHANGED <<local, got>>

scull_p_fasync(t) ==
  /\ In(t, "none", "user") /\ file[t] # NoFile /\ "fasync" \in Calls
  /\ async_q' \in {async_q \cup {t}, async_q \ {t}}
  /\ UNCHANGED <<op, at, file, local, got, lock, ring, counts, queues,
                 scull_p_len>>

(* SCULL_P_IOCTSIZE: no lock, and the buffer in use stays as it is.        *)
SetSize(t) ==
  /\ In(t, "none", "user") /\ file[t] # NoFile
  /\ scull_p_len' \in PLens
  /\ UNCHANGED <<op, at, file, local, got, lock, ring, counts, queues, async_q>>

(* The bound on the counts: an open that could exceed it stays outside.    *)
MutexLock(t) ==
  /\ at[t] = "lock" /\ lock = NoProc
  /\ op[t] = "open" => readers < CountMax /\ writers < CountMax
  /\ lock' = t
  /\ Goto(t, op[t], "cs")
  /\ UNCHANGED <<file, local, got, ring, counts, queues, async_q, scull_p_len>>

(* mutex_lock_interruptible() gives up: the call returns -ERESTARTSYS.     *)
(* A failed open leaves no file and a release always ends the file, so     *)
(* counts taken before are kept for ever.  scull_p_poll does not give up.  *)
MutexInterrupted(t) ==
  /\ at[t] = "lock" /\ lock # NoProc
  /\ t \in Signalled /\ op[t] # "poll"
  /\ Return(t)
  /\ IF op[t] \in {"open", "reopen", "release"} THEN Close(t)
                                               ELSE UNCHANGED file
  /\ UNCHANGED <<local, got, lock, ring, counts, queues, async_q, scull_p_len>>

-----------------------------------------------------------------------------
(* open                                                                    *)

AllocFails == buf = Null /\ MayFail

ResetKeepsPointers ==
  /\ buf' = IF buf = Null THEN scull_p_len ELSE buf
  /\ buf_len' = scull_p_len
  /\ UNCHANGED <<rp, wp, mem, inq, outq, stranded>>

(* Allocate if there is no buffer; in every case forget what is unread.    *)
ResetBuffer ==
  /\ buf' = IF buf = Null THEN scull_p_len ELSE buf
  /\ buf_len' = scull_p_len
  /\ rp' = 0 /\ wp' = 0
  /\ stranded' = stranded \cup outq
  /\ UNCHANGED <<mem, inq, outq>>

scull_p_open(t) ==
  /\ In(t, "open", "cs") /\ ~Proper
  /\ Unlock
  /\ Return(t)
  /\ \/ /\ AllocFails
        /\ Close(t)
        /\ UNCHANGED <<ring, counts, queues>>
     \/ /\ ResetBuffer
        /\ readers' = IF CanRead(t) THEN Inc(readers) ELSE readers
        /\ writers' = IF CanWrite(t) THEN Inc(writers) ELSE writers
        /\ UNCHANGED <<file, openq>>
  /\ UNCHANGED <<local, got, async_q, scull_p_len>>

(* The reader's side of scull_p_proper_open; O_RDWR takes it too.          *)
ProperOpenReader(t) ==
  /\ In(t, "open", "cs") /\ Proper /\ CanRead(t)
  /\ Unlock
  /\ \/ /\ file[t].nonblock /\ writers = 0
        /\ Return(t) /\ Close(t)
        /\ UNCHANGED readers
     \/ /\ ~(file[t].nonblock /\ writers = 0)
        /\ readers' = Inc(readers)
        /\ IF writers = 0 THEN Goto(t, "reopen", "queue") ELSE Return(t)
        /\ UNCHANGED file
  /\ UNCHANGED <<local, got, ring, writers, queues, async_q, scull_p_len>>

ProperOpenRetry(t) ==
  /\ In(t, "reopen", "cs")
  /\ Unlock
  /\ IF writers = 0 THEN Goto(t, "reopen", "queue") ELSE Return(t)
  /\ UNCHANGED <<file, local, got, ring, counts, queues, async_q, scull_p_len>>

(* The writer's side: it counts itself before it knows it has a buffer.    *)
ProperOpenWriter(t) ==
  /\ In(t, "open", "cs") /\ Proper /\ ~CanRead(t)
  /\ Unlock
  /\ Return(t)
  /\ writers' = Inc(writers)
  /\ \/ /\ AllocFails
        /\ Close(t)
        /\ UNCHANGED <<ring, queues>>
     \/ /\ ResetBuffer
        /\ openq' = IF readers # 0 THEN {} ELSE openq
        /\ UNCHANGED file
  /\ UNCHANGED <<local, got, readers, async_q, scull_p_len>>

-----------------------------------------------------------------------------
(* read                                                                    *)

(* rp = wp: give up on O_NONBLOCK, otherwise wait.  Else copy and advance. *)
ReadLoop(t) ==
  \/ /\ rp = wp
     /\ IF file[t].nonblock THEN Return(t) ELSE Goto(t, "reread", "queue")
     /\ UNCHANGED <<got, ring>>
  \/ /\ rp # wp /\ MayFault
     /\ Return(t)
     /\ UNCHANGED <<got, ring>>
  \/ /\ rp # wp
     /\ \E count \in Counts :
          LET k == ReadCount(rp, wp, buf_len, count) IN
          /\ got' = [got EXCEPT ![t] = [i \in 1..k |-> mem[rp + i - 1]]]
          /\ rp' = Advance(rp, k, buf_len)
     /\ Goto(t, op[t], "wake")
     /\ UNCHANGED <<buf, buf_len, wp, mem>>

(* End of file is looked for once, before the wait loop.                   *)
EndOfFile(t) == Proper /\ op[t] = "read" /\ rp = wp /\ writers = 0

scull_p_read(t) ==
  /\ op[t] \in {"read", "reread"} /\ at[t] = "cs"
  /\ Unlock
  /\ \/ EndOfFile(t) /\ Return(t) /\ UNCHANGED <<got, ring>>
     \/ ~EndOfFile(t) /\ ReadLoop(t)
  /\ UNCHANGED <<file, local, counts, queues, async_q, scull_p_len>>

(* The wake-up after the unlock: writers sleeping for space.               *)
WakeWriters(t) ==
  /\ op[t] \in {"read", "reread"} /\ at[t] = "wake"
  /\ Return(t)
  /\ outq' = {} /\ stranded' = {}
  /\ got' = [got EXCEPT ![t] = <<>>]
  /\ UNCHANGED <<file, local, lock, ring, counts, inq, openq, async_q,
                 scull_p_len>>

-----------------------------------------------------------------------------
(* write                                                                   *)

Full == spacefree(rp, wp, buf_len) = 0

StoreAt(p, k, s) ==
  mem' = [i \in DOMAIN mem |-> IF i \in p..(p + k - 1) THEN s[i - p + 1]
                                                      ELSE mem[i]]

(* A faulting copy still overwrites the target but publishes nothing.      *)
scull_p_write(t) ==
  /\ In(t, "write", "cs")
  /\ Unlock
  /\ \/ /\ Full
        /\ IF file[t].nonblock THEN Return(t) ELSE Goto(t, "write", "queue")
        /\ UNCHANGED <<wp, mem>>
     \/ /\ ~Full
        /\ \E count \in Counts :
             LET k == WriteCount(rp, wp, buf_len, count) IN
             \E s \in [1..k -> Data] :
               /\ StoreAt(wp, k, s)
               /\ \/ MayFault /\ Return(t) /\ UNCHANGED wp
                  \/ wp' = Advance(wp, k, buf_len) /\ Goto(t, "write", "wake")
  /\ UNCHANGED <<file, local, got, buf, buf_len, rp, counts, queues, async_q,
                 scull_p_len>>

WakeNobody(t) == In(t, "write", "wake") /\ Return(t)
  /\ UNCHANGED <<file, local, got, lock, ring, counts, queues, async_q, scull_p_len>>

WakeReaders(t) ==
  /\ In(t, "write", "wake")
  /\ Return(t)
  /\ inq' = {}
  /\ UNCHANGED <<file, local, got, lock, ring, counts, outq, openq, stranded,
                 async_q, scull_p_len>>

-----------------------------------------------------------------------------
(* The wait loops, all without the lock.                                   *)

Enqueue(t) ==
  /\ inq' = IF op[t] = "reread" THEN inq \cup {t} ELSE inq
  /\ outq' = IF op[t] = "write" THEN outq \cup {t} ELSE outq
  /\ openq' = IF op[t] = "reopen" THEN openq \cup {t} ELSE openq

SleepUnchecked(t) == at[t] = "queue" /\ Goto(t, op[t], "asleep") /\ Enqueue(t)
  /\ UNCHANGED <<file, local, got, lock, ring, counts, stranded, async_q,
                 scull_p_len>>

PrepareToWait(t) ==
  /\ at[t] = "queue"
  /\ Goto(t, op[t], "check")
  /\ Enqueue(t)
  /\ UNCHANGED <<file, local, got, lock, ring, counts, stranded, async_q,
                 scull_p_len>>

(* wait_event_interruptible(dev->openq, dev->writers > 0)                  *)
CheckWriters(t) ==
  /\ In(t, "reopen", "check")
  /\ \/ writers > 0 /\ Goto(t, "reopen", "lock") /\ UNCHANGED file
     \/ writers = 0 /\ Goto(t, "reopen", "asleep") /\ UNCHANGED file
     \/ writers = 0 /\ t \in Signalled /\ Return(t) /\ Close(t)
  /\ openq' = IF at'[t] = "asleep" THEN openq ELSE openq \ {t}
  /\ UNCHANGED <<local, got, lock, ring, counts, inq, outq, stranded, async_q,
                 scull_p_len>>

(* The other two conditions load rp and wp, racing with the lock holders:  *)
(* one is loaded here, in either order, the other in the next step.        *)
LoadPointer(t) ==
  /\ op[t] \in {"reread", "write"} /\ at[t] = "check"
  /\ \E l \in {<<"rp", rp>>, <<"wp", wp>>} : local' = [local EXCEPT ![t] = l]
  /\ Goto(t, op[t], "recheck")
  /\ UNCHANGED <<file, got, lock, ring, counts, queues, async_q, scull_p_len>>

LoadedRp(t) == IF local[t][1] = "rp" THEN local[t][2] ELSE rp
LoadedWp(t) == IF local[t][1] = "wp" THEN local[t][2] ELSE wp

(* wait_event_interruptible(dev->inq, dev->rp != dev->wp)                  *)
CheckData(t) ==
  /\ In(t, "reread", "recheck")
  /\ \/ LoadedRp(t) # LoadedWp(t) /\ Goto(t, "reread", "lock")
     \/ LoadedRp(t) = LoadedWp(t) /\ Goto(t, "reread", "asleep")
     \/ LoadedRp(t) = LoadedWp(t) /\ t \in Signalled /\ Return(t)
  /\ inq' = IF at'[t] = "asleep" THEN inq ELSE inq \ {t}
  /\ local' = [local EXCEPT ![t] = NoLocal]
  /\ UNCHANGED <<file, got, lock, ring, counts, outq, openq, stranded, async_q,
                 scull_p_len>>

(* finish_wait(), then signal_pending(), then the loop takes the lock.     *)
FinishWrite(t) ==
  /\ \/ Goto(t, "write", "lock")
     \/ t \in Signalled /\ Return(t)
  /\ outq' = outq \ {t} /\ stranded' = stranded \ {t}

(* scull_getwritespace calls spacefree() again, now without the lock.      *)
(* Its % buf_len divides by zero if an open made the ring empty meanwhile.  *)
DividesByZero(t) == LoadedRp(t) # LoadedWp(t) /\ buf_len = 0

DivideError(t) ==
  /\ In(t, "write", "recheck") /\ DividesByZero(t)
  /\ Goto(t, "write", "oops")
  /\ UNCHANGED <<file, local, got, lock, ring, counts, queues, async_q,
                 scull_p_len>>

CheckSpace(t) ==
  /\ In(t, "write", "recheck") /\ ~DividesByZero(t)
  /\ IF spacefree(LoadedRp(t), LoadedWp(t), buf_len) = 0
     THEN Goto(t, "write", "asleep") /\ UNCHANGED <<outq, stranded>>
     ELSE FinishWrite(t)
  /\ local' = [local EXCEPT ![t] = NoLocal]
  /\ UNCHANGED <<file, got, lock, ring, counts, inq, openq, async_q,
                 scull_p_len>>

(* schedule() returns when a wake-up or a signal made the task runnable.   *)
Awake(t) ==
  /\ at[t] = "asleep"
  /\ \/ op[t] = "reread" /\ (t \notin inq \/ t \in Signalled)
     \/ op[t] = "reopen" /\ (t \notin openq \/ t \in Signalled)
  /\ Goto(t, op[t], "queue")
  /\ UNCHANGED <<file, local, got, lock, ring, counts, queues, async_q,
                 scull_p_len>>

AwakeWriter(t) ==
  /\ In(t, "write", "asleep")
  /\ t \notin outq \/ t \in Signalled
  /\ FinishWrite(t)
  /\ UNCHANGED <<file, local, got, lock, ring, counts, inq, openq, async_q,
                 scull_p_len>>

-----------------------------------------------------------------------------
(* poll and release                                                        *)

PollMask ==
  IF Proper /\ writers = 0
  THEN {"err", "hup"}
  ELSE (IF rp # wp THEN {"in"} ELSE {}) \cup (IF Full THEN {} ELSE {"out"})

LeavePoll(t) ==
  /\ inq' = inq \ {t} /\ outq' = outq \ {t} /\ stranded' = stranded \ {t}
  /\ local' = [local EXCEPT ![t] = NoLocal]
  /\ Return(t)

(* The caller, do_poll(), sleeps until the mask has what it waits for.     *)
scull_p_poll(t) ==
  /\ In(t, "poll", "cs")
  /\ Unlock
  /\ IF PollMask \cap {local[t][1], "err", "hup"} # {}
     THEN LeavePoll(t)
     ELSE /\ inq' = inq \cup {t} /\ outq' = outq \cup {t}
          /\ Goto(t, "poll", "asleep")
          /\ UNCHANGED <<local, stranded>>
  /\ UNCHANGED <<file, got, ring, counts, openq, async_q, scull_p_len>>

AwakePoller(t) ==
  /\ In(t, "poll", "asleep")
  /\ \/ /\ t \notin inq \/ t \notin outq
        /\ Goto(t, "poll", "lock")
        /\ UNCHANGED <<local, inq, outq, stranded>>
     \/ t \in Signalled /\ LeavePoll(t)
  /\ UNCHANGED <<file, got, lock, ring, counts, openq, async_q, scull_p_len>>

UncountBoth(t) == readers' = Dec(readers) /\ writers' = Dec(writers)

Uncount(t) ==
  /\ readers' = IF CanRead(t) THEN Dec(readers) ELSE readers
  /\ writers' = IF CanWrite(t) THEN Dec(writers) ELSE writers

scull_p_release(t) ==
  /\ In(t, "release", "cs")
  /\ Unlock
  /\ Return(t) /\ Close(t)
  /\ Uncount(t)
  /\ buf' = IF (readers' + writers') % SizeMod = 0 THEN Null ELSE buf
  /\ UNCHANGED <<local, got, buf_len, rp, wp, mem, queues, async_q,
                 scull_p_len>>

-----------------------------------------------------------------------------
UserStep(t) ==
  \/ Open(t) \/ Read(t) \/ Write(t) \/ Poll(t) \/ Release(t)
  \/ scull_p_fasync(t) \/ SetSize(t)

KernelStep(t) ==
  \/ scull_p_open(t)
  \/ ProperOpenReader(t) \/ ProperOpenRetry(t) \/ ProperOpenWriter(t)
  \/ scull_p_read(t) \/ WakeWriters(t)
  \/ scull_p_write(t) \/ WakeReaders(t)
  \/ PrepareToWait(t) \/ CheckWriters(t) \/ LoadPointer(t) \/ CheckData(t)
  \/ DivideError(t) \/ CheckSpace(t) \/ Awake(t) \/ AwakeWriter(t)
  \/ scull_p_poll(t) \/ AwakePoller(t) \/ scull_p_release(t)

Next ==
  \E t \in Procs :
    UserStep(t) \/ MutexLock(t) \/ MutexInterrupted(t) \/ KernelStep(t)

Spec == Init /\ [][Next]_vars

(* A task in the kernel that can run does run, and the mutex is handed to  *)
(* its waiters in turn; user space need not call and signals need not come.*)
Fairness ==
  \A t \in Procs : WF_vars(KernelStep(t)) /\ SF_vars(MutexLock(t))

FairSpec == Spec /\ Fairness
-----------------------------------------------------------------------------
(* Vocabulary of the properties.                                           *)

HasOpen(t) == file[t] # NoFile /\ op[t] \notin {"open", "reopen"}

(* Processes dev->readers and dev->writers stand for: scull_p_open counts  *)
(* at the end of the critical section, a proper reader before it waits.    *)
Reading(t) == file[t] # NoFile /\ op[t] # "open" /\ CanRead(t)
Writing(t) == file[t] # NoFile /\ op[t] # "open" /\ CanWrite(t)

WantsData(t) == op[t] = "reread" \/ (op[t] = "poll" /\ local[t][1] = "in")
WantsSpace(t) == op[t] = "write" \/ (op[t] = "poll" /\ local[t][1] = "out")

(* Asleep with no wake-up delivered.                                       *)
Sleeping(t) ==
  /\ at[t] = "asleep"
  /\ op[t] \in {"reread", "poll"} => t \in inq
  /\ op[t] \in {"write", "poll"} => t \in outq
  /\ op[t] = "reopen" => t \in openq

TypeOK ==
  /\ op \in [Procs -> Ops]
  /\ at \in [Procs -> Stages]
  /\ file \in [Procs -> FileFlags \cup {NoFile}]
  /\ local \in [Procs -> {"none", "rp", "wp", "in", "out"} \X (0..MaxLen)]
  /\ got \in [Procs -> Seq(Data)]
  /\ lock \in Procs \cup {NoProc}
  /\ buf \in {Null} \cup (0..MaxLen)
  /\ buf_len \in 0..MaxLen
  /\ rp \in 0..MaxLen /\ wp \in 0..MaxLen
  /\ mem \in [0..(MaxLen - 1) -> Data]
  /\ readers \in 0..(SizeMod - 1) /\ writers \in 0..(SizeMod - 1)
  /\ {inq, outq, openq, async_q, stranded} \subseteq SUBSET Procs
  /\ scull_p_len \in 0..MaxLen

(* dev->lock is held by exactly the process inside a critical section, on  *)
(* every path of every handler: none returns, sleeps or wakes with it.     *)
MutexInv == \A t \in Procs : at[t] = "cs" <=> lock = t

(* rp and wp stay inside the ring whatever the order of reads, writes and  *)
(* opens that reset it or change its length.                               *)
RingOK == rp \in RingPointers(buf_len) /\ wp \in RingPointers(buf_len)

(* dev->readers and dev->writers never fall below the number of open       *)
(* files, through failed opens, interrupted opens and interrupted closes.  *)
CountsCover ==
  /\ readers >= Cardinality({t \in Procs : Reading(t)})
  /\ writers >= Cardinality({t \in Procs : Writing(t)})

(* scull_p_release never frees the buffer under a file that is still open. *)
OpenHasBuffer == \A t \in Procs : HasOpen(t) => buf # Null

(* No lost wake-up for data: a process asleep in read or poll while there  *)
(* are unread bytes has a writer on its way to wake_up(&dev->inq).         *)
NoLostData ==
  \A t \in Procs : Sleeping(t) /\ WantsData(t) /\ rp # wp =>
    \E u \in Procs : In(u, "write", "wake")

(* No lost wake-up for space, except for the writers that were on outq     *)
(* when an open emptied the ring: nobody wakes them for that space.        *)
NoLostSpace ==
  \A t \in Procs : Sleeping(t) /\ WantsSpace(t) /\ ~Full =>
    \/ t \in stranded
    \/ \E u \in Procs : op[u] \in {"read", "reread"} /\ at[u] = "wake"

(* A file that is being or has been closed gets no more SIGIO, even when   *)
(* the close itself was interrupted.                                       *)
AsyncOnlyOpen ==
  async_q \subseteq {t \in Procs : HasOpen(t) /\ op[t] # "release"}

(* Nobody sleeps in a proper open while a file is open for writing: the    *)
(* writer's open wakes openq in the critical section that counts it, and   *)
(* the reader checks the count after it has queued itself.                 *)
NoLostOpen ==
  \A t \in Procs : Sleeping(t) /\ op[t] = "reopen" =>
    ~\E u \in Procs : HasOpen(u) /\ CanWrite(u)

(* A file open for writing keeps the buffer, even if opens of others fail. *)
WriterHasBuffer ==
  \A t \in Procs : HasOpen(t) /\ CanWrite(t) => buf # Null

(* A read that finds data ends, unless others take the data first.         *)
ReadProgress ==
  \A t \in Procs :
    op[t] \in {"read", "reread"} /\ rp # wp ~> op[t] = "none" \/ rp = wp

(* A write that finds space ends, unless others fill the ring first or it  *)
(* slept through an open that emptied the ring.                            *)
WriteProgress ==
  \A t \in Procs :
    op[t] = "write" /\ ~Full ~> op[t] = "none" \/ Full \/ t \in stranded

(* Calls with O_NONBLOCK and closes always return.                         *)
NonblockReturns ==
  \A t \in Procs :
    /\ op[t] = "release" ~> op[t] = "none"
    /\ file[t] # NoFile /\ file[t].nonblock /\ op[t] \in {"open", "read", "write"}
         ~> op[t] = "none"

(* Proper FIFO behaviour: a reader blocked on an empty pipe is released    *)
(* when the last writer goes away.                                         *)
EofReleasesReader ==
  \A t \in Procs :
    In(t, "reread", "asleep") /\ rp = wp /\ writers = 0
      ~> ~In(t, "reread", "asleep")

(* The pipe is a FIFO: PipeFifo with the unread part of the ring as queue. *)
Unread == IF buf = Null THEN <<>> ELSE Contents(mem, rp, wp, buf_len)

Fifo == INSTANCE PipeFifo WITH users <- {t \in Procs : HasOpen(t)}, q <- Unread,
                                Capacity <- MaxLen - 1

FifoSpec == Fifo!Spec

=============================================================================
