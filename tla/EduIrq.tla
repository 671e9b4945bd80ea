------------------------------- MODULE EduIrq -------------------------------
(***************************************************************************)
(* The interrupt test of the edu driver: test_irq_show (edu/sysfs.c), the  *)
(* two interrupt handlers and the timeout (edu/irq.c), the state bits      *)
(* (edu/state.h) and the removal of the driver (edu/init.c).               *)
(*                                                                         *)
(* Callers, hard handler, handler thread, timer callback and remover run   *)
(* on different processors.  A section under edu->lock is two steps, the   *)
(* lock and the rest, because spin_trylock looks at the lock; the hard     *)
(* handler's own section is one step.                                      *)
(*                                                                         *)
(* Only bit 1 of the interrupt status is ever raised: "raised" is whether  *)
(* the status is not zero.  With MSI each raise latches one message; a     *)
(* shared line interrupts as long as the status is not zero.               *)
(***************************************************************************)
EXTENDS Integers, FiniteSets

CONSTANTS
  Procs,        \* processes reading the test_irq attribute
  Free,         \* the lock when nobody holds it
  MsiSettings,  \* values edu->use_msi may have
  MayLose,      \* an MSI message may be lost
  Signalled,    \* processes that may receive signals
  HwStatus,     \* what the status registers say: "idle", "busy"
  Removes       \* whether the driver may be removed

ASSUME EduAssumption ==
  /\ Free \notin Procs \cup {"thread", "timer", "remover"}
  /\ {"thread", "timer", "remover"} \cap Procs = {}
  /\ {MayLose, Removes} \subseteq BOOLEAN /\ MsiSettings \subseteq BOOLEAN
  /\ Signalled \subseteq Procs
  /\ HwStatus \subseteq {"idle", "busy"}

VARIABLES
  lock,         \* edu->lock
  state,        \* edu->state: the set of its bits
  raised,       \* QEDU_INTR_STATUS_REG # 0
  msi,          \* "off" (edu->use_msi is 0), "idle", "sent" (on its way)
  hard,         \* qedu_handle_irq: "idle", "try" (status read, not 0)
  woken,        \* the handler thread has been woken
  thread,       \* qedu_thr_handle_irq: "idle", "lock", "cs"
  seen,         \* the status the thread has read
  pending,      \* edu->timer is pending
  timer,        \* qedu_timeout: "idle", "lock", "cs"
  pc,           \* pc[t]: where caller t is
  irq_q,        \* callers on edu->irq_q
  remover       \* where qedu_remove is

irqs == <<raised, msi, hard, woken, thread, seen>>
timers == <<pending, timer>>
vars == <<lock, state, irqs, timers, pc, irq_q, remover>>

Bits == {"WAIT", "OK", "TIMEDOUT", "SHUTDOWN"}

__qedu_is_irq_done == state \cap {"OK", "TIMEDOUT", "SHUTDOWN"} # {}

Init ==
  /\ lock = Free /\ state = {}
  /\ raised = FALSE
  /\ \E use_msi \in MsiSettings : msi = IF use_msi THEN "idle" ELSE "off"
  /\ hard = "idle" /\ woken = FALSE /\ thread = "idle" /\ seen = FALSE
  /\ pending = FALSE /\ timer = "idle"
  /\ pc = [t \in Procs |-> "user"] /\ irq_q = {}
  /\ remover = "out"

Goto(t, s) == pc' = [pc EXCEPT ![t] = s]
Acquire(x) == lock = Free /\ lock' = x
Release == lock' = Free

-----------------------------------------------------------------------------
(* test_irq_show                                                           *)

Call(t) ==
  /\ pc[t] = "user" /\ remover = "out"
  /\ Goto(t, "lock")
  /\ UNCHANGED <<lock, state, irqs, timers, irq_q, remover>>

Lock(t) ==
  /\ \/ pc[t] = "lock" /\ Goto(t, "enter")
     \/ pc[t] = "relock" /\ Goto(t, "loop")
  /\ Acquire(t)
  /\ UNCHANGED <<state, irqs, timers, irq_q, remover>>

(* -ECANCELED, or -EBUSY: a test runs, or ran and was ended by a signal.   *)
Refuse(t) ==
  /\ pc[t] = "enter" /\ state \cap {"SHUTDOWN", "WAIT"} # {}
  /\ Goto(t, "user") /\ Release
  /\ UNCHANGED <<state, irqs, timers, irq_q, remover>>

SetWaitingUnmarked == pending' = TRUE /\ UNCHANGED state

(* Mark the test and arm its timer.                                        *)
qedu_set_waiting_irq == state' = state \cup {"WAIT"} /\ pending' = TRUE

(* Raise the interrupt; add_timer does not take a timer that is pending.   *)
Start(t) ==
  /\ pc[t] = "enter" /\ state \cap {"SHUTDOWN", "WAIT"} = {}
  /\ raised' = TRUE /\ msi' = IF msi = "off" THEN "off" ELSE "sent"
  /\ qedu_set_waiting_irq
  /\ Goto(t, IF pending THEN "bug" ELSE "loop")
  /\ UNCHANGED <<lock, hard, woken, thread, seen, timer, irq_q, remover>>

Wait(t) ==
  /\ pc[t] = "loop" /\ ~__qedu_is_irq_done
  /\ Goto(t, "prepare") /\ Release
  /\ UNCHANGED <<state, irqs, timers, irq_q, remover>>

ClearKeepsWait == state' = state \ {"OK", "TIMEDOUT"}

qedu_clear_waiting_irq == state' = state \ {"WAIT", "OK", "TIMEDOUT"}

(* Print "IRQ OK" or "IRQ FAIL"; the timer is left as it is.               *)
Report(t) ==
  /\ pc[t] = "loop" /\ __qedu_is_irq_done
  /\ qedu_clear_waiting_irq
  /\ Goto(t, "user") /\ Release
  /\ UNCHANGED <<irqs, timers, irq_q, remover>>

SleepUnchecked(t) ==
  /\ pc[t] = "prepare" /\ Goto(t, "asleep")
  /\ irq_q' = irq_q \cup {t}
  /\ UNCHANGED <<lock, state, irqs, timers, remover>>

PrepareToWait(t) ==
  /\ pc[t] = "prepare"
  /\ irq_q' = irq_q \cup {t}
  /\ Goto(t, "check")
  /\ UNCHANGED <<lock, state, irqs, timers, remover>>

(* finish_wait, then signal_pending: a signal leaves the WAIT bit set.     *)
FinishWait(t) ==
  /\ irq_q' = irq_q \ {t}
  /\ Goto(t, "relock") \/ (t \in Signalled /\ Goto(t, "user"))

(* The bits are tested without the lock.                                   *)
Check(t) ==
  /\ pc[t] = "check"
  /\ IF __qedu_is_irq_done THEN FinishWait(t)
                           ELSE Goto(t, "asleep") /\ UNCHANGED irq_q
  /\ UNCHANGED <<lock, state, irqs, timers, remover>>

Awake(t) ==
  /\ pc[t] = "asleep" /\ (t \notin irq_q \/ t \in Signalled)
  /\ FinishWait(t)
  /\ UNCHANGED <<lock, state, irqs, timers, remover>>

-----------------------------------------------------------------------------
(* The interrupt handlers.                                                 *)

HandleUnmarked(intr_status) ==
  /\ pending' = FALSE /\ UNCHANGED state
  /\ raised' = (raised /\ ~intr_status) /\ irq_q' = {}

HandleUnacked(intr_status) ==
  /\ pending' = FALSE /\ state' = state \cup {"OK"}
  /\ UNCHANGED raised /\ irq_q' = {}

(* del_timer stops a pending timer but not a callback that already runs.   *)
__qedu_handle_irq(intr_status) ==
  /\ pending' = FALSE
  /\ state' = state \cup {"OK"}
  /\ raised' = (raised /\ ~intr_status)
  /\ irq_q' = {}

Requested == remover \notin {"freeing", "gone"}

(* The device asks for attention.                                          *)
Signals == msi = "sent" \/ (msi = "off" /\ raised)

(* The hard handler reads the status; 0 means the interrupt is not its own.*)
Interrupt ==
  /\ hard = "idle" /\ Requested
  /\ Signals
  /\ msi' = IF msi = "off" THEN "off" ELSE "idle"
  /\ hard' = IF raised THEN "try" ELSE "idle"
  /\ UNCHANGED <<lock, state, raised, woken, thread, seen, timers, pc, irq_q,
                 remover>>

LoseMessage ==
  /\ MayLose /\ msi = "sent" /\ msi' = "idle"
  /\ UNCHANGED <<lock, state, raised, hard, woken, thread, seen, timers, pc,
                 irq_q, remover>>

qedu_handle_irq ==
  /\ hard = "try" /\ hard' = "idle"
  /\ \/ /\ lock = Free
        /\ __qedu_handle_irq(TRUE)
        /\ UNCHANGED woken
     \/ /\ lock # Free
        /\ woken' = TRUE
        /\ UNCHANGED <<pending, state, raised, irq_q>>
  /\ UNCHANGED <<lock, msi, thread, seen, timer, pc, remover>>

(* The thread reads the status before it takes the lock and uses it after. *)
ThreadRead ==
  /\ woken /\ woken' = FALSE
  /\ thread = "idle" /\ thread' = "lock"
  /\ seen' = raised
  /\ UNCHANGED <<lock, state, raised, msi, hard, timers, pc, irq_q, remover>>

ThreadLock ==
  /\ thread = "lock" /\ thread' = "cs"
  /\ Acquire("thread")
  /\ UNCHANGED <<state, raised, msi, hard, woken, seen, timers, pc, irq_q,
                 remover>>

qedu_thr_handle_irq ==
  /\ thread = "cs" /\ thread' = "idle"
  /\ __qedu_handle_irq(seen)
  /\ seen' = FALSE
  /\ Release
  /\ UNCHANGED <<msi, hard, woken, timer, pc, remover>>

-----------------------------------------------------------------------------
(* The timeout.                                                            *)

Expire ==
  /\ pending /\ timer = "idle"
  /\ pending' = FALSE /\ timer' = "lock"
  /\ UNCHANGED <<lock, state, irqs, pc, irq_q, remover>>

TimerLock ==
  /\ timer = "lock" /\ timer' = "cs"
  /\ Acquire("timer")
  /\ UNCHANGED <<state, irqs, pending, pc, irq_q, remover>>

(* A raised interrupt is left to its handler; a busy device gets more time.*)
qedu_timeout ==
  /\ timer = "cs" /\ timer' = "idle"
  /\ Release
  /\ \/ raised /\ UNCHANGED <<pending, state, irq_q>>
     \/ /\ ~raised /\ "busy" \in HwStatus
        /\ pending' = TRUE
        /\ UNCHANGED <<state, irq_q>>
     \/ /\ ~raised /\ "idle" \in HwStatus
        /\ state' = state \cup {"TIMEDOUT"}
        /\ irq_q' = {}
        /\ UNCHANGED pending
  /\ UNCHANGED <<irqs, pc, remover>>

-----------------------------------------------------------------------------
(* qedu_remove                                                             *)

Remove(from, to) == remover = from /\ remover' = to

(* Removing the attributes waits for the callers that are inside.          *)
RemoveEntries ==
  /\ Removes /\ Remove("out", "draining")
  /\ UNCHANGED <<lock, state, irqs, timers, pc, irq_q>>

RemoveLock ==
  /\ \/ Remove("draining", "shutdown") /\ \A t \in Procs : pc[t] = "user"
     \/ Remove("synced", "test") \/ Remove("waited", "free")
  /\ Acquire("remover")
  /\ UNCHANGED <<state, irqs, timers, pc, irq_q>>

Shutdown ==
  /\ Remove("shutdown", "sync")
  /\ state' = state \cup {"SHUTDOWN"}
  /\ Release
  /\ UNCHANGED <<irqs, timers, pc, irq_q>>

del_timer ==
  /\ Remove("sync", "synced")
  /\ pending' = FALSE
  /\ UNCHANGED <<lock, state, irqs, timer, pc, irq_q>>

del_timer_sync ==
  /\ Remove("sync", "synced") /\ timer = "idle"
  /\ pending' = FALSE
  /\ UNCHANGED <<lock, state, irqs, timer, pc, irq_q>>

(* A WAIT bit makes it sleep for up to a second.                           *)
TestWait ==
  /\ \/ "WAIT" \in state /\ Remove("test", "waited") /\ Release
     \/ "WAIT" \notin state /\ Remove("test", "free") /\ UNCHANGED lock
  /\ UNCHANGED <<state, irqs, timers, pc, irq_q>>

FreeIrq ==
  /\ Remove("free", "freeing")
  /\ UNCHANGED <<lock, state, irqs, timers, pc, irq_q>>

(* free_irq waits for both handlers, with edu->lock held.                  *)
Gone ==
  /\ Remove("freeing", "gone") /\ hard = "idle"
  /\ ~woken /\ thread = "idle"
  /\ Release
  /\ UNCHANGED <<state, irqs, timers, pc, irq_q>>

-----------------------------------------------------------------------------
CallerStep(t) ==
  Refuse(t) \/ Start(t) \/ Wait(t) \/ Report(t) \/ PrepareToWait(t) \/ Check(t)
  \/ Awake(t)

RemoverStep == Shutdown \/ del_timer_sync \/ TestWait \/ FreeIrq \/ Gone

Next ==
  \/ \E t \in Procs : Call(t) \/ Lock(t) \/ CallerStep(t)
  \/ Interrupt \/ LoseMessage \/ qedu_handle_irq
  \/ ThreadRead \/ ThreadLock \/ qedu_thr_handle_irq
  \/ Expire \/ TimerLock \/ qedu_timeout
  \/ RemoveEntries \/ RemoveLock \/ RemoverStep

Spec == Init /\ [][Next]_vars

(* A processor that can go on does, a spinlock is handed to its waiters in *)
(* turn, timers expire and interrupts are delivered; callers need not call,*)
(* messages need not get lost and signals need not come.                   *)
Fairness ==
  /\ \A t \in Procs : SF_vars(Lock(t)) /\ WF_vars(CallerStep(t))
  /\ WF_vars(Interrupt) /\ WF_vars(qedu_handle_irq)
  /\ WF_vars(ThreadRead) /\ SF_vars(ThreadLock) /\ WF_vars(qedu_thr_handle_irq)
  /\ WF_vars(Expire) /\ SF_vars(TimerLock) /\ WF_vars(qedu_timeout)
  /\ SF_vars(RemoveLock) /\ WF_vars(RemoverStep)

FairSpec == Spec /\ Fairness
-----------------------------------------------------------------------------
InTest(t) == pc[t] \in {"loop", "prepare", "check", "asleep", "relock"}

TypeOK ==
  /\ lock \in Procs \cup {Free, "thread", "timer", "remover"}
  /\ state \subseteq Bits
  /\ raised \in BOOLEAN /\ woken \in BOOLEAN
  /\ seen \in BOOLEAN /\ pending \in BOOLEAN
  /\ msi \in {"off", "idle", "sent"}
  /\ hard \in {"idle", "try"}
  /\ thread \in {"idle", "lock", "cs"}
  /\ timer \in {"idle", "lock", "cs"}
  /\ pc \in [Procs -> {"user", "lock", "enter", "loop", "prepare", "check",
                       "asleep", "relock", "bug"}]
  /\ irq_q \subseteq Procs
  /\ remover \in {"out", "draining", "shutdown", "sync", "synced", "test",
                  "waited", "free", "freeing", "gone"}

(* edu->lock is held by exactly the context inside a critical section.     *)
LockInv ==
  /\ \A t \in Procs : lock = t <=> pc[t] \in {"enter", "loop", "bug"}
  /\ lock = "thread" <=> thread = "cs"
  /\ lock = "timer" <=> timer = "cs"
  /\ lock = "remover" <=> remover \in {"shutdown", "test", "free", "freeing"}

(* The WAIT bit admits one test at a time although test_irq_show drops the *)
(* lock to sleep, and it stays set as long as that test runs.              *)
OneTest ==
  \A t \in Procs : InTest(t) =>
    "WAIT" \in state /\ \A u \in Procs \ {t} : ~InTest(u)

(* A caller asleep on irq_q has not missed a result although it tests the  *)
(* bits without the lock.                                                  *)
NoLostWakeup ==
  \A t \in Procs : pc[t] = "asleep" /\ t \in irq_q => ~__qedu_is_irq_done

(* While a test runs there is always something left that will end it: a    *)
(* result, the timer or its callback, or an interrupt still to be handled. *)
TestHasEnd ==
  \A t \in Procs : InTest(t) =>
    \/ __qedu_is_irq_done \/ pending \/ timer # "idle"
    \/ hard = "try" \/ woken \/ thread # "idle"
    \/ raised /\ Signals

(* When qedu_remove frees edu, nothing that uses it is running or armed.   *)
GoneIsQuiet ==
  remover = "gone" =>
    /\ hard = "idle" /\ ~woken /\ thread = "idle" /\ timer = "idle" /\ ~pending
    /\ \A t \in Procs : pc[t] = "user"

(* Without signals -EBUSY means that somebody else's test is running.      *)
BusyHasTest ==
  [][\A t \in Procs : Refuse(t) => \E u \in Procs \ {t} : InTest(u)]_vars

(* Every test ends, by its interrupt or by its timeout, unless the timer   *)
(* was armed while pending, which stops the kernel.                        *)
TestEnds ==
  \A t \in Procs : InTest(t) ~> pc[t] = "user" \/ \E u \in Procs : pc[u] = "bug"

(* A raised interrupt is acknowledged, by one handler or the other, unless *)
(* the driver is removed meanwhile.                                        *)
Acknowledged ==
  raised ~> ~raised \/ remover \in {"freeing", "gone"}
            \/ \E u \in Procs : pc[u] = "bug"

(* "IRQ FAIL" is printed only after the timeout of that test: its timer is *)
(* no longer pending.                                                      *)
FailIsTimeout ==
  [][\A t \in Procs : Report(t) /\ "OK" \notin state => ~pending]_vars

(* qedu_remove waits for the interrupt process and then finishes.          *)
RemoveFinishes == remover = "freeing" ~> remover = "gone"
=============================================================================
