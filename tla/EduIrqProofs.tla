---------------------------- MODULE EduIrqProofs ----------------------------
(***************************************************************************)
(* The safety of the interrupt test, for any callers, signals, hardware    *)
(* status and interleaving with the removal of the driver.                 *)
(***************************************************************************)
EXTENDS EduIrq, TLAPS

(* Removal goes on only when the callers have left, and none comes back;   *)
(* once the timer is stopped nobody is left to arm it.                     *)
Drained ==
  /\ remover \notin {"out", "draining"} => \A t \in Procs : pc[t] = "user"
  /\ "SHUTDOWN" \in state => remover \notin {"out", "draining"}
  /\ remover \notin {"out", "draining", "shutdown", "sync"} =>
       timer = "idle" /\ ~pending
  /\ remover = "gone" => hard = "idle" /\ ~woken /\ thread = "idle"

(* TypeOK in two parts, as the flags are Boolean and the places are not.   *)
Flags ==
  raised \in BOOLEAN /\ woken \in BOOLEAN /\ seen \in BOOLEAN /\ pending \in BOOLEAN

Places ==
  /\ lock \in Procs \cup {Free, "thread", "timer", "remover"}
  /\ state \subseteq Bits
  /\ msi \in {"off", "idle", "sent"}
  /\ hard \in {"idle", "try"}
  /\ thread \in {"idle", "lock", "cs"}
  /\ timer \in {"idle", "lock", "cs"}
  /\ pc \in [Procs -> {"user", "lock", "enter", "loop", "prepare", "check",
                       "asleep", "relock", "bug"}]
  /\ irq_q \subseteq Procs
  /\ remover \in {"out", "draining", "shutdown", "sync", "synced", "test",
                  "waited", "free", "freeing", "gone"}

Safe == TypeOK /\ LockInv /\ OneTest /\ NoLostWakeup /\ Drained

(* A raised interrupt is on its way to an acknowledgement.                 *)
Handled ==
  raised => Signals \/ hard = "try" \/ woken \/ (thread # "idle" /\ seen)

(* The WAIT bit has an owner, if no signal takes a caller out of its test. *)
Owned ==
  Signalled = {} /\ "WAIT" \in state =>
    \E t \in Procs : InTest(t) \/ pc[t] = "bug"

-----------------------------------------------------------------------------
(* A device as qedu_probe leaves it is safe.                               *)
LEMMA SafeInit == Init => Safe /\ Handled /\ TestHasEnd /\ Owned
  BY EduAssumption
  DEF Init, Safe, TypeOK, LockInv, OneTest, NoLostWakeup, Drained, Handled,
      TestHasEnd, Owned, InTest, Bits, __qedu_is_irq_done

(* Every step keeps program counters, bits and queue in their types.       *)
LEMMA PlaceStep ==
  ASSUME Places, Next PROVE Places'
<1> USE EduAssumption DEF Places, Bits
<1>1. ASSUME NEW t \in Procs, Call(t) PROVE Places'
  BY <1>1 DEF Call, Goto, irqs, timers
<1>2. ASSUME NEW t \in Procs, Lock(t) PROVE Places'
  BY <1>2 DEF Lock, Goto, Acquire, irqs, timers
<1>3. ASSUME NEW t \in Procs, Refuse(t) PROVE Places'
  BY <1>3 DEF Refuse, Goto, Release, irqs, timers
<1>4. ASSUME NEW t \in Procs, Start(t) PROVE Places'
  BY <1>4 DEF Start, qedu_set_waiting_irq, Goto
<1>5. ASSUME NEW t \in Procs, Wait(t) PROVE Places'
  BY <1>5 DEF Wait, Goto, Release, irqs, timers
<1>6. ASSUME NEW t \in Procs, Report(t) PROVE Places'
  BY <1>6 DEF Report, qedu_clear_waiting_irq, Goto, Release, irqs, timers
<1>7. ASSUME NEW t \in Procs, PrepareToWait(t) PROVE Places'
  BY <1>7 DEF PrepareToWait, Goto, irqs, timers
<1>8. ASSUME NEW t \in Procs, Check(t) PROVE Places'
  BY <1>8 DEF Check, FinishWait, Goto, irqs, timers
<1>9. ASSUME NEW t \in Procs, Awake(t) PROVE Places'
  BY <1>9 DEF Awake, FinishWait, Goto, irqs, timers
<1>10. CASE Interrupt
  BY <1>10 DEF Interrupt, Signals, Requested, timers
<1>11. CASE LoseMessage
  BY <1>11 DEF LoseMessage, timers
<1>12. CASE qedu_handle_irq
  <2>1. /\ state' = state \/ state' = state \cup {"OK"}
        /\ irq_q' = irq_q \/ irq_q' = {}
    BY <1>12 DEF qedu_handle_irq, __qedu_handle_irq
  <2>2. hard' = "idle" /\ UNCHANGED <<lock, msi, thread, timer, pc, remover>>
    BY <1>12 DEF qedu_handle_irq
  <2>3. state' \subseteq Bits /\ irq_q' \subseteq Procs
    BY <2>1
  <2>4. QED
    BY <2>2, <2>3
<1>13. CASE ThreadRead
  BY <1>13 DEF ThreadRead, timers
<1>14. CASE ThreadLock
  BY <1>14 DEF ThreadLock, Acquire, timers
<1>15. CASE qedu_thr_handle_irq
  BY <1>15 DEF qedu_thr_handle_irq, __qedu_handle_irq, Release
<1>16. CASE Expire
  BY <1>16 DEF Expire, irqs
<1>17. CASE TimerLock
  BY <1>17 DEF TimerLock, Acquire, irqs
<1>18. CASE qedu_timeout
  BY <1>18 DEF qedu_timeout, Release, irqs
<1>19. CASE RemoveEntries
  BY <1>19 DEF RemoveEntries, Remove, irqs, timers
<1>20. CASE RemoveLock
  BY <1>20 DEF RemoveLock, Acquire, Remove, irqs, timers
<1>21. CASE Shutdown
  BY <1>21 DEF Shutdown, Release, Remove, irqs, timers
<1>22. CASE del_timer_sync
  BY <1>22 DEF del_timer_sync, Remove, irqs
<1>23. CASE TestWait
  BY <1>23 DEF TestWait, Release, Remove, irqs, timers
<1>24. CASE FreeIrq
  BY <1>24 DEF FreeIrq, Remove, irqs, timers
<1>25. CASE Gone
  BY <1>25 DEF Gone, Release, Remove, irqs, timers
<1>26. QED
  BY <1>1, <1>2, <1>3, <1>4, <1>5, <1>6, <1>7, <1>8, <1>9, <1>10, <1>11,
     <1>12, <1>13, <1>14, <1>15, <1>16, <1>17, <1>18, <1>19, <1>20, <1>21,
     <1>22, <1>23, <1>24, <1>25 DEF Next, CallerStep, RemoverStep

(* Every step keeps the flags Boolean.                                     *)
LEMMA FlagStep ==
  ASSUME Flags, Next PROVE Flags'
<1>1. CASE UNCHANGED <<raised, woken, seen, pending>>
  BY <1>1 DEF Flags
<1>2. ASSUME NEW t \in Procs, Start(t) PROVE Flags'
  BY <1>2 DEF Start, qedu_set_waiting_irq, Goto, Flags
<1>3. CASE qedu_handle_irq
  BY <1>3 DEF qedu_handle_irq, __qedu_handle_irq, Flags
<1>4. CASE ThreadRead
  BY <1>4 DEF ThreadRead, timers, Flags
<1>5. CASE qedu_thr_handle_irq
  BY <1>5 DEF qedu_thr_handle_irq, __qedu_handle_irq, Release, Flags
<1>6. CASE Expire
  BY <1>6 DEF Expire, irqs, Flags
<1>7. CASE qedu_timeout
  BY <1>7 DEF qedu_timeout, Release, irqs, Flags
<1>8. CASE del_timer_sync
  BY <1>8 DEF del_timer_sync, Remove, irqs, Flags
<1>9. QED
  BY <1>1, <1>2, <1>3, <1>4, <1>5, <1>6, <1>7, <1>8 DEF Next, CallerStep,
     RemoverStep, irqs, timers, Call, Lock, Refuse, Wait, Report,
     PrepareToWait, Check, Awake, Interrupt, LoseMessage, ThreadLock,
     TimerLock, RemoveEntries, RemoveLock, Shutdown, TestWait, FreeIrq, Gone

(* So every step keeps the types.                                          *)
LEMMA TypeStep == ASSUME TypeOK, Next PROVE TypeOK'
<1>1. Flags /\ Places
  BY DEF TypeOK, Flags, Places
<1>2. Flags' /\ Places'
  BY <1>1, FlagStep, PlaceStep
<1>3. QED
  BY <1>2 DEF TypeOK, Flags, Places

(* The lock is released by its holder only.                                *)
LEMMA LockStep ==
  ASSUME TypeOK, LockInv, Next PROVE LockInv'
<1> USE EduAssumption DEF TypeOK, LockInv
<1>1. ASSUME NEW t \in Procs, Call(t) PROVE LockInv'
  BY <1>1 DEF Call, Goto, irqs, timers
<1>2. ASSUME NEW t \in Procs, Lock(t) PROVE LockInv'
  BY <1>2 DEF Lock, Goto, Acquire, irqs, timers
<1>3. ASSUME NEW t \in Procs, Refuse(t) PROVE LockInv'
  BY <1>3 DEF Refuse, Goto, Release, irqs, timers
<1>4. ASSUME NEW t \in Procs, Start(t) PROVE LockInv'
  BY <1>4 DEF Start, qedu_set_waiting_irq, Goto
<1>5. ASSUME NEW t \in Procs, Wait(t) PROVE LockInv'
  BY <1>5 DEF Wait, Goto, Release, irqs, timers
<1>6. ASSUME NEW t \in Procs, Report(t) PROVE LockInv'
  BY <1>6 DEF Report, qedu_clear_waiting_irq, Goto, Release, irqs, timers
<1>7. ASSUME NEW t \in Procs, PrepareToWait(t) PROVE LockInv'
  BY <1>7 DEF PrepareToWait, Goto, irqs, timers
<1>8. ASSUME NEW t \in Procs, Check(t) PROVE LockInv'
  BY <1>8 DEF Check, FinishWait, Goto, irqs, timers
<1>9. ASSUME NEW t \in Procs, Awake(t) PROVE LockInv'
  BY <1>9 DEF Awake, FinishWait, Goto, irqs, timers
<1>10. CASE Interrupt
  BY <1>10 DEF Interrupt, Signals, Requested, timers
<1>11. CASE LoseMessage
  BY <1>11 DEF LoseMessage, timers
<1>12. CASE qedu_handle_irq
  BY <1>12 DEF qedu_handle_irq, __qedu_handle_irq
<1>13. CASE ThreadRead
  BY <1>13 DEF ThreadRead, timers
<1>14. CASE ThreadLock
  BY <1>14 DEF ThreadLock, Acquire, timers
<1>15. CASE qedu_thr_handle_irq
  BY <1>15 DEF qedu_thr_handle_irq, __qedu_handle_irq, Release
<1>16. CASE Expire
  BY <1>16 DEF Expire, irqs
<1>17. CASE TimerLock
  BY <1>17 DEF TimerLock, Acquire, irqs
<1>18. CASE qedu_timeout
  BY <1>18 DEF qedu_timeout, Release, irqs
<1>19. CASE RemoveEntries
  BY <1>19 DEF RemoveEntries, Remove, irqs, timers
<1>20. CASE RemoveLock
  BY <1>20 DEF RemoveLock, Acquire, Remove, irqs, timers
<1>21. CASE Shutdown
  BY <1>21 DEF Shutdown, Release, Remove, irqs, timers
<1>22. CASE del_timer_sync
  BY <1>22 DEF del_timer_sync, Remove, irqs
<1>23. CASE TestWait
  BY <1>23 DEF TestWait, Release, Remove, irqs, timers
<1>24. CASE FreeIrq
  BY <1>24 DEF FreeIrq, Remove, irqs, timers
<1>25. CASE Gone
  BY <1>25 DEF Gone, Release, Remove, irqs, timers
<1>26. QED
  BY <1>1, <1>2, <1>3, <1>4, <1>5, <1>6, <1>7, <1>8, <1>9, <1>10, <1>11,
     <1>12, <1>13, <1>14, <1>15, <1>16, <1>17, <1>18, <1>19, <1>20, <1>21,
     <1>22, <1>23, <1>24, <1>25 DEF Next, CallerStep, RemoverStep

(* Tests exclude each other, sleepers miss no result, and removal drains.   *)
LEMMA TestStep ==
  ASSUME Safe, Next PROVE (OneTest /\ NoLostWakeup /\ Drained)'
<1> USE EduAssumption DEF Safe, TypeOK, Bits, LockInv, OneTest, InTest, NoLostWakeup,
  __qedu_is_irq_done, Drained
<1>1. ASSUME NEW t \in Procs, Call(t) PROVE (OneTest /\ NoLostWakeup /\ Drained)'
  BY <1>1 DEF Call, Goto, irqs, timers
<1>2. ASSUME NEW t \in Procs, Lock(t) PROVE (OneTest /\ NoLostWakeup /\ Drained)'
  BY <1>2 DEF Lock, Goto, Acquire, irqs, timers
<1>3. ASSUME NEW t \in Procs, Refuse(t) PROVE (OneTest /\ NoLostWakeup /\ Drained)'
  BY <1>3 DEF Refuse, Goto, Release, irqs, timers
<1>4. ASSUME NEW t \in Procs, Start(t) PROVE (OneTest /\ NoLostWakeup /\ Drained)'
  BY <1>4 DEF Start, qedu_set_waiting_irq, Goto
<1>5. ASSUME NEW t \in Procs, Wait(t) PROVE (OneTest /\ NoLostWakeup /\ Drained)'
  BY <1>5 DEF Wait, Goto, Release, irqs, timers
<1>6. ASSUME NEW t \in Procs, Report(t) PROVE (OneTest /\ NoLostWakeup /\ Drained)'
  BY <1>6 DEF Report, qedu_clear_waiting_irq, Goto, Release, irqs, timers
<1>7. ASSUME NEW t \in Procs, PrepareToWait(t) PROVE (OneTest /\ NoLostWakeup /\ Drained)'
  BY <1>7 DEF PrepareToWait, Goto, irqs, timers
<1>8. ASSUME NEW t \in Procs, Check(t) PROVE (OneTest /\ NoLostWakeup /\ Drained)'
  BY <1>8 DEF Check, FinishWait, Goto, irqs, timers
<1>9. ASSUME NEW t \in Procs, Awake(t) PROVE (OneTest /\ NoLostWakeup /\ Drained)'
  BY <1>9 DEF Awake, FinishWait, Goto, irqs, timers
<1>10. CASE Interrupt
  BY <1>10 DEF Interrupt, Signals, Requested, timers
<1>11. CASE LoseMessage
  BY <1>11 DEF LoseMessage, timers
<1>12. CASE qedu_handle_irq
  BY <1>12 DEF qedu_handle_irq, __qedu_handle_irq
<1>13. CASE ThreadRead
  BY <1>13 DEF ThreadRead, timers
<1>14. CASE ThreadLock
  BY <1>14 DEF ThreadLock, Acquire, timers
<1>15. CASE qedu_thr_handle_irq
  BY <1>15 DEF qedu_thr_handle_irq, __qedu_handle_irq, Release
<1>16. CASE Expire
  BY <1>16 DEF Expire, irqs
<1>17. CASE TimerLock
  BY <1>17 DEF TimerLock, Acquire, irqs
<1>18. CASE qedu_timeout
  BY <1>18 DEF qedu_timeout, Release, irqs
<1>19. CASE RemoveEntries
  BY <1>19 DEF RemoveEntries, Remove, irqs, timers
<1>20. CASE RemoveLock
  BY <1>20 DEF RemoveLock, Acquire, Remove, irqs, timers
<1>21. CASE Shutdown
  BY <1>21 DEF Shutdown, Release, Remove, irqs, timers
<1>22. CASE del_timer_sync
  BY <1>22 DEF del_timer_sync, Remove, irqs
<1>23. CASE TestWait
  BY <1>23 DEF TestWait, Release, Remove, irqs, timers
<1>24. CASE FreeIrq
  BY <1>24 DEF FreeIrq, Remove, irqs, timers
<1>25. CASE Gone
  BY <1>25 DEF Gone, Release, Remove, irqs, timers
<1>26. QED
  BY <1>1, <1>2, <1>3, <1>4, <1>5, <1>6, <1>7, <1>8, <1>9, <1>10, <1>11,
     <1>12, <1>13, <1>14, <1>15, <1>16, <1>17, <1>18, <1>19, <1>20, <1>21,
     <1>22, <1>23, <1>24, <1>25 DEF Next, CallerStep, RemoverStep

(* If no message gets lost, what is left to end a test stays.              *)
LEMMA EndStep ==
  ASSUME ~MayLose, Safe, Handled, TestHasEnd, Next PROVE (Handled /\ TestHasEnd)'
<1> USE EduAssumption DEF Safe, TypeOK, Bits, LockInv, OneTest, InTest, NoLostWakeup,
  __qedu_is_irq_done, Drained,
  Handled, TestHasEnd, Signals
<1>1. ASSUME NEW t \in Procs, Call(t) PROVE (Handled /\ TestHasEnd)'
  BY <1>1 DEF Call, Goto, irqs, timers
<1>2. ASSUME NEW t \in Procs, Lock(t) PROVE (Handled /\ TestHasEnd)'
  BY <1>2 DEF Lock, Goto, Acquire, irqs, timers
<1>3. ASSUME NEW t \in Procs, Refuse(t) PROVE (Handled /\ TestHasEnd)'
  BY <1>3 DEF Refuse, Goto, Release, irqs, timers
<1>4. ASSUME NEW t \in Procs, Start(t) PROVE (Handled /\ TestHasEnd)'
  BY <1>4 DEF Start, qedu_set_waiting_irq, Goto
<1>5. ASSUME NEW t \in Procs, Wait(t) PROVE (Handled /\ TestHasEnd)'
  BY <1>5 DEF Wait, Goto, Release, irqs, timers
<1>6. ASSUME NEW t \in Procs, Report(t) PROVE (Handled /\ TestHasEnd)'
  BY <1>6 DEF Report, qedu_clear_waiting_irq, Goto, Release, irqs, timers
<1>7. ASSUME NEW t \in Procs, PrepareToWait(t) PROVE (Handled /\ TestHasEnd)'
  BY <1>7 DEF PrepareToWait, Goto, irqs, timers
<1>8. ASSUME NEW t \in Procs, Check(t) PROVE (Handled /\ TestHasEnd)'
  BY <1>8 DEF Check, FinishWait, Goto, irqs, timers
<1>9. ASSUME NEW t \in Procs, Awake(t) PROVE (Handled /\ TestHasEnd)'
  BY <1>9 DEF Awake, FinishWait, Goto, irqs, timers
<1>10. CASE Interrupt
  BY <1>10 DEF Interrupt, Signals, Requested, timers
<1>11. CASE LoseMessage
  BY <1>11 DEF LoseMessage, timers
<1>12. CASE qedu_handle_irq
  BY <1>12 DEF qedu_handle_irq, __qedu_handle_irq
<1>13. CASE ThreadRead
  BY <1>13 DEF ThreadRead, timers
<1>14. CASE ThreadLock
  BY <1>14 DEF ThreadLock, Acquire, timers
<1>15. CASE qedu_thr_handle_irq
  BY <1>15 DEF qedu_thr_handle_irq, __qedu_handle_irq, Release
<1>16. CASE Expire
  BY <1>16 DEF Expire, irqs
<1>17. CASE TimerLock
  BY <1>17 DEF TimerLock, Acquire, irqs
<1>18. CASE qedu_timeout
  BY <1>18 DEF qedu_timeout, Release, irqs
<1>19. CASE RemoveEntries
  BY <1>19 DEF RemoveEntries, Remove, irqs, timers
<1>20. CASE RemoveLock
  BY <1>20 DEF RemoveLock, Acquire, Remove, irqs, timers
<1>21. CASE Shutdown
  BY <1>21 DEF Shutdown, Release, Remove, irqs, timers
<1>22. CASE del_timer_sync
  BY <1>22 DEF del_timer_sync, Remove, irqs
<1>23. CASE TestWait
  BY <1>23 DEF TestWait, Release, Remove, irqs, timers
<1>24. CASE FreeIrq
  BY <1>24 DEF FreeIrq, Remove, irqs, timers
<1>25. CASE Gone
  BY <1>25 DEF Gone, Release, Remove, irqs, timers
<1>26. QED
  BY <1>1, <1>2, <1>3, <1>4, <1>5, <1>6, <1>7, <1>8, <1>9, <1>10, <1>11,
     <1>12, <1>13, <1>14, <1>15, <1>16, <1>17, <1>18, <1>19, <1>20, <1>21,
     <1>22, <1>23, <1>24, <1>25 DEF Next, CallerStep, RemoverStep

(* Only the end of its test clears WAIT, and only a test sets it.          *)
LEMMA OwnerStep ==
  ASSUME Safe, Owned, Next PROVE Owned'
<1> USE EduAssumption DEF Safe, TypeOK, OneTest, InTest, Owned
<1>1. ASSUME NEW t \in Procs, Call(t) PROVE Owned'
  BY <1>1 DEF Call, Goto, irqs, timers
<1>2. ASSUME NEW t \in Procs, Lock(t) PROVE Owned'
  BY <1>2 DEF Lock, Goto, Acquire, irqs, timers
<1>3. ASSUME NEW t \in Procs, Refuse(t) PROVE Owned'
  BY <1>3 DEF Refuse, Goto, Release, irqs, timers
<1>4. ASSUME NEW t \in Procs, Start(t) PROVE Owned'
  BY <1>4 DEF Start, qedu_set_waiting_irq, Goto
<1>5. ASSUME NEW t \in Procs, Wait(t) PROVE Owned'
  BY <1>5 DEF Wait, Goto, Release, irqs, timers
<1>6. ASSUME NEW t \in Procs, Report(t) PROVE Owned'
  BY <1>6 DEF Report, qedu_clear_waiting_irq, Goto, Release, irqs, timers
<1>7. ASSUME NEW t \in Procs, PrepareToWait(t) PROVE Owned'
  BY <1>7 DEF PrepareToWait, Goto, irqs, timers
<1>8. ASSUME NEW t \in Procs, Check(t) PROVE Owned'
  BY <1>8 DEF Check, FinishWait, Goto, irqs, timers
<1>9. ASSUME NEW t \in Procs, Awake(t) PROVE Owned'
  BY <1>9 DEF Awake, FinishWait, Goto, irqs, timers
<1>10. CASE Interrupt
  BY <1>10 DEF Interrupt, Signals, Requested, timers
<1>11. CASE LoseMessage
  BY <1>11 DEF LoseMessage, timers
<1>12. CASE qedu_handle_irq
  BY <1>12 DEF qedu_handle_irq, __qedu_handle_irq
<1>13. CASE ThreadRead
  BY <1>13 DEF ThreadRead, timers
<1>14. CASE ThreadLock
  BY <1>14 DEF ThreadLock, Acquire, timers
<1>15. CASE qedu_thr_handle_irq
  BY <1>15 DEF qedu_thr_handle_irq, __qedu_handle_irq, Release
<1>16. CASE Expire
  BY <1>16 DEF Expire, irqs
<1>17. CASE TimerLock
  BY <1>17 DEF TimerLock, Acquire, irqs
<1>18. CASE qedu_timeout
  BY <1>18 DEF qedu_timeout, Release, irqs
<1>19. CASE RemoveEntries
  BY <1>19 DEF RemoveEntries, Remove, irqs, timers
<1>20. CASE RemoveLock
  BY <1>20 DEF RemoveLock, Acquire, Remove, irqs, timers
<1>21. CASE Shutdown
  BY <1>21 DEF Shutdown, Release, Remove, irqs, timers
<1>22. CASE del_timer_sync
  BY <1>22 DEF del_timer_sync, Remove, irqs
<1>23. CASE TestWait
  BY <1>23 DEF TestWait, Release, Remove, irqs, timers
<1>24. CASE FreeIrq
  BY <1>24 DEF FreeIrq, Remove, irqs, timers
<1>25. CASE Gone
  BY <1>25 DEF Gone, Release, Remove, irqs, timers
<1>26. QED
  BY <1>1, <1>2, <1>3, <1>4, <1>5, <1>6, <1>7, <1>8, <1>9, <1>10, <1>11,
     <1>12, <1>13, <1>14, <1>15, <1>16, <1>17, <1>18, <1>19, <1>20, <1>21,
     <1>22, <1>23, <1>24, <1>25 DEF Next, CallerStep, RemoverStep

-----------------------------------------------------------------------------
(* Safe is inductive.                                                      *)
LEMMA SafeStep == Safe /\ [Next]_vars => Safe'
<1> SUFFICES ASSUME Safe, [Next]_vars PROVE Safe'
  OBVIOUS
<1>1. CASE UNCHANGED vars
  <2> USE <1>1 DEF vars, irqs, timers
  <2>1. TypeOK'
    BY DEF Safe, TypeOK
  <2>2. LockInv'
    BY DEF Safe, LockInv
  <2>3. OneTest' /\ NoLostWakeup'
    BY DEF Safe, OneTest, InTest, NoLostWakeup, __qedu_is_irq_done
  <2>4. Drained'
    BY DEF Safe, Drained
  <2>5. QED
    BY <2>1, <2>2, <2>3, <2>4 DEF Safe
<1>2. CASE Next
  BY <1>2, TypeStep, LockStep, TestStep DEF Safe
<1>3. QED
  BY <1>1, <1>2

(* So is the end of every test, if no message gets lost.                   *)
LEMMA EndsStep ==
  ASSUME ~MayLose
  PROVE  Safe /\ Handled /\ TestHasEnd /\ [Next]_vars => Handled' /\ TestHasEnd'
<1>1. CASE UNCHANGED vars
  BY <1>1 DEF vars, irqs, timers, Handled, TestHasEnd, Signals, InTest,
              __qedu_is_irq_done
<1>2. CASE Next
  BY <1>2, EndStep
<1>3. QED
  BY <1>1, <1>2

(* So is the owner of the WAIT bit.                                        *)
LEMMA OwnersStep == Safe /\ Owned /\ [Next]_vars => Owned'
<1>1. CASE UNCHANGED vars
  BY <1>1 DEF vars, irqs, timers, Owned, InTest
<1>2. CASE Next
  BY <1>2, OwnerStep
<1>3. QED
  BY <1>1, <1>2

(* Callers, handlers and the timer keep to Safe.                           *)
LEMMA TestSafe == Spec => []Safe
<1>1. Init => Safe
  BY SafeInit
<1>2. QED
  BY <1>1, SafeStep, PTL DEF Spec

(* The spinlock is held by the one context in its critical section.        *)
THEOREM LockCorrect == Spec => [](TypeOK /\ LockInv)
<1>1. Safe => TypeOK /\ LockInv
  BY DEF Safe
<1>2. QED
  BY <1>1, TestSafe, PTL

(* Tests of any number of callers exclude each other by the WAIT bit,      *)
(* through timeouts, signals and late interrupts.                          *)
THEOREM OneTestCorrect == Spec => []OneTest
<1>1. Safe => OneTest
  BY DEF Safe
<1>2. QED
  BY <1>1, TestSafe, PTL

(* A caller asleep on irq_q has missed no result, although it tests the    *)
(* bits without the lock.                                                  *)
THEOREM WakeupCorrect == Spec => []NoLostWakeup
<1>1. Safe => NoLostWakeup
  BY DEF Safe
<1>2. QED
  BY <1>1, TestSafe, PTL

(* When qedu_remove frees edu, no caller, handler or timer of the driver   *)
(* is left to use it.                                                      *)
THEOREM GoneCorrect == Spec => []GoneIsQuiet
<1>1. Safe => GoneIsQuiet
  BY DEF Safe, Drained, GoneIsQuiet
<1>2. QED
  BY <1>1, TestSafe, PTL

(* If no message gets lost, a test always has an interrupt, a timer or a   *)
(* result left to end it: the handlers and qedu_timeout never both leave   *)
(* it to the other.                                                        *)
THEOREM TestHasEndCorrect ==
  ASSUME ~MayLose PROVE Spec => []TestHasEnd
<1>1. Init => Safe /\ Handled /\ TestHasEnd
  BY SafeInit
<1>2. Safe /\ Handled /\ TestHasEnd /\ [Next]_vars
        => (Safe /\ Handled /\ TestHasEnd)'
  BY SafeStep, EndsStep
<1>3. QED
  BY <1>1, <1>2, PTL DEF Spec

(* If no caller is signalled, test_irq_show returns -EBUSY only while the  *)
(* test of another caller runs.                                            *)
THEOREM BusyCorrect ==
  ASSUME Signalled = {} PROVE Spec => BusyHasTest
<1>1. Init => Safe /\ Owned
  BY SafeInit
<1>2. Safe /\ Owned /\ [Next]_vars => (Safe /\ Owned)'
  BY SafeStep, OwnersStep
<1>3. Safe /\ Owned /\ [Next]_vars
        => [\A t \in Procs : Refuse(t) =>
              \E u \in Procs \ {t} : InTest(u)]_vars
  <2> SUFFICES ASSUME Safe, Owned, NEW t \in Procs, Refuse(t)
               PROVE  \E u \in Procs \ {t} : InTest(u)
    OBVIOUS
  <2>1. "WAIT" \in state
    BY DEF Refuse, Safe, Drained
  <2>2. PICK u \in Procs : InTest(u) \/ pc[u] = "bug"
    BY <2>1 DEF Owned
  <2>3. u # t /\ pc[u] # "bug"
    BY <2>2 DEF Refuse, InTest, Safe, LockInv
  <2>4. QED
    BY <2>2, <2>3
<1>4. QED
  BY <1>1, <1>2, <1>3, PTL DEF Spec, BusyHasTest
=============================================================================
