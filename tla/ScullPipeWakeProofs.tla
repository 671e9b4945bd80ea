-------------------------- MODULE ScullPipeWakeProofs --------------------------
(***************************************************************************)
(* Theorems about the wait loops of ScullPipe: nobody sleeps through the   *)
(* wake-up it waits for, and closed files get no SIGIO.                    *)
(***************************************************************************)
EXTENDS ScullPipeBufferProofs

(* Somebody is about to wake the processes that wait for data, for space.  *)
Announcing == \E u \in Procs : In(u, "write", "wake")
Freeing == \E u \in Procs : op[u] \in {"read", "reread"} /\ at[u] = "wake"

(* t sleeps for data, or the pointer it has loaded is such that it may go  *)
(* to sleep although data came in.                                         *)
DataRisk(t) ==
  \/ at[t] = "asleep" /\ WantsData(t)
  \/ /\ In(t, "reread", "recheck")
     /\ \/ local[t][1] = "rp" /\ local[t][2] = wp
        \/ local[t][1] = "wp" /\ local[t][2] # wp

(* The same for space.                                                     *)
SpaceRisk(t) ==
  \/ at[t] = "asleep" /\ WantsSpace(t)
  \/ /\ In(t, "write", "recheck")
     /\ \/ local[t][1] = "rp" /\ local[t][2] # rp
        \/ local[t][1] = "wp" /\ spacefree(rp, local[t][2], buf_len) = 0

DataInv == Announcing \/ rp = wp \/ \A t \in inq : ~DataRisk(t)
SpaceInv == Freeing \/ Full \/ \A t \in outq \ stranded : ~SpaceRisk(t)

WakeInv == DataInv /\ SpaceInv

(* What a step of t does to the others: nothing, on the queues or off.     *)
Aside(t) ==
  /\ \A u \in Procs \ {t} : op'[u] = op[u] /\ at'[u] = at[u] /\ local'[u] = local[u]
  /\ inq' \subseteq inq \cup {t}
  /\ outq' \ stranded' \subseteq (outq \ stranded) \cup {t}

(* t takes no risk by its step that it did not run before.                 *)
Careful(t) ==
  /\ t \in inq' /\ DataRisk(t)' => (t \in inq /\ DataRisk(t)) \/ rp = wp
  /\ t \in outq' \ stranded' /\ SpaceRisk(t)'
       => (t \in outq \ stranded /\ SpaceRisk(t)) \/ Full

(* Every step of pipe.c changes only the variables of its own process, and *)
(* puts only that process on a wait queue.                                 *)
LEMMA StepAside ==
  ASSUME Control, Ring, NEW t \in Procs, Step(t) PROVE Aside(t)
<1>1. \A u \in Procs \ {t} : op'[u] = op[u] /\ at'[u] = at[u]
  BY Others
<1>2. local = [u \in Procs |-> local[u]]
  BY DEF Ring
<1> USE DEF Aside, queues
<1>3. CASE Open(t) \/ Read(t) \/ Write(t) \/ Poll(t) \/ Release(t)
  BY <1>1, <1>2, <1>3 DEF Open, Read, Write, Poll, Release, Call
<1>4. CASE scull_p_fasync(t) \/ SetSize(t) \/ MutexLock(t) \/ MutexInterrupted(t)
  BY <1>1, <1>4 DEF scull_p_fasync, SetSize, MutexLock, MutexInterrupted
<1>5. CASE scull_p_open(t)
  BY <1>1, <1>5 DEF scull_p_open, ResetBuffer
<1>6. CASE ProperOpenReader(t) \/ ProperOpenRetry(t)
  BY <1>1, <1>6 DEF ProperOpenReader, ProperOpenRetry
<1>7. CASE ProperOpenWriter(t)
  BY <1>1, <1>7 DEF ProperOpenWriter, ResetBuffer
<1>8. CASE scull_p_read(t) \/ WakeWriters(t) \/ scull_p_write(t) \/ WakeReaders(t)
  BY <1>1, <1>8 DEF scull_p_read, WakeWriters, scull_p_write, WakeReaders
<1>9. CASE PrepareToWait(t)
  BY <1>1, <1>9 DEF PrepareToWait, Enqueue
<1>10. CASE CheckWriters(t) \/ LoadPointer(t) \/ CheckData(t) \/ DivideError(t)
  BY <1>1, <1>2, <1>10 DEF CheckWriters, LoadPointer, CheckData, DivideError
<1>11. CASE CheckSpace(t)
  BY <1>1, <1>2, <1>11 DEF CheckSpace, FinishWrite
<1>12. CASE Awake(t) \/ AwakeWriter(t) \/ scull_p_release(t)
  BY <1>1, <1>12 DEF Awake, AwakeWriter, FinishWrite, scull_p_release
<1>13. CASE scull_p_poll(t)
  BY <1>1, <1>2, <1>13 DEF scull_p_poll, LeavePoll
<1>14. CASE AwakePoller(t)
  BY <1>1, <1>2, <1>14 DEF AwakePoller, LeavePoll
<1>15. QED
  BY <1>3, <1>4, <1>5, <1>6, <1>7, <1>8, <1>9, <1>10, <1>11, <1>12, <1>13, <1>14
  DEF Step, UserStep, KernelStep

(* A process that neither sleeps nor checks its condition takes no risk.   *)
LEMMA RunningIsCareful ==
  ASSUME NEW t \in Procs, at'[t] \notin {"asleep", "recheck"} PROVE Careful(t)
BY DEF Careful, DataRisk, SpaceRisk, In

(* A step that leaves the pointers alone, by a process that has nobody to  *)
(* wake and takes no risk.                                                 *)
LEMMA PlainWake ==
  ASSUME WakeInv, Counting', NEW t \in Procs, Aside(t), Careful(t), at[t] # "wake",
         UNCHANGED <<buf_len, rp, wp>>
  PROVE  WakeInv'
<1>1. (Announcing => Announcing') /\ (Freeing => Freeing') /\ Full' = Full
  BY DEF Announcing, Freeing, Full, In, Aside
<1>2. ASSUME NEW u \in Procs, u # t
      PROVE  DataRisk(u)' = DataRisk(u) /\ SpaceRisk(u)' = SpaceRisk(u)
  BY <1>2 DEF DataRisk, SpaceRisk, In, WantsData, WantsSpace, Aside
<1>3. inq' \subseteq Procs /\ outq' \subseteq Procs
  BY DEF Counting
<1>4. ASSUME ~Announcing, rp # wp, NEW u \in inq' PROVE ~DataRisk(u)'
  <2>1. \A v \in inq : ~DataRisk(v)
    BY <1>4 DEF WakeInv, DataInv
  <2>2. CASE u = t
    BY <1>4, <2>1, <2>2 DEF Careful
  <2>3. CASE u # t
    BY <1>2, <1>3, <1>4, <2>1, <2>3 DEF Aside
  <2>4. QED
    BY <2>2, <2>3
<1>5. ASSUME ~Freeing, ~Full, NEW u \in outq' \ stranded' PROVE ~SpaceRisk(u)'
  <2>1. \A v \in outq \ stranded : ~SpaceRisk(v)
    BY <1>5 DEF WakeInv, SpaceInv
  <2>2. CASE u = t
    BY <1>5, <2>1, <2>2 DEF Careful
  <2>3. CASE u # t
    BY <1>2, <1>3, <1>5, <2>1, <2>3 DEF Aside
  <2>4. QED
    BY <2>2, <2>3
<1>6. QED
  BY <1>1, <1>4, <1>5 DEF WakeInv, DataInv, SpaceInv

(* A read that takes data announces the space; what it takes away puts no  *)
(* reader at risk.                                                         *)
LEMMA ReadWake ==
  ASSUME WakeInv, Control, Counting', NEW t \in Procs, Aside(t), scull_p_read(t),
         rp # wp, at'[t] = "wake"
  PROVE  WakeInv'
<1>1. op'[t] \in {"read", "reread"} /\ at'[t] = "wake" /\ wp' = wp /\ inq' = inq
  BY DEF scull_p_read, ReadLoop, EndOfFile, Return, Goto, Control, queues
<1>2. Freeing'
  BY <1>1 DEF Freeing
<1>3. Announcing => Announcing'
  BY DEF Announcing, In, Aside, scull_p_read
<1>4. ASSUME ~Announcing, NEW u \in inq' PROVE ~DataRisk(u)'
  <2>1. u \in Procs /\ ~DataRisk(u)
    BY <1>1, <1>4 DEF WakeInv, DataInv, Counting
  <2>2. CASE u = t
    BY <1>1, <2>2 DEF DataRisk, In
  <2>3. CASE u # t
    BY <1>1, <2>1, <2>3 DEF DataRisk, In, WantsData, Aside
  <2>4. QED
    BY <2>2, <2>3
<1>5. QED
  BY <1>2, <1>3, <1>4 DEF WakeInv, DataInv, SpaceInv

(* A write announces the data; it needs space, so nobody was at risk.      *)
LEMMA WriteWake ==
  ASSUME WakeInv, Control, Counting', NEW t \in Procs, Aside(t), scull_p_write(t), ~Full,
         at'[t] = "wake"
  PROVE  WakeInv'
<1>1. /\ op'[t] = "write" /\ rp' = rp /\ buf_len' = buf_len
      /\ outq' = outq /\ stranded' = stranded
  BY DEF scull_p_write, Return, Goto, Control, queues
<1>2. Announcing'
  BY <1>1 DEF Announcing, In
<1>3. Freeing => Freeing'
  BY DEF Freeing, Aside, scull_p_write, In
<1>4. ASSUME ~Freeing, NEW u \in outq' \ stranded' PROVE ~SpaceRisk(u)'
  <2>1. u \in Procs /\ ~SpaceRisk(u)
    BY <1>1, <1>4 DEF WakeInv, SpaceInv, Counting
  <2>2. CASE u = t
    BY <2>2 DEF SpaceRisk, In
  <2>3. CASE u # t
    BY <1>1, <2>1, <2>3 DEF SpaceRisk, In, WantsSpace, Aside
  <2>4. QED
    BY <2>2, <2>3
<1>5. QED
  BY <1>2, <1>3, <1>4 DEF WakeInv, DataInv, SpaceInv

(* An open that empties the ring leaves nothing to read, and strands all   *)
(* who wait for space.                                                     *)
LEMMA ResetWake == ASSUME ResetBuffer PROVE WakeInv'
<1>1. rp' = wp' /\ outq' \ stranded' = {}
  BY DEF ResetBuffer
<1>2. QED
  BY <1>1 DEF WakeInv, DataInv, SpaceInv

(* Nobody is at risk on a queue that has just been woken.                  *)
LEMMA WakersWake ==
  ASSUME WakeInv, Control, Counting, NEW t \in Procs, Aside(t),
         WakeReaders(t) \/ WakeWriters(t)
  PROVE  WakeInv'
<1>1. CASE WakeReaders(t)
  <2>1. inq' = {} /\ outq' = outq /\ stranded' = stranded /\ Full' = Full
    BY <1>1 DEF WakeReaders, ring, Full
  <2>2. Freeing => Freeing'
    BY <1>1 DEF WakeReaders, In, Freeing, Aside
  <2>3. ASSUME ~Freeing, ~Full, NEW u \in outq \ stranded PROVE ~SpaceRisk(u)'
    <3>1. u \in Procs /\ ~SpaceRisk(u)
      BY <2>3 DEF WakeInv, SpaceInv, Counting
    <3>2. at'[t] = "user"
      BY <1>1 DEF WakeReaders, Return, Goto, Control
    <3>3. CASE u = t
      BY <3>2, <3>3 DEF SpaceRisk, In
    <3>4. CASE u # t
      BY <1>1, <2>3, <3>1, <3>4
         DEF SpaceRisk, In, WantsSpace, Aside, WakeReaders, ring
    <3>5. QED
      BY <3>3, <3>4
  <2>4. QED
    BY <2>1, <2>2, <2>3 DEF WakeInv, DataInv, SpaceInv
<1>2. CASE WakeWriters(t)
  <2>1. outq' = {} /\ inq' = inq /\ UNCHANGED <<rp, wp>>
    BY <1>2 DEF WakeWriters, ring
  <2>2. Announcing => Announcing'
    BY <1>2 DEF WakeWriters, In, Announcing, Aside
  <2>3. ASSUME ~Announcing, rp # wp, NEW u \in inq PROVE ~DataRisk(u)'
    <3>1. u \in Procs /\ ~DataRisk(u)
      BY <2>3 DEF WakeInv, DataInv, Counting
    <3>2. at'[t] = "user"
      BY <1>2 DEF WakeWriters, Return, Goto, Control
    <3>3. CASE u = t
      BY <3>2, <3>3 DEF DataRisk, In
    <3>4. CASE u # t
      BY <2>1, <2>3, <3>1, <3>4 DEF DataRisk, In, WantsData, Aside
    <3>5. QED
      BY <3>3, <3>4
  <2>4. QED
    BY <2>1, <2>2, <2>3 DEF WakeInv, DataInv, SpaceInv
<1>3. QED
  BY <1>1, <1>2

(* Every step of pipe.c keeps the sleepers' wake-ups.                      *)
LEMMA WakeStep ==
  ASSUME Control, Ring, Counting, Counting', WakeInv, NEW t \in Procs, Step(t)
  PROVE  WakeInv'
<1>1. Aside(t)
  BY StepAside
<1>2. op \in [Procs -> Ops] /\ at \in [Procs -> Stages]
  BY DEF Control
<1>3. local = [u \in Procs |-> local[u]]
  BY DEF Ring
<1>4. ASSUME at[t] # "wake", at'[t] \notin {"asleep", "recheck"}, UNCHANGED <<buf_len, rp, wp>>
      PROVE  WakeInv'
  BY <1>1, <1>4, RunningIsCareful, PlainWake
<1>5. ASSUME at[t] # "wake", Careful(t), UNCHANGED <<buf_len, rp, wp>> PROVE WakeInv'
  BY <1>1, <1>5, PlainWake
<1>6. CASE Open(t) \/ Read(t) \/ Write(t) \/ Poll(t) \/ Release(t)
  BY <1>2, <1>4, <1>6 DEF Open, Read, Write, Poll, Release, Call, Goto, In, ring
<1>7. CASE scull_p_fasync(t) \/ SetSize(t)
  BY <1>2, <1>4, <1>7 DEF scull_p_fasync, SetSize, In, ring
<1>8. CASE MutexLock(t) \/ MutexInterrupted(t)
  BY <1>2, <1>4, <1>8 DEF MutexLock, MutexInterrupted, Return, Goto, ring
<1>9. CASE scull_p_open(t)
  <2>1. CASE ResetBuffer
    BY <2>1, ResetWake
  <2>2. CASE ~ResetBuffer
    BY <1>2, <1>4, <1>9, <2>2 DEF scull_p_open, Return, Goto, In, ring
  <2>3. QED
    BY <2>1, <2>2
<1>10. CASE ProperOpenWriter(t)
  <2>1. CASE ResetBuffer
    BY <2>1, ResetWake
  <2>2. CASE ~ResetBuffer
    BY <1>2, <1>4, <1>10, <2>2 DEF ProperOpenWriter, Return, Goto, In, ring
  <2>3. QED
    BY <2>1, <2>2
<1>11. CASE ProperOpenReader(t) \/ ProperOpenRetry(t)
  BY <1>2, <1>4, <1>11 DEF ProperOpenReader, ProperOpenRetry, Return, Goto, In, ring
<1>12. CASE scull_p_read(t)
  <2>1. CASE rp # wp /\ at'[t] = "wake"
    BY <1>1, <1>12, <2>1, ReadWake
  <2>2. CASE ~(rp # wp /\ at'[t] = "wake")
    BY <1>2, <1>4, <1>12, <2>2 DEF scull_p_read, ReadLoop, Return, Goto, ring
  <2>3. QED
    BY <2>1, <2>2
<1>13. CASE scull_p_write(t)
  <2>1. CASE ~Full /\ at'[t] = "wake"
    BY <1>1, <1>13, <2>1, WriteWake
  <2>2. CASE ~(~Full /\ at'[t] = "wake")
    BY <1>2, <1>4, <1>13, <2>2 DEF scull_p_write, Return, Goto, In
  <2>3. QED
    BY <2>1, <2>2
<1>14. CASE WakeWriters(t) \/ WakeReaders(t)
  BY <1>1, <1>14, WakersWake
<1>15. CASE PrepareToWait(t) \/ CheckWriters(t)
  <2>1. CASE PrepareToWait(t)
    BY <1>2, <1>4, <2>1 DEF PrepareToWait, Goto, ring
  <2>2. CASE CheckWriters(t)
    <3>1. Careful(t)
      BY <1>2, <2>2 DEF CheckWriters, In, Return, Goto, Careful, DataRisk, SpaceRisk,
         WantsData, WantsSpace
    <3>2. QED
      BY <1>5, <2>2, <3>1 DEF CheckWriters, In, ring
  <2>3. QED
    BY <1>15, <2>1, <2>2
<1>16. CASE LoadPointer(t)
  <2>1. at'[t] = "recheck" /\ op'[t] = op[t] /\ inq' = inq /\ outq' = outq
    BY <1>2, <1>16 DEF LoadPointer, Goto, queues
  <2>2. local'[t] = <<"rp", rp>> \/ local'[t] = <<"wp", wp>>
    BY <1>3, <1>16 DEF LoadPointer
  <2>3. UNCHANGED <<buf_len, rp, wp>> /\ at[t] # "wake"
    BY <1>16 DEF LoadPointer, ring
  <2>4. Careful(t)
    <3>1. DataRisk(t)' => rp = wp
      BY <2>1, <2>2, <2>3 DEF DataRisk, In
    <3>2. SpaceRisk(t)' => Full
      BY <2>1, <2>2, <2>3 DEF SpaceRisk, In, Full
    <3>3. QED
      BY <3>1, <3>2 DEF Careful
  <2>5. QED
    BY <1>5, <2>3, <2>4
<1>17. CASE CheckData(t)
  <2>1. UNCHANGED <<buf_len, rp, wp>> /\ at[t] # "wake"
    BY <1>17 DEF CheckData, In, ring
  <2>2. Careful(t)
    <3>1. CASE at'[t] = "asleep"
      <4>1. LoadedRp(t) = LoadedWp(t) /\ op'[t] = "reread" /\ inq' = inq
        BY <1>2, <1>17, <3>1 DEF CheckData, Return, Goto
      <4>2. In(t, "reread", "recheck")
        BY <1>17 DEF CheckData
      <4>3. DataRisk(t) \/ rp = wp
        BY <4>1, <4>2 DEF LoadedRp, LoadedWp, DataRisk
      <4>4. ~SpaceRisk(t)'
        BY <3>1, <4>1 DEF SpaceRisk, WantsSpace, In
      <4>5. QED
        BY <4>1, <4>3, <4>4 DEF Careful
    <3>2. CASE at'[t] # "asleep"
      BY <1>2, <1>17, <3>2, RunningIsCareful DEF CheckData, Return, Goto
    <3>3. QED
      BY <3>1, <3>2
  <2>3. QED
    BY <1>5, <2>1, <2>2
<1>18. CASE CheckSpace(t)
  <2>1. UNCHANGED <<buf_len, rp, wp>> /\ at[t] # "wake"
    BY <1>18 DEF CheckSpace, In, ring
  <2>2. Careful(t)
    <3>1. CASE spacefree(LoadedRp(t), LoadedWp(t), buf_len) = 0
      <4>1. op'[t] = "write" /\ at'[t] = "asleep" /\ outq' = outq /\ stranded' = stranded
        BY <1>2, <1>18, <3>1 DEF CheckSpace, Goto
      <4>2. In(t, "write", "recheck")
        BY <1>18 DEF CheckSpace
      <4>3. SpaceRisk(t) \/ Full
        BY <3>1, <4>2 DEF LoadedRp, LoadedWp, SpaceRisk, Full
      <4>4. ~DataRisk(t)'
        BY <4>1 DEF DataRisk, WantsData, In
      <4>5. QED
        BY <4>1, <4>3, <4>4 DEF Careful
    <3>2. CASE spacefree(LoadedRp(t), LoadedWp(t), buf_len) # 0
      BY <1>2, <1>18, <3>2, RunningIsCareful DEF CheckSpace, FinishWrite, Return, Goto
    <3>3. QED
      BY <3>1, <3>2
  <2>3. QED
    BY <1>5, <2>1, <2>2
<1>19. CASE DivideError(t) \/ Awake(t) \/ AwakeWriter(t) \/ scull_p_release(t)
  BY <1>2, <1>4, <1>19 DEF DivideError, Awake, AwakeWriter, FinishWrite, scull_p_release,
     Return, Goto, In, ring
<1>20. CASE scull_p_poll(t)
  <2>1. UNCHANGED <<buf_len, rp, wp>> /\ at[t] # "wake"
    BY <1>20 DEF scull_p_poll, In, ring
  <2>2. CASE PollMask \cap {local[t][1], "err", "hup"} # {}
    BY <1>2, <1>4, <1>20, <2>1, <2>2 DEF scull_p_poll, LeavePoll, Return, Goto
  <2>3. CASE PollMask \cap {local[t][1], "err", "hup"} = {}
    <3>1. op'[t] = "poll" /\ at'[t] = "asleep" /\ local' = local
      BY <1>2, <1>20, <2>3 DEF scull_p_poll, Goto
    <3>2. (local[t][1] = "in" => rp = wp) /\ (local[t][1] = "out" => Full)
      BY <2>3 DEF PollMask
    <3>3. Careful(t)
      BY <3>1, <3>2 DEF Careful, DataRisk, SpaceRisk, WantsData, WantsSpace, In
    <3>4. QED
      BY <1>5, <2>1, <3>3
  <2>4. QED
    BY <2>2, <2>3
<1>21. CASE AwakePoller(t)
  BY <1>2, <1>4, <1>21 DEF AwakePoller, LeavePoll, Return, Goto, In, ring
<1>22. QED
  BY <1>6, <1>7, <1>8, <1>9, <1>10, <1>11, <1>12, <1>13, <1>14, <1>15, <1>16, <1>17, <1>18, <1>19, <1>20, <1>21
  DEF Step, UserStep, KernelStep

(* A file in async_q is open and not being closed: nobody closes a file    *)
(* but through release, which first drops it.                              *)
LEMMA AsyncStep ==
  ASSUME Control, AsyncOnlyOpen, NEW t \in Procs, Step(t) PROVE AsyncOnlyOpen'
<1>1. \A u \in Procs \ {t} : op'[u] = op[u] /\ file'[u] = file[u]
  BY Others
<1>2. op \in [Procs -> Ops] /\ file \in [Procs -> FileFlags \cup {NoFile}]
  BY DEF Control
<1>3. ASSUME async_q' \subseteq async_q,
             t \in async_q' /\ HasOpen(t) /\ op[t] # "release"
               => HasOpen(t)' /\ op'[t] # "release"
      PROVE  AsyncOnlyOpen'
  BY <1>1, <1>3 DEF AsyncOnlyOpen, HasOpen
<1>4. CASE Open(t) \/ Read(t) \/ Write(t) \/ Poll(t) \/ Release(t)
  BY <1>2, <1>3, <1>4 DEF Open, Read, Write, Poll, Release, Call, Goto, In, HasOpen
<1>5. CASE scull_p_fasync(t)
  BY <1>1, <1>2, <1>5 DEF scull_p_fasync, In, HasOpen, AsyncOnlyOpen
<1>6. CASE SetSize(t) \/ MutexLock(t) \/ MutexInterrupted(t)
  BY <1>2, <1>3, <1>6 DEF SetSize, MutexLock, MutexInterrupted, Return, Goto, Close,
     HasOpen
<1>7. CASE scull_p_open(t) \/ ProperOpenReader(t) \/ ProperOpenRetry(t) \/ ProperOpenWriter(t)
  BY <1>2, <1>3, <1>7 DEF scull_p_open, ProperOpenReader, ProperOpenRetry,
     ProperOpenWriter, In, HasOpen
<1>8. CASE scull_p_read(t) \/ WakeWriters(t) \/ scull_p_write(t) \/ WakeReaders(t)
  BY <1>2, <1>3, <1>8 DEF scull_p_read, ReadLoop, WakeWriters, scull_p_write,
     WakeReaders, Return, Goto, In, HasOpen
<1>9. CASE PrepareToWait(t) \/ CheckWriters(t) \/ LoadPointer(t) \/ CheckData(t)
  BY <1>2, <1>3, <1>9 DEF PrepareToWait, CheckWriters, LoadPointer, CheckData, Return,
     Goto, In, HasOpen
<1>10. CASE DivideError(t) \/ CheckSpace(t) \/ Awake(t) \/ AwakeWriter(t)
  BY <1>2, <1>3, <1>10 DEF DivideError, CheckSpace, Awake, AwakeWriter, FinishWrite,
     Return, Goto, In, HasOpen
<1>11. CASE scull_p_poll(t) \/ AwakePoller(t) \/ scull_p_release(t)
  BY <1>2, <1>3, <1>11 DEF scull_p_poll, AwakePoller, LeavePoll, scull_p_release,
     Return, Goto, In, HasOpen
<1>12. QED
  BY <1>4, <1>5, <1>6, <1>7, <1>8, <1>9, <1>10, <1>11 DEF Step, UserStep, KernelStep

(* No wake-up of inq or outq is lost, with the ring sound and async_queue  *)
(* free of closed files.                                                   *)
SleepInv == RingInv /\ WakeInv /\ AsyncOnlyOpen

(* The steps of every handler keep to SleepInv.                            *)
LEMMA SleepSafe == Spec => []SleepInv
<1>1. Init => SleepInv
  <2>1. Init => WakeInv /\ AsyncOnlyOpen
    BY DEF Init, WakeInv, DataInv, SpaceInv, AsyncOnlyOpen
  <2>2. QED
    BY <2>1, RingInvInit DEF SleepInv
<1>2. SleepInv /\ [Next]_vars => SleepInv'
  <2> SUFFICES ASSUME RingInv, WakeInv, AsyncOnlyOpen, [Next]_vars
               PROVE  RingInv' /\ WakeInv' /\ AsyncOnlyOpen'
    BY DEF SleepInv
  <2>1. RingInv'
    BY RingInvStep
  <2>2. Control /\ Ring /\ Counting
    BY Groups
  <2>3. Counting'
    BY <2>1, Groups, PTL
  <2>4. ASSUME NEW t \in Procs, Step(t) PROVE WakeInv' /\ AsyncOnlyOpen'
    BY <2>2, <2>3, <2>4, WakeStep, AsyncStep
  <2>5. CASE UNCHANGED vars
    BY <2>1, <2>5 DEF vars, ring, queues, WakeInv, DataInv, SpaceInv, Announcing, Freeing, Full,
       DataRisk, SpaceRisk, WantsData, WantsSpace, In, AsyncOnlyOpen, HasOpen
  <2>6. QED
    BY <2>1, <2>4, <2>5 DEF Next, Step
<1>3. QED
  BY <1>1, <1>2, PTL DEF Spec

(* For any processes, signals, faults and sizes: whoever sleeps in         *)
(* scull_p_read or scull_p_poll for data that is there has a process on    *)
(* its way to wake inq.                                                    *)
THEOREM DataWakeCorrect == Spec => []NoLostData
<1>1. SleepInv => NoLostData
  BY DEF SleepInv, WakeInv, DataInv, Announcing, DataRisk, NoLostData, Sleeping, WantsData
<1>2. QED
  BY <1>1, SleepSafe, PTL

(* Whoever sleeps in scull_getwritespace or scull_p_poll for space that is *)
(* there, and that was not made by an open, has a process on its way to    *)
(* wake outq.                                                              *)
THEOREM SpaceWakeCorrect == Spec => []NoLostSpace
<1>1. SleepInv => NoLostSpace
  BY DEF SleepInv, WakeInv, SpaceInv, Freeing, SpaceRisk, NoLostSpace, Sleeping, WantsSpace
<1>2. QED
  BY <1>1, SleepSafe, PTL

(* scull_p_release takes its file off async_queue, so no closed file is    *)
(* left there for kill_fasync to signal.                                   *)
THEOREM AsyncCorrect == Spec => []AsyncOnlyOpen
<1>1. SleepInv => AsyncOnlyOpen
  BY DEF SleepInv
<1>2. QED
  BY <1>1, SleepSafe, PTL

-----------------------------------------------------------------------------
(* A step puts only its own process on openq, and that one falls asleep    *)
(* in its open only where it has checked dev->writers.                     *)
LEMMA OpenqStep ==
  ASSUME Control, NEW t \in Procs, Step(t)
  PROVE  openq' \subseteq openq \cup {t} /\ (In(t, "reopen", "asleep")' => CheckWriters(t))
<1>1. op \in [Procs -> Ops] /\ at \in [Procs -> Stages]
  BY DEF Control
<1> USE DEF In, Goto, queues
<1>2. CASE Open(t) \/ Read(t) \/ Write(t) \/ Poll(t) \/ Release(t)
  BY <1>1, <1>2 DEF Open, Read, Write, Poll, Release, Call
<1>3. CASE scull_p_fasync(t) \/ SetSize(t)
  BY <1>1, <1>3 DEF scull_p_fasync, SetSize, In
<1>4. CASE MutexLock(t) \/ MutexInterrupted(t)
  BY <1>1, <1>4 DEF MutexLock, MutexInterrupted, Return
<1>5. CASE scull_p_open(t) \/ ProperOpenReader(t)
  BY <1>1, <1>5 DEF scull_p_open, ProperOpenReader, ResetBuffer, Return
<1>6. CASE ProperOpenRetry(t) \/ ProperOpenWriter(t)
  BY <1>1, <1>6 DEF ProperOpenRetry, ProperOpenWriter, ResetBuffer, Return
<1>7. CASE scull_p_read(t) \/ WakeWriters(t) \/ scull_p_write(t) \/ WakeReaders(t)
  BY <1>1, <1>7 DEF scull_p_read, ReadLoop, WakeWriters,
     scull_p_write, WakeReaders, Return
<1>8. CASE PrepareToWait(t) \/ CheckWriters(t) \/ LoadPointer(t) \/ CheckData(t)
  BY <1>1, <1>8 DEF PrepareToWait, Enqueue, CheckWriters,
     LoadPointer, CheckData, Return
<1>9. CASE DivideError(t) \/ CheckSpace(t) \/ Awake(t) \/ AwakeWriter(t)
  BY <1>1, <1>9 DEF DivideError, CheckSpace, Awake,
     AwakeWriter, FinishWrite, Return
<1>10. CASE scull_p_poll(t) \/ AwakePoller(t) \/ scull_p_release(t)
  BY <1>1, <1>10 DEF scull_p_poll, AwakePoller,
     LeavePoll, scull_p_release, Return
<1>11. QED
  BY <1>2, <1>3, <1>4, <1>5, <1>6, <1>7, <1>8, <1>9, <1>10
  DEF Step, UserStep, KernelStep

(* A step that gives somebody a file open for writing takes everybody off  *)
(* openq: the reader that sleeps there is counted in dev->readers.         *)
LEMMA NewWriterWakes ==
  ASSUME NoProperRdwr, BufferInv, NEW t \in Procs, Step(t),
         HasOpen(t)', CanWrite(t)', ~(HasOpen(t) /\ CanWrite(t)),
         NEW u \in Procs, In(u, "reopen", "asleep")
  PROVE  openq' = {}
<1>1. Control /\ FileInv(t) /\ FileInv(u)
  BY Groups DEF BufferInv
<1>2. Proper
  BY <1>1 DEF FileInv, In
<1>3. file[t] # NoFile => ~(CanRead(t) /\ CanWrite(t))
  BY <1>1, <1>2, PipeAssumption DEF FileInv, NoProperRdwr, CanRead, CanWrite, FileFlags
<1>4. Loud(t)
  <2>1. CASE Quiet(t)
    BY <1>1, <1>3, <2>1 DEF Quiet, FileInv, HasOpen, CanWrite
  <2>2. QED
    BY <1>1, <2>1, QuietSteps
<1>5. ~scull_p_release(t) /\ ~scull_p_open(t)
  BY <1>1, <1>2 DEF scull_p_release, Uncount, scull_p_open, Close, HasOpen, Control
<1>6. ~ProperOpenReader(t)
  BY <1>1, <1>3 DEF ProperOpenReader, In, FileInv, Close, HasOpen, CanWrite, Control
<1>7. ProperOpenWriter(t) /\ file'[t] # NoFile
  BY <1>4, <1>5, <1>6 DEF Loud, HasOpen
<1>8. openq' = IF readers # 0 THEN {} ELSE openq
  BY <1>1, <1>7 DEF ProperOpenWriter, Close, Control
<1>9. readers # 0
  <2>1. u \in Readers
    BY <1>1 DEF FileInv, In, Readers, Reading
  <2>2. Readers \in SUBSET Procs /\ readers >= Cardinality(Readers)
    BY DEF Readers, BufferInv, Cover
  <2>3. Cardinality(Readers) \in Nat /\ ~(Cardinality(Readers) <= 0)
    BY <2>1, <2>2, CardZero, CardSubset
  <2>4. QED
    BY <2>2, <2>3
<1>10. QED
  BY <1>8, <1>9

(* While dev->writers is 0, no file is open for writing.                   *)
LEMMA NoWriters ==
  ASSUME BufferInv, writers = 0, NEW u \in Procs PROVE ~(HasOpen(u) /\ CanWrite(u))
<1>1. Writers \in SUBSET Procs /\ Cardinality(Writers) <= 0
  BY DEF Writers, BufferInv, Cover
<1>2. Writers = {}
  BY <1>1, CardZero
<1>3. QED
  BY <1>2 DEF Writers, Writing, HasOpen

(* On any pipe without O_RDWR opens of its proper variant, no reader       *)
(* sleeps in its open while somebody has the pipe open for writing.        *)
THEOREM OpenWakeCorrect == ASSUME NoProperRdwr PROVE Spec => []NoLostOpen
<1>1. Init => NoLostOpen
  BY DEF Init, NoLostOpen, HasOpen
<1>2. BufferInv /\ NoLostOpen /\ [Next]_vars => NoLostOpen'
  <2> SUFFICES ASSUME BufferInv, NoLostOpen, [Next]_vars PROVE NoLostOpen'
    OBVIOUS
  <2>1. CASE UNCHANGED vars
    BY <2>1 DEF vars, queues, NoLostOpen, Sleeping, HasOpen, CanWrite
  <2>2. ASSUME NEW t \in Procs, Step(t), NEW u \in Procs, Sleeping(u)', op'[u] = "reopen",
               NEW w \in Procs, HasOpen(w)', CanWrite(w)'
        PROVE  FALSE
    <3>1. Control /\ In(u, "reopen", "asleep")' /\ u \in openq'
      BY <2>2, Groups DEF BufferInv, Sleeping, In
    <3>2. \A v \in Procs \ {t} : op'[v] = op[v] /\ at'[v] = at[v] /\ file'[v] = file[v]
      BY <2>2, <3>1, Others
    <3>3. openq' \subseteq openq \cup {t} /\ (In(t, "reopen", "asleep")' => CheckWriters(t))
      BY <2>2, <3>1, OpenqStep
    <3>4. CASE u = t
      <4>1. writers = 0 /\ file' = file /\ op[t] = "reopen"
        BY <3>1, <3>3, <3>4 DEF CheckWriters, In, Return, Goto, Control
      <4>2. HasOpen(w) /\ CanWrite(w)
        BY <2>2, <3>2, <3>4, <4>1 DEF HasOpen, CanWrite
      <4>3. QED
        BY <4>1, <4>2, NoWriters
    <3>5. CASE u # t
      <4>1. In(u, "reopen", "asleep") /\ u \in openq
        BY <3>1, <3>2, <3>3, <3>5 DEF In
      <4>2. ~(HasOpen(w) /\ CanWrite(w))
        BY <4>1 DEF NoLostOpen, Sleeping, In
      <4>3. w = t
        BY <2>2, <3>2, <4>2 DEF HasOpen, CanWrite
      <4>4. openq' = {}
        BY <2>2, <4>1, <4>2, <4>3, NewWriterWakes
      <4>5. QED
        BY <3>1, <4>4
    <3>6. QED
      BY <3>4, <3>5
  <2>3. QED
    BY <2>1, <2>2 DEF Next, Step, NoLostOpen
<1>3. BufferInv /\ [Next]_vars => BufferInv'
  BY BufferInvStep
<1>4. QED
  BY <1>1, <1>2, <1>3, BufferInvInit, PTL DEF Spec
=============================================================================
