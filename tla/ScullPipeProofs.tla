--------------------------- MODULE ScullPipeProofs ---------------------------
(***************************************************************************)
(* Theorems about ScullPipe.                                               *)
(***************************************************************************)
EXTENDS ScullPipe, TLAPS

USE SizeModAssumption

-----------------------------------------------------------------------------
(* The ring arithmetic.                                                    *)

(* A read of a non-empty ring stays below the end of the buffer.           *)
LEMMA ReadStaysInRing ==
  ASSUME NEW n \in 0..MaxLen, NEW r \in RingPointers(n), NEW w \in RingPointers(n),
         r # w, NEW count \in Counts
  PROVE  /\ ReadCount(r, w, n, count) \in Nat
         /\ r + ReadCount(r, w, n, count) <= n
         /\ Advance(r, ReadCount(r, w, n, count), n) \in RingPointers(n)
  BY PipeAssumption DEF RingPointers, ReadCount, min_t, Advance

(* The second component of a pair, such as the pointer a check has loaded. *)
LEMMA PairSecond == \A a, b : <<a, b>>[2] = b
  OBVIOUS

(* % changes nothing below its modulus.                                    *)
LEMMA ModSmall == ASSUME NEW N \in Nat \ {0}, NEW x \in 0..(N - 1) PROVE x % N = x
  OBVIOUS

(* The bounds on lengths and counts, in the form the arithmetic needs.     *)
LEMMA Bounds ==
  /\ MaxLen \in Nat /\ MaxLen + MaxLen < SizeMod
  /\ CountMax \in Nat /\ CountMax + CountMax < SizeMod
  BY PipeAssumption

(* size_t subtraction stays a size_t.                                      *)
LEMMA DecType == ASSUME NEW x \in Int PROVE Dec(x) \in 0..(SizeMod - 1)
  BY DEF Dec

(* size_t addition stays a size_t.                                         *)
LEMMA IncType == ASSUME NEW x \in Int PROVE Inc(x) \in 0..(SizeMod - 1)
  BY DEF Inc

(* spacefree() of pointers in the ring is a size_t.                        *)
LEMMA SpacefreeType ==
  ASSUME NEW n \in 0..MaxLen, NEW r \in RingPointers(n), NEW w \in RingPointers(n)
  PROVE  spacefree(r, w, n) \in 0..(SizeMod - 1)
<1>1. CASE r = w
  BY <1>1, DecType, PipeAssumption DEF spacefree
<1>2. CASE r # w
  <2>1. n \in Nat \ {0}
    BY <1>2, PipeAssumption DEF RingPointers
  <2>2. (r + n - w) % SizeMod \in Nat
    BY <2>1 DEF RingPointers
  <2>3. ((r + n - w) % SizeMod) % n \in Int
    BY <2>1, <2>2
  <2>4. QED
    BY <1>2, <2>3, DecType DEF spacefree
<1>3. QED
  BY <1>1, <1>2

(* So does a write: the count is cut at the end of the buffer or below rp. *)
LEMMA WriteStaysInRing ==
  ASSUME NEW n \in 0..MaxLen, NEW r \in RingPointers(n), NEW w \in RingPointers(n),
         NEW count \in Counts
  PROVE  /\ WriteCount(r, w, n, count) \in Nat
         /\ w + WriteCount(r, w, n, count) <= n
         /\ Advance(w, WriteCount(r, w, n, count), n) \in RingPointers(n)
<1>1. spacefree(r, w, n) \in Nat
  BY SpacefreeType
<1>2. QED
  BY <1>1, PipeAssumption DEF RingPointers, WriteCount, min_t, Advance

-----------------------------------------------------------------------------
(* TypeOK, MutexInv and RingOK are inductive together.  They are treated   *)
(* in three groups of variables that each action disturbs separately.      *)

Control ==
  /\ op \in [Procs -> Ops]
  /\ at \in [Procs -> Stages]
  /\ file \in [Procs -> FileFlags \cup {NoFile}]
  /\ lock \in Procs \cup {NoProc}
  /\ MutexInv

Ring ==
  /\ local \in [Procs -> {"none", "rp", "wp", "in", "out"} \X (0..MaxLen)]
  /\ got \in [Procs -> Seq(Data)]
  /\ buf \in {Null} \cup (0..MaxLen)
  /\ buf_len \in 0..MaxLen
  /\ rp \in 0..MaxLen /\ wp \in 0..MaxLen
  /\ mem \in [0..(MaxLen - 1) -> Data]
  /\ scull_p_len \in 0..MaxLen
  /\ RingOK

Counting ==
  /\ readers \in 0..(SizeMod - 1) /\ writers \in 0..(SizeMod - 1)
  /\ {inq, outq, openq, async_q, stranded} \subseteq SUBSET Procs

RingInv == TypeOK /\ MutexInv /\ RingOK

Step(t) == UserStep(t) \/ MutexLock(t) \/ MutexInterrupted(t) \/ KernelStep(t)

(* The invariant is the conjunction of its three groups.                   *)
LEMMA Groups == RingInv <=> Control /\ Ring /\ Counting
  BY DEF RingInv, TypeOK, Control, Ring, Counting

(* Every step of pipe.c keeps program counters, files and the mutex right. *)
LEMMA ControlStep ==
  ASSUME Control, NEW t \in Procs, Step(t) PROVE Control'
<1> NoProc \notin Procs
  BY PipeAssumption
<1> USE DEF Control, MutexInv, Ops, Stages
<1>1. CASE Open(t)
  BY PipeAssumption, <1>1 DEF Open, Goto, In
<1>2. CASE Read(t)
  BY <1>2 DEF Read, Call, Goto, In
<1>3. CASE Write(t)
  BY <1>3 DEF Write, Call, Goto, In
<1>4. CASE Poll(t)
  BY <1>4 DEF Poll, Call, Goto, In
<1>5. CASE Release(t)
  BY <1>5 DEF Release, Call, Goto, In
<1>6. CASE scull_p_fasync(t)
  BY <1>6 DEF scull_p_fasync
<1>7. CASE SetSize(t)
  BY <1>7 DEF SetSize
<1>8. CASE MutexLock(t)
  BY <1>8 DEF MutexLock, Goto
<1>9. CASE MutexInterrupted(t)
  BY <1>9 DEF MutexInterrupted, Return, Goto, Close
<1>10. CASE scull_p_open(t)
  BY <1>10 DEF scull_p_open, In, Unlock, Return, Goto, Close
<1>11. CASE ProperOpenReader(t)
  BY <1>11 DEF ProperOpenReader, In, Unlock, Return, Goto, Close
<1>12. CASE ProperOpenRetry(t)
  BY <1>12 DEF ProperOpenRetry, In, Unlock, Return, Goto
<1>13. CASE ProperOpenWriter(t)
  BY <1>13 DEF ProperOpenWriter, In, Unlock, Return, Goto, Close
<1>14. CASE scull_p_read(t)
  BY <1>14 DEF scull_p_read, Unlock, ReadLoop, Return, Goto
<1>15. CASE WakeWriters(t)
  BY <1>15 DEF WakeWriters, Return, Goto
<1>16. CASE scull_p_write(t)
  BY <1>16 DEF scull_p_write, In, Unlock, Return, Goto
<1>17. CASE WakeReaders(t)
  BY <1>17 DEF WakeReaders, Return, Goto, In
<1>18. CASE PrepareToWait(t)
  BY <1>18 DEF PrepareToWait, Enqueue, Goto
<1>19. CASE CheckWriters(t)
  BY <1>19 DEF CheckWriters, In, Return, Goto, Close
<1>20. CASE LoadPointer(t)
  BY <1>20 DEF LoadPointer, Goto
<1>21. CASE CheckData(t)
  BY <1>21 DEF CheckData, In, Return, Goto
<1>22. CASE DivideError(t)
  BY <1>22 DEF DivideError, In, Goto
<1>23. CASE CheckSpace(t)
  BY <1>23 DEF CheckSpace, In, FinishWrite, Return, Goto
<1>24. CASE Awake(t)
  BY <1>24 DEF Awake, Goto
<1>25. CASE AwakeWriter(t)
  BY <1>25 DEF AwakeWriter, In, FinishWrite, Return, Goto
<1>26. CASE scull_p_poll(t)
  BY <1>26 DEF scull_p_poll, In, Unlock, LeavePoll, Return, Goto
<1>27. CASE AwakePoller(t)
  BY <1>27 DEF AwakePoller, In, LeavePoll, Return, Goto
<1>28. CASE scull_p_release(t)
  BY <1>28 DEF scull_p_release, Uncount, In, Unlock, Return, Goto, Close
<1>29. QED
  BY <1>1, <1>2, <1>3, <1>4, <1>5, <1>6, <1>7, <1>8, <1>9, <1>10, <1>11, <1>12, <1>13, <1>14, <1>15, <1>16, <1>17, <1>18, <1>19, <1>20, <1>21, <1>22, <1>23, <1>24, <1>25, <1>26, <1>27, <1>28
  DEF Step, UserStep, KernelStep

(* Forgetting what a wait condition has loaded keeps the ring in shape.    *)
LEMMA LocalKeepsRing ==
  ASSUME Ring, NEW t \in Procs, UNCHANGED <<ring, got, scull_p_len>>,
         local' = local \/ local' = [local EXCEPT ![t] = NoLocal]
  PROVE  Ring'
<1>1. NoLocal \in {"none", "rp", "wp", "in", "out"} \X (0..MaxLen)
  BY PipeAssumption DEF NoLocal
<1>2. local' \in [Procs -> {"none", "rp", "wp", "in", "out"} \X (0..MaxLen)]
  BY <1>1 DEF Ring
<1>3. QED
  BY <1>2 DEF Ring, RingOK, ring

(* An open that resets the ring, or leaves it, keeps it in shape.          *)
LEMMA ResetKeepsRing ==
  ASSUME Ring, UNCHANGED ring \/ ResetBuffer, UNCHANGED <<local, got, scull_p_len>>
  PROVE  Ring'
<1>1. CASE UNCHANGED ring
  BY <1>1 DEF Ring, RingOK, ring
<1>2. CASE ResetBuffer
  <2>1. buf_len' \in 0..MaxLen /\ rp' = 0 /\ wp' = 0 /\ mem' = mem
    BY <1>2 DEF ResetBuffer, Ring
  <2>2. buf' \in {Null} \cup 0..MaxLen
    BY <1>2 DEF ResetBuffer, Ring
  <2>3. MaxLen \in Nat /\ RingOK'
    BY <2>1, PipeAssumption DEF RingOK, RingPointers
  <2>4. QED
    BY <2>1, <2>2, <2>3 DEF Ring
<1>3. QED
  BY <1>1, <1>2

(* Most actions leave the ring, local and got alone or only clear local.   *)
LEMMA RingStep ==
  ASSUME Ring, Control, NEW t \in Procs, Step(t) PROVE Ring'
<1> MaxLen \in Nat /\ Null = -1
  BY PipeAssumption DEF Null
<1>1. CASE UNCHANGED <<ring, local, got, scull_p_len>>
  BY <1>1 DEF Ring, RingOK, ring
<1>2. CASE Poll(t)
  BY SMTT(30), <1>2 DEF Poll, Call, Ring, RingOK, ring
<1>3. CASE LoadPointer(t)
  BY <1>3 DEF LoadPointer, Ring, RingOK, ring
<1>4. CASE CheckData(t)
  <2>1. local' = local \/ local' = [local EXCEPT ![t] = NoLocal]
    BY <1>4 DEF CheckData
  <2>2. UNCHANGED <<ring, got, scull_p_len>>
    BY <1>4 DEF CheckData
  <2>3. QED
    BY <2>1, <2>2, LocalKeepsRing
<1>5. CASE CheckSpace(t)
  <2>1. UNCHANGED <<ring, got, scull_p_len>> /\ local' = [local EXCEPT ![t] = NoLocal]
    BY <1>5 DEF CheckSpace
  <2>2. QED
    BY <2>1, LocalKeepsRing
<1>6. CASE scull_p_poll(t)
  <2>1. local' = local \/ local' = [local EXCEPT ![t] = NoLocal]
    BY <1>6 DEF scull_p_poll, LeavePoll
  <2>2. UNCHANGED <<ring, got, scull_p_len>>
    BY <1>6 DEF scull_p_poll
  <2>3. QED
    BY <2>1, <2>2, LocalKeepsRing
<1>7. CASE AwakePoller(t)
  <2>1. local' = local \/ local' = [local EXCEPT ![t] = NoLocal]
    BY <1>7 DEF AwakePoller, LeavePoll
  <2>2. UNCHANGED <<ring, got, scull_p_len>>
    BY <1>7 DEF AwakePoller
  <2>3. QED
    BY <2>1, <2>2, LocalKeepsRing
<1>8. CASE SetSize(t)
  BY <1>8, PipeAssumption DEF SetSize, Ring, RingOK, ring
<1>9. CASE scull_p_open(t)
  <2>1. UNCHANGED ring \/ ResetBuffer
    BY <1>9 DEF scull_p_open
  <2>2. UNCHANGED <<local, got, scull_p_len>>
    BY <1>9 DEF scull_p_open
  <2>3. QED
    BY <2>1, <2>2, ResetKeepsRing
<1>10. CASE ProperOpenWriter(t)
  <2>1. UNCHANGED ring \/ ResetBuffer
    BY <1>10 DEF ProperOpenWriter
  <2>2. UNCHANGED <<local, got, scull_p_len>>
    BY <1>10 DEF ProperOpenWriter
  <2>3. QED
    BY <2>1, <2>2, ResetKeepsRing
<1>11. CASE WakeWriters(t)
  BY <1>11 DEF WakeWriters, Ring, RingOK, ring
<1>12. CASE scull_p_release(t)
  BY <1>12 DEF scull_p_release, Uncount, Ring, RingOK
<1>13. CASE scull_p_read(t)
  <2>1. CASE UNCHANGED <<got, ring>>
    BY <1>13, <2>1 DEF scull_p_read, Ring, RingOK, ring
  <2>2. CASE ~UNCHANGED <<got, ring>>
    <3> DEFINE k(count) == ReadCount(rp, wp, buf_len, count)
    <3>1. PICK count \in Counts :
            /\ rp # wp
            /\ got' = [got EXCEPT ![t] = [i \in 1..k(count) |-> mem[rp + i - 1]]]
            /\ rp' = Advance(rp, k(count), buf_len)
            /\ UNCHANGED <<buf, buf_len, wp, mem>>
      BY <1>13, <2>2 DEF scull_p_read, ReadLoop
    <3>2. /\ k(count) \in Nat
          /\ rp + k(count) <= buf_len
          /\ rp' \in RingPointers(buf_len)
      BY <3>1, ReadStaysInRing DEF Ring, RingOK
    <3>3. \A i \in 1..k(count) : mem[rp + i - 1] \in Data
      <4> HIDE DEF k
      <4>1. \A i \in 1..k(count) : rp + i - 1 \in 0..(MaxLen - 1)
        <5>1. rp \in Nat /\ rp + k(count) <= MaxLen
          BY <3>2 DEF Ring
        <5>2. QED
          BY <3>2, <5>1
      <4>2. \A i \in 0..(MaxLen - 1) : mem[i] \in Data
        BY DEF Ring
      <4>3. QED
        BY <4>1, <4>2
    <3>4. [i \in 1..k(count) |-> mem[rp + i - 1]] \in Seq(Data)
      BY <3>2, <3>3
    <3>5. got' \in [Procs -> Seq(Data)]
      BY <3>1, <3>4 DEF Ring
    <3>6. UNCHANGED <<local, scull_p_len>>
      BY <1>13 DEF scull_p_read
    <3>7. rp' \in 0..MaxLen
      BY <3>2 DEF Ring, RingPointers
    <3>8. QED
      BY <3>1, <3>2, <3>5, <3>6, <3>7 DEF Ring, RingOK
  <2>3. QED
    BY <2>1, <2>2
<1>14. CASE scull_p_write(t)
  <2>1. UNCHANGED <<local, got, buf, buf_len, rp, scull_p_len>>
    BY <1>14 DEF scull_p_write
  <2>2. CASE UNCHANGED <<wp, mem>>
    BY <2>1, <2>2 DEF Ring, RingOK
  <2>3. CASE ~UNCHANGED <<wp, mem>>
    <3> DEFINE k(count) == WriteCount(rp, wp, buf_len, count)
    <3>1. PICK count \in Counts :
            \E s \in [1..k(count) -> Data] :
              /\ StoreAt(wp, k(count), s)
              /\ wp' = Advance(wp, k(count), buf_len) \/ UNCHANGED wp
      BY <1>14, <2>3 DEF scull_p_write
    <3> PICK s \in [1..k(count) -> Data] :
            /\ StoreAt(wp, k(count), s)
            /\ wp' = Advance(wp, k(count), buf_len) \/ UNCHANGED wp
      BY <3>1
    <3>2. /\ k(count) \in Nat
          /\ wp + k(count) <= buf_len
          /\ wp' \in RingPointers(buf_len)
      <4>1. buf_len \in 0..MaxLen /\ rp \in RingPointers(buf_len)
            /\ wp \in RingPointers(buf_len)
        BY DEF Ring, RingOK
      <4>2. QED
        BY <4>1, WriteStaysInRing
    <3>3. mem' \in [0..(MaxLen - 1) -> Data]
      <4>1. \A i \in 0..(MaxLen - 1) :
              i \in wp..(wp + k(count) - 1) => s[i - wp + 1] \in Data
        <5>1. \A i \in Int : i \in wp..(wp + k(count) - 1)
                              => i - wp + 1 \in 1..k(count)
          BY SMTT(30), <3>2 DEF Ring
        <5>2. QED
          BY <5>1
      <4>2. /\ DOMAIN mem = 0..(MaxLen - 1)
            /\ \A i \in 0..(MaxLen - 1) : mem[i] \in Data
        BY DEF Ring
      <4>3. QED
        BY <4>1, <4>2 DEF StoreAt
    <3>4. QED
      <4>1. wp' \in 0..MaxLen
        BY <3>2 DEF Ring, RingPointers
      <4>2. RingOK'
        BY <2>1, <3>2 DEF Ring, RingOK
      <4>3. QED
        BY <2>1, <3>3, <4>1, <4>2 DEF Ring
  <2>4. QED
    BY <2>2, <2>3
<1>15. QED
  BY <1>1, <1>2, <1>3, <1>4, <1>5, <1>6, <1>7, <1>8, <1>9, <1>10, <1>11, <1>12, <1>13, <1>14
  DEF Step, UserStep, KernelStep, Open, Read, Write, Release, scull_p_fasync, MutexLock, MutexInterrupted, ProperOpenReader, ProperOpenRetry, WakeReaders, PrepareToWait, Enqueue, CheckWriters, DivideError, Awake, AwakeWriter, Call

(* Every step keeps counts, wait queues and async_q in their types.        *)
LEMMA CountingStep ==
  ASSUME Counting, NEW t \in Procs, Step(t) PROVE Counting'
<1>1. CASE UNCHANGED <<counts, queues, async_q>>
  BY <1>1 DEF Counting, counts, queues
<1>2. CASE Release(t)
  BY <1>2 DEF Release, Call, Counting, counts, queues
<1>3. CASE scull_p_fasync(t)
  BY <1>3 DEF scull_p_fasync, Counting, counts, queues
<1>4. CASE scull_p_open(t)
  BY IncType, <1>4 DEF scull_p_open, ResetBuffer, Counting, counts, queues
<1>5. CASE ProperOpenReader(t)
  <2>1. UNCHANGED <<queues, async_q, writers>>
        /\ (readers' = readers \/ readers' = Inc(readers))
    BY <1>5 DEF ProperOpenReader
  <2>2. QED
    BY <2>1, IncType DEF Counting, queues
<1>6. CASE ProperOpenWriter(t)
  BY IncType, <1>6 DEF ProperOpenWriter, ResetBuffer, Counting, counts, queues
<1>7. CASE WakeWriters(t)
  BY <1>7 DEF WakeWriters, Counting, counts, queues
<1>8. CASE WakeReaders(t)
  BY <1>8 DEF WakeReaders, Counting, counts, queues
<1>9. CASE PrepareToWait(t)
  BY <1>9 DEF PrepareToWait, Enqueue, Counting, counts, queues
<1>10. CASE CheckWriters(t)
  BY <1>10 DEF CheckWriters, Counting, counts, queues
<1>11. CASE CheckData(t)
  BY <1>11 DEF CheckData, Counting, counts, queues
<1>12. CASE CheckSpace(t)
  BY <1>12 DEF CheckSpace, FinishWrite, Counting, counts, queues
<1>13. CASE AwakeWriter(t)
  BY <1>13 DEF AwakeWriter, FinishWrite, Counting, counts, queues
<1>14. CASE scull_p_poll(t)
  BY <1>14 DEF scull_p_poll, LeavePoll, Counting, counts, queues
<1>15. CASE AwakePoller(t)
  BY <1>15 DEF AwakePoller, LeavePoll, Counting, counts, queues
<1>16. CASE scull_p_release(t)
  <2>1. UNCHANGED <<queues, async_q>> /\ Uncount(t)
    BY <1>16 DEF scull_p_release
  <2>2. readers' \in 0..(SizeMod - 1) /\ writers' \in 0..(SizeMod - 1)
    BY <2>1, DecType DEF Uncount, Counting
  <2>3. QED
    BY <2>1, <2>2 DEF Counting, queues
<1>17. QED
  BY <1>1, <1>2, <1>3, <1>4, <1>5, <1>6, <1>7, <1>8, <1>9, <1>10, <1>11, <1>12, <1>13, <1>14, <1>15, <1>16
  DEF Step, UserStep, KernelStep, Open, Read, Write, Poll, SetSize, MutexLock, MutexInterrupted, ProperOpenRetry, scull_p_read, scull_p_write, LoadPointer, DivideError, Awake, Call

(* A pipe as scull_p_init leaves it satisfies the invariant.               *)
LEMMA RingInvInit == Init => RingInv
<1> SUFFICES ASSUME Init PROVE RingInv
  OBVIOUS
<1>1. Control
  BY PipeAssumption DEF Init, Control, MutexInv, Ops, Stages
<1>2. Ring
  <2>1. NoLocal \in {"none", "rp", "wp", "in", "out"} \X (0..MaxLen)
    BY PipeAssumption DEF NoLocal
  <2>2. QED
    BY <2>1, PipeAssumption DEF Init, Ring, RingOK, RingPointers
<1>3. Counting
  BY DEF Init, Counting
<1>4. QED
  BY <1>1, <1>2, <1>3, Groups

(* Every step of every process keeps the invariant.                        *)
LEMMA RingInvStep == RingInv /\ [Next]_vars => RingInv'
<1> SUFFICES ASSUME RingInv, [Next]_vars PROVE RingInv'
  OBVIOUS
<1>1. CASE UNCHANGED vars
  BY <1>1 DEF vars, ring, counts, queues, RingInv, TypeOK, MutexInv, RingOK
<1>2. ASSUME NEW t \in Procs, Step(t) PROVE RingInv'
  <2>1. Control /\ Ring /\ Counting
    BY Groups
  <2>2. Control' /\ Ring' /\ Counting'
    BY <1>2, <2>1, ControlStep, RingStep, CountingStep
  <2>3. QED
    BY <2>2, Groups, PTL
<1>3. QED
  BY <1>1, <1>2 DEF Next, Step

(* All processes keep to RingInv.                                          *)
LEMMA RingSafe == Spec => []RingInv
<1>1. QED
  BY RingInvInit, RingInvStep, PTL DEF Spec

(* The handlers of pipe.c hold dev->lock exactly in their critical         *)
(* sections and never leave their types, whatever the number of processes. *)
THEOREM MutexCorrect == Spec => [](TypeOK /\ MutexInv)
<1>1. RingInv => TypeOK /\ MutexInv
  BY DEF RingInv
<1>2. QED
  BY <1>1, RingSafe, PTL

(* The handlers of pipe.c keep rp and wp inside the ring, whatever the     *)
(* buffer length and its changes.                                          *)
THEOREM RingCorrect == Spec => []RingOK
<1>1. RingInv => RingOK
  BY DEF RingInv
<1>2. QED
  BY <1>1, RingSafe, PTL

-----------------------------------------------------------------------------
(* The division in spacefree() without the lock.                           *)

NoDivideError == \A t \in Procs : at[t] # "oops"

(* While the ring has no length, as before the first open, both pointers   *)
(* are 0, and so is every pointer loaded from it.                          *)
ZeroInv ==
  /\ scull_p_len # 0
  /\ buf_len = 0 => \A t \in Procs : local[t][2] = 0
  /\ NoDivideError

(* What a step does to the length of the ring and to what was loaded.      *)
LEMMA ZeroStep ==
  ASSUME Control, Ring, NEW t \in Procs, Step(t), 0 \notin PLens, scull_p_len # 0,
         buf_len = 0 => \A u \in Procs : local[u][2] = 0
  PROVE  /\ scull_p_len' # 0
         /\ buf_len' = 0 => \A u \in Procs : local'[u][2] = 0
<1>1. buf_len = 0 => rp = 0 /\ wp = 0
  <2>1. RingOK
    BY DEF Ring
  <2>2. QED
    BY <2>1 DEF RingOK, RingPointers
<1>2. local \in [Procs -> {"none", "rp", "wp", "in", "out"} \X (0..MaxLen)]
  BY DEF Ring
<1>3. CASE Open(t) \/ Read(t) \/ Write(t) \/ Release(t) \/ scull_p_fasync(t)
  BY <1>3 DEF Open, Read, Write, Release, Call, scull_p_fasync, ring
<1>4. CASE Poll(t)
  <2>1. PICK ev \in {"in", "out"} : local' = [local EXCEPT ![t] = <<ev, 0>>]
    BY <1>4 DEF Poll
  <2>2. UNCHANGED <<buf_len, scull_p_len>>
    BY <1>4 DEF Poll, Call, ring
  <2>3. QED
    BY <1>2, <2>1, <2>2
<1>5. CASE SetSize(t)
  BY <1>5 DEF SetSize, ring
<1>6. CASE MutexLock(t) \/ MutexInterrupted(t)
  BY <1>6 DEF MutexLock, MutexInterrupted, ring
<1>7. CASE scull_p_open(t) \/ ProperOpenReader(t) \/ ProperOpenRetry(t) \/ ProperOpenWriter(t)
  BY <1>7 DEF scull_p_open, ProperOpenReader, ProperOpenRetry, ProperOpenWriter, ResetBuffer,
              ring
<1>8. CASE scull_p_read(t) \/ WakeWriters(t) \/ scull_p_write(t) \/ WakeReaders(t)
  BY <1>8 DEF scull_p_read, ReadLoop, WakeWriters, scull_p_write, WakeReaders, ring
<1>9. CASE PrepareToWait(t) \/ CheckWriters(t) \/ DivideError(t) \/ Awake(t) \/ AwakeWriter(t)
  BY <1>9 DEF PrepareToWait, CheckWriters, DivideError, Awake, AwakeWriter, ring
<1>10. CASE LoadPointer(t)
  <2>1. PICK l \in {<<"rp", rp>>, <<"wp", wp>>} : local' = [local EXCEPT ![t] = l]
    BY <1>10 DEF LoadPointer
  <2>2. UNCHANGED <<buf_len, scull_p_len>>
    BY <1>10 DEF LoadPointer, ring
  <2>3. buf_len = 0 => l[2] = 0
    BY <1>1, <2>1, PairSecond
  <2>4. local'[t] = l /\ \A u \in Procs \ {t} : local'[u] = local[u]
    BY <1>2, <2>1
  <2>5. QED
    BY <2>2, <2>3, <2>4
<1>11. CASE CheckData(t) \/ CheckSpace(t) \/ scull_p_poll(t) \/ AwakePoller(t)
  <2>1. local' = local \/ local' = [local EXCEPT ![t] = NoLocal]
    BY <1>11 DEF CheckData, CheckSpace, scull_p_poll, AwakePoller, LeavePoll
  <2>2. UNCHANGED <<buf_len, scull_p_len>>
    BY <1>11 DEF CheckData, CheckSpace, scull_p_poll, AwakePoller, ring
  <2>3. QED
    BY <1>2, <2>1, <2>2 DEF NoLocal
<1>12. CASE scull_p_release(t)
  BY <1>12 DEF scull_p_release
<1>13. QED
  BY <1>3, <1>4, <1>5, <1>6, <1>7, <1>8, <1>9, <1>10, <1>11, <1>12
  DEF Step, UserStep, KernelStep

(* Only the check for space without the lock stops a process.              *)
LEMMA OopsStep ==
  ASSUME Control, NEW t \in Procs, Step(t), NEW u \in Procs, at[u] # "oops", at'[u] = "oops"
  PROVE  DivideError(t)
<1> USE DEF Control, Goto, Return
<1>1. CASE UserStep(t) \/ MutexLock(t) \/ MutexInterrupted(t)
  BY <1>1 DEF UserStep, Open, Read, Write, Poll, Release, Call, scull_p_fasync, SetSize,
              MutexLock, MutexInterrupted
<1>2. CASE scull_p_open(t) \/ ProperOpenReader(t) \/ ProperOpenRetry(t) \/ ProperOpenWriter(t)
  BY <1>2 DEF scull_p_open, ProperOpenReader, ProperOpenRetry, ProperOpenWriter
<1>3. CASE scull_p_read(t) \/ WakeWriters(t) \/ scull_p_write(t) \/ WakeReaders(t)
  BY <1>3 DEF scull_p_read, ReadLoop, WakeWriters, scull_p_write, WakeReaders
<1>4. CASE PrepareToWait(t) \/ CheckWriters(t) \/ LoadPointer(t) \/ CheckData(t)
  BY <1>4 DEF PrepareToWait, CheckWriters, LoadPointer, CheckData
<1>5. CASE CheckSpace(t) \/ Awake(t) \/ AwakeWriter(t)
  BY <1>5 DEF CheckSpace, Awake, AwakeWriter, FinishWrite
<1>6. CASE scull_p_poll(t) \/ AwakePoller(t) \/ scull_p_release(t)
  BY <1>6 DEF scull_p_poll, AwakePoller, LeavePoll, scull_p_release
<1>7. QED
  BY <1>1, <1>2, <1>3, <1>4, <1>5, <1>6 DEF Step, KernelStep

(* If nobody sets a length of 0, spacefree() never divides by it, although *)
(* scull_getwritespace calls it without the lock, on pointers loaded one   *)
(* after the other, while opens change the length.                         *)
THEOREM SpaceDivideCorrect ==
  ASSUME 0 \notin PLens, InitLen # 0 PROVE Spec => []NoDivideError
<1>1. Init => ZeroInv
  <2> SUFFICES ASSUME Init PROVE ZeroInv
    OBVIOUS
  <2>1. scull_p_len # 0 /\ NoDivideError
    BY DEF Init, NoDivideError
  <2>2. ASSUME NEW t \in Procs PROVE local[t][2] = 0
    <3>1. local[t] = <<"none", 0>>
      BY DEF Init, NoLocal
    <3>2. QED
      BY <3>1, PairSecond
  <2>3. QED
    BY <2>1, <2>2 DEF ZeroInv
<1>2. RingInv /\ ZeroInv /\ [Next]_vars => ZeroInv'
  <2> SUFFICES ASSUME RingInv, ZeroInv, [Next]_vars PROVE ZeroInv'
    OBVIOUS
  <2>1. CASE UNCHANGED vars
    BY <2>1 DEF vars, ring, ZeroInv, NoDivideError
  <2>2. ASSUME NEW t \in Procs, Step(t) PROVE ZeroInv'
    <3>1. Control /\ Ring
      BY Groups
    <3>2. ~DivideError(t)
      <4>1. buf_len = 0 => rp = 0 /\ wp = 0 /\ local[t][2] = 0
        BY DEF RingInv, RingOK, RingPointers, ZeroInv
      <4>2. QED
        BY <4>1 DEF DivideError, DividesByZero, LoadedRp, LoadedWp
    <3>3. NoDivideError'
      BY <2>2, <3>1, <3>2, OopsStep DEF ZeroInv, NoDivideError
    <3>4. QED
      BY <2>2, <3>1, <3>3, ZeroStep DEF ZeroInv
  <2>3. QED
    BY <2>1, <2>2 DEF Next, Step
<1>3. ZeroInv => NoDivideError
  BY DEF ZeroInv
<1>4. QED
  BY <1>1, <1>2, <1>3, RingSafe, PTL DEF Spec
=============================================================================
