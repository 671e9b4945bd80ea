------------------------ MODULE ScullPipeBufferProofs ------------------------
(***************************************************************************)
(* The open counts of a scullpipe and the life of its buffer.              *)
(***************************************************************************)
EXTENDS ScullPipeProofs, FiniteSetTheorems

(* A file opened O_RDWR on the proper pipe is counted as a reader only but *)
(* released as both, so the counts cover the files only without such opens.*)
NoProperRdwr == Proper => \A t \in Procs : \A f \in Opens[t] : f.mode # "rw"

(* scull_p_proper_open counts a writer before it allocates, so a failed    *)
(* allocation leaves a count that has no buffer.                           *)
EarlyCount == Proper /\ MayFail

-----------------------------------------------------------------------------
Readers == {t \in Procs : Reading(t)}
Writers == {t \in Procs : Writing(t)}

Cover ==
  /\ readers >= Cardinality(Readers) /\ readers <= CountMax
  /\ writers >= Cardinality(Writers) /\ writers <= CountMax

(* A file in user hands has its flags, and its buffer; an open that is     *)
(* about to count itself finds room for the count.                         *)
FileInv(t) ==
  /\ op[t] # "none" => file[t] # NoFile
  /\ file[t] # NoFile => file[t] \in Opens[t]
  /\ op[t] = "reopen" => Proper /\ CanRead(t)
  /\ In(t, "open", "cs") => readers < CountMax /\ writers < CountMax
  /\ HasOpen(t) /\ (EarlyCount => CanWrite(t)) => buf # Null

(* A counted writer, its count perhaps left by an interrupted release, has *)
(* its buffer: whoever is let in for dev->writers > 0 finds one.           *)
Backed == ~EarlyCount /\ writers # 0 => buf # Null

BufferInv == RingInv /\ Cover /\ Backed /\ \A t \in Procs : FileInv(t)

-----------------------------------------------------------------------------
(* Cardinalities of sets of processes.                                     *)

(* A part has at most as many members as the whole.                        *)
LEMMA CardSubset ==
  ASSUME NEW S \in SUBSET Procs, NEW T \in SUBSET S
  PROVE  Cardinality(S) \in Nat /\ Cardinality(T) \in Nat
         /\ Cardinality(T) <= Cardinality(S)
<1>1. IsFiniteSet(S)
  BY PipeAssumption, FS_Subset
<1>2. IsFiniteSet(T)
  BY <1>1, FS_Subset
<1>3. QED
  BY <1>1, <1>2, FS_Subset, FS_CardinalityType

(* One process more is at most one member more.                            *)
LEMMA CardAdd ==
  ASSUME NEW S \in SUBSET Procs, NEW t \in Procs, NEW T \in SUBSET (S \cup {t})
  PROVE  Cardinality(S) \in Nat /\ Cardinality(T) \in Nat
         /\ Cardinality(T) <= Cardinality(S) + 1
<1>1. IsFiniteSet(S) /\ Cardinality(S) \in Nat
  BY PipeAssumption, FS_Subset, FS_CardinalityType
<1>2. Cardinality(S \cup {t}) <= Cardinality(S) + 1
  BY <1>1, FS_AddElement, SMTT(20)
<1>3. Cardinality(T) \in Nat /\ Cardinality(S \cup {t}) \in Nat
      /\ Cardinality(T) <= Cardinality(S \cup {t})
  <2>1. S \cup {t} \in SUBSET Procs
    OBVIOUS
  <2>2. QED
    BY <2>1, CardSubset
<1>4. QED
  BY <1>1, <1>2, <1>3

(* One process less is at least one member less.                           *)
LEMMA CardRemove ==
  ASSUME NEW S \in SUBSET Procs, NEW t \in S, NEW T \in SUBSET (S \ {t})
  PROVE  Cardinality(S) \in Nat \ {0} /\ Cardinality(T) \in Nat
         /\ Cardinality(T) <= Cardinality(S) - 1
<1>1. IsFiniteSet(S) /\ Cardinality(S) \in Nat
  BY PipeAssumption, FS_Subset, FS_CardinalityType
<1>2. Cardinality(S \ {t}) = Cardinality(S) - 1
  BY <1>1, FS_RemoveElement
<1>3. Cardinality(T) \in Nat /\ Cardinality(S \ {t}) \in Nat
      /\ Cardinality(T) <= Cardinality(S \ {t})
  <2>1. S \ {t} \in SUBSET Procs
    OBVIOUS
  <2>2. QED
    BY <2>1, CardSubset
<1>4. QED
  BY <1>1, <1>2, <1>3

(* A set without members is empty.                                         *)
LEMMA CardZero ==
  ASSUME NEW S \in SUBSET Procs, Cardinality(S) <= 0
  PROVE  S = {}
  BY PipeAssumption, FS_Subset, FS_CardinalityType, FS_EmptySet

-----------------------------------------------------------------------------
(* A step moves one process.                                               *)
LEMMA Others ==
  ASSUME Control, NEW t \in Procs, Step(t), NEW u \in Procs, u # t
  PROVE  op'[u] = op[u] /\ at'[u] = at[u] /\ file'[u] = file[u]
<1> USE DEF Control
<1>1. CASE UserStep(t)
  BY <1>1 DEF UserStep, Open, Read, Write, Poll, Release, Call, scull_p_fasync,
              SetSize, Goto
<1>2. CASE MutexLock(t) \/ MutexInterrupted(t)
  BY <1>2 DEF MutexLock, MutexInterrupted, Goto, Return, Close
<1>3. CASE scull_p_open(t) \/ ProperOpenReader(t) \/ ProperOpenRetry(t) \/ ProperOpenWriter(t)
  BY <1>3 DEF scull_p_open, ProperOpenReader, ProperOpenRetry, ProperOpenWriter,
              Goto, Return, Close
<1>4. CASE scull_p_read(t) \/ WakeWriters(t) \/ scull_p_write(t) \/ WakeReaders(t)
  BY <1>4 DEF scull_p_read, ReadLoop, WakeWriters, scull_p_write, WakeReaders,
              Goto, Return
<1>5. CASE PrepareToWait(t) \/ CheckWriters(t) \/ LoadPointer(t) \/ CheckData(t)
  BY <1>5 DEF PrepareToWait, Enqueue, CheckWriters, LoadPointer, CheckData, Goto, Return,
              Close
<1>6. CASE DivideError(t) \/ CheckSpace(t) \/ Awake(t) \/ AwakeWriter(t)
  BY <1>6 DEF DivideError, CheckSpace, Awake, AwakeWriter, FinishWrite, Goto,
              Return
<1>7. CASE scull_p_poll(t) \/ AwakePoller(t) \/ scull_p_release(t)
  BY <1>7 DEF scull_p_poll, AwakePoller, LeavePoll, scull_p_release, Uncount, Goto,
              Return, Close
<1>8. QED
  BY <1>1, <1>2, <1>3, <1>4, <1>5, <1>6, <1>7 DEF Step, KernelStep

(* What a step that leaves the counts and the buffer alone does to t.      *)
Quiet(t) ==
  /\ UNCHANGED <<readers, writers, buf>>
  /\ \/ file'[t] = NoFile /\ op'[t] = "none"
     \/ /\ file'[t] = file[t] /\ file[t] # NoFile
        /\ op[t] \notin {"open", "reopen"} /\ op'[t] \notin {"open", "reopen"}
     \/ /\ file'[t] = file[t] /\ op'[t] = op[t]
        /\ at'[t] = "cs" /\ op[t] = "open" => readers < CountMax /\ writers < CountMax
     \/ /\ file[t] = NoFile /\ file'[t] \in Opens[t] \ {NoFile}
        /\ op'[t] = "open" /\ at'[t] = "lock"
     \/ file'[t] = file[t] /\ op[t] = "reopen" /\ op'[t] = "none" /\ writers # 0

Loud(t) ==
  \/ scull_p_open(t) \/ ProperOpenReader(t) \/ ProperOpenWriter(t)
  \/ scull_p_release(t)

(* Apart from opens and the release, every step of pipe.c is quiet.        *)
LEMMA QuietSteps ==
  ASSUME Control, NEW t \in Procs, FileInv(t), Step(t), ~Loud(t)
  PROVE  Quiet(t)
<1> USE DEF Control, Quiet
<1>1. CASE Open(t)
  BY <1>1, PipeAssumption DEF Open, Goto, ring, counts
<1>2. CASE Read(t) \/ Write(t) \/ Poll(t) \/ Release(t)
  BY <1>2 DEF Read, Write, Poll, Release, Call, Goto, In, ring, counts
<1>3. CASE scull_p_fasync(t) \/ SetSize(t)
  BY <1>3 DEF scull_p_fasync, SetSize, In, ring, counts
<1>4. CASE MutexLock(t)
  BY <1>4 DEF MutexLock, Goto, ring, counts
<1>5. CASE MutexInterrupted(t)
  BY <1>5 DEF MutexInterrupted, Return, Goto, Close, FileInv, ring, counts
<1>6. CASE ProperOpenRetry(t)
  BY <1>6 DEF ProperOpenRetry, In, Return, Goto, ring, counts
<1>7. CASE scull_p_read(t)
  BY <1>7 DEF scull_p_read, ReadLoop, Return, Goto, FileInv, ring, counts
<1>8. CASE scull_p_write(t)
  BY <1>8 DEF scull_p_write, In, Return, Goto, FileInv, counts
<1>9. CASE WakeWriters(t) \/ WakeReaders(t)
  BY <1>9 DEF WakeWriters, WakeReaders, In, Return, Goto, FileInv, ring, counts
<1>10. CASE PrepareToWait(t)
  BY <1>10 DEF PrepareToWait, Enqueue, Goto, ring, counts
<1>11. CASE CheckWriters(t)
  BY <1>11 DEF CheckWriters, In, Return, Goto, Close, ring, counts
<1>12. CASE LoadPointer(t) \/ CheckData(t) \/ DivideError(t)
  BY <1>12 DEF LoadPointer, CheckData, DivideError, In, Return, Goto, FileInv,
               ring, counts
<1>13. CASE CheckSpace(t) \/ AwakeWriter(t)
  BY <1>13 DEF CheckSpace, AwakeWriter, FinishWrite, In, Return, Goto, FileInv,
               ring, counts
<1>14. CASE Awake(t)
  BY <1>14 DEF Awake, Goto, ring, counts
<1>15. CASE scull_p_poll(t) \/ AwakePoller(t)
  BY <1>15 DEF scull_p_poll, AwakePoller, LeavePoll, In, Return, Goto, FileInv,
               ring, counts
<1>16. QED
  BY <1>1, <1>2, <1>3, <1>4, <1>5, <1>6, <1>7, <1>8, <1>9, <1>10, <1>11, <1>12,
     <1>13, <1>14, <1>15
  DEF Step, Loud, UserStep, KernelStep

(* A quiet step keeps the counts and the buffers of the open files.        *)
LEMMA QuietKeeps ==
  ASSUME NoProperRdwr, BufferInv, Control', NEW t \in Procs, Step(t), Quiet(t)
  PROVE  Cover' /\ Backed' /\ \A u \in Procs : FileInv(u)'
<1>1. Control
  BY Groups DEF BufferInv
<1>2. \A u \in Procs \ {t} : op'[u] = op[u] /\ at'[u] = at[u] /\ file'[u] = file[u]
  BY <1>1, Others
<1>3. \A u \in Procs : (Reading(u)' => Reading(u)) /\ (Writing(u)' => Writing(u))
  BY <1>2 DEF Quiet, Reading, Writing, CanRead, CanWrite, BufferInv, FileInv
<1>4. Readers' \subseteq Readers /\ Writers' \subseteq Writers
  BY <1>3 DEF Readers, Writers
<1>5. Cover'
  <2>1. /\ Cardinality(Readers') <= Cardinality(Readers)
        /\ Cardinality(Writers') <= Cardinality(Writers)
        /\ Cardinality(Readers) \in Nat /\ Cardinality(Writers) \in Nat
        /\ Cardinality(Readers') \in Nat /\ Cardinality(Writers') \in Nat
    <3>1. Readers \in SUBSET Procs /\ Writers \in SUBSET Procs
      BY DEF Readers, Writers
    <3>2. QED
      BY <1>4, <3>1, CardSubset
  <2>2. readers \in Nat /\ writers \in Nat
    BY DEF BufferInv, RingInv, TypeOK
  <2>3. UNCHANGED <<readers, writers>>
    BY DEF Quiet
  <2>4. QED
    BY <2>1, <2>2, <2>3 DEF Cover, BufferInv
<1>6. ASSUME NEW u \in Procs \ {t} PROVE FileInv(u)'
  BY <1>2, <1>6 DEF Quiet, BufferInv, FileInv, HasOpen, In, CanRead, CanWrite
<1>7. FileInv(t)'
  <2>1. CASE op[t] = "reopen" /\ op'[t] = "none" /\ writers # 0 /\ file'[t] = file[t]
    <3>1. Proper /\ CanRead(t) /\ file[t] \in Opens[t] /\ file[t] # NoFile
      BY <2>1 DEF BufferInv, FileInv
    <3>2. ~CanWrite(t)' /\ CanRead(t)'
      BY <2>1, <3>1, PipeAssumption DEF NoProperRdwr, CanRead, CanWrite, FileFlags
    <3>3. buf' = buf /\ (~EarlyCount => buf # Null)
      BY <2>1 DEF Quiet, BufferInv, Backed
    <3>4. QED
      BY <2>1, <3>1, <3>2, <3>3 DEF FileInv, In
  <2>2. CASE ~(op[t] = "reopen" /\ op'[t] = "none" /\ writers # 0 /\ file'[t] = file[t])
    BY <2>2, PipeAssumption DEF Quiet, BufferInv, FileInv, HasOpen, In, CanRead, CanWrite
  <2>3. QED
    BY <2>1, <2>2
<1>8. Backed'
  BY DEF Quiet, BufferInv, Backed
<1>9. QED
  BY <1>5, <1>6, <1>7, <1>8

(* The counts after one process joins, stays out of or leaves a set.       *)
LEMMA CountJoin ==
  ASSUME NEW S \in SUBSET Procs, NEW t \in Procs, NEW T \in SUBSET (S \cup {t}),
         NEW c \in Nat, c >= Cardinality(S), c < CountMax
  PROVE  Inc(c) = c + 1 /\ Inc(c) >= Cardinality(T) /\ Inc(c) <= CountMax
<1>1. Inc(c) = c + 1
  <2>1. c + 1 \in 0..(SizeMod - 1)
    BY Bounds, SizeModAssumption
  <2>2. QED
    BY <2>1, ModSmall, SizeModAssumption DEF Inc
<1>2. QED
  BY <1>1, CardAdd, Bounds, SizeModAssumption

(* The count after a release that had been counted.                        *)
LEMMA CountLeave ==
  ASSUME NEW S \in SUBSET Procs, NEW t \in S, NEW T \in SUBSET (S \ {t}),
         NEW c \in Nat, c >= Cardinality(S), c <= CountMax
  PROVE  Dec(c) = c - 1 /\ Dec(c) >= Cardinality(T) /\ Dec(c) <= CountMax
         /\ Dec(c) \in Nat
<1>1. c >= 1 /\ c < SizeMod
  <2>1. Cardinality(S) \in Nat \ {0}
    BY CardRemove
  <2>2. QED
    BY <2>1, Bounds, SizeModAssumption
<1>2. Dec(c) = c - 1
  <2>1. c - 1 \in 0..(SizeMod - 1)
    BY <1>1, SizeModAssumption
  <2>2. QED
    BY <2>1, ModSmall, SizeModAssumption DEF Dec
<1>3. QED
  BY <1>1, <1>2, CardRemove, Bounds, SizeModAssumption

(* A count still covers fewer files.                                       *)
LEMMA CountKeep ==
  ASSUME NEW S \in SUBSET Procs, NEW T \in SUBSET S, NEW c \in Nat,
         c >= Cardinality(S)
  PROVE  c >= Cardinality(T)
  BY CardSubset

(* Opens and the release keep the counts at or above the open files.       *)
LEMMA LoudCover ==
  ASSUME NoProperRdwr, BufferInv, NEW t \in Procs, Loud(t)
  PROVE  Cover'
<1>1. Control /\ FileInv(t) /\ Step(t)
  BY Groups DEF BufferInv, Loud, Step, KernelStep
<1>2. \A u \in Procs \ {t} : op'[u] = op[u] /\ file'[u] = file[u]
  BY <1>1, Others
<1>3. /\ Readers \in SUBSET Procs /\ Writers \in SUBSET Procs
      /\ readers \in Nat /\ writers \in Nat
  BY DEF Readers, Writers, BufferInv, RingInv, TypeOK
<1>4. /\ readers >= Cardinality(Readers) /\ readers <= CountMax
      /\ writers >= Cardinality(Writers) /\ writers <= CountMax
  BY DEF BufferInv, Cover
<1>5. Readers' \subseteq Readers \cup {t} /\ Writers' \subseteq Writers \cup {t}
  BY <1>2 DEF Readers, Writers, Reading, Writing, CanRead, CanWrite
<1>6. ~Reading(t)' => Readers' \subseteq Readers \ {t}
  BY <1>5 DEF Readers
<1>7. ~Writing(t)' => Writers' \subseteq Writers \ {t}
  BY <1>5 DEF Writers
<1>8. CASE scull_p_release(t)
  <2>1. ~Reading(t)' /\ ~Writing(t)'
    BY <1>1, <1>8 DEF scull_p_release, Uncount, Close, Reading, Writing, Control
  <2>2. (CanRead(t) => t \in Readers) /\ (CanWrite(t) => t \in Writers)
    BY <1>1, <1>8 DEF scull_p_release, Uncount, In, FileInv, Reading, Writing, Readers, Writers
  <2>3. readers' >= Cardinality(Readers') /\ readers' <= CountMax
    <3>1. CASE CanRead(t)
      BY <1>3, <1>4, <1>6, <1>8, <2>1, <2>2, <3>1, CountLeave DEF scull_p_release, Uncount
    <3>2. CASE ~CanRead(t)
      BY <1>3, <1>4, <1>6, <1>8, <2>1, <3>2, CountKeep DEF scull_p_release, Uncount
    <3>3. QED
      BY <3>1, <3>2
  <2>4. writers' >= Cardinality(Writers') /\ writers' <= CountMax
    <3>1. CASE CanWrite(t)
      BY <1>3, <1>4, <1>7, <1>8, <2>1, <2>2, <3>1, CountLeave DEF scull_p_release, Uncount
    <3>2. CASE ~CanWrite(t)
      BY <1>3, <1>4, <1>7, <1>8, <2>1, <3>2, CountKeep DEF scull_p_release, Uncount
    <3>3. QED
      BY <3>1, <3>2
  <2>5. QED
    BY <2>3, <2>4 DEF Cover
<1>9. CASE ~scull_p_release(t)
  <2>1. In(t, "open", "cs")
    BY <1>9 DEF Loud, scull_p_open, ProperOpenReader, ProperOpenWriter
  <2>2. readers < CountMax /\ writers < CountMax
    BY <1>1, <2>1 DEF FileInv
  <2>3. file[t] \in FileFlags /\ (Proper => file[t].mode # "rw")
    BY <1>1, <2>1, PipeAssumption DEF FileInv, In, NoProperRdwr
  <2>4. file'[t] = file[t] \/ file'[t] = NoFile
    BY <1>1, <1>9 DEF Loud, scull_p_open, ProperOpenReader, ProperOpenWriter, Close, Control
  <2>5. readers' = Inc(readers) \/ (readers' = readers /\ ~Reading(t)')
    BY <1>9, <1>1, <2>4 DEF Loud, scull_p_open, ProperOpenReader, ProperOpenWriter,
       ResetBuffer, counts, Reading, CanRead, Close, Control
  <2>6. writers' = Inc(writers) \/ (writers' = writers /\ ~Writing(t)')
    BY <1>9, <1>1, <2>3, <2>4 DEF Loud, scull_p_open, ProperOpenReader, ProperOpenWriter,
       ResetBuffer, counts, Writing, CanWrite, CanRead, Close, Control, FileFlags
  <2>7. readers' >= Cardinality(Readers') /\ readers' <= CountMax
    <3>1. CASE readers' = Inc(readers)
      BY <1>3, <1>4, <1>5, <2>2, <3>1, CountJoin
    <3>2. CASE readers' = readers /\ ~Reading(t)'
      BY <1>3, <1>4, <1>6, <3>2, CountKeep
    <3>3. QED
      BY <2>5, <3>1, <3>2
  <2>8. writers' >= Cardinality(Writers') /\ writers' <= CountMax
    <3>1. CASE writers' = Inc(writers)
      BY <1>3, <1>4, <1>5, <2>2, <3>1, CountJoin
    <3>2. CASE writers' = writers /\ ~Writing(t)'
      BY <1>3, <1>4, <1>7, <3>2, CountKeep
    <3>3. QED
      BY <2>6, <3>1, <3>2
  <2>9. QED
    BY <2>7, <2>8 DEF Cover
<1>10. QED
  BY <1>8, <1>9

(* When scull_p_release frees the buffer, no file is left.                 *)
Freed ==
  readers \in Nat /\ writers \in Nat /\ (readers + writers) % SizeMod = 0

Unused == \A u \in Procs : ~HasOpen(u)

(* The sum that scull_p_release tests does not wrap to 0.                  *)
LEMMA FreedIsUncounted == Cover /\ Freed => readers = 0 /\ writers = 0
<1> SUFFICES ASSUME Cover, Freed PROVE readers = 0 /\ writers = 0
  OBVIOUS
<1>1. readers + writers \in 0..(SizeMod - 1) /\ readers \in Nat /\ writers \in Nat
  BY Bounds, SizeModAssumption DEF Cover, Freed
<1>2. readers + writers = 0
  BY <1>1, ModSmall, SizeModAssumption DEF Freed
<1>3. QED
  BY <1>1, <1>2

(* No file is open without being counted.                                  *)
LEMMA FreedIsUnused == Control /\ Cover /\ Freed => Unused
<1> SUFFICES ASSUME Control, Cover, Freed PROVE Unused
  OBVIOUS
<1> USE DEF Unused
<1>1. readers = 0 /\ writers = 0
  BY FreedIsUncounted
<1>2. Readers = {} /\ Writers = {}
  <2>1. Readers \in SUBSET Procs /\ Writers \in SUBSET Procs
    BY DEF Readers, Writers
  <2>2. Cardinality(Readers) <= 0 /\ Cardinality(Writers) <= 0
    BY <1>1 DEF Cover
  <2>3. QED
    BY <2>1, <2>2, CardZero
<1>3. QED
  BY <1>2 DEF Readers, Writers, Reading, Writing, CanRead, CanWrite, HasOpen,
              Control, FileFlags

(* Opens and the release leave every open file its buffer.                 *)
LEMMA LoudFiles ==
  ASSUME NoProperRdwr, BufferInv, RingInv', Cover', NEW t \in Procs, Loud(t)
  PROVE  \A u \in Procs : FileInv(u)'
<1>1. Control /\ Step(t) /\ \A u \in Procs : FileInv(u)
  BY Groups DEF BufferInv, Loud, Step, KernelStep
<1>2. Control'
  BY Groups, PTL
<1>3. \A u \in Procs \ {t} : op'[u] = op[u] /\ at'[u] = at[u] /\ file'[u] = file[u]
  BY <1>1, Others
<1>4. \A u \in Procs \ {t} : at[u] # "cs"
  BY <1>1 DEF Control, MutexInv, Loud, scull_p_open, ProperOpenReader,
              ProperOpenWriter, scull_p_release, Uncount, In
<1>5. at'[t] # "cs"
  BY <1>1 DEF Control, Loud, scull_p_open, ProperOpenReader, ProperOpenWriter,
              scull_p_release, Uncount, Return, Goto
<1>6. CASE scull_p_release(t)
  <2>1. file'[t] = NoFile /\ op'[t] = "none"
    BY <1>1, <1>6 DEF scull_p_release, Uncount, Close, Return, Goto, Control
  <2>2. CASE buf' = buf
    BY <1>1, <1>3, <1>4, <1>5, <2>1, <2>2 DEF FileInv, HasOpen, In, CanRead, CanWrite
  <2>3. CASE buf' # buf
    <3>1. Freed'
      <4>1. readers' \in Nat /\ writers' \in Nat
        <5>1. Counting'
          BY Groups, PTL
        <5>2. QED
          BY <5>1 DEF Counting
      <4>2. (readers' + writers') % SizeMod = 0
        BY <1>6, <2>3 DEF scull_p_release
      <4>3. QED
        BY <4>1, <4>2 DEF Freed
    <3>2. Unused'
      BY <1>2, <3>1, FreedIsUnused, PTL
    <3>3. QED
      BY <1>1, <1>3, <1>4, <1>5, <2>1, <3>2 DEF FileInv, In, CanRead, Unused
  <2>4. QED
    BY <2>2, <2>3
<1>7. CASE ~scull_p_release(t)
  <2>1. In(t, "open", "cs") /\ file[t] \in Opens[t] /\ file[t] # NoFile
    BY <1>1, <1>7 DEF Loud, scull_p_open, ProperOpenReader, ProperOpenWriter,
                      FileInv, In
  <2>2. buf # Null => buf' # Null
    BY <1>7 DEF Loud, scull_p_open, ProperOpenReader, ProperOpenWriter,
                ResetBuffer, ring
  <2>3. ASSUME NEW u \in Procs \ {t} PROVE FileInv(u)'
    BY <1>1, <1>3, <1>4, <2>2 DEF FileInv, HasOpen, In, CanRead, CanWrite
  <2>4. FileInv(t)'
    <3>1. CASE file'[t] = NoFile
      BY <1>1, <1>7, <3>1 DEF Control, Loud, scull_p_open, ProperOpenReader,
         ProperOpenWriter, Return, Goto, Close, FileInv, HasOpen, In
    <3>2. CASE file'[t] # NoFile
      <4>1. file' = file
        BY <1>1, <1>7, <3>2 DEF Loud, scull_p_open, ProperOpenReader,
           ProperOpenWriter, Close, Control
      <4>2. CASE ProperOpenReader(t)
        <5>1. Proper /\ CanRead(t) /\ ~CanWrite(t)
          BY <2>1, <4>2, PipeAssumption
          DEF ProperOpenReader, NoProperRdwr, CanRead, CanWrite, FileFlags
        <5>2. CanRead(t)' /\ ~CanWrite(t)'
          BY <4>1, <5>1 DEF CanRead, CanWrite
        <5>3. buf' = buf /\ (op'[t] = "reopen" \/ writers # 0)
          BY <1>1, <3>2, <4>2 DEF ProperOpenReader, Return, Goto, Close, ring, Control
        <5>4. HasOpen(t)' /\ ~EarlyCount => buf' # Null
          BY <5>3 DEF BufferInv, Backed, HasOpen
        <5>5. QED
          BY <1>5, <2>1, <4>1, <5>1, <5>2, <5>4 DEF FileInv, In
      <4>3. CASE scull_p_open(t) \/ ProperOpenWriter(t)
        <5>1. op'[t] = "none"
          BY <1>1, <4>3 DEF scull_p_open, ProperOpenWriter, Return, Goto, Control
        <5>2. buf' # Null
          <6>1. ResetBuffer
            BY <1>1, <3>2, <4>3 DEF scull_p_open, ProperOpenWriter, Close, Control
          <6>2. scull_p_len # Null /\ Null = -1
            <7>1. scull_p_len \in 0..MaxLen
              BY DEF BufferInv, RingInv, TypeOK
            <7>2. QED
              BY <7>1, Bounds DEF Null
          <6>3. QED
            BY <6>1, <6>2 DEF ResetBuffer
        <5>3. QED
          BY <1>5, <2>1, <4>1, <5>1, <5>2 DEF FileInv, In
      <4>4. QED
        BY <1>7, <4>2, <4>3 DEF Loud
    <3>3. QED
      BY <3>1, <3>2
  <2>5. QED
    BY <2>3, <2>4
<1>8. QED
  BY <1>6, <1>7

(* Opens and the release leave every counted writer its buffer.            *)
LEMMA LoudBacked ==
  ASSUME NoProperRdwr, BufferInv, RingInv', NEW t \in Procs, Loud(t)
  PROVE  Backed'
<1>0. FileInv(t)
  BY DEF BufferInv
<1>1. readers' \in Nat /\ writers' \in Nat
  <2>1. Counting'
    BY Groups, PTL
  <2>2. QED
    BY <2>1 DEF Counting
<1>2. scull_p_len # Null
  <2>1. scull_p_len \in 0..MaxLen
    BY DEF BufferInv, RingInv, TypeOK
  <2>2. QED
    BY <2>1, Bounds DEF Null
<1>3. CASE scull_p_release(t)
  <2>1. writers' # 0 => writers # 0
    <3>1. CASE CanWrite(t)
      <4>1. t \in Writers /\ Writers \in SUBSET Procs
        BY <1>0, <1>3, <3>1 DEF scull_p_release, In, FileInv, Writing, Writers
      <4>2. Cardinality(Writers) \in Nat \ {0}
        BY <4>1, CardRemove
      <4>3. QED
        BY <4>2 DEF BufferInv, Cover
    <3>2. CASE ~CanWrite(t)
      BY <1>3, <3>2 DEF scull_p_release, Uncount
    <3>3. QED
      BY <3>1, <3>2
  <2>2. buf' # buf => writers' = 0
    <3>1. CASE buf' # buf
      <4>1. Freed'
        BY <1>1, <1>3, <3>1 DEF scull_p_release, Freed
      <4>2. Cover'
        BY LoudCover
      <4>3. (readers = 0 /\ writers = 0)'
        BY <4>1, <4>2, FreedIsUncounted, PTL
      <4>4. QED
        BY <4>3
    <3>2. QED
      BY <3>1
  <2>3. QED
    BY <2>1, <2>2 DEF Backed, BufferInv
<1>4. CASE scull_p_open(t) \/ ProperOpenWriter(t)
  BY <1>2, <1>4 DEF scull_p_open, ProperOpenWriter, AllocFails, ResetBuffer, counts, ring,
                    Backed, EarlyCount, BufferInv
<1>5. CASE ProperOpenReader(t)
  BY <1>5 DEF ProperOpenReader, ring, Backed, BufferInv
<1>6. QED
  BY <1>3, <1>4, <1>5 DEF Loud

(* A pipe nobody has opened satisfies the invariant.                       *)
LEMMA BufferInvInit == Init => BufferInv
<1> SUFFICES ASSUME Init PROVE BufferInv
  OBVIOUS
<1>1. Readers = {} /\ Writers = {}
  BY DEF Init, Readers, Writers, Reading, Writing
<1>2. Cover
  BY <1>1, FS_EmptySet, Bounds DEF Init, Cover
<1>3. \A t \in Procs : FileInv(t)
  BY DEF Init, FileInv, In, HasOpen
<1>4. Backed
  BY DEF Init, Backed
<1>5. QED
  BY <1>2, <1>3, <1>4, RingInvInit DEF BufferInv

(* Every step of every process keeps the invariant.                        *)
LEMMA BufferInvStep ==
  ASSUME NoProperRdwr PROVE BufferInv /\ [Next]_vars => BufferInv'
<1> SUFFICES ASSUME BufferInv, [Next]_vars PROVE BufferInv'
  OBVIOUS
<1>1. RingInv'
  BY RingInvStep DEF BufferInv
<1>2. CASE UNCHANGED vars
  BY <1>1, <1>2 DEF vars, ring, counts, BufferInv, Cover, Readers, Writers,
     Reading, Writing, CanRead, CanWrite, FileInv, HasOpen, In, Backed
<1>3. ASSUME NEW t \in Procs, Step(t) PROVE BufferInv'
  <2>1. Control'
    BY <1>1, Groups, PTL
  <2>2. Control /\ FileInv(t)
    BY Groups DEF BufferInv
  <2>3. CASE Loud(t)
    BY <1>1, <2>3, LoudCover, LoudBacked, LoudFiles DEF BufferInv
  <2>4. CASE ~Loud(t)
    BY <1>1, <1>3, <2>1, <2>2, <2>4, QuietSteps, QuietKeeps DEF BufferInv
  <2>5. QED
    BY <2>3, <2>4
<1>4. QED
  BY <1>2, <1>3 DEF Next, Step

(* Without O_RDWR opens of the proper pipe, all processes keep to          *)
(* BufferInv.                                                              *)
LEMMA BufferSafe == ASSUME NoProperRdwr PROVE Spec => []BufferInv
<1>1. BufferInv /\ [Next]_vars => BufferInv'
  BY BufferInvStep
<1>2. QED
  BY <1>1, BufferInvInit, PTL DEF Spec

(* dev->readers and dev->writers never fall below the number of open       *)
(* files, through failed and interrupted opens and closes in any order.    *)
THEOREM CountsCorrect == ASSUME NoProperRdwr PROVE Spec => []CountsCover
<1>1. BufferInv => CountsCover
  BY DEF BufferInv, Cover, CountsCover, Readers, Writers
<1>2. QED
  BY <1>1, BufferSafe, PTL

(* A file open for writing keeps its buffer, even if the allocations of    *)
(* other opens fail.                                                       *)
THEOREM WriterBufferCorrect == ASSUME NoProperRdwr PROVE Spec => []WriterHasBuffer
<1>1. BufferInv => WriterHasBuffer
  BY DEF BufferInv, WriterHasBuffer, FileInv
<1>2. QED
  BY <1>1, BufferSafe, PTL

(* No open file is ever left without a buffer: on a default pipe whatever  *)
(* fails, and on a proper pipe, where a reader relies on the buffer of the *)
(* writer it waited for, as long as no allocation fails.                   *)
THEOREM BufferCorrect ==
  ASSUME NoProperRdwr, ~EarlyCount PROVE Spec => []OpenHasBuffer
<1>1. BufferInv => OpenHasBuffer
  BY DEF BufferInv, OpenHasBuffer, FileInv
<1>2. QED
  BY <1>1, BufferSafe, PTL
=============================================================================
