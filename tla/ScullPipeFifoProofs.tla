------------------------- MODULE ScullPipeFifoProofs -------------------------
(***************************************************************************)
(* ScullPipe implements PipeFifo: the ring delivers every byte once, in    *)
(* the order of the writes.                                                *)
(***************************************************************************)
EXTENDS ScullPipeBufferProofs, SequenceTheorems

USE SizeModAssumption

-----------------------------------------------------------------------------
(* The unread part of the ring.                                            *)

(* It has at most n - 1 bytes, all of them in the buffer.                  *)
LEMMA UsedFits ==
  ASSUME NEW n \in 0..MaxLen, NEW r \in RingPointers(n), NEW w \in RingPointers(n)
  PROVE  /\ Used(r, w, n) \in Nat /\ (n > 0 => Used(r, w, n) <= n - 1)
         /\ (r = w <=> Used(r, w, n) = 0)
         /\ \A i \in 0..(Used(r, w, n) - 1) : Cell(r, n, i) \in 0..(n - 1)
  BY Bounds DEF Used, Cell, RingPointers

(* spacefree() is what is left of the buffer, but for one byte.            *)
LEMMA SpacefreeIs ==
  ASSUME NEW n \in 1..MaxLen, NEW r \in RingPointers(n), NEW w \in RingPointers(n)
  PROVE  spacefree(r, w, n) = n - 1 - Used(r, w, n)
<1>1. ASSUME NEW x \in 1..MaxLen PROVE Dec(x) = x - 1
  <2>1. x - 1 \in 0..(SizeMod - 1)
    BY Bounds
  <2>2. QED
    BY <2>1, ModSmall DEF Dec
<1>2. CASE r = w
  BY <1>1, <1>2 DEF spacefree, Used, RingPointers
<1>3. CASE r # w
  <2> DEFINE x == r + n - w
  <2>1. x \in 1..(2 * n - 1) /\ x \in 0..(SizeMod - 1) /\ x # n
    BY <1>3, Bounds DEF RingPointers
  <2>2. x % SizeMod = x
    BY <2>1, ModSmall
  <2>3. x % n = IF x < n THEN x ELSE x - n
    <3>1. CASE x < n
      BY <2>1, <3>1, ModSmall
    <3>2. CASE x >= n
      BY <2>1, <3>2
    <3>3. QED
      BY <2>1, <3>1, <3>2
  <2>4. x % n \in 1..MaxLen /\ x % n = n - Used(r, w, n)
    BY <1>3, <2>1, <2>3, Bounds DEF Used, RingPointers
  <2>5. spacefree(r, w, n) = Dec(x % n)
    BY <1>3, <2>2 DEF spacefree
  <2>6. Used(r, w, n) \in Nat
    BY UsedFits
  <2> HIDE DEF x
  <2>7. QED
    BY <1>1, <2>4, <2>5, <2>6
<1>4. QED
  BY <1>2, <1>3

(* A read takes the oldest k bytes, in order, and leaves the others.       *)
LEMMA ReadCells ==
  ASSUME NEW n \in 0..MaxLen, NEW r \in RingPointers(n), NEW w \in RingPointers(n),
         r # w, NEW k \in Nat, k <= IF w > r THEN w - r ELSE n - r
  PROVE  /\ k <= Used(r, w, n) /\ Used(Advance(r, k, n), w, n) = Used(r, w, n) - k
         /\ \A i \in 0..(k - 1) : Cell(r, n, i) = r + i
         /\ \A i \in 0..(Used(r, w, n) - k - 1) :
              Cell(Advance(r, k, n), n, i) = Cell(r, n, i + k)
<1> n \in Nat /\ r \in Nat /\ w \in Nat /\ r < n /\ w < n
  BY Bounds DEF RingPointers
<1>1. k <= Used(r, w, n)
  BY DEF Used
<1>2. Used(Advance(r, k, n), w, n) = Used(r, w, n) - k
  BY DEF Used, Advance
<1>3. \A i \in 0..(k - 1) : Cell(r, n, i) = r + i
  BY DEF Cell
<1>4. \A i \in 0..(Used(r, w, n) - k - 1) :
        Cell(Advance(r, k, n), n, i) = Cell(r, n, i + k)
  BY DEF Used, Advance, Cell
<1>5. QED
  BY <1>1, <1>2, <1>3, <1>4

(* A write puts its k bytes behind the unread ones and overwrites none.    *)
LEMMA WriteCells ==
  ASSUME NEW n \in 1..MaxLen, NEW r \in RingPointers(n), NEW w \in RingPointers(n),
         NEW k \in Nat, k <= n - 1 - Used(r, w, n),
         k <= IF w >= r THEN n - w ELSE r - w - 1
  PROVE  /\ Used(r, Advance(w, k, n), n) = Used(r, w, n) + k
         /\ \A i \in 0..(Used(r, w, n) - 1) : Cell(r, n, i) \notin w..(w + k - 1)
<1> n \in Nat /\ r \in Nat /\ w \in Nat /\ r < n /\ w < n
  BY Bounds DEF RingPointers
<1>1. Used(r, Advance(w, k, n), n) = Used(r, w, n) + k
  BY DEF Used, Advance
<1>2. \A i \in 0..(Used(r, w, n) - 1) : Cell(r, n, i) \notin w..(w + k - 1)
  BY DEF Used, Cell
<1>3. QED
  BY <1>1, <1>2

-----------------------------------------------------------------------------
(* The unread bytes as a sequence.                                         *)

Memory == [0..(MaxLen - 1) -> Data]

(* Two memories with the same bytes are the same.                          *)
LEMMA SameMemory ==
  ASSUME NEW m \in Memory, NEW l \in Memory, \A i \in 0..(MaxLen - 1) : l[i] = m[i]
  PROVE  l = m
<1>1. /\ m = [i \in 0..(MaxLen - 1) |-> m[i]]
      /\ l = [i \in 0..(MaxLen - 1) |-> l[i]]
  BY DEF Memory
<1>2. QED
  BY <1>1, Zenon

(* Contents is a sequence of Used bytes.                                   *)
LEMMA ContentsType ==
  ASSUME NEW n \in 0..MaxLen, NEW r \in RingPointers(n), NEW w \in RingPointers(n),
         NEW m \in Memory
  PROVE  /\ Contents(m, r, w, n) \in Seq(Data)
         /\ Len(Contents(m, r, w, n)) = Used(r, w, n)
         /\ \A i \in 1..Used(r, w, n) :
              Contents(m, r, w, n)[i] = m[Cell(r, n, i - 1)]
<1>1. Used(r, w, n) \in Nat
  BY UsedFits
<1>2. \A i \in 1..Used(r, w, n) : m[Cell(r, n, i - 1)] \in Data
  <2> SUFFICES ASSUME NEW i \in 1..Used(r, w, n) PROVE m[Cell(r, n, i - 1)] \in Data
    OBVIOUS
  <2>1. i - 1 \in 0..(Used(r, w, n) - 1)
    BY <1>1
  <2>2. Cell(r, n, i - 1) \in 0..(n - 1)
    BY <2>1, UsedFits
  <2>3. Cell(r, n, i - 1) \in 0..(MaxLen - 1)
    BY <2>2, Bounds
  <2>4. QED
    BY <2>3 DEF Memory
<1>3. QED
  BY <1>1, <1>2 DEF Contents

(* What a read copies out is a prefix of the queue; the rest stays.        *)
LEMMA ContentsRead ==
  ASSUME NEW n \in 0..MaxLen, NEW r \in RingPointers(n), NEW w \in RingPointers(n),
         NEW m \in Memory, r # w, NEW k \in Nat,
         k <= IF w > r THEN w - r ELSE n - r, Advance(r, k, n) \in RingPointers(n)
  PROVE  /\ k \in 0..Len(Contents(m, r, w, n))
         /\ [i \in 1..k |-> m[r + i - 1]] = SubSeq(Contents(m, r, w, n), 1, k)
         /\ Contents(m, Advance(r, k, n), w, n)
              = SubSeq(Contents(m, r, w, n), k + 1, Len(Contents(m, r, w, n)))
<1> DEFINE U == Used(r, w, n)
           C == Contents(m, r, w, n)
           D == Contents(m, Advance(r, k, n), w, n)
           E == SubSeq(C, k + 1, U)
           F == SubSeq(C, 1, k)
           G == [i \in 1..k |-> m[r + i - 1]]
<1>1. U \in Nat /\ k <= U /\ Used(Advance(r, k, n), w, n) = U - k
  BY UsedFits, ReadCells
<1>2. C \in Seq(Data) /\ Len(C) = U /\ \A i \in 1..U : C[i] = m[Cell(r, n, i - 1)]
  BY ContentsType
<1>3. /\ D \in Seq(Data) /\ Len(D) = U - k
      /\ \A i \in 1..(U - k) : D[i] = m[Cell(Advance(r, k, n), n, i - 1)]
  BY <1>1, ContentsType
<1>4. /\ \A i \in 0..(k - 1) : Cell(r, n, i) = r + i
      /\ \A i \in 0..(U - k - 1) : Cell(Advance(r, k, n), n, i) = Cell(r, n, i + k)
  BY ReadCells
<1> HIDE DEF U, C, D
<1>a. \A i \in 1..U : C[i] \in Data
  BY <1>2
<1>5. /\ E \in Seq(Data) /\ Len(E) = U - k
      /\ \A i \in 1..(U - k) : E[i] = C[k + i]
  <2>1. \A i \in (k + 1)..U : C[i] \in Data
    BY <1>1, <1>a
  <2>2. /\ E \in Seq(Data) /\ Len(E) = IF k + 1 <= U THEN U - (k + 1) + 1 ELSE 0
        /\ \A i \in 1..(U - (k + 1) + 1) : E[i] = C[(k + 1) + i - 1]
    BY <1>1, <2>1, SubSeqProperties
  <2> HIDE DEF E
  <2>3. \A i \in 1..(U - k) : (k + 1) + i - 1 = k + i
    BY <1>1
  <2>4. QED
    BY <1>1, <2>2, <2>3
<1>6. /\ F \in Seq(Data) /\ Len(F) = k
      /\ \A i \in 1..k : F[i] = C[i]
  BY <1>1, <1>2
<1> HIDE DEF E, F
<1>7. D = E
  <2>1. ASSUME NEW i \in 1..(U - k) PROVE D[i] = E[i]
    <3>1. i - 1 \in 0..(U - k - 1) /\ k + i \in 1..U /\ (i - 1) + k = (k + i) - 1
      BY <1>1
    <3>2. Cell(Advance(r, k, n), n, i - 1) = Cell(r, n, (k + i) - 1)
      BY <1>4, <3>1
    <3>3. E[i] = C[k + i] /\ C[k + i] = m[Cell(r, n, (k + i) - 1)]
      BY <1>2, <1>5, <3>1
    <3>4. QED
      BY <1>3, <3>2, <3>3
  <2>2. QED
    BY <1>3, <1>5, <2>1, SeqEqual
<1>8. G = F
  <2>1. ASSUME NEW i \in 1..k PROVE m[r + i - 1] = C[i] /\ C[i] \in Data
    <3>1. i - 1 \in 0..(k - 1) /\ i \in 1..U
      BY <1>1
    <3>2. QED
      BY <1>2, <1>4, <1>a, <3>1
  <2>2. \A i \in 1..k : G[i] = C[i] /\ m[r + i - 1] \in Data
    BY <2>1
  <2>3. G \in Seq(Data) /\ Len(G) = k
    BY <2>2
  <2> HIDE DEF G
  <2>4. QED
    BY <1>6, <2>2, <2>3, SeqEqual
<1>9. QED
  BY <1>1, <1>2, <1>7, <1>8 DEF C, D, E, F, G

(* A ring that grew at its end, its unread cells kept, is a longer queue.  *)
LEMMA ContentsWrite ==
  ASSUME NEW n \in 0..MaxLen, NEW r \in RingPointers(n), NEW w \in RingPointers(n),
         NEW v \in RingPointers(n), NEW m \in Memory, NEW l \in Memory,
         Used(r, v, n) >= Used(r, w, n),
         \A i \in 0..(Used(r, w, n) - 1) : l[Cell(r, n, i)] = m[Cell(r, n, i)]
  PROVE  SubSeq(Contents(l, r, v, n), 1, Len(Contents(m, r, w, n)))
           = Contents(m, r, w, n)
<1> DEFINE U == Used(r, w, n)
           V == Used(r, v, n)
           C == Contents(m, r, w, n)
           D == Contents(l, r, v, n)
           E == SubSeq(D, 1, U)
<1>1. U \in Nat /\ V \in Nat /\ U <= V
  BY UsedFits
<1>2. C \in Seq(Data) /\ Len(C) = U /\ \A i \in 1..U : C[i] = m[Cell(r, n, i - 1)]
  BY ContentsType
<1>3. D \in Seq(Data) /\ Len(D) = V /\ \A i \in 1..V : D[i] = l[Cell(r, n, i - 1)]
  BY ContentsType
<1>4. \A i \in 1..U : l[Cell(r, n, i - 1)] = m[Cell(r, n, i - 1)]
  <2>1. ASSUME NEW i \in 1..U PROVE i - 1 \in 0..(U - 1)
    BY <1>1
  <2>2. QED
    BY <2>1
<1> HIDE DEF U, V, C, D
<1>5. E \in Seq(Data) /\ Len(E) = U /\ \A i \in 1..U : E[i] = D[i]
  BY <1>1, <1>3
<1> HIDE DEF E
<1>6. ASSUME NEW i \in 1..U PROVE E[i] = C[i]
  <2>1. i \in 1..V
    BY <1>1
  <2>2. QED
    BY <1>2, <1>3, <1>4, <1>5, <2>1
<1>7. E = C
  BY <1>2, <1>5, <1>6, SeqEqual
<1>8. QED
  BY <1>2, <1>7 DEF C, D, E

-----------------------------------------------------------------------------
(* Every step of the pipe is a step of the queue or a stutter.             *)

Users == {t \in Procs : HasOpen(t)}

FifoStep == [Fifo!Next]_(Fifo!vars)

(* A step of t leaves the other users of the pipe as they were.            *)
LEMMA UsersMove ==
  ASSUME Control, NEW t \in Procs, Step(t)
  PROVE  /\ Users' \ {t} = Users \ {t}
         /\ HasOpen(t)' = HasOpen(t) => Users' = Users
<1>1. \A u \in Procs \ {t} : op'[u] = op[u] /\ file'[u] = file[u]
  BY Others
<1>2. \A u \in Procs \ {t} : HasOpen(u)' <=> HasOpen(u)
  BY <1>1 DEF HasOpen
<1>3. QED
  BY <1>2 DEF Users

(* A call that moves no bytes is a stutter, a Leave if its file is gone,   *)
(* or a Join if a waiting open lets its reader in.                         *)
LEMMA StillRefines ==
  ASSUME Control, NEW t \in Procs, Step(t), UNCHANGED <<ring, got>>
  PROVE  FifoStep
<1>1. Unread' = Unread
  BY DEF Unread, ring
<1>2. CASE HasOpen(t) /\ ~HasOpen(t)'
  <2>1. t \in Users /\ Users' = Users \ {t}
    BY <1>2, UsersMove DEF Users
  <2>2. Fifo!Leave(t)
    BY <1>1, <2>1 DEF Fifo!Leave, Users
  <2>3. QED
    BY <2>2 DEF FifoStep, Fifo!Next
<1>3. CASE ~HasOpen(t) /\ HasOpen(t)'
  <2>1. t \notin Users /\ Users' = Users \cup {t}
    BY <1>3, UsersMove DEF Users
  <2>2. Fifo!Join(t)
    BY <1>1, <2>1 DEF Fifo!Join, Users
  <2>3. QED
    BY <2>2 DEF FifoStep, Fifo!Next
<1>4. CASE HasOpen(t) <=> HasOpen(t)'
  <2>1. Users' = Users
    BY <1>4, UsersMove DEF HasOpen
  <2>2. QED
    BY <1>1, <2>1 DEF FifoStep, Fifo!vars, Users
<1>5. QED
  BY <1>2, <1>3, <1>4

(* Apart from the opens that reset the ring, the release and the copies,   *)
(* no call moves a byte.                                                   *)
LEMMA StillSteps ==
  ASSUME NEW t \in Procs, Step(t), ~scull_p_open(t), ~ProperOpenWriter(t),
         ~scull_p_release(t), ~scull_p_read(t), ~WakeWriters(t), ~scull_p_write(t)
  PROVE  UNCHANGED <<ring, got>>
<1>1. CASE UserStep(t)
  BY <1>1 DEF UserStep, Open, Read, Write, Poll, Release, Call, scull_p_fasync, SetSize
<1>2. CASE MutexLock(t) \/ MutexInterrupted(t)
  BY <1>2 DEF MutexLock, MutexInterrupted
<1>3. CASE ProperOpenReader(t) \/ ProperOpenRetry(t) \/ WakeReaders(t) \/ PrepareToWait(t)
           \/ CheckWriters(t)
  BY <1>3 DEF ProperOpenReader, ProperOpenRetry, WakeReaders, PrepareToWait, CheckWriters
<1>4. CASE LoadPointer(t) \/ CheckData(t) \/ DivideError(t) \/ CheckSpace(t)
  BY <1>4 DEF LoadPointer, CheckData, DivideError, CheckSpace
<1>5. CASE Awake(t) \/ AwakeWriter(t) \/ scull_p_poll(t) \/ AwakePoller(t)
  BY <1>5 DEF Awake, AwakeWriter, scull_p_poll, AwakePoller
<1>6. QED
  BY <1>1, <1>2, <1>3, <1>4, <1>5 DEF Step, KernelStep

(* scull_p_open, and a writer's scull_p_proper_open, join and empty the    *)
(* queue, or fail.                                                         *)
LEMMA OpenRefines ==
  ASSUME BufferInv, NEW t \in Procs, scull_p_open(t) \/ ProperOpenWriter(t)
  PROVE  FifoStep
<1>1. Control /\ Step(t) /\ Ring
  BY Groups DEF BufferInv, Step, KernelStep
<1>2. ~HasOpen(t) /\ op'[t] = "none" /\ file[t] # NoFile /\ UNCHANGED got
  BY <1>1 DEF scull_p_open, ProperOpenWriter, In, HasOpen, Return, Goto, Control, BufferInv, FileInv
<1>3. CASE ResetBuffer /\ UNCHANGED file
  <2>1. HasOpen(t)'
    BY <1>2, <1>3 DEF HasOpen
  <2>2. Users' = Users \cup {t} /\ t \notin Users
    BY <1>1, <1>2, <2>1, UsersMove DEF Users
  <2>3. Unread' = <<>>
    <3>1. Used(0, 0, buf_len') = 0
      BY DEF Used
    <3>2. Contents(mem', 0, 0, buf_len') = <<>>
      BY <3>1 DEF Contents
    <3>3. QED
      BY <1>3, <3>2 DEF ResetBuffer, Unread
  <2>4. Fifo!Join(t)
    BY <1>2, <2>2, <2>3 DEF Fifo!Join, Users
  <2>5. QED
    BY <2>4 DEF FifoStep, Fifo!Next
<1>4. CASE Close(t) /\ UNCHANGED ring
  BY <1>1, <1>2, <1>4, StillRefines
<1>5. QED
  BY <1>3, <1>4 DEF scull_p_open, ProperOpenWriter

(* scull_p_release leaves; it frees the buffer only if it is the last.     *)
LEMMA ReleaseRefines ==
  ASSUME BufferInv, RingInv', Cover', NEW t \in Procs, scull_p_release(t)
  PROVE  FifoStep
<1>1. Control /\ Step(t)
  BY Groups DEF BufferInv, Step, KernelStep
<1>2. HasOpen(t) /\ ~HasOpen(t)' /\ UNCHANGED <<got, buf_len, rp, wp, mem>>
  BY <1>1 DEF scull_p_release, In, HasOpen, Close, Control, BufferInv, FileInv
<1>3. CASE buf' = buf
  <2>1. UNCHANGED <<ring, got>>
    BY <1>2, <1>3 DEF ring
  <2>2. QED
    BY <1>1, <1>2, <2>1, StillRefines
<1>4. CASE buf' # buf
  <2>1. buf' = Null /\ (readers' + writers') % SizeMod = 0
    BY <1>4 DEF scull_p_release
  <2>2. Control' /\ Counting'
    BY Groups, PTL
  <2>3. Freed'
    <3>1. readers' \in Nat /\ writers' \in Nat
      BY <2>2 DEF Counting
    <3>2. QED
      BY <2>1, <3>1 DEF Freed
  <2>4. Unused'
    BY <2>2, <2>3, FreedIsUnused, PTL
  <2>5. Users' = {} /\ Unread' = <<>>
    BY <2>1, <2>4 DEF Users, Unused, Unread
  <2>6. t \in Users /\ Users' = Users \ {t}
    BY <1>1, <1>2, UsersMove DEF Users
  <2>7. Fifo!Leave(t)
    BY <1>2, <2>5, <2>6 DEF Fifo!Leave, Users
  <2>8. QED
    BY <2>7 DEF FifoStep, Fifo!Next
<1>5. QED
  BY <1>3, <1>4

(* scull_p_read receives a prefix of the queue, or nothing happens.        *)
LEMMA ReadRefines ==
  ASSUME ~EarlyCount, BufferInv, NEW t \in Procs, scull_p_read(t)
  PROVE  FifoStep
<1>1. Control /\ Step(t) /\ Ring
  BY Groups DEF BufferInv, Step, KernelStep
<1>2. HasOpen(t) /\ buf # Null /\ file' = file
  BY DEF scull_p_read, HasOpen, BufferInv, FileInv
<1>3. op'[t] \notin {"open", "reopen"}
  BY <1>1 DEF scull_p_read, ReadLoop, Return, Goto, Control
<1>4. HasOpen(t)'
  BY <1>2, <1>3 DEF HasOpen
<1>5. CASE UNCHANGED <<ring, got>>
  BY <1>1, <1>2, <1>5, StillRefines
<1>6. ASSUME rp # wp, NEW count \in Counts,
             got' = [got EXCEPT ![t] =
               [i \in 1..ReadCount(rp, wp, buf_len, count) |-> mem[rp + i - 1]]],
             rp' = Advance(rp, ReadCount(rp, wp, buf_len, count), buf_len),
             UNCHANGED <<buf, buf_len, wp, mem>>
      PROVE  FifoStep
  <2> DEFINE k == ReadCount(rp, wp, buf_len, count)
  <2>1. /\ buf_len \in 0..MaxLen /\ rp \in RingPointers(buf_len)
        /\ wp \in RingPointers(buf_len) /\ mem \in Memory
    BY <1>1 DEF Ring, RingOK, Memory
  <2>2. k \in Nat /\ Advance(rp, k, buf_len) \in RingPointers(buf_len)
    BY <1>6, <2>1, ReadStaysInRing
  <2>3. k <= IF wp > rp THEN wp - rp ELSE buf_len - rp
    <3>1. count \in Nat /\ rp \in Nat /\ wp \in Nat /\ buf_len \in Nat
      BY <2>1, PipeAssumption DEF RingPointers
    <3>2. QED
      BY <3>1 DEF ReadCount, min_t
  <2> HIDE DEF k
  <2>4. /\ k \in 0..Len(Contents(mem, rp, wp, buf_len))
        /\ [i \in 1..k |-> mem[rp + i - 1]]
             = SubSeq(Contents(mem, rp, wp, buf_len), 1, k)
        /\ Contents(mem, Advance(rp, k, buf_len), wp, buf_len)
             = SubSeq(Contents(mem, rp, wp, buf_len), k + 1,
                      Len(Contents(mem, rp, wp, buf_len)))
    BY <1>6, <2>1, <2>2, <2>3, ContentsRead
  <2>5. /\ Unread = Contents(mem, rp, wp, buf_len)
        /\ Unread' = Contents(mem, Advance(rp, k, buf_len), wp, buf_len)
    BY <1>2, <1>6 DEF Unread, k
  <2>6. got' = [got EXCEPT ![t] = [i \in 1..k |-> mem[rp + i - 1]]]
    BY <1>6 DEF k
  <2>7. Users' = Users /\ t \in Users
    BY <1>1, <1>2, <1>4, UsersMove DEF Users
  <2>8. /\ k \in 0..Len(Unread) /\ got' = [got EXCEPT ![t] = SubSeq(Unread, 1, k)]
        /\ Unread' = SubSeq(Unread, k + 1, Len(Unread))
    BY <2>4, <2>5, <2>6
  <2>9. Fifo!Receive(t)
    BY <2>7, <2>8 DEF Fifo!Receive, Users
  <2>10. QED
    BY <2>9 DEF FifoStep, Fifo!Next
<1>7. QED
  BY <1>5, <1>6 DEF scull_p_read, ReadLoop

(* scull_p_write appends to the queue; a faulting copy only touches cells  *)
(* that hold no unread byte.                                               *)
LEMMA WriteRefines ==
  ASSUME ~EarlyCount, BufferInv, RingInv', NEW t \in Procs, scull_p_write(t)
  PROVE  FifoStep
<1>1. Control /\ Step(t) /\ Ring
  BY Groups DEF BufferInv, Step, KernelStep
<1>2. HasOpen(t) /\ buf # Null /\ file' = file /\ UNCHANGED <<got, buf, buf_len, rp>>
  BY DEF scull_p_write, In, HasOpen, BufferInv, FileInv
<1>3. HasOpen(t)'
  <2>1. op'[t] \notin {"open", "reopen"}
    BY <1>1 DEF scull_p_write, Return, Goto, Control
  <2>2. QED
    BY <1>2, <2>1 DEF HasOpen
<1>4. CASE UNCHANGED <<wp, mem>>
  <2>1. UNCHANGED <<ring, got>>
    BY <1>2, <1>4 DEF ring
  <2>2. QED
    BY <1>1, <1>2, <2>1, StillRefines
<1>5. ASSUME NEW count \in Counts,
             NEW s \in [1..WriteCount(rp, wp, buf_len, count) -> Data],
             StoreAt(wp, WriteCount(rp, wp, buf_len, count), s),
             wp' \in {wp, Advance(wp, WriteCount(rp, wp, buf_len, count), buf_len)}
      PROVE  FifoStep
  <2> DEFINE k == WriteCount(rp, wp, buf_len, count)
  <2>1. /\ buf_len \in 0..MaxLen /\ rp \in RingPointers(buf_len)
        /\ wp \in RingPointers(buf_len) /\ mem \in Memory
    BY <1>1 DEF Ring, RingOK, Memory
  <2>2. wp' \in RingPointers(buf_len) /\ mem' \in Memory
    BY <1>2 DEF RingInv, TypeOK, RingOK, Memory
  <2>3. k \in Nat /\ wp + k <= buf_len
    BY <2>1, WriteStaysInRing
  <2>4. count \in Nat /\ rp \in Nat /\ wp \in Nat /\ buf_len \in Nat
    BY <2>1, Bounds, PipeAssumption DEF RingPointers
  <2>5. spacefree(rp, wp, buf_len) \in Nat
    BY <2>1, SpacefreeType
  <2>6. /\ k <= spacefree(rp, wp, buf_len)
        /\ k <= IF wp >= rp THEN buf_len - wp ELSE rp - wp - 1
    BY <2>4, <2>5 DEF WriteCount, min_t
  <2>7. \A i \in 0..(MaxLen - 1) : i \notin wp..(wp + k - 1) => mem'[i] = mem[i]
    BY <1>5, <2>1 DEF StoreAt, Memory
  <2>8. wp' = wp \/ wp' = Advance(wp, k, buf_len)
    BY <1>5
  <2> HIDE DEF k
  <2>9. CASE buf_len = 0
    <3>1. wp = 0 /\ k = 0
      BY <2>1, <2>3, <2>4, <2>9 DEF RingPointers
    <3>2. wp' = wp
      BY <2>8, <2>9, <3>1 DEF Advance
    <3>3. \A i \in 0..(MaxLen - 1) : mem'[i] = mem[i]
      BY <2>7, <3>1
    <3>4. mem' = mem
      BY <2>1, <2>2, <3>3, SameMemory
    <3>5. QED
      BY <1>4, <3>2, <3>4
  <2>10. CASE buf_len # 0
    <3> DEFINE U == Used(rp, wp, buf_len)
               V == Used(rp, wp', buf_len)
    <3>1. buf_len \in 1..MaxLen
      BY <2>1, <2>10
    <3>2. k <= buf_len - 1 - U
      BY <2>1, <2>6, <3>1, SpacefreeIs
    <3>3. /\ Used(rp, Advance(wp, k, buf_len), buf_len) = U + k
          /\ \A i \in 0..(U - 1) : Cell(rp, buf_len, i) \notin wp..(wp + k - 1)
      BY <2>1, <2>3, <2>6, <3>1, <3>2, WriteCells
    <3>4. U \in Nat /\ V \in Nat /\ V <= buf_len - 1
          /\ \A i \in 0..(U - 1) : Cell(rp, buf_len, i) \in 0..(buf_len - 1)
      BY <2>1, <2>2, <3>1, UsedFits
    <3>5. V >= U
      BY <2>3, <2>8, <3>3, <3>4
    <3>6. ASSUME NEW i \in 0..(U - 1)
          PROVE  mem'[Cell(rp, buf_len, i)] = mem[Cell(rp, buf_len, i)]
      <4>1. Cell(rp, buf_len, i) \in 0..(MaxLen - 1)
        BY <3>1, <3>4, Bounds
      <4>2. QED
        BY <2>7, <3>3, <4>1
    <3>7. SubSeq(Contents(mem', rp, wp', buf_len), 1,
                 Len(Contents(mem, rp, wp, buf_len))) = Contents(mem, rp, wp, buf_len)
      <4>1. \A i \in 0..(Used(rp, wp, buf_len) - 1) :
              mem'[Cell(rp, buf_len, i)] = mem[Cell(rp, buf_len, i)]
        BY <3>6
      <4>2. QED
        BY <2>1, <2>2, <3>5, <4>1, ContentsWrite, ZenonT(20)
    <3>8. /\ Len(Contents(mem, rp, wp, buf_len)) = U
          /\ Len(Contents(mem', rp, wp', buf_len)) = V
      BY <2>1, <2>2, ContentsType
    <3>9. /\ Unread = Contents(mem, rp, wp, buf_len)
          /\ Unread' = Contents(mem', rp, wp', buf_len)
      BY <1>2 DEF Unread
    <3>10. V \in U..(MaxLen - 1)
      BY <3>1, <3>4, <3>5, Bounds
    <3> HIDE DEF U, V
    <3>11. /\ Len(Unread') \in Len(Unread)..(MaxLen - 1)
           /\ SubSeq(Unread', 1, Len(Unread)) = Unread
      BY <3>7, <3>8, <3>9, <3>10
    <3>12. Users' = Users
      BY <1>1, <1>2, <1>3, UsersMove
    <3>13. Fifo!Send
      BY <1>2, <3>11, <3>12 DEF Fifo!Send, Users
    <3>14. QED
      BY <3>13 DEF FifoStep, Fifo!Next
  <2>11. QED
    BY <2>9, <2>10
<1>6. QED
  BY <1>4, <1>5 DEF scull_p_write

(* Every step of every process, with the invariant of the counts.          *)
LEMMA StepRefines ==
  ASSUME ~EarlyCount, BufferInv, BufferInv', NEW t \in Procs, Step(t)
  PROVE  FifoStep
<1>1. Control /\ FileInv(t)
  BY Groups DEF BufferInv
<1>2. CASE scull_p_open(t) \/ ProperOpenWriter(t)
  BY <1>2, OpenRefines
<1>3. CASE scull_p_release(t)
  BY <1>3, ReleaseRefines DEF BufferInv
<1>4. CASE scull_p_read(t)
  BY <1>4, ReadRefines
<1>5. CASE scull_p_write(t)
  BY <1>5, WriteRefines DEF BufferInv
<1>6. CASE WakeWriters(t)
  <2>1. HasOpen(t) /\ HasOpen(t)' /\ UNCHANGED ring
    BY <1>1, <1>6 DEF WakeWriters, HasOpen, FileInv, Return, Goto, Control
  <2>2. Users' = Users /\ Unread' = Unread
    BY <1>1, <2>1, UsersMove DEF Unread, ring
  <2>3. Fifo!Finish(t)
    BY <1>6, <2>2 DEF WakeWriters, Fifo!Finish, Users
  <2>4. QED
    BY <2>3 DEF FifoStep, Fifo!Next
<1>7. CASE ~(scull_p_open(t) \/ ProperOpenWriter(t) \/ scull_p_release(t)
             \/ scull_p_read(t) \/ scull_p_write(t) \/ WakeWriters(t))
  <2>1. UNCHANGED <<ring, got>>
    BY <1>7, StillSteps
  <2>2. QED
    BY <1>1, <2>1, StillRefines
<1>8. QED
  BY <1>2, <1>3, <1>4, <1>5, <1>6, <1>7

(* SCULL_P_IOCTSIZE changes nothing.  With another length an open would    *)
(* record it for the buffer in use, and mem would stand for bytes nobody   *)
(* allocated.                                                              *)
FixedLen == PLens \subseteq {InitLen}

WithinBuffer == buf # Null => buf_len = buf

FixedInv == scull_p_len = InitLen /\ (buf # Null => buf = InitLen /\ buf_len = InitLen)

(* With one length only, the ring is as long as its allocation.            *)
LEMMA FixedInvStep ==
  ASSUME FixedLen PROVE FixedInv /\ [Next]_vars => FixedInv'
<1> SUFFICES ASSUME FixedInv, [Next]_vars PROVE FixedInv'
  OBVIOUS
<1> USE DEF FixedInv
<1>1. CASE UNCHANGED vars
  BY <1>1 DEF vars, ring
<1>2. ASSUME NEW t \in Procs, Step(t) PROVE FixedInv'
  <2>1. CASE SetSize(t)
    BY <2>1 DEF SetSize, FixedLen, ring
  <2>2. CASE Loud(t)
    BY <2>2 DEF Loud, scull_p_open, ProperOpenReader, ProperOpenWriter,
                ResetBuffer, scull_p_release, ring
  <2>3. CASE scull_p_read(t) \/ WakeWriters(t) \/ scull_p_write(t)
    BY <2>3 DEF scull_p_read, ReadLoop, WakeWriters, scull_p_write, ring
  <2>4. CASE UNCHANGED <<ring, scull_p_len>>
    BY <2>4 DEF ring
  <2>5. CASE ~(SetSize(t) \/ Loud(t) \/ scull_p_read(t) \/ WakeWriters(t)
               \/ scull_p_write(t))
    <3>1. UNCHANGED ring
      BY <1>2, <2>5, StillSteps DEF Loud
    <3>2. scull_p_len' = scull_p_len
      BY <1>2, <2>5 DEF Step, UserStep, KernelStep, Loud, Open, Read, Write, Poll,
         Release, Call, scull_p_fasync, MutexLock, MutexInterrupted, ProperOpenRetry,
         WakeReaders, PrepareToWait, CheckWriters, LoadPointer, CheckData,
         DivideError, CheckSpace, Awake, AwakeWriter, scull_p_poll, AwakePoller
    <3>3. QED
      BY <2>4, <3>1, <3>2
  <2>6. QED
    BY <2>1, <2>2, <2>3, <2>5
<1>3. QED
  BY <1>1, <1>2 DEF Next, Step

(* A pipe is a FIFO, a default one whatever fails, a proper one as long as *)
(* no allocation does.  Whatever readers, writers, opens, closes, faults   *)
(* and signals do, in any number and order, read() hands out the bytes of  *)
(* write() once and in order, and bytes are dropped only when an open      *)
(* resets the ring or the last close frees it.  All of it happens within   *)
(* the allocated buffer.                                                   *)
THEOREM FifoCorrect ==
  ASSUME NoProperRdwr, ~EarlyCount, FixedLen
  PROVE  Spec => FifoSpec /\ []WithinBuffer
<1>1. Init => Fifo!Init
  BY DEF Init, Fifo!Init, HasOpen, Unread
<1>2. BufferInv /\ [Next]_vars => BufferInv'
  BY BufferInvStep
<1>3. BufferInv /\ BufferInv' /\ [Next]_vars => [Fifo!Next]_(Fifo!vars)
  <2> SUFFICES ASSUME BufferInv, BufferInv', [Next]_vars
               PROVE  [Fifo!Next]_(Fifo!vars)
    OBVIOUS
  <2>1. CASE UNCHANGED vars
    BY <2>1 DEF vars, ring, Fifo!vars, HasOpen, Unread
  <2>2. ASSUME NEW t \in Procs, Step(t) PROVE [Fifo!Next]_(Fifo!vars)
    BY <2>2, StepRefines DEF FifoStep
  <2>3. QED
    BY <2>1, <2>2 DEF Next, Step
<1>4. Init => FixedInv
  BY DEF Init, FixedInv
<1>5. FixedInv => WithinBuffer
  BY DEF FixedInv, WithinBuffer
<1>6. FixedInv /\ [Next]_vars => FixedInv'
  BY FixedInvStep
<1>7. QED
  BY <1>1, <1>2, <1>3, <1>4, <1>5, <1>6, BufferInvInit, PTL
  DEF Spec, FifoSpec, Fifo!Spec
=============================================================================
