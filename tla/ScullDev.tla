------------------------------ MODULE ScullDev ------------------------------
(***************************************************************************)
(* A bare scull device (scull/main.c), the quantum ioctls that reconfigure *)
(* it (scull/ioctl.c) and its /proc listing (scull/proc.c).                *)
(*                                                                         *)
(* dev->qset is a list of nodes; a node holds no array (NoData) or an      *)
(* array of pointers to objects of the cache kmc, of ObjSize bytes each.   *)
(* What happens under dev->lock is one step.  ioctls take no lock: each of *)
(* their loads and stores of the two globals is a step.                    *)
(*                                                                         *)
(* Positions and counts are the caller's choice: read and write continue   *)
(* where the file is, pread and pwrite may name any position.              *)
(***************************************************************************)
EXTENDS Integers, Sequences, FiniteSets

CONSTANTS
  Procs,             \* processes in ioctl(2)
  Objs,              \* objects kmc may hand out
  Data, Junk,        \* byte values, and a byte nobody stored
  Null, NoData,      \* an empty slot; a node without an array
  NoOut,             \* no read result
  Positions, Counts, \* positions and byte counts user space asks for
  MaxPosition,       \* bound on the positions
  QuantumInit, QsetInit,        \* scull_quantum and scull_qset at load time
  SCULL_QUANTUM, SCULL_QSET,    \* what SCULL_IOCRESET restores
  QArgs,             \* quanta the ioctls are called with
  MaxQuantum, MaxQset,          \* bounds on all of these
  PrintMax,          \* bytes of a quantum /proc prints at most (500)
  SizeMod,           \* number of values of a size_t
  MayFail, MayFault  \* whether allocations and user copies may fail

ObjSize == QuantumInit

Quanta == {0, QuantumInit, SCULL_QUANTUM} \cup QArgs

ASSUME DevAssumption ==
  /\ Null \notin Objs /\ Junk \notin Data
  /\ \A n \in 1..MaxQset : NoData \notin [0..(n - 1) -> Objs \cup {Null}]
  /\ Positions \subseteq 0..MaxPosition /\ MaxPosition \in Nat /\ Counts \subseteq Nat
  /\ QuantumInit \in Nat \ {0} /\ SCULL_QUANTUM \in Nat \ {0}
  /\ QArgs \subseteq Nat /\ MaxQuantum \in Nat /\ PrintMax \in Nat
  /\ \A n \in Quanta : n <= MaxQuantum
  /\ {QsetInit, SCULL_QSET} \subseteq (1..MaxQset) /\ MaxQset \in Nat
  /\ SizeMod \in Nat \ {0}
  /\ {MayFail, MayFault} \subseteq BOOLEAN

VARIABLES
  scull_quantum, scull_qset,          \* globals
  qset, quantum_len, qset_len, len,   \* the device
  live, mem,        \* objects allocated from kmc, and their bytes
  wedged,           \* a division by zero ended the holder of dev->lock
  overrun,          \* history: a byte outside an object was touched
  out,              \* the read that just ended, if that was the last step
  pc, tmp           \* the ioctl each process is in, and its local variable

globals == <<scull_quantum, scull_qset>>
dev == <<qset, quantum_len, qset_len, len>>
heap == <<live, mem>>
ioctls == <<pc, tmp>>
vars == <<globals, dev, heap, wedged, overrun, out, ioctls>>

Fresh == [i \in 0..(MaxQuantum - 1) |-> Junk]

min_t(a, b) == IF a < b THEN a ELSE b

Init ==
  /\ scull_quantum = QuantumInit /\ scull_qset = QsetInit
  /\ qset = <<>> /\ len = 0
  /\ quantum_len = QuantumInit /\ qset_len = QsetInit
  /\ live = {} /\ mem = [o \in Objs |-> Fresh]
  /\ wedged = FALSE /\ overrun = FALSE
  /\ out = NoOut
  /\ pc = [t \in Procs |-> "user"] /\ tmp = [t \in Procs |-> 0]

-----------------------------------------------------------------------------
(* __scull_follow                                                          *)

total_len == (quantum_len * qset_len) % SizeMod

qset_p(p) == p \div total_len
quantum_p(p) == (p % total_len) \div quantum_len
offset_p(p) == (p % total_len) % quantum_len

(* The list with j more nodes, and how many a walk to p has to add.        *)
Longer(j) == qset \o [i \in 1..j |-> NoData]
Missing(p) == IF qset_p(p) < Len(qset) THEN 0 ELSE qset_p(p) + 1 - Len(qset)

Array(q, p) == q[qset_p(p) + 1]
Quantum(q, p) == IF Array(q, p) = NoData THEN Null ELSE Array(q, p)[quantum_p(p)]

(* The nodes a walk adds: fewer than it misses if kcalloc fails on the way.*)
Walk(p) == IF MayFail THEN 0..Missing(p) ELSE {Missing(p)}

-----------------------------------------------------------------------------
(* File operations, each under dev->lock.                                  *)

NoLen == UNCHANGED <<quantum_len, qset_len, globals, ioctls>>

(* kmem_cache_free_bulk is told of one slot less than the array has.       *)
Freed ==
  UNION {{a[i] : i \in {j \in 0..(qset_len - 2) : a[j] # Null}} :
           a \in {qset[n] : n \in {m \in DOMAIN qset : qset[m] # NoData}}}

TrimKeepsList == live' = live \ Freed /\ len' = 0 /\ UNCHANGED <<qset, mem>>

TrimKeepsLen ==
  live' = live \ Freed /\ mem' = [o \in Objs |-> Fresh] /\ qset' = <<>> /\ UNCHANGED len

FreeList ==
  /\ live' = live \ Freed
  /\ mem' = [o \in Objs |-> Fresh]
  /\ len' = 0
  /\ qset' = <<>>

AdoptLens == quantum_len' = scull_quantum /\ qset_len' = scull_qset

__scull_trim == FreeList /\ AdoptLens

(* Only a write-only open trims; the others change nothing.                *)
scull_open ==
  /\ ~wedged
  /\ __scull_trim
  /\ out' = NoOut
  /\ UNCHANGED <<globals, wedged, overrun, ioctls>>

DivideError ==
  /\ wedged' = TRUE /\ out' = NoOut
  /\ UNCHANGED <<qset, len, heap, overrun>>

RoomIgnoresOffset(p) == quantum_len

(* Bytes from p to the end of its quantum.                                 *)
Room(p) == quantum_len - offset_p(p)

(* Up to the end of the quantum; a hole ends the read with 0 bytes.        *)
ReadAt(p, count) ==
  \E j \in Walk(p) :
    LET o == IF j < Missing(p) THEN Null ELSE Quantum(Longer(j), p)
        k == min_t(min_t(count, len - p), Room(p)) IN
    /\ qset' = Longer(j)
    /\ \/ /\ o = Null \/ MayFault
          /\ out' = NoOut /\ UNCHANGED overrun
       \/ /\ o # Null
          /\ out' = [pos |-> p,
                     bytes |-> [i \in 1..k |-> mem[o][offset_p(p) + i - 1]]]
          /\ overrun' = (overrun \/ offset_p(p) + k > ObjSize)

scull_read ==
  /\ ~wedged
  /\ \E p \in Positions :
       \/ p >= len /\ out' = NoOut /\ UNCHANGED <<dev, heap, wedged, overrun>>
       \/ /\ p < len
          /\ IF total_len = 0
             THEN DivideError
             ELSE /\ \E count \in Counts : ReadAt(p, count)
                  /\ UNCHANGED <<len, heap, wedged>>
  /\ NoLen

StoredAtStart(bytes, at, s) ==
  [i \in DOMAIN bytes |-> IF i < Len(s) THEN s[i + 1] ELSE bytes[i]]

Stored(bytes, at, s) ==
  [i \in DOMAIN bytes |-> IF i \in at..(at + Len(s) - 1) THEN s[i - at + 1]
                                                       ELSE bytes[i]]

(* Every allocation may fail and leaves what was allocated before it.  A   *)
(* faulting copy changes the bytes but neither the position nor len.       *)
WriteAt(p, count) ==
  LET q == Longer(Missing(p))
      n == qset_p(p) + 1
      d == IF q[n] # NoData THEN q
           ELSE [q EXCEPT ![n] = [i \in 0..(qset_len - 1) |-> Null]]
      o == Quantum(d, p)
      k == min_t(count, Room(p)) IN
  \/ /\ \E j \in Walk(p) \ {Missing(p)} : qset' = Longer(j)
     /\ UNCHANGED <<len, heap, overrun>>
  \/ MayFail /\ q[n] = NoData /\ qset' = q /\ UNCHANGED <<len, heap, overrun>>
  \/ MayFail /\ o = Null /\ qset' = d /\ UNCHANGED <<len, heap, overrun>>
  \/ \E x \in (IF o = Null THEN Objs \ live ELSE {o}), s \in [1..k -> Data] :
       /\ qset' = [d EXCEPT ![n][quantum_p(p)] = x]
       /\ live' = live \cup {x}
       /\ mem' = [mem EXCEPT ![x] =
                    Stored(IF o = Null THEN Fresh ELSE @, offset_p(p), s)]
       /\ len' \in IF MayFault THEN {len, IF len < p + k THEN p + k ELSE len}
                               ELSE {IF len < p + k THEN p + k ELSE len}
       /\ overrun' = (overrun \/ offset_p(p) + k > ObjSize)

scull_write ==
  /\ ~wedged
  /\ \E p \in Positions :
       \/ total_len = 0 /\ DivideError
       \/ /\ total_len # 0
          /\ \E count \in Counts : WriteAt(p, count)
          /\ out' = NoOut
          /\ UNCHANGED wedged
  /\ NoLen

(* /proc/scullmem prints the quanta of the last node, without their size.  *)
scull_seq_show ==
  /\ ~wedged
  /\ overrun' = \/ overrun
                \/ /\ qset # <<>> /\ qset[Len(qset)] # NoData
                   /\ \E i \in 0..(qset_len - 1) : qset[Len(qset)][i] # Null
                   /\ min_t(len, PrintMax) > ObjSize
  /\ out' = NoOut
  /\ UNCHANGED <<globals, dev, heap, wedged, ioctls>>

-----------------------------------------------------------------------------
(* ioctl, without any lock.  Reading the globals (G, Q) changes nothing.   *)

Ioctl(t, from, to) ==
  /\ pc[t] = from /\ pc' = [pc EXCEPT ![t] = to]
  /\ out' = NoOut
  /\ UNCHANGED <<dev, heap, wedged, overrun>>

(* SCULL_IOCRESET: two plain stores, in the order the compiler likes.      *)
ResetFirst(t) ==
  /\ \/ /\ Ioctl(t, "user", "reset qset")
        /\ scull_quantum' = SCULL_QUANTUM /\ UNCHANGED scull_qset
     \/ /\ Ioctl(t, "user", "reset quantum")
        /\ scull_qset' = SCULL_QSET /\ UNCHANGED scull_quantum
  /\ UNCHANGED tmp

ResetSecond(t) ==
  /\ \/ /\ Ioctl(t, "reset qset", "user")
        /\ scull_qset' = SCULL_QSET /\ UNCHANGED scull_quantum
     \/ /\ Ioctl(t, "reset quantum", "user")
        /\ scull_quantum' = SCULL_QUANTUM /\ UNCHANGED scull_qset
  /\ UNCHANGED tmp

(* __get_user sets its target to 0 when it faults.                         *)
Fetched == QArgs \cup (IF MayFault THEN {0} ELSE {})

(* SCULL_IOCSQUANTUM and SCULL_IOCTQUANTUM.                                *)
SetQuantum(t) ==
  /\ Ioctl(t, "user", "user")
  /\ scull_quantum' \in Fetched
  /\ UNCHANGED <<scull_qset, tmp>>

(* SCULL_IOCXQUANTUM and SCULL_IOCHQUANTUM: load, then store.              *)
ExchangeLoad(t) ==
  /\ Ioctl(t, "user", "exchange")
  /\ tmp' = [tmp EXCEPT ![t] = scull_quantum]
  /\ UNCHANGED globals

ExchangeStore(t) ==
  /\ Ioctl(t, "exchange", "user")
  /\ scull_quantum' \in Fetched
  /\ tmp' = [tmp EXCEPT ![t] = 0]
  /\ UNCHANGED scull_qset

-----------------------------------------------------------------------------
Next ==
  \/ scull_open \/ scull_read \/ scull_write \/ scull_seq_show
  \/ \E t \in Procs : ResetFirst(t) \/ ResetSecond(t) \/ SetQuantum(t)
                      \/ ExchangeLoad(t) \/ ExchangeStore(t)

Spec == Init /\ [][Next]_vars
-----------------------------------------------------------------------------
Arrays == {n \in DOMAIN qset : qset[n] # NoData}
Slots == UNION {{<<n, i>> : i \in {j \in DOMAIN qset[n] : qset[n][j] # Null}} : n \in Arrays}

TypeOK ==
  /\ scull_quantum \in Quanta /\ scull_qset \in {QsetInit, SCULL_QSET}
  /\ quantum_len \in Quanta /\ qset_len \in {QsetInit, SCULL_QSET}
  /\ len \in Nat
  /\ \A n \in Arrays : \A i \in DOMAIN qset[n] : qset[n][i] \in Objs \cup {Null}
  /\ live \subseteq Objs
  /\ mem \in [Objs -> [0..(MaxQuantum - 1) -> Data \cup {Junk}]]
  /\ wedged \in BOOLEAN /\ overrun \in BOOLEAN
  /\ pc \in [Procs -> {"user", "reset qset", "reset quantum", "exchange"}]
  /\ tmp \in [Procs -> Quanta]

(* Every pointer array has the qset_len slots the index arithmetic, the    *)
(* /proc loop and the bulk free take it to have, whatever ioctls did to    *)
(* the globals since it was allocated.                                     *)
ArraysFit == \A n \in Arrays : DOMAIN qset[n] = 0..(qset_len - 1)

(* Every stored pointer is to an object still allocated, and no two slots  *)
(* share one: nothing is used after it was freed or freed twice.           *)
Owned ==
  /\ \A s \in Slots : qset[s[1]][s[2]] \in live
  /\ \A s, r \in Slots : qset[s[1]][s[2]] = qset[r[1]][r[2]] => s = r

(* No read, write or listing touches a byte outside its object while the   *)
(* quantum stays within the size the cache was made for.                   *)
NoOverrun == ~overrun

(* A read never divides by zero: a quantum of 0, from an ioctl or a fault  *)
(* in one, reaches the device only while it is empty, and no write gets    *)
(* past the division to make it longer.                                    *)
ReadsDivide == len > 0 => total_len # 0

(* A read never grows the list although it walks it with the function that *)
(* allocates: a position below len was reached by a write before.          *)
ReadsAllocateNothing == [][scull_read => UNCHANGED qset]_vars

(* The device is the array of bytes SparseFile describes.                  *)
Top == MaxPosition + MaxQuantum

ByteAt(p) ==
  IF total_len = 0 \/ qset_p(p) >= Len(qset) THEN Junk
  ELSE LET o == Quantum(qset, p) IN IF o = Null THEN Junk ELSE mem[o][offset_p(p)]

File == INSTANCE SparseFile
          WITH content <- [p \in 0..(Top - 1) |-> ByteAt(p)], size <- len,
               Unset <- Junk

FileSpec == File!Spec

(* __scull_trim is to "empty out" the device: nothing stays allocated that *)
(* no slot refers to.                                                      *)
TrimFreesAll == live \subseteq {qset[s[1]][s[2]] : s \in Slots}

=============================================================================
