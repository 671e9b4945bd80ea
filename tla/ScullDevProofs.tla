--------------------------- MODULE ScullDevProofs ---------------------------
(***************************************************************************)
(* Theorems about ScullDev.                                                *)
(***************************************************************************)
EXTENDS ScullDev, TLAPS, SequenceTheorems

-----------------------------------------------------------------------------
(* Arithmetic of positions.                                                *)

(* Quotient and remainder.                                                 *)
LEMMA DivMod ==
  ASSUME NEW p \in Nat, NEW N \in Nat \ {0}
  PROVE  /\ p \div N \in Nat /\ p % N \in 0..(N - 1)
         /\ p = N * (p \div N) + (p % N)
  OBVIOUS

(* Products grow with their factors.                                       *)
LEMMA TimesMono ==
  ASSUME NEW N \in Nat, NEW a \in Nat, NEW b \in Nat, a <= b
  PROVE  N * a <= N * b /\ N * a \in Nat /\ N * (a + 1) = N * a + N
  OBVIOUS

(* The quotient and the remainder are the only such numbers.               *)
LEMMA DivUnique ==
  ASSUME NEW N \in Nat \ {0}, NEW a \in Nat, NEW r \in 0..(N - 1)
  PROVE  (N * a + r) \div N = a /\ (N * a + r) % N = r
<1> DEFINE x == N * a + r
           q == x \div N
<1>1. x \in Nat /\ q \in Nat /\ x = N * q + (x % N) /\ x % N \in 0..(N - 1)
  <2>1. x \in Nat
    BY TimesMono
  <2>2. QED
    BY <2>1, DivMod
<1> HIDE DEF q
<1>2. CASE q < a
  <2>1. N * (q + 1) <= N * a /\ N * (q + 1) = N * q + N
    BY <1>1, <1>2, TimesMono
  <2>2. QED
    BY <1>1, <2>1
<1>3. CASE a < q
  <2>1. N * (a + 1) <= N * q /\ N * (a + 1) = N * a + N
    BY <1>1, <1>3, TimesMono
  <2>2. QED
    BY <1>1, <2>1
<1>4. QED
  BY <1>1, <1>2, <1>3 DEF q

(* The sizes the device works with: a division by total_len is defined.    *)
Sized ==
  /\ quantum_len \in Nat \ {0} /\ qset_len \in Nat \ {0}
  /\ total_len \in Nat \ {0} /\ total_len <= quantum_len * qset_len

(* quantum_len * qset_len does not overflow a size_t.                      *)
NoWrap == \A m \in 0..MaxQuantum, n \in 0..MaxQset : m * n < SizeMod

Exact == Sized /\ total_len = quantum_len * qset_len

(* What the globals may be set to.                                         *)
LEMMA Ranges ==
  /\ SizeMod \in Nat \ {0} /\ MaxQset \in Nat /\ MaxQuantum \in Nat
  /\ Quanta \subseteq 0..MaxQuantum /\ {QsetInit, SCULL_QSET} \subseteq 1..MaxQset
<1>1. /\ QuantumInit \in Nat /\ SCULL_QUANTUM \in Nat /\ QArgs \subseteq Nat
      /\ MaxQuantum \in Nat /\ \A n \in Quanta : n <= MaxQuantum
  BY DevAssumption, Zenon
<1>2. Quanta \subseteq Nat
  BY <1>1 DEF Quanta
<1>3. SizeMod \in Nat \ {0} /\ MaxQset \in Nat /\ {QsetInit, SCULL_QSET} \subseteq 1..MaxQset
  BY DevAssumption, Zenon
<1>4. QED
  BY <1>1, <1>2, <1>3

(* Whenever __scull_follow divides, it divides by a positive number.       *)
LEMMA DividesSized == TypeOK /\ total_len # 0 => Sized
<1> SUFFICES ASSUME TypeOK, total_len # 0 PROVE Sized
  OBVIOUS
<1>1. quantum_len \in Nat /\ qset_len \in Nat \ {0} /\ SizeMod \in Nat \ {0}
  <2>1. quantum_len \in Quanta /\ qset_len \in {QsetInit, SCULL_QSET}
    BY DEF TypeOK
  <2>2. QED
    BY <2>1, Ranges
<1> DEFINE x == quantum_len * qset_len
<1>2. x \in Nat /\ x = SizeMod * (x \div SizeMod) + (x % SizeMod) /\ x \div SizeMod \in Nat
  BY <1>1, DivMod, TimesMono
<1>3. x % SizeMod <= x /\ x % SizeMod \in Nat
  BY <1>1, <1>2, TimesMono
<1>4. quantum_len # 0
  <2>1. CASE quantum_len = 0
    BY <1>1, <2>1 DEF total_len
  <2>2. QED
    BY <2>1
<1>5. QED
  BY <1>1, <1>3, <1>4 DEF Sized, total_len

(* Without an overflow total_len is the product.                           *)
LEMMA DividesExact == NoWrap /\ TypeOK /\ total_len # 0 => Exact
<1> SUFFICES ASSUME NoWrap, TypeOK, total_len # 0 PROVE Exact
  OBVIOUS
<1>1. quantum_len \in 0..MaxQuantum /\ qset_len \in 0..MaxQset /\ SizeMod \in Nat \ {0}
  <2>1. quantum_len \in Quanta /\ qset_len \in {QsetInit, SCULL_QSET}
    BY DEF TypeOK
  <2>2. QED
    BY <2>1, Ranges
<1>2. quantum_len * qset_len \in 0..(SizeMod - 1)
  BY <1>1, TimesMono DEF NoWrap
<1> HIDE DEF total_len
<1>3. total_len = quantum_len * qset_len
  BY <1>1, <1>2 DEF total_len
<1>4. QED
  BY <1>3, DividesSized DEF Exact

(* A position is its node, its quantum in the node and its offset in the   *)
(* quantum; the array has that quantum and the quantum that offset.        *)
LEMMA Place ==
  ASSUME Sized, NEW p \in Nat
  PROVE  /\ qset_p(p) \in Nat
         /\ quantum_p(p) \in 0..(qset_len - 1) /\ offset_p(p) \in 0..(quantum_len - 1)
         /\ p = total_len * qset_p(p) + (quantum_len * quantum_p(p) + offset_p(p))
<1>1. /\ quantum_len \in Nat \ {0} /\ qset_len \in Nat \ {0}
      /\ total_len \in Nat \ {0} /\ total_len <= quantum_len * qset_len
  BY DEF Sized
<1> HIDE DEF total_len
<1> DEFINE r == p % total_len
<1>2. qset_p(p) \in Nat /\ r \in 0..(total_len - 1) /\ p = total_len * qset_p(p) + r
  BY <1>1, DivMod DEF qset_p
<1>3. /\ quantum_p(p) \in Nat /\ offset_p(p) \in 0..(quantum_len - 1)
      /\ r = quantum_len * quantum_p(p) + offset_p(p)
  <2>1. r \in Nat
    BY <1>1, <1>2
  <2> HIDE DEF r
  <2>2. /\ r \div quantum_len \in Nat /\ r % quantum_len \in 0..(quantum_len - 1)
        /\ r = quantum_len * (r \div quantum_len) + (r % quantum_len)
    BY <1>1, <2>1, DivMod
  <2>3. QED
    BY <2>2 DEF quantum_p, offset_p, r
<1> HIDE DEF r
<1>4. quantum_p(p) < qset_len
  <2>1. CASE qset_len <= quantum_p(p)
    <3>1. quantum_len * qset_len <= quantum_len * quantum_p(p)
      BY <1>1, <1>3, <2>1, TimesMono
    <3>2. QED
      BY <1>1, <1>2, <1>3, <3>1
  <2>2. QED
    BY <1>1, <1>3, <2>1
<1>5. QED
  BY <1>1, <1>2, <1>3, <1>4

(* The converse: no other numbers describe a position.                     *)
LEMMA PlaceUnique ==
  ASSUME Exact, NEW a \in Nat, NEW b \in 0..(qset_len - 1), NEW c \in 0..(quantum_len - 1),
         NEW p \in Nat, p = total_len * a + (quantum_len * b + c)
  PROVE  qset_p(p) = a /\ quantum_p(p) = b /\ offset_p(p) = c
<1>1. /\ quantum_len \in Nat \ {0} /\ qset_len \in Nat \ {0}
      /\ total_len \in Nat \ {0} /\ total_len = quantum_len * qset_len
  BY DEF Exact, Sized
<1> HIDE DEF total_len
<1> DEFINE r == quantum_len * b + c
<1>2. r \in 0..(total_len - 1)
  <2>1. quantum_len * (b + 1) <= quantum_len * qset_len
    BY <1>1, TimesMono
  <2>2. quantum_len * (b + 1) = quantum_len * b + quantum_len /\ quantum_len * b \in Nat
    BY <1>1, TimesMono
  <2>3. QED
    BY <1>1, <2>1, <2>2
<1>3. r \div quantum_len = b /\ r % quantum_len = c
  BY <1>1, DivUnique
<1> HIDE DEF r
<1>4. p \div total_len = a /\ p % total_len = r
  <2>1. p = total_len * a + r
    BY DEF r
  <2>2. QED
    BY <1>1, <1>2, <2>1, DivUnique
<1>5. QED
  BY <1>3, <1>4 DEF qset_p, quantum_p, offset_p

(* Bytes up to the end of a quantum are in that quantum.                   *)
LEMMA SameQuantum ==
  ASSUME Exact, NEW p \in Nat, NEW i \in Nat, offset_p(p) + i < quantum_len
  PROVE  /\ qset_p(p + i) = qset_p(p) /\ quantum_p(p + i) = quantum_p(p)
         /\ offset_p(p + i) = offset_p(p) + i
<1>1. Sized /\ quantum_len \in Nat /\ total_len \in Nat
  BY DEF Exact, Sized
<1> HIDE DEF total_len, qset_p, quantum_p, offset_p
<1>2. /\ qset_p(p) \in Nat
      /\ quantum_p(p) \in 0..(qset_len - 1) /\ offset_p(p) \in 0..(quantum_len - 1)
      /\ p = total_len * qset_p(p) + (quantum_len * quantum_p(p) + offset_p(p))
  BY <1>1, Place
<1>3. p + i = total_len * qset_p(p) + (quantum_len * quantum_p(p) + (offset_p(p) + i))
  <2>1. total_len * qset_p(p) \in Int /\ quantum_len * quantum_p(p) \in Int
    BY <1>1, <1>2
  <2>2. QED
    BY <1>2, <2>1
<1>4. offset_p(p) + i \in 0..(quantum_len - 1) /\ p + i \in Nat
  BY <1>1, <1>2
<1>5. QED
  BY <1>2, <1>3, <1>4, PlaceUnique

(* A later position is in no earlier node.                                 *)
LEMMA NodeMono ==
  ASSUME Sized, NEW p \in Nat, NEW q \in Nat, p <= q PROVE qset_p(p) <= qset_p(q)
<1>1. total_len \in Nat \ {0}
  BY DEF Sized
<1> HIDE DEF total_len
<1>2. /\ qset_p(p) \in Nat /\ p % total_len \in 0..(total_len - 1)
      /\ p = total_len * qset_p(p) + (p % total_len)
      /\ qset_p(q) \in Nat /\ q % total_len \in 0..(total_len - 1)
      /\ q = total_len * qset_p(q) + (q % total_len)
  BY <1>1, DivMod DEF qset_p
<1>3. CASE qset_p(q) < qset_p(p)
  <2>1. total_len * (qset_p(q) + 1) <= total_len * qset_p(p)
        /\ total_len * (qset_p(q) + 1) = total_len * qset_p(q) + total_len
        /\ total_len * qset_p(q) \in Nat
    BY <1>1, <1>2, <1>3, TimesMono
  <2>2. QED
    BY <1>1, <1>2, <2>1
<1>4. QED
  BY <1>2, <1>3

-----------------------------------------------------------------------------
(* The list of quantum sets.                                               *)

Cells == 0..(qset_len - 1)
Arr == [Cells -> Objs \cup {Null}]
Node == {NoData} \cup Arr

(* Slot i of node n; Null where there is no node or no array.              *)
Slot(q, n, i) == IF n \in 1..Len(q) /\ q[n] # NoData THEN q[n][i] ELSE Null

(* An empty list has no pointers.                                          *)
LEMMA NoSlots == \A n, i : Slot(<<>>, n, i) = Null
  BY DEF Slot

(* q is the device's list, perhaps with more nodes or arrays.              *)
Grown(q) ==
  /\ q \in Seq(Node) /\ Len(q) >= Len(qset)
  /\ \A n \in Nat, i \in Cells : Slot(q, n, i) = Slot(qset, n, i)

(* New nodes have no arrays.                                               *)
LEMMA LongerGrows ==
  ASSUME qset \in Seq(Node), NEW j \in Nat
  PROVE  Grown(Longer(j)) /\ Len(Longer(j)) = Len(qset) + j
<1> DEFINE t == [i \in 1..j |-> NoData]
<1>1. t \in Seq(Node) /\ Len(t) = j
  BY DEF Node
<1> HIDE DEF t, Node
<1>2. /\ qset \o t \in Seq(Node) /\ Len(qset \o t) = Len(qset) + j
      /\ \A i \in 1..(Len(qset) + j) :
           (qset \o t)[i] = IF i <= Len(qset) THEN qset[i] ELSE t[i - Len(qset)]
  BY <1>1, ConcatProperties
<1>3. Longer(j) = qset \o t
  BY DEF Longer, t
<1>4. \A i \in 1..j : t[i] = NoData
  BY DEF t
<1>5. ASSUME NEW n \in Nat, NEW i \in Cells PROVE Slot(Longer(j), n, i) = Slot(qset, n, i)
  <2>1. Len(qset) \in Nat
    OBVIOUS
  <2>2. CASE n \in 1..Len(qset)
    BY <1>2, <1>3, <2>1, <2>2 DEF Slot
  <2>3. CASE n \notin 1..Len(qset)
    BY <1>2, <1>3, <1>4, <2>1, <2>3 DEF Slot
  <2>4. QED
    BY <2>2, <2>3
<1>6. QED
  BY <1>2, <1>3, <1>5 DEF Grown

(* A walk to p ends in a list that has p's node, unless it is cut short.   *)
LEMMA WalkGrows ==
  ASSUME qset \in Seq(Node), Sized, NEW p \in Nat
  PROVE  /\ Missing(p) \in Nat /\ \A j \in Walk(p) : j \in Nat /\ Grown(Longer(j))
         /\ Grown(Longer(Missing(p))) /\ qset_p(p) + 1 \in 1..Len(Longer(Missing(p)))
<1>1. qset_p(p) \in Nat
  BY Place
<1>2. Missing(p) \in Nat /\ qset_p(p) + 1 <= Len(qset) + Missing(p)
  BY <1>1 DEF Missing
<1>3. \A j \in Walk(p) : j \in Nat
  BY <1>2 DEF Walk
<1>4. \A j \in Nat : Grown(Longer(j)) /\ Len(Longer(j)) = Len(qset) + j
  BY LongerGrows
<1>5. Len(Longer(Missing(p))) = Len(qset) + Missing(p)
  BY <1>2, <1>4
<1>6. qset_p(p) + 1 \in 1..Len(Longer(Missing(p)))
  <2>1. Len(qset) \in Nat
    OBVIOUS
  <2> HIDE DEF Longer
  <2>2. QED
    BY <1>1, <1>2, <1>5, <2>1
<1>7. QED
  BY <1>2, <1>3, <1>4, <1>6, Zenon

(* An array is not taken for a missing one.                                *)
LEMMA ArrIsData == ASSUME TypeOK PROVE NoData \notin Arr
<1>1. qset_len \in 1..MaxQset
  BY Ranges DEF TypeOK
<1>2. \A n \in 1..MaxQset : NoData \notin [0..(n - 1) -> Objs \cup {Null}]
  BY DevAssumption, Zenon
<1>3. QED
  BY <1>1, <1>2 DEF Arr, Cells

(* Giving node n an array of empty slots adds nothing.                     *)
LEMMA ArrayGrows ==
  ASSUME NEW q, Grown(q), TypeOK, NEW n \in 1..Len(q), q[n] = NoData
  PROVE  LET d == [q EXCEPT ![n] = [i \in Cells |-> Null]]
         IN  Grown(d) /\ Len(d) = Len(q) /\ d[n] \in Arr
<1> DEFINE e == [i \in Cells |-> Null]
           d == [q EXCEPT ![n] = e]
<1>1. e \in Arr /\ e \in Node /\ \A i \in Cells : e[i] = Null
  BY DEF Arr, Node
<1> HIDE DEF e
<1>2. q \in Seq(Node) /\ Len(q) >= Len(qset)
      /\ \A m \in Nat, i \in Cells : Slot(q, m, i) = Slot(qset, m, i)
  BY DEF Grown
<1>3. d \in Seq(Node) /\ Len(d) = Len(q) /\ d[n] = e
      /\ \A m \in 1..Len(q) : m # n => d[m] = q[m]
  BY <1>1, <1>2
<1> HIDE DEF d
<1>4. ASSUME NEW m \in Nat, NEW i \in Cells PROVE Slot(d, m, i) = Slot(q, m, i)
  <2>1. CASE m = n
    BY <1>1, <1>3, <2>1 DEF Slot
  <2>2. CASE m # n
    BY <1>3, <2>2 DEF Slot
  <2>3. QED
    BY <2>1, <2>2
<1>5. Grown(d) /\ Len(d) = Len(q) /\ d[n] \in Arr
  BY <1>1, <1>2, <1>3, <1>4 DEF Grown
<1>6. QED
  BY <1>5 DEF d, e

(* Storing a pointer in slot i of node n changes that slot alone.          *)
LEMMA SlotStored ==
  ASSUME NEW d, Grown(d), TypeOK, NEW n \in 1..Len(d), d[n] \in Arr, NEW i \in Cells,
         NEW x \in Objs
  PROVE  LET q == [d EXCEPT ![n][i] = x] IN
         /\ q \in Seq(Node) /\ Len(q) = Len(d)
         /\ \A m \in Nat, j \in Cells :
              Slot(q, m, j) = IF m = n /\ j = i THEN x ELSE Slot(qset, m, j)
<1> DEFINE a == [d[n] EXCEPT ![i] = x]
           q == [d EXCEPT ![n] = a]
<1>1. /\ a \in Arr /\ a \in Node
      /\ \A j \in Cells : a[j] = IF j = i THEN x ELSE d[n][j]
  BY DEF Arr, Node
<1>2. a # NoData /\ d[n] # NoData
  BY <1>1, ArrIsData
<1> HIDE DEF a
<1>3. d \in Seq(Node) /\ \A m \in Nat, j \in Cells : Slot(d, m, j) = Slot(qset, m, j)
  BY DEF Grown
<1>4. q \in Seq(Node) /\ Len(q) = Len(d) /\ q[n] = a
      /\ \A m \in 1..Len(d) : m # n => q[m] = d[m]
  BY <1>1, <1>3
<1> HIDE DEF q
<1>5. ASSUME NEW m \in Nat, NEW j \in Cells
      PROVE  Slot(q, m, j) = IF m = n /\ j = i THEN x ELSE Slot(d, m, j)
  <2>1. CASE m = n
    BY <1>1, <1>2, <1>4, <2>1 DEF Slot
  <2>2. CASE m # n
    BY <1>4, <2>2 DEF Slot
  <2>3. QED
    BY <2>1, <2>2
<1>6. q \in Seq(Node) /\ Len(q) = Len(d)
      /\ \A m \in Nat, j \in Cells :
           Slot(q, m, j) = IF m = n /\ j = i THEN x ELSE Slot(qset, m, j)
  BY <1>3, <1>4, <1>5
<1>7. QED
  BY <1>6 DEF q, a

(* The pointer a walk to p finds, and a write of k bytes at p to object x. *)
Target(p) == Slot(qset, qset_p(p) + 1, quantum_p(p))

Put(p, k, x) ==
  /\ qset' \in Seq(Node) /\ Len(qset') >= Len(qset) /\ qset_p(p) + 1 <= Len(qset')
  /\ \A m \in Nat, j \in Cells :
       Slot(qset', m, j) = IF m = qset_p(p) + 1 /\ j = quantum_p(p) THEN x
                                                                 ELSE Slot(qset, m, j)
  /\ x \in Objs /\ IF Target(p) = Null THEN x \notin live ELSE x = Target(p)
  /\ live' = live \cup {x}
  /\ \E s \in [1..k -> Data] :
       mem' = [mem EXCEPT ![x] =
                 Stored(IF Target(p) = Null THEN Fresh ELSE @, offset_p(p), s)]
  /\ len' \in {len, IF len < p + k THEN p + k ELSE len}
  /\ overrun' = (overrun \/ offset_p(p) + k > ObjSize)

(* A write either fails, having added nodes or an array, or stores.        *)
LEMMA WriteShape ==
  ASSUME TypeOK, qset \in Seq(Node), Sized, NEW p \in Nat, NEW count, WriteAt(p, count)
  PROVE  \/ Grown(qset') /\ UNCHANGED <<len, heap, overrun>>
         \/ \E x \in Objs : Put(p, min_t(count, Room(p)), x)
<1> DEFINE q == Longer(Missing(p))
           n == qset_p(p) + 1
           i == quantum_p(p)
           k == min_t(count, Room(p))
           d == IF q[n] # NoData THEN q
                ELSE [q EXCEPT ![n] = [j \in 0..(qset_len - 1) |-> Null]]
<1>1. qset_p(p) \in Nat /\ i \in Cells
  BY Place DEF Cells
<1>2. Grown(q) /\ n \in 1..Len(q) /\ \A j \in Walk(p) : Grown(Longer(j))
  BY WalkGrows
<1>3. Grown(d) /\ Len(d) = Len(q) /\ d[n] \in Arr
  <2>1. CASE q[n] = NoData
    BY <1>2, <2>1, ArrayGrows DEF Cells
  <2>2. CASE q[n] # NoData
    <3>1. q \in Seq(Node)
      BY <1>2 DEF Grown
    <3> HIDE DEF q, n
    <3>2. q[n] \in Node
      BY <1>2, <3>1
    <3>3. QED
      BY <1>2, <2>2, <3>2 DEF Node
  <2>3. QED
    BY <2>1, <2>2
<1>4. Quantum(d, p) = Target(p) /\ Target(p) \in Objs \cup {Null}
  <2>1. Slot(d, n, i) = Target(p)
    <3>1. \A m \in Nat, j \in Cells : Slot(d, m, j) = Slot(qset, m, j)
      BY <1>3 DEF Grown
    <3>2. n \in Nat
      BY <1>1
    <3> HIDE DEF d, n, i
    <3>3. Slot(d, n, i) = Slot(qset, n, i)
      BY <1>1, <3>1, <3>2
    <3>4. QED
      BY <3>3 DEF Target, n, i
  <2>2. d[n] # NoData /\ Quantum(d, p) = d[n][i]
    <3>1. d[n] # NoData
      BY <1>3, ArrIsData
    <3>2. QED
      BY <3>1 DEF Quantum, Array
  <2> HIDE DEF q, n, i, d
  <2>3. Slot(d, n, i) = d[n][i]
    BY <1>2, <1>3, <2>2 DEF Slot
  <2>4. d[n][i] \in Objs \cup {Null}
    BY <1>1, <1>3 DEF Arr
  <2>5. QED
    BY <2>1, <2>2, <2>3, <2>4
<1>5. CASE \E j \in Walk(p) \ {Missing(p)} : qset' = Longer(j) /\ UNCHANGED <<len, heap, overrun>>
  BY <1>2, <1>5
<1>6. CASE qset' \in {q, d} /\ UNCHANGED <<len, heap, overrun>>
  BY <1>2, <1>3, <1>6
<1>7. ASSUME NEW x \in (IF Quantum(d, p) = Null THEN Objs \ live ELSE {Quantum(d, p)}),
             NEW s \in [1..k -> Data],
             qset' = [d EXCEPT ![n][i] = x],
             live' = live \cup {x},
             mem' = [mem EXCEPT ![x] =
                       Stored(IF Quantum(d, p) = Null THEN Fresh ELSE @, offset_p(p), s)],
             len' \in {len, IF len < p + k THEN p + k ELSE len},
             overrun' = (overrun \/ offset_p(p) + k > ObjSize)
      PROVE  x \in Objs /\ Put(p, k, x)
  <2>1. x \in Objs /\ IF Target(p) = Null THEN x \notin live ELSE x = Target(p)
    BY <1>4, <1>7
  <2>2. /\ qset' \in Seq(Node) /\ Len(qset') = Len(d)
        /\ \A m \in Nat, j \in Cells :
             Slot(qset', m, j) = IF m = n /\ j = i THEN x ELSE Slot(qset, m, j)
    <3> HIDE DEF q, n, i, d
    <3>1. n \in 1..Len(d)
      BY <1>2, <1>3
    <3>2. LET r == [d EXCEPT ![n][i] = x] IN
          /\ r \in Seq(Node) /\ Len(r) = Len(d)
          /\ \A m \in Nat, j \in Cells :
               Slot(r, m, j) = IF m = n /\ j = i THEN x ELSE Slot(qset, m, j)
      BY <1>1, <1>3, <2>1, <3>1, SlotStored
    <3>3. QED
      BY <1>7, <3>2, Zenon
  <2>3. Len(qset') >= Len(qset) /\ n <= Len(qset')
    <3>1. Len(q) >= Len(qset)
      BY <1>2 DEF Grown
    <3> HIDE DEF q, n, i, d
    <3>2. QED
      BY <1>2, <1>3, <2>2, <3>1
  <2>4. \E r \in [1..k -> Data] :
          mem' = [mem EXCEPT ![x] =
                    Stored(IF Target(p) = Null THEN Fresh ELSE @, offset_p(p), r)]
    BY <1>4, <1>7
  <2>5. QED
    BY <1>7, <2>1, <2>2, <2>3, <2>4 DEF Put
<1>8. QED
  BY <1>5, <1>6, <1>7 DEF WriteAt

-----------------------------------------------------------------------------
(* The inductive invariant.                                                *)

Settings ==
  /\ scull_quantum \in Quanta /\ scull_qset \in {QsetInit, SCULL_QSET}
  /\ quantum_len \in Quanta /\ qset_len \in {QsetInit, SCULL_QSET}
  /\ wedged \in BOOLEAN /\ overrun \in BOOLEAN
  /\ pc \in [Procs -> {"user", "reset qset", "reset quantum", "exchange"}]
  /\ tmp \in [Procs -> Quanta]

Bytes == [0..(MaxQuantum - 1) -> Data \cup {Junk}]

Memory == len \in 0..Top /\ live \subseteq Objs /\ mem \in [Objs -> Bytes]

(* Pointers are to live objects, no two to the same.                       *)
List ==
  /\ qset \in Seq(Node)
  /\ \A n \in Nat, i \in Cells : Slot(qset, n, i) # Null => Slot(qset, n, i) \in live
  /\ \A n, m \in Nat, i, j \in Cells :
       Slot(qset, n, i) # Null /\ Slot(qset, n, i) = Slot(qset, m, j) => n = m /\ i = j

DevInv == Settings /\ Memory /\ List /\ ReadsDivide

(* Two slots, of nodes counted from 0, that share an object are the same.  *)
LEMMA SlotsApart ==
  ASSUME DevInv, NEW a \in Nat, NEW b \in Nat, NEW i \in Cells, NEW j \in Cells,
         Slot(qset, a + 1, i) # Null, Slot(qset, a + 1, i) = Slot(qset, b + 1, j)
  PROVE  a = b /\ i = j
<1>1. a + 1 = b + 1 /\ i = j
  BY DEF DevInv, List
<1>2. QED
  BY <1>1

(* Top and what it is made of are numbers.                                 *)
LEMMA TopType ==
  /\ MaxPosition \in Nat /\ Top \in Nat /\ Positions \subseteq 0..MaxPosition
  /\ Counts \subseteq Nat
<1>1. MaxPosition \in Nat /\ Positions \subseteq 0..MaxPosition /\ Counts \subseteq Nat
  BY DevAssumption, Zenon
<1>2. QED
  BY <1>1, Ranges DEF Top

(* The invariant gives the type invariant.                                 *)
LEMMA InvTypes == DevInv => TypeOK
<1> SUFFICES ASSUME DevInv PROVE TypeOK
  OBVIOUS
<1>1. Settings /\ Memory /\ qset \in Seq(Node)
  BY DEF DevInv, List
<1>2. ASSUME NEW n \in Arrays PROVE \A i \in DOMAIN qset[n] : qset[n][i] \in Objs \cup {Null}
  <2>1. qset[n] \in Arr
    BY <1>1, <1>2 DEF Arrays, Node
  <2>2. QED
    BY <2>1 DEF Arr
<1>3. len \in Nat /\ live \subseteq Objs
      /\ mem \in [Objs -> [0..(MaxQuantum - 1) -> Data \cup {Junk}]]
  BY <1>1, TopType DEF Memory, Bytes
<1>4. QED
  BY <1>1, <1>2, <1>3, Zenon DEF TypeOK, Settings

(* It gives the other invariants.                                          *)
LEMMA InvArrays == DevInv => ArraysFit /\ Owned
<1> SUFFICES ASSUME DevInv PROVE ArraysFit /\ Owned
  OBVIOUS
<1>1. qset \in Seq(Node) /\ List
  BY DEF DevInv, List
<1>2. ASSUME NEW n \in Arrays PROVE n \in 1..Len(qset) /\ qset[n] # NoData /\ DOMAIN qset[n] = Cells
  <2>1. qset[n] \in Arr /\ n \in 1..Len(qset) /\ qset[n] # NoData
    BY <1>1, <1>2 DEF Arrays, Node
  <2>2. QED
    BY <2>1 DEF Arr
<1>3. ArraysFit
  BY <1>2 DEF ArraysFit, Cells
<1>4. ASSUME NEW s \in Slots
      PROVE  \E n \in Nat, i \in Cells :
               s = <<n, i>> /\ qset[n][i] # Null /\ qset[n][i] = Slot(qset, n, i)
  <2>1. PICK n \in Arrays, i \in Cells : s = <<n, i>> /\ qset[n][i] # Null
    BY <1>2, <1>4 DEF Slots
  <2>2. n \in Nat /\ i \in Cells
    BY <1>2, <2>1
  <2>3. qset[n][i] = Slot(qset, n, i)
    BY <1>2 DEF Slot
  <2>4. QED
    BY <2>1, <2>2, <2>3
<1>5. ASSUME NEW s \in Slots PROVE qset[s[1]][s[2]] \in live
  <2>1. PICK n \in Nat, i \in Cells :
          s = <<n, i>> /\ qset[n][i] # Null /\ qset[n][i] = Slot(qset, n, i)
    BY <1>4, <1>5
  <2>2. QED
    BY <1>1, <2>1 DEF List
<1>6. ASSUME NEW s \in Slots, NEW r \in Slots, qset[s[1]][s[2]] = qset[r[1]][r[2]] PROVE s = r
  <2>1. PICK n \in Nat, i \in Cells :
          s = <<n, i>> /\ qset[n][i] # Null /\ qset[n][i] = Slot(qset, n, i)
    BY <1>4, <1>6
  <2>2. PICK m \in Nat, j \in Cells :
          r = <<m, j>> /\ qset[m][j] # Null /\ qset[m][j] = Slot(qset, m, j)
    BY <1>4, <1>6
  <2>3. n = m /\ i = j
    BY <1>1, <1>6, <2>1, <2>2 DEF List
  <2>4. QED
    BY <2>1, <2>2, <2>3
<1>7. QED
  BY <1>3, <1>5, <1>6 DEF Owned

(* A device that is not yet written satisfies it.                          *)
LEMMA DevInvInit == Init => DevInv
<1> SUFFICES ASSUME Init PROVE DevInv
  OBVIOUS
<1>1. Settings
  BY DEF Init, Settings, Quanta
<1>2. Memory
  <2>1. Fresh \in Bytes
    BY DEF Fresh, Bytes
  <2>2. QED
    BY <2>1, TopType DEF Init, Memory
<1>3. List /\ ReadsDivide
  BY NoSlots DEF Init, List, ReadsDivide
<1>4. QED
  BY <1>1, <1>2, <1>3 DEF DevInv

(* More nodes and arrays without pointers keep the list in order.          *)
LEMMA GrowKeeps ==
  ASSUME List, Grown(qset'), live' = live, qset_len' = qset_len PROVE List'
<1>1. Cells' = Cells /\ Node' = Node
  BY DEF Cells, Node, Arr
<1>2. qset' \in Seq(Node) /\ \A n \in Nat, i \in Cells : Slot(qset', n, i) = Slot(qset, n, i)
  BY DEF Grown
<1>3. QED
  BY <1>1, <1>2 DEF List

(* So does a pointer to an object that was not live, or was there before.  *)
LEMMA PutKeepsList ==
  ASSUME List, NEW p \in Nat, NEW k, NEW x, Sized, Put(p, k, x), qset_len' = qset_len
  PROVE  List'
<1>1. Cells' = Cells /\ Node' = Node
  BY DEF Cells, Node, Arr
<1> DEFINE n == qset_p(p) + 1
           i == quantum_p(p)
<1>2. n \in Nat /\ i \in Cells
  BY Place DEF Cells
<1>3. /\ qset' \in Seq(Node) /\ live' = live \cup {x}
      /\ IF Slot(qset, n, i) = Null THEN x \notin live ELSE x = Slot(qset, n, i)
      /\ \A m \in Nat, j \in Cells :
           Slot(qset', m, j) = IF m = n /\ j = i THEN x ELSE Slot(qset, m, j)
  BY DEF Put, Target
<1> HIDE DEF n, i
<1>4. QED
  BY <1>1, <1>2, <1>3 DEF List

(* Storing in an object keeps its bytes bytes.                             *)
LEMMA StoredBytes ==
  ASSUME NEW b \in Bytes, NEW at \in Nat, NEW k \in Nat, NEW s \in [1..k -> Data]
  PROVE  /\ Stored(b, at, s) \in Bytes
         /\ \A i \in 0..(MaxQuantum - 1) :
              Stored(b, at, s)[i] = IF i \in at..(at + k - 1) THEN s[i - at + 1] ELSE b[i]
<1>1. DOMAIN b = 0..(MaxQuantum - 1) /\ Len(s) = k
  BY DEF Bytes
<1>2. \A i \in at..(at + k - 1) : i - at + 1 \in 1..k
  OBVIOUS
<1>3. QED
  BY <1>1, <1>2 DEF Stored, Bytes

(* How much a write copies: not past the end of its quantum.               *)
LEMMA WriteCount ==
  ASSUME Sized, NEW p \in Nat, NEW count \in Nat
  PROVE  /\ min_t(count, Room(p)) \in Nat
         /\ offset_p(p) \in Nat /\ offset_p(p) + min_t(count, Room(p)) <= quantum_len
<1>1. offset_p(p) \in 0..(quantum_len - 1) /\ quantum_len \in Nat
  BY Place DEF Sized
<1> HIDE DEF offset_p
<1>2. QED
  BY <1>1 DEF min_t, Room

(* The device's memory after a write.                                      *)
LEMMA PutKeepsMemory ==
  ASSUME Settings, Memory, Sized, NEW p \in Positions, NEW count \in Nat, NEW x,
         Put(p, min_t(count, Room(p)), x)
  PROVE  Memory'
<1> DEFINE k == min_t(count, Room(p))
<1>1. p \in Nat /\ p <= MaxPosition /\ quantum_len \in 0..MaxQuantum /\ MaxPosition \in Nat
  <2>1. quantum_len \in Quanta
    BY DEF Settings
  <2>2. QED
    BY <2>1, TopType, Ranges
<1>2. k \in Nat /\ offset_p(p) \in Nat /\ offset_p(p) + k <= quantum_len
  BY <1>1, WriteCount
<1>3. /\ len' \in {len, IF len < p + k THEN p + k ELSE len}
      /\ x \in Objs /\ live' = live \cup {x}
      /\ \E s \in [1..k -> Data] :
           mem' = [mem EXCEPT ![x] =
                     Stored(IF Target(p) = Null THEN Fresh ELSE @, offset_p(p), s)]
  BY DEF Put
<1> HIDE DEF k, offset_p, Target
<1>4. len' \in 0..Top
  BY <1>1, <1>2, <1>3, Ranges DEF Memory, Top
<1>5. mem' \in [Objs -> Bytes]
  <2>1. PICK s \in [1..k -> Data] :
          mem' = [mem EXCEPT ![x] =
                    Stored(IF Target(p) = Null THEN Fresh ELSE @, offset_p(p), s)]
    BY <1>3
  <2>2. Fresh \in Bytes /\ mem[x] \in Bytes
    BY <1>3 DEF Fresh, Bytes, Memory
  <2>3. Stored(IF Target(p) = Null THEN Fresh ELSE mem[x], offset_p(p), s) \in Bytes
    BY <1>2, <2>2, StoredBytes
  <2> HIDE DEF Stored, Bytes
  <2>4. QED
    BY <1>3, <2>1, <2>3 DEF Memory
<1>6. QED
  BY <1>3, <1>4, <1>5 DEF Memory

(* A write of the device, in the terms of the lemmas above.                *)
LEMMA WriteSteps ==
  ASSUME DevInv, scull_write, total_len # 0
  PROVE  /\ \/ Grown(qset') /\ UNCHANGED <<len, heap, overrun>>
            \/ \E p \in Positions, count \in Counts, x \in Objs :
                 Put(p, min_t(count, Room(p)), x)
         /\ Sized /\ UNCHANGED <<quantum_len, qset_len>> /\ out' = NoOut
<1>1. TypeOK /\ qset \in Seq(Node)
  BY InvTypes DEF DevInv, List
<1>2. Sized
  BY <1>1, DividesSized
<1>3. PICK p \in Positions, count \in Counts : WriteAt(p, count)
  BY DEF scull_write
<1>4. p \in Nat
  BY TopType
<1>5. QED
  BY <1>1, <1>2, <1>3, <1>4, WriteShape DEF scull_write, NoLen

(* A read walks with the function that allocates.                          *)
LEMMA ReadSteps ==
  ASSUME DevInv, scull_read
  PROVE  /\ Grown(qset') /\ UNCHANGED <<len, heap, quantum_len, qset_len>>
         /\ \/ UNCHANGED <<qset, overrun>> /\ out' = NoOut
            \/ /\ Sized /\ total_len # 0
               /\ \E p \in Positions, count \in Counts : p < len /\ ReadAt(p, count)
<1>1. TypeOK /\ qset \in Seq(Node) /\ Len(qset) \in Nat
  BY InvTypes DEF DevInv, List
<1>2. CASE qset' = qset
  BY <1>1, <1>2, DividesSized DEF scull_read, DivideError, NoLen, dev, heap, Grown
<1>3. CASE qset' # qset
  <2>1. PICK p \in Positions, count \in Counts : p < len /\ total_len # 0 /\ ReadAt(p, count)
    BY <1>3 DEF scull_read, DivideError, dev
  <2>2. Sized /\ p \in Nat
    BY <1>1, <2>1, DividesSized, TopType
  <2>3. Grown(qset')
    BY <1>1, <2>1, <2>2, WalkGrows DEF ReadAt
  <2>4. QED
    BY <1>3, <2>1, <2>2, <2>3 DEF scull_read, DivideError, NoLen, dev
<1>4. QED
  BY <1>2, <1>3

(* Every step sets the globals and the device's sizes to what it may.      *)
LEMMA SettingsStep == Settings /\ [Next]_vars => Settings'
<1> SUFFICES ASSUME Settings, [Next]_vars PROVE Settings'
  OBVIOUS
<1> USE DEF Settings
<1>1. CASE UNCHANGED vars
  BY <1>1 DEF vars, globals, dev, ioctls
<1>2. CASE scull_open
  BY <1>2 DEF scull_open, __scull_trim, AdoptLens, globals, ioctls
<1>3. CASE scull_read
  BY <1>3 DEF scull_read, ReadAt, DivideError, NoLen, globals, ioctls, dev
<1>4. CASE scull_write
  <2>1. ASSUME NEW p, NEW count, WriteAt(p, count) PROVE overrun' \in BOOLEAN
    <3>1. UNCHANGED overrun \/ \E e : overrun' = (overrun \/ e > ObjSize)
      BY <2>1, ZenonT(40) DEF WriteAt
    <3>2. QED
      BY <3>1
  <2>2. overrun' \in BOOLEAN
    BY <1>4, <2>1 DEF scull_write, DivideError
  <2>3. QED
    BY <1>4, <2>2 DEF scull_write, DivideError, NoLen, globals, ioctls
<1>5. CASE scull_seq_show
  BY <1>5 DEF scull_seq_show, globals, ioctls, dev
<1>6. ASSUME NEW t \in Procs, ResetFirst(t) \/ ResetSecond(t) PROVE Settings'
  BY <1>6 DEF ResetFirst, ResetSecond, Ioctl, dev, Quanta
<1>7. ASSUME NEW t \in Procs, SetQuantum(t) \/ ExchangeLoad(t) \/ ExchangeStore(t)
      PROVE  Settings'
  BY <1>7 DEF SetQuantum, ExchangeLoad, ExchangeStore, Ioctl, dev, globals, Quanta, Fetched
<1>8. QED
  BY <1>1, <1>2, <1>3, <1>4, <1>5, <1>6, <1>7 DEF Next

(* Every step keeps the invariant.                                         *)
LEMMA DevInvStep == DevInv /\ [Next]_vars => DevInv'
<1> SUFFICES ASSUME DevInv, [Next]_vars PROVE DevInv'
  OBVIOUS
<1>1. Settings /\ Memory /\ List /\ ReadsDivide /\ TypeOK
  BY InvTypes DEF DevInv
<1>2. Settings'
  BY <1>1, SettingsStep
<1>3. CASE UNCHANGED <<dev, heap>>
  BY <1>1, <1>2, <1>3 DEF dev, heap, DevInv, Memory, List, ReadsDivide, Cells, Node, Arr, total_len
<1>4. CASE scull_open
  <2>1. qset' = <<>> /\ len' = 0 /\ live' \subseteq live /\ mem' = [o \in Objs |-> Fresh]
    BY <1>4 DEF scull_open, __scull_trim, FreeList
  <2>2. Memory'
    BY <1>1, <2>1, TopType DEF Memory, Fresh, Bytes
  <2>3. List' /\ ReadsDivide'
    BY <2>1, NoSlots DEF List, ReadsDivide
  <2>4. QED
    BY <1>2, <2>2, <2>3 DEF DevInv
<1>5. CASE scull_read
  <2>1. Grown(qset') /\ UNCHANGED <<len, heap, quantum_len, qset_len>>
    BY <1>5, ReadSteps
  <2>2. List'
    BY <1>1, <2>1, GrowKeeps DEF heap
  <2>3. QED
    BY <1>1, <1>2, <2>1, <2>2 DEF DevInv, Memory, ReadsDivide, total_len, heap
<1>6. CASE scull_write /\ total_len # 0
  <2>1. Sized /\ UNCHANGED <<quantum_len, qset_len>>
    BY <1>6, WriteSteps
  <2>2. ReadsDivide'
    BY <1>6, <2>1 DEF ReadsDivide, total_len
  <2>3. CASE Grown(qset') /\ UNCHANGED <<len, heap, overrun>>
    BY <1>1, <1>2, <2>1, <2>2, <2>3, GrowKeeps DEF DevInv, Memory, heap
  <2>4. ASSUME NEW p \in Positions, NEW count \in Counts, NEW x \in Objs,
               Put(p, min_t(count, Room(p)), x)
        PROVE  Memory' /\ List'
    <3>1. p \in Nat /\ count \in Nat
      BY TopType
    <3>2. QED
      BY <1>1, <2>1, <2>4, <3>1, PutKeepsList, PutKeepsMemory
  <2>5. QED
    BY <1>2, <1>6, <2>2, <2>3, <2>4, WriteSteps DEF DevInv
<1>7. CASE scull_write /\ total_len = 0
  <2>1. UNCHANGED <<dev, heap>>
    BY <1>7 DEF scull_write, DivideError, NoLen, dev, heap
  <2>2. QED
    BY <1>3, <2>1
<1>8. CASE UNCHANGED vars \/ scull_seq_show
  BY <1>3, <1>8 DEF vars, scull_seq_show
<1>9. ASSUME NEW t \in Procs,
             \/ ResetFirst(t) \/ ResetSecond(t) \/ SetQuantum(t)
             \/ ExchangeLoad(t) \/ ExchangeStore(t)
      PROVE  DevInv'
  BY <1>3, <1>9 DEF ResetFirst, ResetSecond, SetQuantum, ExchangeLoad, ExchangeStore, Ioctl
<1>10. QED
  BY <1>4, <1>5, <1>6, <1>7, <1>8, <1>9 DEF Next

(* Reads, writes, ioctls, trims and listings keep to DevInv.               *)
LEMMA DevSafe == Spec => []DevInv
<1>1. QED
  BY DevInvInit, DevInvStep, PTL DEF Spec

(* The handlers of scull never leave their types.                          *)
THEOREM TypeCorrect == Spec => []TypeOK
<1>1. DevInv => TypeOK
  BY InvTypes
<1>2. QED
  BY <1>1, DevSafe, PTL

(* For any sizes, failures and interleavings of ioctls: every pointer      *)
(* array has the qset_len slots its users take it to have.                 *)
THEOREM ArraysCorrect == Spec => []ArraysFit
<1>1. DevInv => ArraysFit
  BY InvArrays
<1>2. QED
  BY <1>1, DevSafe, PTL

(* Every pointer is to an allocated object that no other slot has, through *)
(* failed allocations and trims.                                           *)
THEOREM OwnedCorrect == Spec => []Owned
<1>1. DevInv => Owned
  BY InvArrays
<1>2. QED
  BY <1>1, DevSafe, PTL

(* No read divides by 0, whatever the ioctls store and wherever they       *)
(* fault: data is there only while total_len is not 0.                     *)
THEOREM ReadsDivideCorrect == Spec => []ReadsDivide
<1>1. DevInv => ReadsDivide
  BY DEF DevInv
<1>2. QED
  BY <1>1, DevSafe, PTL

-----------------------------------------------------------------------------
(* Bytes outside objects.                                                  *)

(* No quantum is larger than the objects kmc was created with, and /proc   *)
(* prints no more than an object of a quantum.                             *)
QuantumFits == (\A n \in Quanta : n <= ObjSize) /\ PrintMax <= ObjSize

(* How much a read copies: neither past its quantum nor past len.          *)
LEMMA ReadCount ==
  ASSUME Sized, NEW p \in Nat, NEW count \in Nat, len \in Nat, p < len
  PROVE  LET k == min_t(min_t(count, len - p), Room(p)) IN
         k \in Nat /\ offset_p(p) \in Nat /\ offset_p(p) + k <= quantum_len /\ p + k <= len
<1>1. offset_p(p) \in 0..(quantum_len - 1) /\ quantum_len \in Nat
  BY Place DEF Sized
<1> HIDE DEF offset_p
<1>2. QED
  BY <1>1 DEF min_t, Room

(* While the quanta set by the ioctls, and what the listing prints, fit    *)
(* the cache's objects, no read, write or listing touches a byte outside   *)
(* an object.                                                              *)
THEOREM OverrunCorrect == ASSUME QuantumFits PROVE Spec => []NoOverrun
<1>1. Init => NoOverrun
  BY DEF Init, NoOverrun
<1>2. DevInv /\ NoOverrun /\ [Next]_vars => NoOverrun'
  <2> SUFFICES ASSUME DevInv, NoOverrun, [Next]_vars, overrun' # overrun PROVE ~overrun'
    BY DEF NoOverrun
  <2>1. quantum_len \in Nat /\ quantum_len <= ObjSize /\ len \in Nat /\ PrintMax \in Nat
        /\ ObjSize \in Nat /\ PrintMax <= ObjSize
    <3>1. quantum_len \in Quanta /\ len \in 0..Top
      BY DEF DevInv, Settings, Memory
    <3>2. PrintMax \in Nat /\ QuantumInit \in Nat
      BY DevAssumption, Zenon
    <3>3. QED
      BY <3>1, <3>2, Ranges, TopType DEF QuantumFits, ObjSize
  <2>2. ASSUME NEW k \in Nat, NEW c \in Nat, c + k <= quantum_len PROVE ~(c + k > ObjSize)
    BY <2>1, <2>2
  <2>3. CASE scull_read
    <3>1. PICK p \in Positions, count \in Counts : Sized /\ p < len /\ ReadAt(p, count)
      BY <2>3, ReadSteps
    <3> DEFINE k == min_t(min_t(count, len - p), Room(p))
    <3>2. overrun' = (overrun \/ offset_p(p) + k > ObjSize)
      BY <3>1 DEF ReadAt
    <3>3. p \in Nat /\ count \in Nat
      BY TopType
    <3>4. k \in Nat /\ offset_p(p) \in Nat /\ offset_p(p) + k <= quantum_len
      BY <2>1, <3>1, <3>3, ReadCount
    <3> HIDE DEF k, offset_p
    <3>5. QED
      BY <2>2, <3>2, <3>4 DEF NoOverrun
  <2>4. CASE scull_write
    <3>1. total_len # 0
      BY <2>4 DEF scull_write, DivideError
    <3>2. PICK p \in Positions, count \in Counts, x \in Objs : Put(p, min_t(count, Room(p)), x)
      BY <2>4, <3>1, WriteSteps
    <3> DEFINE k == min_t(count, Room(p))
    <3>3. overrun' = (overrun \/ offset_p(p) + k > ObjSize)
      BY <3>2 DEF Put
    <3>4. p \in Nat /\ count \in Nat /\ Sized
      BY <2>4, <3>1, WriteSteps, TopType
    <3>5. k \in Nat /\ offset_p(p) \in Nat /\ offset_p(p) + k <= quantum_len
      BY <3>4, WriteCount
    <3> HIDE DEF k, offset_p
    <3>6. QED
      BY <2>2, <3>3, <3>5 DEF NoOverrun
  <2>5. CASE scull_seq_show
    <3>1. ~(min_t(len, PrintMax) > ObjSize)
      BY <2>1 DEF min_t
    <3>2. QED
      BY <2>5, <3>1 DEF scull_seq_show, NoOverrun
  <2>6. CASE UNCHANGED vars \/ scull_open
    BY <2>6 DEF vars, scull_open
  <2>7. ASSUME NEW t \in Procs,
               \/ ResetFirst(t) \/ ResetSecond(t) \/ SetQuantum(t)
               \/ ExchangeLoad(t) \/ ExchangeStore(t)
        PROVE  ~overrun'
    BY <2>7 DEF ResetFirst, ResetSecond, SetQuantum, ExchangeLoad, ExchangeStore, Ioctl
  <2>8. QED
    BY <2>3, <2>4, <2>5, <2>6, <2>7 DEF Next
<1>3. QED
  BY <1>1, <1>2, DevInvInit, DevInvStep, PTL DEF Spec

-----------------------------------------------------------------------------
(* The division in __scull_follow.                                         *)

(* Nobody sets a quantum of 0: not as an argument, and not by a faulting   *)
(* __get_user, which leaves 0 behind.                                      *)
NoZeroQuantum == 0 \notin QArgs /\ ~MayFault

(* A device with a quantum has a divisor.                                  *)
LEMMA Divisor == NoWrap /\ TypeOK /\ quantum_len # 0 => total_len # 0
<1> SUFFICES ASSUME NoWrap, TypeOK, quantum_len # 0 PROVE total_len # 0
  OBVIOUS
<1>1. /\ quantum_len \in 0..MaxQuantum /\ qset_len \in 1..MaxQset
      /\ SizeMod \in Nat \ {0} /\ MaxQuantum \in Nat /\ MaxQset \in Nat
  <2>1. quantum_len \in Quanta /\ qset_len \in {QsetInit, SCULL_QSET}
    BY DEF TypeOK
  <2>2. QED
    BY <2>1, Ranges
<1>2. quantum_len * qset_len \in 0..(SizeMod - 1)
  BY <1>1, TimesMono DEF NoWrap
<1>3. quantum_len * 1 <= quantum_len * qset_len
  BY <1>1, TimesMono
<1>4. total_len = quantum_len * qset_len
  BY <1>1, <1>2 DEF total_len
<1>5. QED
  BY <1>1, <1>3, <1>4

(* If nobody sets a quantum of 0 and no product overflows, no read or      *)
(* write divides by zero and leaves dev->lock held: whatever an ioctl      *)
(* stores in the globals without a lock, and whichever of its stores come  *)
(* before a trim adopts them, the device has a quantum.                    *)
THEOREM NeverWedged == ASSUME NoWrap, NoZeroQuantum PROVE Spec => []~wedged
<1> DEFINE Inv == scull_quantum # 0 /\ quantum_len # 0 /\ ~wedged
<1>1. QuantumInit # 0 /\ SCULL_QUANTUM # 0 /\ 0 \notin Fetched
  <2>1. QuantumInit \in Nat \ {0} /\ SCULL_QUANTUM \in Nat \ {0}
    BY DevAssumption, Zenon
  <2>2. QED
    BY <2>1 DEF NoZeroQuantum, Fetched
<1>2. Init => Inv
  BY <1>1 DEF Init
<1>3. TypeOK /\ Inv /\ [Next]_vars => Inv'
  <2> SUFFICES ASSUME TypeOK, Inv, [Next]_vars PROVE Inv'
    OBVIOUS
  <2>1. total_len # 0
    BY Divisor
  <2> HIDE DEF total_len
  <2>2. CASE scull_read
    BY <2>1, <2>2 DEF scull_read, NoLen, globals, dev
  <2>3. CASE scull_write
    BY <2>1, <2>3 DEF scull_write, NoLen, globals
  <2>4. CASE scull_open
    BY <2>4 DEF scull_open, __scull_trim, AdoptLens, globals
  <2>5. CASE UNCHANGED vars \/ scull_seq_show
    <3>1. UNCHANGED <<scull_quantum, quantum_len, wedged>>
      BY <2>5 DEF vars, globals, dev, scull_seq_show
    <3>2. QED
      BY <3>1, Zenon
  <2>6. ASSUME NEW t \in Procs,
               \/ ResetFirst(t) \/ ResetSecond(t) \/ SetQuantum(t)
               \/ ExchangeLoad(t) \/ ExchangeStore(t)
        PROVE  Inv'
    <3>1. UNCHANGED <<quantum_len, wedged>>
      BY <2>6 DEF ResetFirst, ResetSecond, SetQuantum, ExchangeLoad, ExchangeStore, Ioctl, dev
    <3>2. scull_quantum' # 0
      BY <1>1, <2>6 DEF ResetFirst, ResetSecond, SetQuantum, ExchangeLoad, ExchangeStore, globals
    <3>3. QED
      BY <3>1, <3>2, Zenon
  <2>7. QED
    BY <2>2, <2>3, <2>4, <2>5, <2>6 DEF Next
<1>4. QED
  BY <1>2, <1>3, TypeCorrect, PTL DEF Spec

-----------------------------------------------------------------------------
(* Reads do not allocate.                                                  *)

(* The list reaches as far as the device is long.                          *)
Reached == len > 0 => qset_p(len - 1) < Len(qset)

(* A write that makes the device longer has made the list longer before.   *)
LEMMA PutReaches ==
  ASSUME Exact, NEW p \in Nat, NEW k \in Nat, len \in Nat, len < p + k,
         offset_p(p) + k <= quantum_len
  PROVE  qset_p(p + k - 1) <= qset_p(p)
<1>1. Sized /\ quantum_len \in Nat /\ offset_p(p) \in Nat
  BY Place DEF Exact, Sized
<1> HIDE DEF qset_p, offset_p
<1>2. CASE k = 0
  <2>1. p - 1 \in Nat /\ p + k - 1 = p - 1 /\ p - 1 <= p
    BY <1>2
  <2>2. QED
    BY <1>1, <2>1, NodeMono
<1>3. CASE k # 0
  <2>1. k - 1 \in Nat /\ p + k - 1 = p + (k - 1) /\ offset_p(p) + (k - 1) < quantum_len
    BY <1>1, <1>3
  <2>2. qset_p(p + (k - 1)) = qset_p(p)
    BY <2>1, SameQuantum
  <2>3. qset_p(p) \in Nat
    BY <1>1, Place
  <2>4. QED
    BY <2>1, <2>2, <2>3
<1>4. QED
  BY <1>2, <1>3

(* Every step keeps the list as long as the device.                        *)
LEMMA ReachedStep ==
  ASSUME NoWrap PROVE DevInv /\ Reached /\ [Next]_vars => Reached'
<1> SUFFICES ASSUME DevInv, Reached, [Next]_vars PROVE Reached'
  OBVIOUS
<1>1. TypeOK /\ len \in Nat /\ ReadsDivide /\ qset \in Seq(Node)
  BY InvTypes DEF DevInv, List, TypeOK
<1>2. ASSUME Grown(qset'), UNCHANGED <<len, quantum_len, qset_len>> PROVE Reached'
  <2>1. \A p : qset_p(p)' = qset_p(p)
    BY <1>2 DEF qset_p, total_len
  <2>2. Len(qset') >= Len(qset) /\ Len(qset') \in Nat /\ Len(qset) \in Nat
    BY <1>1, <1>2 DEF Grown
  <2>3. CASE len = 0
    BY <1>2, <2>3 DEF Reached
  <2>4. CASE len # 0
    <3>1. Sized /\ len - 1 \in Nat
      BY <1>1, <2>4, DividesSized DEF ReadsDivide
    <3>2. qset_p(len - 1) \in Nat
      BY <3>1, Place
    <3> HIDE DEF qset_p
    <3>3. qset_p(len - 1) < Len(qset)
      BY <1>1, <2>4 DEF Reached
    <3>4. (qset_p(len - 1))' = qset_p(len - 1)
      BY <1>2, <2>1 DEF qset_p, total_len
    <3>5. QED
      BY <2>2, <3>2, <3>3, <3>4 DEF Reached
  <2>5. QED
    BY <2>3, <2>4
<1>3. CASE UNCHANGED dev
  BY <1>1, <1>2, <1>3 DEF dev, Grown
<1>4. CASE scull_open
  BY <1>4 DEF scull_open, __scull_trim, FreeList, Reached
<1>5. CASE scull_read
  BY <1>2, <1>5, ReadSteps
<1>6. CASE scull_write /\ total_len = 0
  BY <1>3, <1>6 DEF scull_write, DivideError, NoLen, dev
<1>7. CASE scull_write /\ total_len # 0
  <2>1. Exact /\ UNCHANGED <<quantum_len, qset_len>>
    BY <1>1, <1>7, DividesExact, WriteSteps
  <2>2. ASSUME NEW p \in Positions, NEW count \in Counts, NEW x \in Objs,
               Put(p, min_t(count, Room(p)), x)
        PROVE  Reached'
    <3> DEFINE k == min_t(count, Room(p))
    <3>1. p \in Nat /\ count \in Nat /\ Sized
      BY <2>1, TopType DEF Exact
    <3>2. k \in Nat /\ offset_p(p) + k <= quantum_len /\ qset_p(p) \in Nat
      BY <3>1, WriteCount, Place
    <3>3. /\ qset' \in Seq(Node) /\ Len(qset') >= Len(qset) /\ qset_p(p) + 1 <= Len(qset')
          /\ len' \in {len, IF len < p + k THEN p + k ELSE len}
      BY <2>2 DEF Put
    <3>4. Len(qset') \in Nat /\ Len(qset) \in Nat
      BY <1>1, <3>3
    <3> HIDE DEF k
    <3>5. (qset_p(len - 1))' = qset_p(len' - 1)
      BY <2>1 DEF qset_p, total_len
    <3>6. CASE len' = len
      <4>1. CASE len = 0
        BY <3>6, <4>1 DEF Reached
      <4>2. CASE len # 0
        <5>1. qset_p(len - 1) < Len(qset) /\ qset_p(len - 1) \in Nat
          <6>1. len - 1 \in Nat
            BY <1>1, <4>2
          <6>2. QED
            BY <1>1, <3>1, <4>2, <6>1, Place DEF Reached
        <5> HIDE DEF qset_p
        <5>2. QED
          BY <3>3, <3>4, <3>5, <3>6, <5>1 DEF Reached
      <4>3. QED
        BY <4>1, <4>2
    <3>7. CASE len' = p + k /\ len < p + k
      <4>1. qset_p(p + k - 1) <= qset_p(p)
        BY <1>1, <2>1, <3>1, <3>2, <3>7, PutReaches
      <4>2. p + k - 1 \in Nat
        BY <1>1, <3>1, <3>2, <3>7
      <4>3. qset_p(p + k - 1) \in Nat
        BY <3>1, <4>2, Place
      <4>4. (qset_p(len - 1))' = qset_p(p + k - 1)
        <5>1. len' - 1 = p + k - 1
          BY <3>1, <3>2, <3>7
        <5>2. QED
          BY <3>5, <5>1
      <4> HIDE DEF qset_p
      <4>5. QED
        BY <3>2, <3>3, <3>4, <4>1, <4>3, <4>4 DEF Reached
    <3>8. QED
      BY <3>3, <3>6, <3>7
  <2>3. QED
    BY <1>2, <1>7, <2>1, <2>2, WriteSteps
<1>8. CASE UNCHANGED vars \/ scull_seq_show
  BY <1>3, <1>8 DEF vars, scull_seq_show
<1>9. ASSUME NEW t \in Procs,
             \/ ResetFirst(t) \/ ResetSecond(t) \/ SetQuantum(t)
             \/ ExchangeLoad(t) \/ ExchangeStore(t)
      PROVE  Reached'
  BY <1>3, <1>9 DEF ResetFirst, ResetSecond, SetQuantum, ExchangeLoad, ExchangeStore, Ioctl
<1>10. QED
  BY <1>4, <1>5, <1>6, <1>7, <1>8, <1>9 DEF Next

(* A read below len walks only nodes that are there.                       *)
LEMMA ReadWalks ==
  ASSUME DevInv, Reached, Sized, NEW p \in Nat, p < len
  PROVE  Missing(p) = 0 /\ Walk(p) = {0} /\ Longer(0) = qset
<1>1. len \in Nat /\ qset \in Seq(Node)
  BY InvTypes DEF DevInv, List, TypeOK
<1>2. len - 1 \in Nat /\ p <= len - 1
  BY <1>1
<1>3. qset_p(p) <= qset_p(len - 1) /\ qset_p(len - 1) < Len(qset)
  BY <1>1, <1>2, NodeMono DEF Reached
<1>4. qset_p(p) \in Nat /\ qset_p(len - 1) \in Nat /\ Len(qset) \in Nat
  <2>1. qset_p(p) \in Nat /\ qset_p(len - 1) \in Nat
    BY <1>2, Place
  <2>2. QED
    BY <1>1, <2>1
<1> HIDE DEF qset_p
<1>5. Missing(p) = 0
  BY <1>3, <1>4 DEF Missing
<1>6. Longer(0) = qset
  <2>1. [i \in 1..0 |-> NoData] = <<>>
    OBVIOUS
  <2>2. QED
    BY <1>1, <2>1, ConcatEmptySeq DEF Longer
<1>7. Walk(p) = {0}
  BY <1>5 DEF Walk
<1>8. QED
  BY <1>5, <1>6, <1>7

(* As long as total_len does not overflow, a read adds no node to the list *)
(* although __scull_follow would.                                          *)
THEOREM ReadsCorrect == ASSUME NoWrap PROVE Spec => ReadsAllocateNothing
<1>1. Init => Reached
  BY DEF Init, Reached
<1>2. DevInv /\ Reached /\ [Next]_vars => [scull_read => UNCHANGED qset]_vars
  <2> SUFFICES ASSUME DevInv, Reached, scull_read PROVE UNCHANGED qset
    OBVIOUS
  <2>1. CASE qset' # qset
    <3>1. PICK p \in Positions, count \in Counts : Sized /\ p < len /\ ReadAt(p, count)
      BY <2>1, ReadSteps
    <3>2. p \in Nat
      BY TopType
    <3>3. \E j \in Walk(p) : qset' = Longer(j)
      BY <3>1 DEF ReadAt
    <3>4. QED
      BY <3>1, <3>2, <3>3, ReadWalks
  <2>2. QED
    BY <2>1
<1>3. DevInv /\ Reached /\ [Next]_vars => Reached'
  BY ReachedStep
<1>4. QED
  BY <1>1, <1>2, <1>3, DevInvInit, DevInvStep, PTL DEF Spec, ReadsAllocateNothing

-----------------------------------------------------------------------------
(* The device is a sparse file.                                            *)

(* ByteAt, in terms of slots.                                              *)
Seen(p) ==
  IF total_len = 0 \/ Target(p) = Null THEN Junk ELSE mem[Target(p)][offset_p(p)]

(* The byte a walk reaches.                                                *)
LEMMA ByteAtSeen == DevInv => \A p \in Nat : ByteAt(p) = Seen(p)
<1> SUFFICES ASSUME DevInv, NEW p \in Nat PROVE ByteAt(p) = Seen(p)
  OBVIOUS
<1>1. qset \in Seq(Node) /\ TypeOK
  BY InvTypes DEF DevInv, List
<1>2. CASE total_len = 0
  BY <1>2 DEF ByteAt, Seen
<1>3. CASE total_len # 0
  <2>1. qset_p(p) \in Nat /\ Len(qset) \in Nat
    <3>1. qset_p(p) \in Nat
      BY <1>1, <1>3, DividesSized, Place
    <3>2. QED
      BY <1>1, <3>1
  <2> HIDE DEF qset_p, quantum_p, offset_p, total_len
  <2>2. qset_p(p) >= Len(qset) <=> qset_p(p) + 1 \notin 1..Len(qset)
    BY <2>1
  <2>3. QED
    BY <1>3, <2>2 DEF ByteAt, Seen, Target, Slot, Quantum, Array
<1>4. QED
  BY <1>2, <1>3

(* Every pointer is to an object, every offset in it.                      *)
LEMMA SeenType ==
  DevInv => \A p \in Nat :
    /\ Seen(p) \in Data \cup {Junk}
    /\ total_len # 0 /\ Target(p) # Null => Target(p) \in live /\ Target(p) \in Objs
<1> SUFFICES ASSUME DevInv, NEW p \in Nat, total_len # 0, Target(p) # Null
             PROVE  Target(p) \in live /\ Target(p) \in Objs /\ Seen(p) \in Data \cup {Junk}
  BY DEF Seen
<1>1. Sized /\ quantum_len \in 0..MaxQuantum
  <2>1. TypeOK /\ quantum_len \in Quanta
    BY InvTypes DEF DevInv, Settings
  <2>2. QED
    BY <2>1, DividesSized, Ranges
<1>2. qset_p(p) + 1 \in Nat /\ quantum_p(p) \in Cells /\ offset_p(p) \in 0..(MaxQuantum - 1)
  <2>1. /\ qset_p(p) \in Nat /\ quantum_p(p) \in 0..(qset_len - 1)
        /\ offset_p(p) \in 0..(quantum_len - 1)
    BY <1>1, Place
  <2> HIDE DEF qset_p, quantum_p, offset_p
  <2>2. QED
    BY <1>1, <2>1, Ranges DEF Cells
<1> HIDE DEF qset_p, quantum_p, offset_p
<1>3. Target(p) \in live
  BY <1>2 DEF DevInv, List, Target
<1>4. live \subseteq Objs /\ mem \in [Objs -> Bytes]
  BY DEF DevInv, Memory
<1>5. mem[Target(p)] \in Bytes
  BY <1>3, <1>4
<1>6. mem[Target(p)][offset_p(p)] \in Data \cup {Junk}
  BY <1>2, <1>5 DEF Bytes
<1>7. QED
  BY <1>3, <1>4, <1>6 DEF Seen

(* Nodes and arrays without pointers change no byte.                       *)
LEMMA GrowSeen ==
  ASSUME DevInv, Grown(qset'), UNCHANGED <<quantum_len, qset_len, mem>>, NEW p \in Nat
  PROVE  Seen(p)' = Seen(p)
<1>1. /\ total_len' = total_len /\ qset_p(p)' = qset_p(p)
      /\ quantum_p(p)' = quantum_p(p) /\ offset_p(p)' = offset_p(p)
  BY DEF total_len, qset_p, quantum_p, offset_p
<1>2. CASE total_len = 0
  BY <1>1, <1>2 DEF Seen
<1>3. CASE total_len # 0
  <2>1. qset_p(p) + 1 \in Nat /\ quantum_p(p) \in Cells
    <3>1. Sized
      BY <1>3, InvTypes, DividesSized
    <3>2. QED
      BY <3>1, Place DEF Cells
  <2> HIDE DEF qset_p, quantum_p, offset_p, total_len
  <2>2. Target(p)' = Target(p)
    BY <1>1, <2>1 DEF Target, Grown
  <2>3. QED
    BY <1>1, <2>2 DEF Seen
<1>4. QED
  BY <1>2, <1>3

(* Two positions share a slot only within a quantum, and then they are as  *)
(* far apart as their offsets.                                             *)
LEMMA SameSlot ==
  ASSUME Exact, NEW p \in Nat, NEW y \in Nat
  PROVE  /\ qset_p(y) = qset_p(p) /\ quantum_p(y) = quantum_p(p)
              => y - p = offset_p(y) - offset_p(p)
         /\ \A k \in Nat : offset_p(p) + k <= quantum_len /\ y \in p..(p + k - 1)
              => qset_p(y) = qset_p(p) /\ quantum_p(y) = quantum_p(p)
<1>1. Sized /\ total_len \in Nat /\ quantum_len \in Nat
  BY DEF Exact, Sized
<1>2. /\ qset_p(p) \in Nat /\ quantum_p(p) \in Nat /\ offset_p(p) \in Nat
      /\ p = total_len * qset_p(p) + (quantum_len * quantum_p(p) + offset_p(p))
      /\ qset_p(y) \in Nat /\ quantum_p(y) \in Nat /\ offset_p(y) \in Nat
      /\ y = total_len * qset_p(y) + (quantum_len * quantum_p(y) + offset_p(y))
  BY <1>1, Place
<1> HIDE DEF qset_p, quantum_p, offset_p, total_len
<1>3. ASSUME qset_p(y) = qset_p(p), quantum_p(y) = quantum_p(p)
      PROVE  y - p = offset_p(y) - offset_p(p)
  <2>1. total_len * qset_p(p) \in Nat /\ quantum_len * quantum_p(p) \in Nat
    BY <1>1, <1>2, TimesMono
  <2>2. y = total_len * qset_p(p) + (quantum_len * quantum_p(p) + offset_p(y))
    BY <1>2, <1>3
  <2>3. QED
    BY <1>2, <2>1, <2>2
<1>4. ASSUME NEW k \in Nat, offset_p(p) + k <= quantum_len, y \in p..(p + k - 1)
      PROVE  qset_p(y) = qset_p(p) /\ quantum_p(y) = quantum_p(p)
  <2>1. y - p \in Nat /\ p + (y - p) = y /\ offset_p(p) + (y - p) < quantum_len
    BY <1>1, <1>2, <1>4
  <2>2. QED
    BY <2>1, SameQuantum
<1>5. QED
  BY <1>3, <1>4

(* A write stores its bytes and no others.                                 *)
LEMMA PutSeen ==
  ASSUME DevInv, Exact, NEW p \in Nat, NEW k \in Nat, offset_p(p) + k <= quantum_len,
         NEW x, Put(p, k, x), UNCHANGED <<quantum_len, qset_len>>, NEW y \in Nat
  PROVE  IF y \in p..(p + k - 1) THEN Seen(y)' \in Data ELSE Seen(y)' = Seen(y)
<1> DEFINE c == offset_p(p)
           e == offset_p(y)
           old == IF Target(p) = Null THEN Fresh ELSE mem[x]
<1>1. /\ total_len' = total_len /\ qset_p(y)' = qset_p(y)
      /\ quantum_p(y)' = quantum_p(y) /\ offset_p(y)' = offset_p(y)
  BY DEF total_len, qset_p, quantum_p, offset_p
<1>2. /\ qset_p(y) \in Nat /\ quantum_p(y) \in Cells /\ c \in Nat /\ e \in 0..(quantum_len - 1)
      /\ qset_p(p) \in Nat /\ quantum_p(p) \in Cells
      /\ total_len # 0
  <2>1. Sized
    BY DEF Exact
  <2>2. total_len # 0
    BY DEF Exact, Sized
  <2>3. /\ qset_p(y) \in Nat /\ quantum_p(y) \in 0..(qset_len - 1) /\ e \in 0..(quantum_len - 1)
    BY <2>1, Place
  <2>4. /\ qset_p(p) \in Nat /\ quantum_p(p) \in 0..(qset_len - 1) /\ c \in 0..(quantum_len - 1)
    BY <2>1, Place
  <2> HIDE DEF c, e, qset_p, quantum_p, total_len
  <2>5. c \in Nat
    BY <2>4
  <2>6. QED
    BY <2>2, <2>3, <2>4, <2>5 DEF Cells
<1>3. e \in 0..(MaxQuantum - 1)
  <2>1. quantum_len \in Quanta
    BY DEF DevInv, Settings
  <2> HIDE DEF e
  <2>2. QED
    BY <1>2, <2>1, Ranges
<1>4. /\ x \in Objs /\ x # Null /\ IF Target(p) = Null THEN x \notin live ELSE x = Target(p)
      /\ \A m \in Nat, j \in Cells :
           Slot(qset', m, j) = IF m = qset_p(p) + 1 /\ j = quantum_p(p) THEN x
                                                                     ELSE Slot(qset, m, j)
  <2>1. Null \notin Objs
    BY DevAssumption, Zenon
  <2>2. QED
    BY <2>1 DEF Put
<1>5. PICK s \in [1..k -> Data] :
        mem' = [mem EXCEPT ![x] = Stored(IF Target(p) = Null THEN Fresh ELSE @, c, s)]
  BY DEF Put
<1>6. mem \in [Objs -> Bytes] /\ old \in Bytes
  BY <1>4 DEF DevInv, Memory, Fresh, Bytes
<1>7. /\ mem'[x] = Stored(old, c, s)
      /\ \A o \in Objs : o # x => mem'[o] = mem[o]
  BY <1>4, <1>5, <1>6
<1> DEFINE same == qset_p(y) = qset_p(p) /\ quantum_p(y) = quantum_p(p)
<1>8. /\ same => y - p = e - c
      /\ y \in p..(p + k - 1) => same
  BY SameSlot
<1> HIDE DEF c, e, old, qset_p, quantum_p, offset_p, total_len
<1>9. Target(y)' = IF same THEN x ELSE Target(y)
  <2>1. qset_p(y) + 1 \in Nat /\ (qset_p(y) + 1 = qset_p(p) + 1 <=> qset_p(y) = qset_p(p))
    BY <1>2
  <2>2. QED
    BY <1>1, <1>2, <1>4, <2>1 DEF Target
<1>10. CASE same
  <2>1. Seen(y)' = Stored(old, c, s)[e]
    BY <1>1, <1>2, <1>4, <1>7, <1>9, <1>10 DEF Seen, e
  <2>2. Stored(old, c, s)[e] = IF e \in c..(c + k - 1) THEN s[e - c + 1] ELSE old[e]
    <3>1. c \in Nat /\ old \in Bytes
      BY <1>2, <1>6
    <3>2. QED
      BY <1>3, <3>1, StoredBytes
  <2>3. y \in p..(p + k - 1) <=> e \in c..(c + k - 1)
    BY <1>2, <1>3, <1>8, <1>10
  <2>4. e \in c..(c + k - 1) => s[e - c + 1] \in Data
    <3>1. e \in c..(c + k - 1) => e - c + 1 \in 1..k
      BY <1>2, <1>3
    <3>2. QED
      BY <1>5, <3>1
  <2>5. old[e] = Seen(y)
    <3>1. Target(y) = Target(p)
      BY <1>10 DEF Target
    <3>2. Target(p) = Null => old[e] = Junk
      BY <1>3 DEF old, Fresh
    <3>3. QED
      BY <1>2, <1>4, <3>1, <3>2 DEF Seen, old, e
  <2>6. QED
    BY <2>1, <2>2, <2>3, <2>4, <2>5
<1>11. CASE ~same
  <2>1. Target(y)' = Target(y) /\ y \notin p..(p + k - 1)
    BY <1>8, <1>9, <1>11
  <2>2. CASE Target(y) = Null
    BY <2>1, <2>2 DEF Seen
  <2>3. CASE Target(y) # Null
    <3>1. Target(y) \in live /\ Target(y) \in Objs
      BY <1>2, <2>3, SeenType
    <3>2. Target(y) # x
      <4>1. CASE Target(p) = Null
        BY <1>4, <3>1, <4>1
      <4>2. CASE Target(p) # Null
        <5>1. Target(y) # Target(p)
          BY <1>2, <1>11, <2>3, SlotsApart DEF Target
        <5>2. QED
          BY <1>4, <4>2, <5>1
      <4>3. QED
        BY <4>1, <4>2
    <3>3. QED
      BY <1>1, <1>2, <1>7, <2>1, <2>3, <3>1, <3>2 DEF Seen
  <2>4. QED
    BY <2>1, <2>2, <2>3
<1>12. QED
  BY <1>10, <1>11

(* The abstract state, before and after a step.                            *)
Content == [p \in 0..(Top - 1) |-> ByteAt(p)]

(* What the abstract file sees is what is seen through the slots.          *)
LEMMA ContentSeen ==
  DevInv => /\ Content = [p \in 0..(Top - 1) |-> Seen(p)]
            /\ Content \in [0..(Top - 1) -> Data \cup {Junk}]
<1> SUFFICES ASSUME DevInv
             PROVE  /\ Content = [p \in 0..(Top - 1) |-> Seen(p)]
                    /\ Content \in [0..(Top - 1) -> Data \cup {Junk}]
  OBVIOUS
<1>1. \A p \in 0..(Top - 1) : p \in Nat
  BY TopType
<1>2. \A p \in 0..(Top - 1) : ByteAt(p) = Seen(p) /\ Seen(p) \in Data \cup {Junk}
  BY <1>1, ByteAtSeen, SeenType
<1>3. QED
  BY <1>2 DEF Content

(* A read delivers the bytes stored where it reads, none past len.         *)
LEMMA ReadRefines ==
  ASSUME NoWrap, DevInv, Reached, scull_read, out' # NoOut
  PROVE  /\ out'.pos + Len(out'.bytes) <= len
         /\ \A i \in 1..Len(out'.bytes) : out'.bytes[i] = Content[out'.pos + i - 1]
<1>1. PICK p \in Positions, count \in Counts : Sized /\ total_len # 0 /\ p < len /\ ReadAt(p, count)
  BY ReadSteps
<1>2. p \in Nat /\ count \in Nat /\ len \in Nat /\ len <= Top /\ Exact
  <2>1. len \in 0..Top
    BY DEF DevInv, Memory
  <2>2. QED
    BY <1>1, <2>1, TopType, InvTypes, DividesExact
<1> DEFINE k == min_t(min_t(count, len - p), Room(p))
           o == Quantum(qset, p)
<1>3. k \in Nat /\ offset_p(p) \in Nat /\ offset_p(p) + k <= quantum_len /\ p + k <= len
  BY <1>1, <1>2, ReadCount
<1>4. Missing(p) = 0 /\ Walk(p) = {0} /\ Longer(0) = qset
  BY <1>1, <1>2, ReadWalks
<1>5. /\ o # Null
      /\ out' = [pos |-> p, bytes |-> [i \in 1..k |-> mem[o][offset_p(p) + i - 1]]]
  BY <1>1, <1>4 DEF ReadAt
<1>6. o = Target(p)
  <2>1. qset_p(p) \in Nat /\ Len(qset) \in Nat
    <3>1. qset_p(p) \in Nat
      BY <1>1, <1>2, Place
    <3>2. QED
      BY <3>1 DEF DevInv, List
  <2> HIDE DEF qset_p, quantum_p
  <2>2. qset_p(p) + 1 \in 1..Len(qset)
    BY <1>4, <2>1 DEF Missing
  <2>3. QED
    BY <2>2 DEF Quantum, Array, Target, Slot
<1> HIDE DEF k, o, offset_p, total_len
<1>7. out'.pos = p /\ Len(out'.bytes) = k
      /\ \A i \in 1..k : out'.bytes[i] = mem[o][offset_p(p) + i - 1]
  <2> DEFINE b == [i \in 1..k |-> mem[o][offset_p(p) + i - 1]]
  <2>1. Len(b) = k /\ \A i \in 1..k : b[i] = mem[o][offset_p(p) + i - 1]
    BY <1>3
  <2>2. out'.pos = p /\ out'.bytes = b
    BY <1>5
  <2> HIDE DEF b
  <2>3. QED
    BY <2>1, <2>2
<1>8. ASSUME NEW i \in 1..k PROVE mem[o][offset_p(p) + i - 1] = Content[p + i - 1]
  <2>1. i - 1 \in Nat /\ offset_p(p) + (i - 1) < quantum_len /\ quantum_len \in Nat
        /\ p + i - 1 \in 0..(Top - 1)
    <3>1. quantum_len \in Nat
      BY <1>1 DEF Sized
    <3>2. QED
      BY <1>2, <1>3, <3>1, TopType
  <2>2. /\ qset_p(p + (i - 1)) = qset_p(p) /\ quantum_p(p + (i - 1)) = quantum_p(p)
        /\ offset_p(p + (i - 1)) = offset_p(p) + (i - 1)
    BY <1>2, <2>1, SameQuantum
  <2>3. Target(p + (i - 1)) = o
    BY <1>6, <2>2 DEF Target
  <2>4. Seen(p + (i - 1)) = mem[o][offset_p(p) + (i - 1)]
    BY <1>1, <1>5, <2>2, <2>3 DEF Seen
  <2>5. Content[p + i - 1] = Seen(p + (i - 1))
    BY <2>1, ContentSeen
  <2>6. QED
    BY <2>4, <2>5
<1>9. QED
  BY <1>3, <1>7, <1>8

(* A write stores bytes at one place and may add length.                   *)
LEMMA WriteRefines ==
  ASSUME NoWrap, DevInv, DevInv', scull_write
  PROVE  /\ out' = NoOut
         /\ \/ Content' = Content /\ len' = len
            \/ \E p \in 0..Top : \E n \in 0..(Top - p) :
                 /\ len' \in {len, IF len < p + n THEN p + n ELSE len}
                 /\ \A x \in 0..(Top - 1) :
                      IF x \in p..(p + n - 1) THEN Content'[x] \in Data
                                             ELSE Content'[x] = Content[x]
<1>1. /\ Content = [p \in 0..(Top - 1) |-> Seen(p)]
      /\ Content' = [p \in 0..(Top - 1) |-> Seen(p)']
  <2>1. (Content = [p \in 0..(Top - 1) |-> Seen(p)])'
    BY ContentSeen, PTL
  <2>2. QED
    BY <2>1, ContentSeen
<1>2. \A x \in 0..(Top - 1) : x \in Nat
  BY TopType
<1>3. CASE total_len = 0
  BY <1>3 DEF scull_write, DivideError, NoLen, heap, Content, ByteAt, total_len
<1>4. CASE total_len # 0
  <2>1. Exact /\ Sized /\ UNCHANGED <<quantum_len, qset_len>> /\ out' = NoOut
    BY <1>4, InvTypes, DividesExact, WriteSteps
  <2>2. CASE Grown(qset') /\ UNCHANGED <<len, heap, overrun>>
    <3>1. \A p \in 0..(Top - 1) : Seen(p)' = Seen(p)
      BY <1>2, <2>1, <2>2, GrowSeen DEF heap
    <3>2. QED
      BY <1>1, <2>1, <2>2, <3>1
  <2>3. ASSUME NEW p \in Positions, NEW count \in Counts, NEW x \in Objs,
               Put(p, min_t(count, Room(p)), x)
        PROVE  \E q \in 0..Top : \E n \in 0..(Top - q) :
                 /\ len' \in {len, IF len < q + n THEN q + n ELSE len}
                 /\ \A y \in 0..(Top - 1) :
                      IF y \in q..(q + n - 1) THEN Content'[y] \in Data
                                             ELSE Content'[y] = Content[y]
    <3> DEFINE k == min_t(count, Room(p))
    <3>1. p \in Nat /\ count \in Nat /\ p <= MaxPosition /\ MaxPosition \in Nat
      BY TopType
    <3>2. k \in Nat /\ offset_p(p) \in Nat /\ offset_p(p) + k <= quantum_len
      BY <2>1, <3>1, WriteCount
    <3>3. quantum_len \in 0..MaxQuantum
      BY Ranges DEF DevInv, Settings
    <3> HIDE DEF k, offset_p
    <3>4. p \in 0..Top /\ k \in 0..(Top - p)
      BY <3>1, <3>2, <3>3, Ranges DEF Top
    <3>5. len' \in {len, IF len < p + k THEN p + k ELSE len}
      BY <2>3 DEF Put, k
    <3>6. \A y \in 0..(Top - 1) :
            IF y \in p..(p + k - 1) THEN Seen(y)' \in Data ELSE Seen(y)' = Seen(y)
      BY <1>2, <2>1, <2>3, <3>1, <3>2, PutSeen DEF k
    <3>7. QED
      BY <1>1, <3>4, <3>5, <3>6
  <2>4. QED
    BY <1>4, <2>1, <2>2, <2>3, WriteSteps
<1>5. QED
  BY <1>3, <1>4

(* Every step of the device is one of the file, or none.                   *)
LEMMA StepRefines ==
  ASSUME NoWrap PROVE DevInv /\ DevInv' /\ Reached /\ [Next]_vars => [File!Next]_(File!vars)
<1> SUFFICES ASSUME DevInv, DevInv', Reached, [Next]_vars PROVE [File!Next]_(File!vars)
  OBVIOUS
<1>1. /\ Content = [p \in 0..(Top - 1) |-> Seen(p)]
      /\ Content' = [p \in 0..(Top - 1) |-> Seen(p)']
      /\ Content' \in [0..(Top - 1) -> Data \cup {Junk}]
  <2>1. (Content = [p \in 0..(Top - 1) |-> Seen(p)])'
        /\ (Content \in [0..(Top - 1) -> Data \cup {Junk}])'
    BY ContentSeen, PTL
  <2>2. QED
    BY <2>1, ContentSeen
<1>2. ASSUME Content' = Content, len' = len, out' = NoOut PROVE File!Next
  BY <1>2 DEF File!Next, File!Other, Content
<1>3. ASSUME UNCHANGED <<dev, heap>>, out' = NoOut PROVE File!Next
  BY <1>2, <1>3
  DEF dev, heap, Content, ByteAt, Quantum, Array, qset_p, quantum_p, offset_p, total_len
<1>4. CASE UNCHANGED vars
  BY <1>4 DEF File!vars, vars, dev, heap, ByteAt, Quantum, Array, qset_p, quantum_p,
     offset_p, total_len
<1>5. CASE scull_open
  <2>1. qset' = <<>> /\ len' = 0 /\ out' = NoOut
    BY <1>5 DEF scull_open, __scull_trim, FreeList
  <2>2. ASSUME NEW p PROVE Seen(p)' = Junk
    BY <2>1, NoSlots DEF Seen, Target
  <2>3. Content' = [p \in 0..(Top - 1) |-> Junk]
    BY <1>1, <2>2
  <2>4. QED
    BY <2>1, <2>3 DEF File!Next, File!Trim, File!Cells, Content
<1>6. CASE scull_read
  <2>1. Grown(qset') /\ UNCHANGED <<len, heap, quantum_len, qset_len>>
    BY <1>6, ReadSteps
  <2>2. Content' = Content
    <3>1. \A p \in 0..(Top - 1) : p \in Nat
      BY TopType
    <3>2. \A p \in 0..(Top - 1) : Seen(p)' = Seen(p)
      BY <2>1, <3>1, GrowSeen DEF heap
    <3>3. QED
      BY <1>1, <3>2
  <2>3. CASE out' = NoOut
    BY <1>2, <2>1, <2>2, <2>3
  <2>4. CASE out' # NoOut
    <3>1. /\ out'.pos + Len(out'.bytes) <= len
          /\ \A i \in 1..Len(out'.bytes) : out'.bytes[i] = Content[out'.pos + i - 1]
      BY <1>6, <2>4, ReadRefines
    <3>2. File!Read
      BY <2>1, <2>2, <2>4, <3>1 DEF File!Read, Content
    <3>3. QED
      BY <3>2 DEF File!Next
  <2>5. QED
    BY <2>3, <2>4
<1>7. CASE scull_write
  <2>1. out' = NoOut
    BY <1>7, WriteRefines
  <2>2. CASE Content' = Content /\ len' = len
    BY <1>2, <2>1, <2>2
  <2>3. ASSUME NEW p \in 0..Top, NEW n \in 0..(Top - p),
               len' \in {len, IF len < p + n THEN p + n ELSE len},
               \A x \in 0..(Top - 1) :
                 IF x \in p..(p + n - 1) THEN Content'[x] \in Data
                                        ELSE Content'[x] = Content[x]
        PROVE  File!Write
    BY <1>1, <2>1, <2>3 DEF File!Write, File!Store, File!Cells, Content
  <2>4. QED
    BY <1>7, <2>2, <2>3, WriteRefines DEF File!Next
<1>8. CASE scull_seq_show
  BY <1>3, <1>8 DEF scull_seq_show
<1>9. ASSUME NEW t \in Procs,
             \/ ResetFirst(t) \/ ResetSecond(t) \/ SetQuantum(t)
             \/ ExchangeLoad(t) \/ ExchangeStore(t)
      PROVE  File!Next
  BY <1>3, <1>9 DEF ResetFirst, ResetSecond, SetQuantum, ExchangeLoad, ExchangeStore, Ioctl
<1>10. QED
  BY <1>4, <1>5, <1>6, <1>7, <1>8, <1>9 DEF Next

(* As long as total_len does not overflow and the quanta fit the objects,  *)
(* the device is the sparse file it promises to be: a read delivers the    *)
(* bytes last written where it reads, whatever allocations and copies fail *)
(* and whatever ioctls change meanwhile.                                   *)
THEOREM FileCorrect == ASSUME NoWrap, QuantumFits PROVE Spec => FileSpec
<1>1. Init => Reached /\ File!Init
  <2> SUFFICES ASSUME Init PROVE Reached /\ File!Init
    OBVIOUS
  <2>1. len = 0 /\ qset = <<>> /\ out = NoOut
    BY DEF Init
  <2>2. ASSUME NEW p PROVE Seen(p) = Junk
    BY <2>1, NoSlots DEF Seen, Target
  <2>3. Content = [p \in 0..(Top - 1) |-> Junk]
    BY <2>2, ContentSeen, DevInvInit
  <2>4. QED
    BY <2>1, <2>3 DEF Reached, File!Init, File!Cells, Content
<1>2. DevInv /\ Reached /\ [Next]_vars => Reached'
  BY ReachedStep
<1>3. DevInv /\ DevInv' /\ Reached /\ [Next]_vars => [File!Next]_(File!vars)
  BY StepRefines
<1>4. QED
  BY <1>1, <1>2, <1>3, DevInvInit, DevInvStep, PTL DEF Spec, FileSpec, File!Spec
=============================================================================
