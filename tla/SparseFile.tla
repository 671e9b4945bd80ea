----------------------------- MODULE SparseFile -----------------------------
(***************************************************************************)
(* What a bare scull device promises its users: an array of bytes with a   *)
(* size.  A write stores its bytes and nothing else, a read delivers the   *)
(* bytes last stored and none past the size, trimming forgets them all.    *)
(* A byte never stored (Unset) may be delivered as anything.               *)
(***************************************************************************)
EXTENDS Integers, Sequences

CONSTANTS Top, Data, Unset, NoOut

VARIABLES
  content,    \* content[p]: the byte at position p
  size,       \* the length of the device
  out         \* the read that just ended, if that was the last step

vars == <<content, size, out>>

Cells == 0..(Top - 1)

Init == content = [p \in Cells |-> Unset] /\ size = 0 /\ out = NoOut

(* The bytes p .. p+n-1 are stored.  A failing copy may store other bytes  *)
(* than it was given but adds no length.                                   *)
Store(p, n) ==
  /\ size' \in {size, IF size < p + n THEN p + n ELSE size}
  /\ \A x \in Cells : IF x \in p..(p + n - 1) THEN content'[x] \in Data
                                              ELSE content'[x] = content[x]

Write ==
  /\ out' = NoOut
  /\ content' \in [Cells -> Data \cup {Unset}]
  /\ \E p \in 0..Top : \E n \in 0..(Top - p) : Store(p, n)

Read ==
  /\ out' # NoOut
  /\ out'.pos + Len(out'.bytes) <= size
  /\ \A i \in 1..Len(out'.bytes) : out'.bytes[i] = content[out'.pos + i - 1]
  /\ UNCHANGED <<content, size>>

Trim == content' = [p \in Cells |-> Unset] /\ size' = 0 /\ out' = NoOut

Other == out' = NoOut /\ UNCHANGED <<content, size>>

Next == Other \/ Trim \/ Read \/ Write

Spec == Init /\ [][Next]_vars
=============================================================================
