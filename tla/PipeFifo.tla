------------------------------ MODULE PipeFifo ------------------------------
(***************************************************************************)
(* What a scullpipe promises its users: a bounded queue of bytes.  Bytes   *)
(* come out in the order they went in, each once; a read delivers a prefix *)
(* of what is queued; an open and the last close may empty the queue,      *)
(* nothing else loses data.                                                *)
(***************************************************************************)
EXTENDS Integers, Sequences

CONSTANTS Procs, Data, Capacity

VARIABLES
  users,  \* the processes that have the pipe open
  q,      \* the bytes written and not yet read
  got     \* got[p]: the bytes the read p is in has delivered

vars == <<users, q, got>>

Init == users = {} /\ q = <<>> /\ got = [p \in Procs |-> <<>>]

Send ==
  /\ Len(q') \in Len(q)..Capacity
  /\ SubSeq(q', 1, Len(q)) = q
  /\ UNCHANGED <<users, got>>

Receive(p) ==
  \E n \in 0..Len(q) :
    /\ p \in users
    /\ got' = [got EXCEPT ![p] = SubSeq(q, 1, n)]
    /\ q' = SubSeq(q, n + 1, Len(q))
    /\ UNCHANGED users

Finish(p) == got' = [got EXCEPT ![p] = <<>>] /\ UNCHANGED <<users, q>>

Join(p) ==
  /\ p \notin users /\ users' = users \cup {p}
  /\ q' \in {q, <<>>}
  /\ UNCHANGED got

Leave(p) ==
  /\ p \in users /\ users' = users \ {p}
  /\ q' = q \/ (users' = {} /\ q' = <<>>)
  /\ UNCHANGED got

Next == Send \/ \E p \in Procs : Receive(p) \/ Finish(p) \/ Join(p) \/ Leave(p)

Spec == Init /\ [][Next]_vars
=============================================================================
