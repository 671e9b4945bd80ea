------------------------------ MODULE PipeRing ------------------------------
(***************************************************************************)
(* The arithmetic of the circular buffer of scull/pipe.c.                  *)
(*                                                                         *)
(* A pipe pointer (dev->rp, dev->wp) is its offset from dev->buf, so       *)
(* dev->buf is 0 and dev->end is the recorded length n = dev->buf_len.     *)
(* The lengths are size_t: subtraction wraps modulo SizeMod (2^64).        *)
(***************************************************************************)
EXTENDS Integers

CONSTANT SizeMod        \* number of values of a size_t

ASSUME SizeModAssumption == SizeMod \in Nat \ {0}

min_t(a, b) == IF a < b THEN a ELSE b

Dec(x) == (x - 1) % SizeMod

Inc(x) == (x + 1) % SizeMod

spacefreeNoGap(rp, wp, n) ==
  IF rp = wp THEN n ELSE ((rp + n - wp) % SizeMod) % n

(* Bytes that may be written; one cell stays free to tell full from empty. *)
spacefree(rp, wp, n) ==
  IF rp = wp THEN Dec(n)
             ELSE Dec(((rp + n - wp) % SizeMod) % n)

(* Bytes one read copies out: the contiguous data at rp.                   *)
ReadCount(rp, wp, n, count) ==
  min_t(count, IF wp > rp THEN wp - rp ELSE n - rp)

(* Bytes one write copies in: the contiguous free space at wp.             *)
WriteCount(rp, wp, n, count) ==
  min_t(min_t(count, spacefree(rp, wp, n)),
        IF wp >= rp THEN n - wp ELSE rp - wp - 1)

AdvanceLate(p, k, n) == IF p + k > n THEN 0 ELSE p + k

(* A pointer after k bytes: it wraps to dev->buf when it meets dev->end.   *)
Advance(p, k, n) == IF p + k = n THEN 0 ELSE p + k

(* Where a pointer of a ring of length n may be.                           *)
RingPointers(n) == {p \in Nat : p < n \/ p = 0}

(* Unread bytes, and the unread bytes in order, oldest first.              *)
Used(rp, wp, n) == IF wp >= rp THEN wp - rp ELSE wp - rp + n

Cell(rp, n, i) == IF rp + i < n THEN rp + i ELSE rp + i - n

Contents(mem, rp, wp, n) ==
  [i \in 1..Used(rp, wp, n) |-> mem[Cell(rp, n, i - 1)]]
=============================================================================
