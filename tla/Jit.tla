--------------------------------- MODULE Jit ---------------------------------
(***************************************************************************)
(* The jit driver (jit/jit.c): /proc files that wait for a delay in four   *)
(* ways, and files filled by a timer or a tasklet that reschedules itself. *)
(* Every read has its own data, so one process that reads again and again  *)
(* shows all there is; a callback that outlives a read is followed until   *)
(* it stops.  jiffies wraps at Wrap.  "currentime" prints the clocks and   *)
(* has no state.                                                           *)
(***************************************************************************)
EXTENDS Integers

CONSTANTS
  Wrap,             \* jiffies counts modulo Wrap
  Delay,            \* delay, in jiffies
  Late,             \* jiffies after which a delayed process gets its turn
  JIT_ASYNC_LOOPS   \* lines a callback prints

ASSUME JitAssumption ==
  /\ Delay \in Nat /\ Late \in Nat /\ Wrap \in Nat /\ Wrap % 2 = 0
  /\ Delay <= Wrap \div 2 /\ Late < Wrap \div 2
  /\ JIT_ASYNC_LOOPS \in Nat \ {0}

SpinFiles == {"jitbusy", "jitsched"}
TimeoutFiles == {"jitqueue", "jitschedto"}
AsyncFiles == {"jitimer", "jitasklet", "jitasklethi"}

VARIABLES
  tpc, tfile,     \* where the reader is, and in which file
  jiffies, j0,    \* the clock, and when the read began
  elapsed,        \* jiffies since j0, not reduced
  diff,           \* the difference a delay file prints
  loops, lines,   \* data->loops, and lines printed by the callback
  callback,       \* timer or tasklet: "idle", "queued", "wake"
  waiting,        \* the reader is on data->wait
  live,           \* data is allocated
  signal,         \* a signal is pending
  ret             \* what the read returned

delayVars == <<jiffies, j0, elapsed, diff>>
asyncVars == <<loops, lines, callback, waiting, live>>
jitVars == <<tpc, tfile, delayVars, asyncVars, signal, ret>>

JitInit ==
  /\ tpc = "out" /\ tfile = "none"
  /\ jiffies \in 0 .. Wrap - 1 /\ j0 = 0 /\ elapsed = 0 /\ diff = 0
  /\ loops = 0 /\ lines = 0 /\ callback = "idle" /\ waiting = FALSE
  /\ live = FALSE /\ signal = FALSE /\ ret = "none"

Signed(n) == IF n >= Wrap \div 2 THEN n - Wrap ELSE n
Minus(a, b) == Signed((a - b) % Wrap)

(* A read starts with no signal pending and nothing returned yet.          *)
StartJit(f, s) ==
  /\ tpc = "out" /\ callback = "idle"
  /\ tfile' = f /\ tpc' = s /\ signal' = FALSE /\ ret' = "none"

(* read() returns, and a delay file prints.                                *)
Return(r) == tpc' = "out" /\ ret' = r /\ UNCHANGED <<tfile, signal>>

-----------------------------------------------------------------------------
(* jit_fn_show                                                             *)

jit_fn_show(f) ==
  /\ StartJit(f, IF f \in SpinFiles THEN "spin" ELSE "timeout")
  /\ j0' = jiffies /\ elapsed' = 0
  /\ UNCHANGED <<jiffies, diff, asyncVars>>

(* The clock; a process that waits gets its turn before it is Late.        *)
Tick ==
  /\ tpc \in {"spin", "timeout"} /\ elapsed < Delay + Late
  /\ jiffies' = (jiffies + 1) % Wrap /\ elapsed' = elapsed + 1
  /\ UNCHANGED <<tpc, tfile, j0, diff, asyncVars, signal, ret>>

PlainBefore(a, b) == a < b
time_before(a, b) == Minus(a, b) < 0

PrintDiff ==
  /\ diff' = Minus(jiffies, j0 + Delay)
  /\ Return("0")
  /\ UNCHANGED <<jiffies, j0, elapsed, asyncVars>>

(* jitbusy and jitsched poll the clock.                                    *)
SpinEnds ==
  /\ tpc = "spin" /\ ~time_before(jiffies, (j0 + Delay) % Wrap)
  /\ PrintDiff

(* The kernel's timeouts: not before the delay, unless a signal comes.     *)
TimeoutEnds ==
  /\ tpc = "timeout" /\ (elapsed >= Delay \/ signal)
  /\ PrintDiff

-----------------------------------------------------------------------------
(* jit_timer_show and jit_tasklet_show                                     *)

NoMemory(f) ==
  /\ tpc = "out" /\ callback = "idle"
  /\ tfile' = f /\ ret' = "ENOMEM" /\ signal' = FALSE
  /\ UNCHANGED <<tpc, delayVars, asyncVars>>

AsyncShort(f) ==
  /\ StartJit(f, "event")
  /\ loops' = JIT_ASYNC_LOOPS - 1 /\ lines' = 0
  /\ callback' = "queued" /\ live' = TRUE
  /\ UNCHANGED <<delayVars, waiting>>

AsyncShow(f) ==
  /\ StartJit(f, "event")
  /\ loops' = JIT_ASYNC_LOOPS /\ lines' = 0
  /\ callback' = "queued" /\ live' = TRUE
  /\ UNCHANGED <<delayVars, waiting>>

(* wait_event_interruptible(data->wait, !data->loops)                      *)
PrepareLoops ==
  /\ tpc = "event"
  /\ tpc' = "check" /\ waiting' = TRUE
  /\ UNCHANGED <<tfile, delayVars, loops, lines, callback, live, signal, ret>>

CheckLoops ==
  /\ tpc = "check"
  /\ IF loops = 0 \/ signal THEN tpc' = "done" /\ waiting' = FALSE
                            ELSE tpc' = "sleep" /\ UNCHANGED waiting
  /\ UNCHANGED <<tfile, delayVars, loops, lines, callback, live, signal, ret>>

Wake ==
  /\ tpc = "sleep" /\ (~waiting \/ signal)
  /\ tpc' = "event"
  /\ UNCHANGED <<tfile, delayVars, asyncVars, signal, ret>>

FreeAlways ==
  /\ tpc = "done" /\ live' = FALSE
  /\ IF signal THEN Return("ERESTARTSYS") ELSE Return("0")
  /\ UNCHANGED <<delayVars, loops, lines, callback, waiting>>

(* A pending signal leaves data and its callback behind.                   *)
Done ==
  /\ tpc = "done"
  /\ IF signal THEN Return("ERESTARTSYS") /\ UNCHANGED live
               ELSE Return("0") /\ live' = FALSE
  /\ UNCHANGED <<delayVars, loops, lines, callback, waiting>>

JitSignal ==
  /\ tpc \notin {"out", "spin"} /\ ~signal /\ signal' = TRUE
  /\ UNCHANGED <<tpc, tfile, delayVars, asyncVars, ret>>

(* if (--data->loops) schedule again, else wake up                         *)
CountDown ==
  /\ loops' = loops - 1
  /\ callback' = IF loops - 1 > 0 THEN "queued" ELSE "wake"

(* jit_timer_fn and jit_tasklet_fn, up to the wake-up.                     *)
jit_callback ==
  /\ callback = "queued"
  /\ lines' = lines + 1
  /\ CountDown
  /\ UNCHANGED <<tpc, tfile, delayVars, waiting, live, signal, ret>>

WakeNobody ==
  /\ callback = "wake" /\ callback' = "idle"
  /\ UNCHANGED <<tpc, tfile, delayVars, loops, lines, waiting, live, signal, ret>>

CallbackWakes ==
  /\ callback = "wake" /\ callback' = "idle" /\ waiting' = FALSE
  /\ UNCHANGED <<tpc, tfile, delayVars, loops, lines, live, signal, ret>>

-----------------------------------------------------------------------------
JitReads ==
  \/ \E f \in SpinFiles \cup TimeoutFiles : jit_fn_show(f)
  \/ \E f \in AsyncFiles : NoMemory(f) \/ AsyncShow(f)

JitReader ==
  SpinEnds \/ TimeoutEnds \/ PrepareLoops \/ CheckLoops \/ Wake \/ Done

JitNext ==
  JitReads \/ Tick \/ JitReader \/ JitSignal \/ jit_callback \/ CallbackWakes

JitSpec == JitInit /\ [][JitNext]_jitVars

(* The clock goes on, the reader gets its turn, scheduled callbacks run.   *)
JitFairness ==
  /\ WF_jitVars(Tick) /\ WF_jitVars(JitReader)
  /\ WF_jitVars(jit_callback) /\ WF_jitVars(CallbackWakes)

-----------------------------------------------------------------------------
JitTypeOK ==
  /\ tpc \in {"out", "spin", "timeout", "event", "check", "sleep", "done"}
  /\ tfile \in {"none"} \cup SpinFiles \cup TimeoutFiles \cup AsyncFiles
  /\ {jiffies, j0} \subseteq 0 .. Wrap - 1 /\ elapsed \in 0 .. Delay + Late
  /\ diff \in -Wrap .. Wrap
  /\ loops \in 0 .. JIT_ASYNC_LOOPS /\ lines \in 0 .. JIT_ASYNC_LOOPS
  /\ callback \in {"idle", "queued", "wake"}
  /\ waiting \in BOOLEAN /\ live \in BOOLEAN /\ signal \in BOOLEAN
  /\ ret \in {"none", "0", "ENOMEM", "ERESTARTSYS"}

(* Across a wrap of jiffies, the delay files return only once the delay    *)
(* has passed, unless a signal came, and print by how much they are late.  *)
JitDelays ==
  tpc = "out" /\ tfile \in SpinFiles \cup TimeoutFiles =>
    /\ elapsed >= Delay \/ (signal /\ tfile \in TimeoutFiles)
    /\ diff = elapsed - Delay

(* A read of a callback's file that returns 0 has all lines in its buffer. *)
JitWhole ==
  tpc = "out" /\ tfile \in AsyncFiles /\ ret = "0" => lines = JIT_ASYNC_LOOPS

(* A callback that still has to print finds its data allocated, and its    *)
(* file being read unless a signal has ended the read.  Not so a callback  *)
(* that only has to wake the reader: a reader that has already seen loops  *)
(* at 0 may free data, and its wait queue, before the wake-up.             *)
JitPrintsInRead ==
  callback = "queued" => live /\ (tpc # "out" \/ ret = "ERESTARTSYS")

(* Every read ends.                                                        *)
JitReadEnds == []<>(tpc = "out")
=============================================================================
