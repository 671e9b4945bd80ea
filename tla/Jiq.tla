--------------------------------- MODULE Jiq ---------------------------------
(***************************************************************************)
(* The jiq driver (jiq/jiq.c): four /proc files whose reads print a page   *)
(* from a work queue, a delayed work queue, a tasklet or a timer.  All     *)
(* reads share one jiq_data.  The four callbacks and the readers run on    *)
(* different processors; jiq_print is two steps, the loads of len and m    *)
(* and the rest, so that others may change both in between.  A reader      *)
(* keeps its file open and reads it from the start again and again, so the *)
(* seq_file a callback prints in is always there.                          *)
(*                                                                         *)
(* Text is counted, not built.  data->len only matters up to the first     *)
(* value beyond LIMIT, so it is kept at that value.                        *)
(***************************************************************************)
EXTENDS Integers

CONSTANTS
  JiqFile,      \* JiqFile[r]: the file process r reads
  Overlaps,     \* sets of processes whose reads may overlap
  Turns,        \* sets of processes that read one at a time
  Idle,         \* what a context that is not printing has loaded
  PageSize,     \* the size of a seq_file's buffer
  Header,       \* the length of the heading
  LineLens,     \* the lengths a line may have
  LIMIT,        \* PAGE_SIZE-128
  MaxReads      \* bound: reads begun since a signal, until jiq is at rest,
                \* for each of these sets

JiqReaders == DOMAIN JiqFile
WorkFiles == {"wq", "delayed"}
Callbacks == WorkFiles \cup {"tasklet", "timer"}

(* A line fits in what LIMIT leaves of the page, the heading and a line in *)
(* an empty page.  The timer has one reader: the code reinitialises it     *)
(* while it may be pending.                                                *)
ASSUME JiqAssumption ==
  /\ JiqFile \in [JiqReaders -> Callbacks]
  /\ \A r, s \in JiqReaders : JiqFile[r] = "timer" /\ JiqFile[s] = "timer" => r = s
  /\ Overlaps \cup Turns \subseteq SUBSET JiqReaders /\ Overlaps \cap Turns = {}
  /\ JiqReaders \cap Callbacks = {}
  /\ Idle \notin [m : JiqReaders, len : Nat]
  /\ PageSize \in Nat /\ Header \in Nat \ {0} /\ LIMIT \in Nat
  /\ LineLens \subseteq Nat \ {0} /\ LineLens # {}
  /\ \A l \in LineLens : LIMIT + l < PageSize /\ Header + l < PageSize
  /\ MaxReads \in [Overlaps \cup Turns -> Nat]

VARIABLES
  together,     \* the processes that read
  interrupted,  \* history: files whose reads a signal has ended, since the
                \* last read that found jiq at rest
  reads,        \* reads begun since the first of these signals
  jpc,          \* jpc[r]: where reader r is
  jiq_wait,     \* readers on the wait queue
  len, m, end,  \* fields of jiq_data; m is named by its reader
  count,        \* count[r]: m->count of r's seq_file
  queued,       \* callbacks scheduled
  loaded        \* loaded[p]: len and m as jiq_print loaded them in p

data == <<len, m, end, count>>
jiqVars == <<together, interrupted, reads, jpc, jiq_wait, data, queued, loaded>>

JiqInit ==
  /\ together \in Overlaps \cup Turns /\ interrupted = {} /\ reads = 0
  /\ jpc = [r \in JiqReaders |-> "out"]
  /\ jiq_wait = {}
  /\ len = 0 /\ end = FALSE /\ m \in JiqReaders
  /\ count = [r \in JiqReaders |-> 0]
  /\ queued = {}
  /\ loaded = [p \in Callbacks \cup JiqReaders |-> Idle]

Exclusive == together \in Turns

Printing == {p \in Callbacks \cup JiqReaders : loaded[p] # Idle}

(* Nobody reads, and no callback is scheduled or runs.                     *)
AtRest == queued = {} /\ Printing = {} /\ \A r \in JiqReaders : jpc[r] = "out"

JGoto(r, s) == jpc' = [jpc EXCEPT ![r] = s]

-----------------------------------------------------------------------------
(* jiq_print                                                               *)

Load(p) == loaded' = [loaded EXCEPT ![p] = [m |-> m, len |-> len]]
Unload(p) == loaded' = [loaded EXCEPT ![p] = Idle]

UpToLimit(n) == IF n > LIMIT THEN LIMIT + 1 ELSE n

AnnounceToNobody == end' = TRUE /\ UNCHANGED jiq_wait

(* The page is full: announce it to all readers.                           *)
Announce == end' = TRUE /\ jiq_wait' = {}

(* m->count after seq_printf: the whole page once a line does not fit.     *)
Filled(n) == IF n < PageSize THEN n ELSE PageSize

(* A line, the first one after a heading; len grows by m->count each time. *)
(* "data->len +=" may read the old len and undo a write in between.        *)
PrintLine(p) ==
  LET file == loaded[p].m
      first == loaded[p].len = 0
      headed == IF first THEN Filled(count[file] + Header) ELSE count[file]
  IN  \E l \in LineLens, old \in {len, loaded[p].len} :
        /\ count' = [count EXCEPT ![file] = Filled(headed + l)]
        /\ len' = UpToLimit(old + Filled(headed + l)
                                + (IF first THEN headed ELSE 0))

Full(p) == loaded[p].len > LIMIT

(* The files' callbacks.  Work and tasklet schedule themselves again until *)
(* the page is full; the timer prints once and announces.                  *)
Begin(c) ==
  /\ c \in queued /\ loaded[c] = Idle
  /\ queued' = queued \ {c}
  /\ Load(c)
  /\ UNCHANGED <<together, interrupted, reads, jpc, jiq_wait, data>>

jiq_print_again(c) ==
  /\ loaded[c] # Idle /\ c # "timer" /\ ~Full(c)
  /\ PrintLine(c)
  /\ queued' = queued \cup {c}
  /\ Unload(c)
  /\ UNCHANGED <<together, interrupted, reads, jpc, jiq_wait, m, end>>

jiq_print_last(c) ==
  /\ loaded[c] # Idle /\ c # "timer" /\ Full(c)
  /\ Announce
  /\ Unload(c)
  /\ UNCHANGED <<together, interrupted, reads, jpc, len, m, count, queued>>

jiq_timedout ==
  /\ loaded["timer"] # Idle
  /\ IF Full("timer") THEN UNCHANGED <<len, count>> ELSE PrintLine("timer")
  /\ Announce
  /\ Unload("timer")
  /\ UNCHANGED <<together, interrupted, reads, jpc, m, queued>>

-----------------------------------------------------------------------------
(* The show functions.                                                     *)

(* Reset the shared data and print in this file.                           *)
Show(r) ==
  /\ jpc[r] = "out" /\ r \in together
  /\ Exclusive => \A s \in JiqReaders : jpc[s] = "out"
  /\ len' = 0 /\ m' = r /\ count' = [count EXCEPT ![r] = 0]
  /\ JGoto(r, "arm")
  /\ interrupted' = IF AtRest THEN {} ELSE interrupted
  /\ reads' = IF interrupted' = {} THEN 0 ELSE reads + 1
  /\ reads' <= MaxReads[together]
  /\ UNCHANGED <<together, jiq_wait, end, queued, loaded>>

(* jiqwq and jiqwqdelay queue themselves before they schedule the work.    *)
ArmWork(r) ==
  /\ jpc[r] = "arm" /\ JiqFile[r] \in WorkFiles
  /\ jiq_wait' = jiq_wait \cup {r}
  /\ queued' = queued \cup {JiqFile[r]}
  /\ JGoto(r, "sleep")
  /\ UNCHANGED <<together, interrupted, reads, data, loaded>>

TaskletKeepsEnd(r) ==
  /\ jpc[r] = "arm" /\ JiqFile[r] = "tasklet"
  /\ queued' = queued \cup {"tasklet"}
  /\ JGoto(r, "event")
  /\ UNCHANGED <<together, interrupted, reads, jiq_wait, data, loaded>>

ArmTasklet(r) ==
  /\ jpc[r] = "arm" /\ JiqFile[r] = "tasklet"
  /\ end' = FALSE
  /\ queued' = queued \cup {"tasklet"}
  /\ JGoto(r, "event")
  /\ UNCHANGED <<together, interrupted, reads, jiq_wait, len, m, count, loaded>>

(* jitimer prints a line of its own, then adds the timer.                  *)
SetupTimer(r) ==
  /\ jpc[r] = "arm" /\ JiqFile[r] = "timer"
  /\ end' = FALSE
  /\ Load(r)
  /\ JGoto(r, "print")
  /\ UNCHANGED <<together, interrupted, reads, jiq_wait, len, m, count, queued>>

AddTimer(r) ==
  /\ jpc[r] = "print"
  /\ IF Full(r) THEN Announce /\ UNCHANGED <<len, count>>
                ELSE PrintLine(r) /\ UNCHANGED <<end, jiq_wait>>
  /\ Unload(r)
  /\ queued' = queued \cup {"timer"}
  /\ JGoto(r, "event")
  /\ UNCHANGED <<together, interrupted, reads, m>>

SleepUnchecked(r) ==
  /\ jpc[r] = "event"
  /\ jiq_wait' = jiq_wait \cup {r}
  /\ JGoto(r, "sleep")
  /\ UNCHANGED <<together, interrupted, reads, data, queued, loaded>>

(* wait_event_interruptible(jiq_wait, end)                                 *)
PrepareEvent(r) ==
  /\ jpc[r] = "event"
  /\ jiq_wait' = jiq_wait \cup {r}
  /\ JGoto(r, "check")
  /\ UNCHANGED <<together, interrupted, reads, data, queued, loaded>>

(* show returns, and seq_read copies the page to the user.                 *)
CopyPage(r) == JGoto(r, "out") /\ count' = [count EXCEPT ![r] = 0]

FinishRead(r) ==
  /\ jiq_wait' = jiq_wait \ {r}
  /\ IF JiqFile[r] = "timer" THEN JGoto(r, "delete") /\ UNCHANGED count
                              ELSE CopyPage(r)

CheckEnd(r) ==
  /\ jpc[r] = "check"
  /\ IF end THEN FinishRead(r)
            ELSE JGoto(r, "sleep") /\ UNCHANGED <<jiq_wait, count>>
  /\ UNCHANGED <<together, interrupted, reads, len, m, end, queued, loaded>>

(* schedule() has no condition in the work files: any wake-up ends them.   *)
WakeUp(r) ==
  /\ jpc[r] = "sleep" /\ r \notin jiq_wait
  /\ IF JiqFile[r] \in WorkFiles
       THEN FinishRead(r)
       ELSE JGoto(r, "event") /\ UNCHANGED <<jiq_wait, count>>
  /\ UNCHANGED <<together, interrupted, reads, len, m, end, queued, loaded>>

(* All four sleep interruptibly (jiq.c:139, 168, 208, 250) and return 0;   *)
(* only jitimer then takes its callback back.                              *)
Signal(r) ==
  /\ jpc[r] = "sleep"
  /\ FinishRead(r)
  /\ interrupted' = interrupted \cup {JiqFile[r]}
  /\ UNCHANGED <<together, reads, len, m, end, queued, loaded>>

DeleteUnsynced(r) ==
  /\ jpc[r] = "delete"
  /\ queued' = queued \ {"timer"}
  /\ CopyPage(r)
  /\ UNCHANGED <<together, interrupted, reads, jiq_wait, len, m, end, loaded>>

(* del_timer_sync: also waits for a callback that runs.                    *)
DeleteTimer(r) ==
  /\ jpc[r] = "delete" /\ loaded["timer"] = Idle
  /\ queued' = queued \ {"timer"}
  /\ CopyPage(r)
  /\ UNCHANGED <<together, interrupted, reads, jiq_wait, len, m, end, loaded>>

-----------------------------------------------------------------------------
CallbackStep(c) == Begin(c) \/ jiq_print_again(c) \/ jiq_print_last(c)

ReadStep(r) ==
  \/ ArmWork(r) \/ ArmTasklet(r) \/ SetupTimer(r) \/ AddTimer(r)
  \/ PrepareEvent(r) \/ CheckEnd(r) \/ WakeUp(r) \/ DeleteTimer(r)

JiqNext ==
  \/ \E r \in JiqReaders : Show(r) \/ ReadStep(r) \/ Signal(r)
  \/ \E c \in Callbacks : CallbackStep(c)
  \/ jiq_timedout

JiqSpec == JiqInit /\ [][JiqNext]_jiqVars

(* Scheduled work, tasklets and timers run, and a reader that can go on    *)
(* does; nobody has to read and no signal has to come.                     *)
JiqFairness ==
  /\ \A r \in JiqReaders : WF_jiqVars(ReadStep(r))
  /\ \A c \in Callbacks : WF_jiqVars(CallbackStep(c))
  /\ WF_jiqVars(jiq_timedout)

-----------------------------------------------------------------------------
JiqTypeOK ==
  /\ together \in Overlaps \cup Turns
  /\ interrupted \subseteq Callbacks /\ reads \in 0 .. MaxReads[together]
  /\ jpc \in [JiqReaders -> {"out", "arm", "print", "event", "check", "sleep",
                             "delete"}]
  /\ jiq_wait \subseteq JiqReaders
  /\ len \in 0 .. LIMIT + 1 /\ m \in JiqReaders /\ end \in BOOLEAN
  /\ count \in [JiqReaders -> 0 .. PageSize]
  /\ queued \subseteq Callbacks
  /\ loaded \in [Callbacks \cup JiqReaders ->
                   {Idle} \cup [m : JiqReaders, len : 0 .. LIMIT + 1]]

(* Reads do not overlap, nor with what a signal has left behind: no read   *)
(* of a file other than jitimer was interrupted since jiq was at rest.     *)
Undisturbed == Exclusive /\ interrupted \subseteq {"timer"}

(* No signal has made jitimer delete the timer while others read.          *)
TimerKept == Exclusive \/ "timer" \notin interrupted

(* Undisturbed reads leave nothing behind: what is scheduled or printing   *)
(* belongs to a read in progress and prints in its file, even if a signal  *)
(* has ended the wait of jitimer.  (A signal in another file does leave    *)
(* its callback behind.)                                                   *)
JiqQuiet ==
  Undisturbed =>
    /\ queued # {} => jpc[m] # "out"
    /\ \A p \in Printing : loaded[p].m = m /\ jpc[m] # "out"

(* An undisturbed read never overflows the page, so no line is lost and    *)
(* seq_read does not start the read again.                                 *)
JiqFits ==
  Undisturbed => \A r \in JiqReaders : jpc[r] # "out" => count[r] < PageSize

(* A reader asleep on jiq_wait has a callback or a print left to wake it,  *)
(* even if other reads reset the data and the flag it waits for, or end by *)
(* a signal.  The exception: a signal makes jitimer delete the timer,      *)
(* which a tasklet's reader may need whose flag jitimer has reset.         *)
JiqNoLostWake ==
  TimerKept =>
    \A r \in JiqReaders :
      jpc[r] = "sleep" /\ r \in jiq_wait => queued # {} \/ Printing # {}

(* Undisturbed reads of the work and tasklet files that no signal ends     *)
(* (interrupted' holds the file of one that a signal ends) end only when   *)
(* the page is full.                                                       *)
JiqWhole ==
  [][\A r \in JiqReaders :
       Undisturbed' /\ JiqFile[r] # "timer" /\ jpc[r] # "out" /\ jpc'[r] = "out"
         => len > LIMIT]_jiqVars

(* Every read ends, without a signal and whatever signals end other reads, *)
(* unless others start new reads for ever or a signal has made jitimer     *)
(* delete the timer while others read.                                     *)
JiqReadEnds ==
  \A r \in JiqReaders :
    \/ []<>(jpc[r] = "out")
    \/ \E s \in JiqReaders \ {r} : []<><<Show(s)>>_jiqVars
    \/ <>[]~TimerKept
=============================================================================
