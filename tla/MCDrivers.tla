----------------------------- MODULE MCDrivers -----------------------------
(***************************************************************************)
(* The drivers and driver parts without a run of their own, one at a time: *)
(* they share no state, so a behaviour is a behaviour of one of them, with *)
(* the others in their initial state.                                      *)
(***************************************************************************)
EXTENDS Jiq, Jit, EduProbe, ScullModule, Qus

CONSTANTS t1, t2, t3, t4

VARIABLE driver   \* the one that runs

mc_files ==
  [r \in {t1, t2, t3, t4} |->
     CASE r = t1 -> "wq" [] r = t2 -> "delayed" [] r = t3 -> "tasklet"
       [] r = t4 -> "timer"]

(* A bare schedule and a wait for the end, and two waits for the end.      *)
mc_overlaps == {{t1, t4}, {t3, t4}}

(* One reader for each kind of callback, or the two of the work.           *)
mc_turns == {{t1, t3, t4}, {t1, t2}}

(* One read meets what a signal left behind; reads that overlap meet it    *)
(* anyway.                                                                 *)
mc_max_reads ==
  [s \in mc_overlaps \cup mc_turns |-> IF s \in mc_turns THEN 1 ELSE 0]

Init ==
  /\ driver \in {"jiq", "jit", "edu", "scull", "qus"}
  /\ JiqInit /\ JitInit /\ EduProbeInit /\ ScullModuleInit /\ QusInit
  /\ driver # "jiq" => together = {t1, t3, t4} /\ m = t1
  /\ driver # "jit" => jiffies = 0
  /\ driver # "edu" => use_msi /\ default

Next ==
  \/ /\ driver = "jiq" /\ JiqNext
     /\ UNCHANGED <<driver, jitVars, probeVars, scullVars, qusVars>>
  \/ /\ driver = "jit" /\ JitNext
     /\ UNCHANGED <<driver, jiqVars, probeVars, scullVars, qusVars>>
  \/ /\ driver = "edu" /\ EduProbeNext
     /\ UNCHANGED <<driver, jiqVars, jitVars, scullVars, qusVars>>
  \/ /\ driver = "scull" /\ ScullModuleNext
     /\ UNCHANGED <<driver, jiqVars, jitVars, probeVars, qusVars>>
  \/ /\ driver = "qus" /\ QusNext
     /\ UNCHANGED <<driver, jiqVars, jitVars, probeVars, scullVars>>

vars == <<driver, jiqVars, jitVars, probeVars, scullVars, qusVars>>

Spec ==
  Init /\ [][Next]_vars /\ JiqFairness /\ JitFairness /\ EduProbeFairness
=============================================================================
