----------------------------- MODULE DeferProofs -----------------------------
(***************************************************************************)
(* Theorems about Jit and Jiq: deferred work, the reads that wait for it,  *)
(* and the pages it prints.                                                *)
(***************************************************************************)
EXTENDS Jit, Jiq, TLAPS

-----------------------------------------------------------------------------
(* The pages of jiq                                                        *)

(* Callback c is scheduled or running.                                     *)
Active(c) == c \in queued \/ loaded[c] # Idle

(* Only a timer's reader prints, and only in jiq_print; only readers that  *)
(* wait for "end" are at its wait.                                         *)
JiqPlaces ==
  \A r \in JiqReaders :
    /\ loaded[r] # Idle <=> jpc[r] = "print"
    /\ jpc[r] \in {"print", "delete"} => JiqFile[r] = "timer"
    /\ jpc[r] \in {"event", "check"} => JiqFile[r] \notin WorkFiles

(* Who will wake a reader on jiq_wait: the work itself, or, for the files  *)
(* that wait for "end", whatever is to set it, unless a signal has made    *)
(* jitimer delete the timer while others read.                             *)
JiqWaker ==
  /\ Exclusive => \A r, s \in JiqReaders : jpc[r] # "out" /\ jpc[s] # "out" => r = s
  /\ \A r \in jiq_wait : jpc[r] = "sleep" =>
       IF JiqFile[r] \in WorkFiles THEN Active(JiqFile[r]) ELSE ~end
  /\ TimerKept => \A r \in JiqReaders :
       /\ JiqFile[r] \notin WorkFiles
       /\ jpc[r] \in {"print", "event", "check", "sleep"}
       => \/ end \/ Active("tasklet") \/ Active("timer")
          \/ \E s \in JiqReaders : jpc[s] = "print"
  /\ TimerKept => \A r \in JiqReaders :
       jpc[r] = "delete" => end \/ Active("tasklet") \/ Exclusive

(* Undisturbed reads: the data belong to the one reader, only its file's   *)
(* callback is active, what jiq_print loaded is still there, and a         *)
(* reader is woken or finds "end" with the page full.                      *)
JiqOwn ==
  /\ \A r \in JiqReaders : jpc[r] # "out" => r = m
  /\ queued \subseteq {JiqFile[m]}
  /\ \A p \in Printing : p \in {JiqFile[m], m} /\ p \notin queued
                        /\ loaded[p].m = m /\ loaded[p].len = len
  /\ jpc[m] \in {"out", "arm"} => queued = {} /\ Printing = {}
  /\ jpc[m] = "print" => queued = {} /\ Printing = {m}
  /\ \/ jpc[m] = "sleep" /\ JiqFile[m] \in WorkFiles /\ m \notin jiq_wait
     \/ jpc[m] \in {"event", "check", "sleep"} /\ JiqFile[m] = "tasklet" /\ end
     => queued = {} /\ Printing = {} /\ len > LIMIT

(* The page holds no more than len says.                                   *)
JiqPage ==
  /\ count[m] < PageSize
  /\ len <= LIMIT => count[m] <= len

(* A line leaves len and count in range, whatever jiq_print had loaded.     *)
LEMMA PrintLineType ==
  ASSUME JiqTypeOK, NEW p \in Callbacks \cup JiqReaders, loaded[p] # Idle, PrintLine(p)
  PROVE  len' \in 0 .. LIMIT + 1 /\ count' \in [JiqReaders -> 0 .. PageSize]
<1> DEFINE file == loaded[p].m
           first == loaded[p].len = 0
           headed == IF first THEN Filled(count[file] + Header) ELSE count[file]
<1> USE JiqAssumption
<1>1. file \in JiqReaders /\ loaded[p].len \in Nat /\ len \in Nat
  BY DEF JiqTypeOK
<1>2. PICK l \in LineLens, old \in {len, loaded[p].len} :
        /\ count' = [count EXCEPT ![file] = Filled(headed + l)]
        /\ len' = UpToLimit(old + Filled(headed + l) + (IF first THEN headed ELSE 0))
  BY ZenonT(40) DEF PrintLine
<1>3. headed \in 0 .. PageSize /\ l \in Nat
  BY <1>1 DEF JiqTypeOK, Filled
<1> HIDE DEF headed, first
<1>4. Filled(headed + l) \in 0 .. PageSize
  BY <1>3 DEF Filled
<1>5. len' \in 0 .. LIMIT + 1
  BY <1>1, <1>2, <1>3, <1>4 DEF UpToLimit
<1>6. QED
  BY <1>1, <1>2, <1>4, <1>5 DEF JiqTypeOK

(* In an undisturbed read a line fits in the page, and len keeps ahead of  *)
(* what the page holds.                                                    *)
LEMMA PrintLineFits ==
  ASSUME JiqTypeOK, JiqOwn, JiqPage, NEW p \in Printing, PrintLine(p), ~Full(p)
  PROVE  /\ count'[m] < PageSize
         /\ len' <= LIMIT => count'[m] <= len'
<1> USE JiqAssumption
<1>1. loaded[p].m = m /\ loaded[p].len = len /\ len \in Nat /\ m \in JiqReaders
  BY DEF JiqTypeOK, JiqOwn, Printing
<1>2. len <= LIMIT /\ count[m] \in Nat /\ count[m] <= len
  BY <1>1 DEF JiqTypeOK, JiqPage, Full
<1> DEFINE headed == IF len = 0 THEN Filled(count[m] + Header) ELSE count[m]
<1>3. PICK l \in LineLens :
        /\ count' = [count EXCEPT ![m] = Filled(headed + l)]
        /\ len' = UpToLimit(len + Filled(headed + l) + (IF len = 0 THEN headed ELSE 0))
  BY <1>1, ZenonT(40) DEF PrintLine
<1>4. headed \in Nat /\ l \in Nat /\ headed + l < PageSize
  <2>1. l \in Nat \ {0} /\ LIMIT + l < PageSize /\ Header + l < PageSize
    BY <1>3
  <2>2. CASE len = 0
    <3>1. count[m] = 0 /\ Header < PageSize
      BY <1>2, <2>1, <2>2
    <3>2. headed = Header
      BY <2>2, <3>1 DEF Filled
    <3>3. QED
      BY <2>1, <3>2
  <2>3. CASE len # 0
    BY <1>1, <1>2, <2>1, <2>3
  <2>4. QED
    BY <2>2, <2>3
<1> HIDE DEF headed
<1>5. Filled(headed + l) = headed + l
  BY <1>4 DEF Filled
<1>6. count'[m] = headed + l
  BY <1>1, <1>3, <1>5 DEF JiqTypeOK
<1>7. len' <= LIMIT => headed + l <= len'
  BY <1>1, <1>3, <1>4, <1>5 DEF UpToLimit
<1>8. QED
  BY <1>4, <1>6, <1>7

(* Every step of the driver keeps the types: loaded values are lengths and *)
(* readers, whoever changes them.                                          *)
LEMMA JiqTypeStep ==
  ASSUME JiqTypeOK, JiqPlaces, [JiqNext]_jiqVars
  PROVE  JiqTypeOK'
<1> USE JiqAssumption DEF data, JiqTypeOK, WorkFiles, Callbacks
<1>1. ASSUME NEW r \in JiqReaders, Show(r) PROVE JiqTypeOK'
  <2>1. reads \in Nat
    OBVIOUS
  <2>2. /\ interrupted' = {} \/ interrupted' = interrupted
        /\ reads' = 0 \/ reads' = reads + 1
        /\ reads' <= MaxReads[together] /\ together' = together
    BY <1>1, Zenon DEF Show
  <2>3. interrupted' \subseteq Callbacks
    BY <2>2, Zenon
  <2>4. /\ jpc' = [jpc EXCEPT ![r] = "arm"] /\ len' = 0 /\ m' = r
        /\ count' = [count EXCEPT ![r] = 0]
        /\ UNCHANGED <<jiq_wait, end, queued, loaded>>
    BY <1>1 DEF Show, JGoto
  <2>5. QED
    BY <2>1, <2>2, <2>3, <2>4
<1>2. ASSUME NEW r \in JiqReaders, ArmWork(r) PROVE JiqTypeOK'
  BY <1>2, ZenonT(40) DEF ArmWork, JGoto
<1>3. ASSUME NEW r \in JiqReaders, ArmTasklet(r) PROVE JiqTypeOK'
  BY <1>3, ZenonT(40) DEF ArmTasklet, JGoto
<1>4. ASSUME NEW r \in JiqReaders, SetupTimer(r) PROVE JiqTypeOK'
  BY <1>4, ZenonT(40) DEF SetupTimer, JGoto, Load
<1>5. ASSUME NEW r \in JiqReaders, AddTimer(r) PROVE JiqTypeOK'
  <2>1. CASE Full(r)
    BY <1>5, <2>1 DEF AddTimer, JGoto, Unload, Announce
  <2>2. CASE ~Full(r)
    <3>1. loaded[r] # Idle /\ PrintLine(r)
      BY <1>5, <2>2 DEF AddTimer, JiqPlaces
    <3>2. len' \in 0 .. LIMIT + 1 /\ count' \in [JiqReaders -> 0 .. PageSize]
      BY <3>1, PrintLineType, ZenonT(40)
    <3>3. QED
      BY <1>5, <2>2, <3>2, ZenonT(40) DEF AddTimer, JGoto, Unload
  <2>3. QED
    BY <2>1, <2>2
<1>6. ASSUME NEW r \in JiqReaders, PrepareEvent(r) PROVE JiqTypeOK'
  BY <1>6 DEF PrepareEvent, JGoto
<1>7. ASSUME NEW r \in JiqReaders, CheckEnd(r) PROVE JiqTypeOK'
  BY <1>7 DEF CheckEnd, FinishRead, CopyPage, JGoto
<1>8. ASSUME NEW r \in JiqReaders, WakeUp(r) PROVE JiqTypeOK'
  BY <1>8 DEF WakeUp, FinishRead, CopyPage, JGoto
<1>9. ASSUME NEW r \in JiqReaders, Signal(r) PROVE JiqTypeOK'
  <2>1. interrupted' \subseteq Callbacks
    BY <1>9 DEF Signal
  <2>2. UNCHANGED <<together, reads, len, m, end, queued, loaded>>
    BY <1>9 DEF Signal
  <2>3. jiq_wait' = jiq_wait \ {r}
    BY <1>9 DEF Signal, FinishRead
  <2>4. \/ jpc' = [jpc EXCEPT ![r] = "delete"] /\ count' = count
        \/ jpc' = [jpc EXCEPT ![r] = "out"] /\ count' = [count EXCEPT ![r] = 0]
    BY <1>9, Zenon DEF Signal, FinishRead, CopyPage, JGoto
  <2>5. QED
    BY <2>1, <2>2, <2>3, <2>4
<1>10. ASSUME NEW r \in JiqReaders, DeleteTimer(r) PROVE JiqTypeOK'
  BY <1>10 DEF DeleteTimer, CopyPage, JGoto
<1>11. ASSUME NEW c \in Callbacks, Begin(c) PROVE JiqTypeOK'
  BY <1>11 DEF Begin, Load
<1>12. ASSUME NEW c \in Callbacks, jiq_print_again(c) PROVE JiqTypeOK'
  BY <1>12, PrintLineType DEF jiq_print_again, Unload
<1>13. ASSUME NEW c \in Callbacks, jiq_print_last(c) PROVE JiqTypeOK'
  BY <1>13 DEF jiq_print_last, Unload, Announce, Full
<1>14. CASE jiq_timedout
  <2>1. CASE Full("timer")
    BY <1>14, <2>1 DEF jiq_timedout, Unload, Announce
  <2>2. CASE ~Full("timer")
    BY <1>14, <2>2, PrintLineType DEF jiq_timedout, Unload, Announce
  <2>3. QED
    BY <2>1, <2>2
<1>15. CASE UNCHANGED jiqVars
  BY <1>15 DEF jiqVars
<1>16. QED
  BY <1>1, <1>2, <1>3, <1>4, <1>5, <1>6, <1>7, <1>8, <1>9, <1>10, <1>11, <1>12,
     <1>13, <1>14, <1>15
     DEF JiqNext, ReadStep, CallbackStep

(* Every step leaves readers where their files take them.                  *)
LEMMA JiqPlacesStep ==
  ASSUME JiqTypeOK, JiqPlaces, [JiqNext]_jiqVars
  PROVE  JiqPlaces'
<1> USE JiqAssumption DEF data, JiqTypeOK, WorkFiles, Callbacks, JiqPlaces
<1>1. ASSUME NEW r \in JiqReaders, Show(r) PROVE JiqPlaces'
  BY <1>1 DEF Show, JGoto
<1>2. ASSUME NEW r \in JiqReaders, ArmWork(r) PROVE JiqPlaces'
  BY <1>2 DEF ArmWork, JGoto
<1>3. ASSUME NEW r \in JiqReaders, ArmTasklet(r) PROVE JiqPlaces'
  BY <1>3 DEF ArmTasklet, JGoto
<1>4. ASSUME NEW r \in JiqReaders, SetupTimer(r) PROVE JiqPlaces'
  BY <1>4 DEF SetupTimer, JGoto, Load
<1>5. ASSUME NEW r \in JiqReaders, AddTimer(r) PROVE JiqPlaces'
  <2>1. CASE Full(r)
    BY <1>5, <2>1 DEF AddTimer, JGoto, Unload, Announce
  <2>2. CASE ~Full(r)
    BY <1>5, <2>2 DEF AddTimer, JGoto, Unload
  <2>3. QED
    BY <2>1, <2>2
<1>6. ASSUME NEW r \in JiqReaders, PrepareEvent(r) PROVE JiqPlaces'
  BY <1>6 DEF PrepareEvent, JGoto
<1>7. ASSUME NEW r \in JiqReaders, CheckEnd(r) PROVE JiqPlaces'
  BY <1>7 DEF CheckEnd, FinishRead, CopyPage, JGoto
<1>8. ASSUME NEW r \in JiqReaders, WakeUp(r) PROVE JiqPlaces'
  BY <1>8 DEF WakeUp, FinishRead, CopyPage, JGoto
<1>9. ASSUME NEW r \in JiqReaders, Signal(r) PROVE JiqPlaces'
  BY <1>9 DEF Signal, FinishRead, CopyPage, JGoto
<1>10. ASSUME NEW r \in JiqReaders, DeleteTimer(r) PROVE JiqPlaces'
  BY <1>10 DEF DeleteTimer, CopyPage, JGoto
<1>11. ASSUME NEW c \in Callbacks, Begin(c) PROVE JiqPlaces'
  BY <1>11 DEF Begin, Load
<1>12. ASSUME NEW c \in Callbacks, jiq_print_again(c) PROVE JiqPlaces'
  BY <1>12 DEF jiq_print_again, Unload
<1>13. ASSUME NEW c \in Callbacks, jiq_print_last(c) PROVE JiqPlaces'
  BY <1>13 DEF jiq_print_last, Unload, Announce, Full
<1>14. CASE jiq_timedout
  BY <1>14 DEF jiq_timedout, Unload, Announce
<1>15. CASE UNCHANGED jiqVars
  BY <1>15 DEF jiqVars
<1>16. QED
  BY <1>1, <1>2, <1>3, <1>4, <1>5, <1>6, <1>7, <1>8, <1>9, <1>10, <1>11, <1>12,
     <1>13, <1>14, <1>15
     DEF JiqNext, ReadStep, CallbackStep

(* No step takes away the last callback that would wake a reader.          *)
LEMMA JiqWakerStep ==
  ASSUME JiqTypeOK, JiqPlaces, JiqWaker, [JiqNext]_jiqVars
  PROVE  JiqWaker'
<1> USE JiqAssumption
    DEF data, JiqTypeOK, WorkFiles, Callbacks, JiqPlaces, JiqWaker, Active, Exclusive,
        TimerKept
<1>1. ASSUME NEW r \in JiqReaders, Show(r) PROVE JiqWaker'
  <2>1. /\ jpc' = [jpc EXCEPT ![r] = "arm"]
        /\ UNCHANGED <<together, jiq_wait, end, queued, loaded>>
        /\ Exclusive => \A s \in JiqReaders : jpc[s] = "out"
    BY <1>1 DEF Show, JGoto
  <2>2. CASE AtRest
    BY <2>1, <2>2 DEF AtRest
  <2>3. CASE ~AtRest
    <3>1. interrupted' = interrupted
      BY <1>1, <2>3, Zenon DEF Show
    <3>2. jpc'[r] = "arm" /\ \A s \in JiqReaders : s # r => jpc'[s] = jpc[s]
      BY <2>1
    <3>3. jpc[r] = "out"
      BY <1>1 DEF Show
    <3>4. QED
      BY <2>1, <3>1, <3>2, <3>3, SMTT(40)
  <2>4. QED
    BY <2>2, <2>3
<1>2. ASSUME NEW r \in JiqReaders, ArmWork(r) PROVE JiqWaker'
  BY <1>2 DEF ArmWork, JGoto
<1>3. ASSUME NEW r \in JiqReaders, ArmTasklet(r) PROVE JiqWaker'
  BY <1>3 DEF ArmTasklet, JGoto
<1>4. ASSUME NEW r \in JiqReaders, SetupTimer(r) PROVE JiqWaker'
  BY <1>4, SMTT(40) DEF SetupTimer, JGoto, Load
<1>5. ASSUME NEW r \in JiqReaders, AddTimer(r) PROVE JiqWaker'
  <2>1. CASE Full(r)
    BY <1>5, <2>1, SMTT(40) DEF AddTimer, JGoto, Unload, Announce
  <2>2. CASE ~Full(r)
    BY <1>5, <2>2, SMTT(40) DEF AddTimer, JGoto, Unload
  <2>3. QED
    BY <2>1, <2>2
<1>6. ASSUME NEW r \in JiqReaders, PrepareEvent(r) PROVE JiqWaker'
  BY <1>6 DEF PrepareEvent, JGoto
<1>7. ASSUME NEW r \in JiqReaders, CheckEnd(r) PROVE JiqWaker'
  BY <1>7, SMTT(40) DEF CheckEnd, FinishRead, CopyPage, JGoto
<1>8. ASSUME NEW r \in JiqReaders, WakeUp(r) PROVE JiqWaker'
  BY <1>8 DEF WakeUp, FinishRead, CopyPage, JGoto
<1>9. ASSUME NEW r \in JiqReaders, Signal(r) PROVE JiqWaker'
  BY <1>9 DEF Signal, FinishRead, CopyPage, JGoto
<1>10. ASSUME NEW r \in JiqReaders, DeleteTimer(r) PROVE JiqWaker'
  BY <1>10, SMTT(120) DEF DeleteTimer, CopyPage, JGoto
<1>11. ASSUME NEW c \in Callbacks, Begin(c) PROVE JiqWaker'
  BY <1>11, SMTT(40) DEF Begin, Load
<1>12. ASSUME NEW c \in Callbacks, jiq_print_again(c) PROVE JiqWaker'
  BY <1>12 DEF jiq_print_again, Unload
<1>13. ASSUME NEW c \in Callbacks, jiq_print_last(c) PROVE JiqWaker'
  BY <1>13 DEF jiq_print_last, Unload, Announce, Full
<1>14. CASE jiq_timedout
  BY <1>14 DEF jiq_timedout, Unload, Announce
<1>15. CASE UNCHANGED jiqVars
  BY <1>15 DEF jiqVars
<1>16. QED
  BY <1>1, <1>2, <1>3, <1>4, <1>5, <1>6, <1>7, <1>8, <1>9, <1>10, <1>11, <1>12,
     <1>13, <1>14, <1>15, ZenonT(40)
     DEF JiqNext, ReadStep, CallbackStep

(* Undisturbed reads keep the shared data to themselves.                   *)
LEMMA JiqOwnStep ==
  ASSUME JiqTypeOK, JiqPlaces, Exclusive, JiqOwn, [JiqNext]_jiqVars,
         interrupted' \subseteq {"timer"}
  PROVE  JiqOwn'
<1>a. /\ jpc = [r \in JiqReaders |-> jpc[r]] /\ m \in JiqReaders /\ len \in Nat
      /\ loaded = [p \in Callbacks \cup JiqReaders |-> loaded[p]]
      /\ queued \subseteq Callbacks
  <2> DEFINE Loads == {Idle} \cup [m : JiqReaders, len : 0 .. LIMIT + 1]
  <2>1. loaded \in [Callbacks \cup JiqReaders -> Loads]
    BY Zenon DEF JiqTypeOK
  <2>2. jpc = [r \in JiqReaders |-> jpc[r]]
    BY DEF JiqTypeOK
  <2>3. m \in JiqReaders /\ len \in Nat /\ queued \subseteq Callbacks
    BY DEF JiqTypeOK
  <2> HIDE DEF Loads
  <2>4. QED
    BY <2>1, <2>2, <2>3
<1>b. /\ \A r \in JiqReaders : JiqFile[r] \in Callbacks /\ r \notin Callbacks
      /\ [m |-> m, len |-> len] # Idle
  BY <1>a, JiqAssumption
<1>c. WorkFiles \cap {"tasklet", "timer"} = {} /\ "timer" \in Callbacks
  BY DEF WorkFiles, Callbacks
<1>d. ASSUME loaded' = loaded PROVE Printing' = Printing
  BY <1>d DEF Printing
(* A reader's step in its wait.                                            *)
<1>e. ASSUME UNCHANGED <<len, m, end, queued, loaded>>,
             \A s \in JiqReaders : s # m => jpc'[s] = jpc[s],
             jpc'[m] \notin {"arm", "print"},
             jpc'[m] = "out" => queued = {} /\ Printing = {},
             \/ jpc'[m] = "sleep" /\ JiqFile[m] \in WorkFiles /\ m \notin jiq_wait'
             \/ jpc'[m] \in {"event", "check", "sleep"} /\ JiqFile[m] = "tasklet" /\ end
             => queued = {} /\ Printing = {} /\ len > LIMIT
      PROVE  JiqOwn'
  <2>1. Printing' = Printing
    BY <1>d, <1>e
  <2>2. \A s \in JiqReaders : jpc'[s] # "out" => s = m
    BY <1>e DEF JiqOwn
  <2>3. QED
    BY <1>e, <2>1, <2>2 DEF JiqOwn
<1>f. \/ jpc[m] = "sleep" /\ JiqFile[m] \in WorkFiles /\ m \notin jiq_wait
      \/ jpc[m] \in {"event", "check", "sleep"} /\ JiqFile[m] = "tasklet" /\ end
      => queued = {} /\ Printing = {} /\ len > LIMIT
  BY DEF JiqOwn
<1> USE <1>a, <1>b, <1>c DEF data, JiqPlaces, JiqOwn, Exclusive, Printing
<1>1. ASSUME NEW r \in JiqReaders, Show(r) PROVE JiqOwn'
  <2>1. \A s \in JiqReaders : jpc[s] = "out"
    BY <1>1 DEF Show
  <2>2. queued = {} /\ Printing = {}
    BY <2>1
  <2>3. m' = r /\ queued' = {} /\ Printing' = {}
    BY <1>1, <1>d, <2>2, Zenon DEF Show
  <2>4. jpc'[r] = "arm" /\ \A s \in JiqReaders : jpc'[s] # "out" => s = r
    BY <1>1, <2>1 DEF Show, JGoto
  <2> HIDE DEF Printing, JiqPlaces
  <2>5. QED
    BY <2>3, <2>4
<1>2. ASSUME NEW r \in JiqReaders, ArmWork(r) PROVE JiqOwn'
  <2>1. r = m /\ queued = {} /\ Printing = {} /\ Printing' = Printing
    BY <1>2 DEF ArmWork
  <2>2. jpc'[m] = "sleep" /\ m \in jiq_wait' /\ queued' = {JiqFile[m]} /\ m' = m
    BY <1>2, <2>1, SMTT(40) DEF ArmWork, JGoto
  <2>3. JiqFile[m] # "tasklet"
    BY <1>2, <2>1 DEF ArmWork
  <2>4. \A s \in JiqReaders : jpc'[s] # "out" => s = m
    BY <1>2, <2>1, SMTT(40) DEF ArmWork, JGoto
  <2> HIDE DEF Printing
  <2>5. QED
    BY <1>2, <2>1, <2>2, <2>3, <2>4, SMTT(60) DEF ArmWork
<1>3. ASSUME NEW r \in JiqReaders, ArmTasklet(r) PROVE JiqOwn'
  BY <1>3, SMTT(40) DEF ArmTasklet, JGoto
<1>4. ASSUME NEW r \in JiqReaders, SetupTimer(r) PROVE JiqOwn'
  <2>1. r = m /\ queued = {} /\ Printing = {} /\ m' = m /\ queued' = {} /\ len' = len
    BY <1>4 DEF SetupTimer
  <2>2. loaded' = [loaded EXCEPT ![m] = [m |-> m, len |-> len]]
    BY <1>4, <2>1 DEF SetupTimer, Load
  <2>3. Printing' = {m} /\ loaded'[m].m = m /\ loaded'[m].len = len
    BY <2>1, <2>2, SMTT(40)
  <2>4. jpc'[m] = "print" /\ \A s \in JiqReaders : jpc'[s] # "out" => s = m
    BY <1>4, <2>1 DEF SetupTimer, JGoto
  <2> HIDE DEF Printing, JiqPlaces
  <2>5. QED
    BY <2>1, <2>3, <2>4
<1>5. ASSUME NEW r \in JiqReaders, AddTimer(r) PROVE JiqOwn'
  <2>1. r = m /\ Printing = {m} /\ queued = {} /\ JiqFile[m] = "timer"
    BY <1>5 DEF AddTimer
  <2>2. Printing' = {} /\ queued' = {"timer"} /\ m' = m
    BY <1>5, <2>1, SMTT(40) DEF AddTimer, Unload
  <2>3. jpc'[m] = "event" /\ \A s \in JiqReaders : jpc'[s] # "out" => s = m
    BY <1>5, <2>1 DEF AddTimer, JGoto
  <2> HIDE DEF Printing
  <2>4. QED
    BY <1>5, <2>1, <2>2, <2>3 DEF AddTimer
<1>6. ASSUME NEW r \in JiqReaders, PrepareEvent(r) PROVE JiqOwn'
  <2>1. r = m /\ jpc[m] = "event" /\ JiqFile[m] \notin WorkFiles
    BY <1>6 DEF PrepareEvent
  <2>2. UNCHANGED <<len, m, end, queued, loaded>>
    BY <1>6 DEF PrepareEvent
  <2>3. jpc'[m] = "check" /\ \A s \in JiqReaders : s # m => jpc'[s] = jpc[s]
    BY <1>6, <2>1 DEF PrepareEvent, JGoto
  <2> HIDE DEF Printing, JiqPlaces, JiqOwn
  <2>4. QED
    BY <1>e, <1>f, <2>1, <2>2, <2>3
<1>7. ASSUME NEW r \in JiqReaders, CheckEnd(r) PROVE JiqOwn'
  <2>1. r = m /\ jpc[m] = "check" /\ JiqFile[m] \notin WorkFiles
    BY <1>7 DEF CheckEnd
  <2>2. UNCHANGED <<len, m, end, queued, loaded>>
    BY <1>7 DEF CheckEnd
  <2>3. JiqFile[m] \in {"tasklet", "timer"}
    BY <2>1 DEF Callbacks
  <2> HIDE DEF Printing, JiqPlaces, JiqOwn
  <2>4. /\ jpc'[m] = IF ~end THEN "sleep"
                    ELSE IF JiqFile[m] = "timer" THEN "delete" ELSE "out"
        /\ \A s \in JiqReaders : s # m => jpc'[s] = jpc[s]
    BY <1>7, <2>1 DEF CheckEnd, FinishRead, CopyPage, JGoto
  <2>5. QED
    BY <1>e, <1>f, <2>1, <2>2, <2>3, <2>4
<1>8. ASSUME NEW r \in JiqReaders, WakeUp(r) PROVE JiqOwn'
  <2>1. r = m /\ jpc[m] = "sleep" /\ m \notin jiq_wait
    BY <1>8 DEF WakeUp
  <2>2. UNCHANGED <<len, m, end, queued, loaded>>
    BY <1>8 DEF WakeUp
  <2>3. /\ jpc'[m] = IF JiqFile[m] \in WorkFiles THEN "out" ELSE "event"
        /\ \A s \in JiqReaders : s # m => jpc'[s] = jpc[s]
    BY <1>8, <2>1 DEF WakeUp, FinishRead, CopyPage, JGoto
  <2> HIDE DEF Printing, JiqPlaces, JiqOwn
  <2>4. QED
    BY <1>e, <1>f, <2>1, <2>2, <2>3
<1>9. ASSUME NEW r \in JiqReaders, Signal(r) PROVE JiqOwn'
  <2>1. r = m /\ jpc[m] = "sleep" /\ JiqFile[m] = "timer"
    BY <1>9 DEF Signal
  <2>2. UNCHANGED <<len, m, end, queued, loaded>>
    BY <1>9 DEF Signal
  <2>3. jpc'[m] = "delete" /\ \A s \in JiqReaders : s # m => jpc'[s] = jpc[s]
    BY <1>9, <2>1 DEF Signal, FinishRead, JGoto
  <2> HIDE DEF Printing, JiqPlaces, JiqOwn
  <2>4. QED
    BY <1>e, <1>f, <2>1, <2>2, <2>3
<1>10. ASSUME NEW r \in JiqReaders, DeleteTimer(r) PROVE JiqOwn'
  <2>1. r = m /\ JiqFile[m] = "timer" /\ jpc[m] = "delete" /\ loaded["timer"] = Idle
    BY <1>10 DEF DeleteTimer
  <2>2. Printing = {} /\ queued \subseteq {"timer"}
    BY <2>1
  <2>3. m' = m /\ queued' = {} /\ Printing' = {}
    BY <1>10, <2>2 DEF DeleteTimer
  <2>4. jpc'[m] = "out" /\ \A s \in JiqReaders : jpc'[s] # "out" => s = m
    BY <1>10, <2>1 DEF DeleteTimer, CopyPage, JGoto
  <2> HIDE DEF Printing, JiqPlaces
  <2>5. QED
    BY <2>3, <2>4
<1>11. ASSUME NEW c \in Callbacks, Begin(c) PROVE JiqOwn'
  <2>1. c = JiqFile[m] /\ queued = {c} /\ jpc[m] \notin {"out", "arm", "print"}
    BY <1>11 DEF Begin
  <2>2. Printing = {}
    BY <2>1
  <2>3. UNCHANGED <<jpc, jiq_wait, len, m, end>> /\ queued' = {}
    BY <1>11, <2>1 DEF Begin
  <2>4. loaded' = [loaded EXCEPT ![c] = [m |-> m, len |-> len]]
    BY <1>11 DEF Begin, Load
  <2>5. Printing' = {c} /\ loaded'[c].m = m /\ loaded'[c].len = len
    BY <2>2, <2>4, SMTT(40)
  <2> HIDE DEF Printing, JiqPlaces
  <2>6. QED
    BY <2>1, <2>3, <2>5
<1>12. ASSUME NEW c \in Callbacks, jiq_print_again(c) PROVE JiqOwn'
  <2>1. c \in Printing /\ c = JiqFile[m]
    BY <1>12, SMTT(40) DEF jiq_print_again
  <2>2. jpc[m] \notin {"out", "arm", "print"}
    BY <1>12, <2>1 DEF jiq_print_again
  <2>3. Printing' = {} /\ queued' = {c} /\ queued = {}
    <3>1. loaded[m] = Idle /\ Printing \subseteq {c}
      BY <2>1, <2>2
    <3>2. Printing' = Printing \ {c}
      BY <1>12 DEF jiq_print_again, Unload
    <3>3. queued = {}
      BY <2>1, SMTT(40)
    <3>4. QED
      BY <1>12, <3>1, <3>2, <3>3, SMTT(40) DEF jiq_print_again
  <2>4. ~ \/ jpc[m] = "sleep" /\ JiqFile[m] \in WorkFiles /\ m \notin jiq_wait
          \/ jpc[m] \in {"event", "check", "sleep"} /\ JiqFile[m] = "tasklet" /\ end
    BY <2>1
  <2> HIDE DEF Printing
  <2>5. QED
    BY <1>12, <2>1, <2>2, <2>3, <2>4 DEF jiq_print_again
<1>13. ASSUME NEW c \in Callbacks, jiq_print_last(c) PROVE JiqOwn'
  <2>1. c \in Printing /\ c = JiqFile[m] /\ loaded[c].len = len
    <3>1. c \in Printing
      BY <1>13 DEF jiq_print_last
    <3> HIDE DEF Printing
    <3>2. QED
      BY <3>1
  <2>2. jpc[m] \notin {"out", "arm", "print"} /\ len > LIMIT
    BY <1>13, <2>1, SMTT(40) DEF jiq_print_last, Full
  <2>3. Printing' = {} /\ queued' = {}
    <3>1. loaded[m] = Idle /\ Printing \subseteq {c}
      BY <2>1, <2>2, SMTT(40)
    <3>2. Printing' = Printing \ {c}
      BY <1>13, SMTT(40) DEF jiq_print_last, Unload
    <3>3. queued = {}
      BY <2>1, SMTT(40)
    <3>4. QED
      BY <1>13, <3>1, <3>2, <3>3 DEF jiq_print_last
  <2>4. UNCHANGED <<jpc, len, m>>
    BY <1>13 DEF jiq_print_last
  <2> HIDE DEF Printing, JiqPlaces
  <2>5. QED
    BY <2>2, <2>3, <2>4
<1>14. CASE jiq_timedout
  <2>1. "timer" \in Printing /\ JiqFile[m] = "timer"
    BY <1>14, SMTT(40) DEF jiq_timedout
  <2>2. Printing' = {} /\ queued' = queued /\ queued = {} /\ m' = m
    <3>1. jpc[m] # "print"
      BY <2>1
    <3>2. Printing \subseteq {"timer"} /\ queued = {}
      <4>1. Printing \subseteq {"timer"}
        BY <2>1, <3>1
      <4>2. queued = {}
        BY <2>1
      <4>3. QED
        BY <4>1, <4>2
    <3>3. Printing' = Printing \ {"timer"}
      BY <1>14 DEF jiq_timedout, Unload
    <3>4. queued' = queued /\ m' = m
      BY <1>14 DEF jiq_timedout
    <3> HIDE DEF Printing, JiqPlaces, JiqOwn
    <3>5. QED
      BY <3>2, <3>3, <3>4
  <2>3. jpc' = jpc
    BY <1>14 DEF jiq_timedout
  <2> HIDE DEF Printing, JiqPlaces
  <2>4. jpc[m] \notin {"out", "arm", "print"}
    BY <2>1, SMTT(40)
  <2>5. QED
    BY <2>1, <2>2, <2>3, <2>4
<1>15. CASE UNCHANGED jiqVars
  <2>1. Printing' = Printing
    BY <1>15 DEF jiqVars
  <2> HIDE DEF Printing, JiqPlaces
  <2>2. QED
    BY <1>15, <2>1 DEF jiqVars
<1>16. QED
  BY <1>1, <1>2, <1>3, <1>4, <1>5, <1>6, <1>7, <1>8, <1>9, <1>10, <1>11, <1>12,
     <1>13, <1>14, <1>15, ZenonT(40)
     DEF JiqNext, ReadStep, CallbackStep

(* No step of undisturbed reads overflows the page.                        *)
LEMMA JiqPageStep ==
  ASSUME JiqTypeOK, JiqPlaces, JiqOwn, JiqPage, Exclusive, [JiqNext]_jiqVars
  PROVE  JiqPage'
<1> USE JiqAssumption DEF data, JiqTypeOK, JiqPage
<1>a. ASSUME NEW r \in JiqReaders, len' = len, m' = m,
             count' = count \/ count' = [count EXCEPT ![r] = 0]
      PROVE  JiqPage'
  BY <1>a
<1>1. ASSUME NEW r \in JiqReaders, Show(r) PROVE JiqPage'
  <2>1. m' = r /\ len' = 0 /\ count' = [count EXCEPT ![r] = 0]
    BY <1>1 DEF Show
  <2>2. 0 < PageSize /\ count'[r] = 0
    BY <2>1
  <2>3. QED
    BY <2>1, <2>2
<1>2. ASSUME NEW r \in JiqReaders, ArmWork(r) PROVE JiqPage'
  BY <1>2 DEF ArmWork
<1>3. ASSUME NEW r \in JiqReaders, ArmTasklet(r) PROVE JiqPage'
  BY <1>3 DEF ArmTasklet
<1>4. ASSUME NEW r \in JiqReaders, SetupTimer(r) PROVE JiqPage'
  BY <1>4 DEF SetupTimer
<1>5. ASSUME NEW r \in JiqReaders, AddTimer(r) PROVE JiqPage'
  <2>1. CASE Full(r)
    BY <1>5, <2>1 DEF AddTimer
  <2>2. CASE ~Full(r)
    <3>1. r \in Printing /\ PrintLine(r) /\ m' = m
      BY <1>5, <2>2 DEF AddTimer, JiqPlaces, Printing
    <3>2. QED
      BY <2>2, <3>1, PrintLineFits
  <2>3. QED
    BY <2>1, <2>2
<1>6. ASSUME NEW r \in JiqReaders, PrepareEvent(r) PROVE JiqPage'
  BY <1>6 DEF PrepareEvent
<1>7. ASSUME NEW r \in JiqReaders, CheckEnd(r) PROVE JiqPage'
  <2>1. len' = len /\ m' = m /\ (count' = count \/ count' = [count EXCEPT ![r] = 0])
    BY <1>7, Zenon DEF CheckEnd, FinishRead, CopyPage
  <2> HIDE JiqAssumption DEF JiqTypeOK, JiqPage
  <2>2. QED
    BY <1>a, <2>1
<1>8. ASSUME NEW r \in JiqReaders, WakeUp(r) PROVE JiqPage'
  <2>1. len' = len /\ m' = m /\ (count' = count \/ count' = [count EXCEPT ![r] = 0])
    BY <1>8, Zenon DEF WakeUp, FinishRead, CopyPage
  <2> HIDE JiqAssumption DEF JiqTypeOK, JiqPage
  <2>2. QED
    BY <1>a, <2>1
<1>9. ASSUME NEW r \in JiqReaders, Signal(r) PROVE JiqPage'
  <2>1. len' = len /\ m' = m /\ (count' = count \/ count' = [count EXCEPT ![r] = 0])
    BY <1>9, Zenon DEF Signal, FinishRead, CopyPage
  <2> HIDE JiqAssumption DEF JiqTypeOK, JiqPage
  <2>2. QED
    BY <1>a, <2>1
<1>10. ASSUME NEW r \in JiqReaders, DeleteTimer(r) PROVE JiqPage'
  <2>1. len' = len /\ m' = m /\ (count' = count \/ count' = [count EXCEPT ![r] = 0])
    BY <1>10, Zenon DEF DeleteTimer, CopyPage
  <2> HIDE JiqAssumption DEF JiqTypeOK, JiqPage
  <2>2. QED
    BY <1>a, <2>1
<1>11. ASSUME NEW c \in Callbacks, Begin(c) PROVE JiqPage'
  BY <1>11 DEF Begin
<1>12. ASSUME NEW c \in Callbacks, jiq_print_again(c) PROVE JiqPage'
  <2>1. c \in Printing /\ PrintLine(c) /\ ~Full(c) /\ m' = m
    BY <1>12 DEF jiq_print_again, Printing
  <2>2. QED
    BY <2>1, PrintLineFits
<1>13. ASSUME NEW c \in Callbacks, jiq_print_last(c) PROVE JiqPage'
  BY <1>13 DEF jiq_print_last
<1>14. CASE jiq_timedout
  <2>1. CASE Full("timer")
    BY <1>14, <2>1 DEF jiq_timedout
  <2>2. CASE ~Full("timer")
    <3>1. "timer" \in Printing /\ PrintLine("timer") /\ m' = m
      BY <1>14, <2>2 DEF jiq_timedout, Callbacks, Printing
    <3>2. QED
      BY <2>2, <3>1, PrintLineFits
  <2>3. QED
    BY <2>1, <2>2
<1>15. CASE UNCHANGED jiqVars
  BY <1>15 DEF jiqVars
<1>16. QED
  BY <1>1, <1>2, <1>3, <1>4, <1>5, <1>6, <1>7, <1>8, <1>9, <1>10, <1>11, <1>12,
     <1>13, <1>14, <1>15, ZenonT(40)
     DEF JiqNext, ReadStep, CallbackStep

(* A read that finds jiq at rest starts undisturbed, whatever was before.  *)
LEMMA JiqRestStep ==
  ASSUME JiqTypeOK, NEW r \in JiqReaders, Show(r), AtRest
  PROVE  JiqOwn' /\ JiqPage'
<1>1. /\ m' = r /\ len' = 0 /\ count' = [count EXCEPT ![r] = 0]
      /\ jpc' = [jpc EXCEPT ![r] = "arm"] /\ UNCHANGED <<queued, loaded>>
  BY DEF Show, JGoto
<1>2. jpc'[r] = "arm" /\ \A s \in JiqReaders : jpc'[s] # "out" => s = r
  BY <1>1 DEF JiqTypeOK, AtRest
<1>3. queued' = {} /\ Printing' = {}
  BY <1>1 DEF AtRest, Printing
<1>4. count'[r] = 0 /\ 0 < PageSize
  <2>1. PICK l \in LineLens : l \in Nat \ {0} /\ LIMIT + l < PageSize
    BY JiqAssumption, ZenonT(40)
  <2>2. 0 < PageSize
    BY <2>1, JiqAssumption
  <2>3. QED
    BY <1>1, <2>2 DEF JiqTypeOK
<1>5. JiqOwn'
  BY <1>1, <1>2, <1>3 DEF JiqOwn
<1>6. JiqPage'
  BY <1>1, <1>4 DEF JiqPage
<1>7. QED
  BY <1>5, <1>6

(* What a signal has disturbed stays so until a read finds jiq at rest.    *)
LEMMA JiqDisturbed ==
  ASSUME [JiqNext]_jiqVars
  PROVE  /\ together' = together
         /\ \/ interrupted \subseteq interrupted'
            \/ \E r \in JiqReaders : Show(r) /\ AtRest
<1>1. ASSUME NEW r \in JiqReaders, Show(r)
      PROVE  together' = together /\ (AtRest \/ interrupted' = interrupted)
  BY <1>1, Zenon DEF Show
<1>2. ASSUME NEW r \in JiqReaders, Signal(r)
      PROVE  together' = together /\ interrupted \subseteq interrupted'
  BY <1>2 DEF Signal
<1>3. ASSUME NEW r \in JiqReaders, ReadStep(r)
      PROVE  together' = together /\ interrupted' = interrupted
  BY <1>3, ZenonT(40)
     DEF ReadStep, ArmWork, ArmTasklet, SetupTimer, AddTimer, PrepareEvent,
         CheckEnd, WakeUp, DeleteTimer
<1>4. ASSUME NEW c \in Callbacks, CallbackStep(c)
      PROVE  together' = together /\ interrupted' = interrupted
  BY <1>4, ZenonT(40) DEF CallbackStep, Begin, jiq_print_again, jiq_print_last
<1>5. ASSUME jiq_timedout \/ UNCHANGED jiqVars
      PROVE  together' = together /\ interrupted' = interrupted
  BY <1>5, ZenonT(40) DEF jiq_timedout, jiqVars
<1>6. QED
  BY <1>1, <1>2, <1>3, <1>4, <1>5 DEF JiqNext

(* The inductive invariant of jiq: the page and the callback belong to     *)
(* one reader as long as reads are undisturbed.                            *)
JiqInv == JiqTypeOK /\ JiqPlaces /\ JiqWaker /\ (Undisturbed => JiqOwn /\ JiqPage)

(* Readers and callbacks of jiq keep to JiqInv.                            *)
LEMMA JiqSafe == JiqSpec => []JiqInv
<1> USE DEF JiqInv
<1>1. JiqInit => JiqInv
  <2> SUFFICES ASSUME JiqInit PROVE JiqInv
    OBVIOUS
  <2> USE JiqAssumption DEF JiqInit
  <2>1. JiqTypeOK
    <3>1. end \in BOOLEAN
      BY Zenon
    <3>2. /\ len \in 0 .. LIMIT + 1
          /\ count \in [JiqReaders -> 0 .. PageSize]
      OBVIOUS
    <3>3. loaded \in [Callbacks \cup JiqReaders ->
                       {Idle} \cup [m : JiqReaders, len : 0 .. LIMIT + 1]]
      BY Zenon
    <3>4. jpc \in [JiqReaders -> {"out", "arm", "print", "event", "check", "sleep",
                                 "delete"}]
      OBVIOUS
    <3>5. QED
      BY <3>1, <3>2, <3>3, <3>4 DEF JiqTypeOK
  <2>2. JiqPlaces /\ JiqWaker
    BY DEF JiqPlaces, JiqWaker
  <2>3. Printing = {}
    BY DEF Printing
  <2>4. JiqOwn /\ JiqPage
    <3>1. \A r \in JiqReaders : count[r] = 0 /\ jpc[r] = "out"
      OBVIOUS
    <3>2. PICK l \in LineLens : l \in Nat \ {0} /\ LIMIT + l < PageSize
      BY ZenonT(40)
    <3>3. PageSize > 0
      BY <3>2
    <3>4. m \in JiqReaders /\ queued = {} /\ len = 0
      OBVIOUS
    <3> HIDE JiqAssumption DEF JiqInit
    <3>5. QED
      BY <2>3, <3>1, <3>3, <3>4 DEF JiqOwn, JiqPage
  <2>5. QED
    BY <2>1, <2>2, <2>4
<1>2. JiqInv /\ [JiqNext]_jiqVars => JiqInv'
  <2> SUFFICES ASSUME JiqInv, [JiqNext]_jiqVars PROVE JiqInv'
    OBVIOUS
  <2>1. JiqTypeOK' /\ JiqPlaces' /\ JiqWaker'
    BY JiqTypeStep, JiqPlacesStep, JiqWakerStep
  <2>2. ASSUME Undisturbed' PROVE JiqOwn' /\ JiqPage'
    <3>1. Exclusive /\ interrupted' \subseteq {"timer"}
      BY <2>2, JiqDisturbed DEF Undisturbed, Exclusive
    <3>2. CASE Undisturbed
      BY <3>1, <3>2, JiqOwnStep, JiqPageStep
    <3>3. CASE ~Undisturbed
      <4>1. PICK r \in JiqReaders : Show(r) /\ AtRest
        BY <3>1, <3>3, JiqDisturbed DEF Undisturbed
      <4>2. QED
        BY <4>1, JiqRestStep
    <3>4. QED
      BY <3>2, <3>3
  <2>3. QED
    BY <2>1, <2>2
<1>3. QED
  BY <1>1, <1>2, PTL DEF JiqSpec

(* For any files, overlaps and signals: a reader asleep on jiq_wait has a  *)
(* callback or a print left to wake it, unless a signal has made jitimer   *)
(* delete the timer while others read.                                     *)
THEOREM JiqWakeCorrect == JiqSpec => []JiqNoLostWake
<1>1. JiqInv => JiqNoLostWake
  <2> SUFFICES ASSUME JiqInv, TimerKept, NEW r \in JiqReaders,
                      jpc[r] = "sleep", r \in jiq_wait
               PROVE  queued # {} \/ Printing # {}
    BY DEF JiqNoLostWake
  <2>1. \A c \in Callbacks : Active(c) => queued # {} \/ Printing # {}
    BY DEF Active, Printing
  <2>2. \A s \in JiqReaders : jpc[s] = "print" => Printing # {}
    BY DEF JiqInv, JiqPlaces, Printing
  <2>3. CASE JiqFile[r] \in WorkFiles
    BY <2>1, <2>3 DEF JiqInv, JiqWaker, Callbacks
  <2>4. CASE JiqFile[r] \notin WorkFiles
    BY <2>1, <2>2, <2>4 DEF JiqInv, JiqWaker, Callbacks
  <2>5. QED
    BY <2>3, <2>4
<1>2. QED
  BY <1>1, JiqSafe, PTL

(* Undisturbed reads leave no callback behind: when the reader is out,     *)
(* nothing is scheduled and nothing prints, also after a signal in         *)
(* jitimer.                                                                *)
THEOREM JiqQuietCorrect == JiqSpec => []JiqQuiet
<1>1. JiqInv => JiqQuiet
  BY DEF JiqInv, JiqQuiet, JiqTypeOK, JiqOwn, JiqPage, Printing
<1>2. QED
  BY <1>1, JiqSafe, PTL

(* For any line lengths that fit behind LIMIT, an undisturbed read never   *)
(* overflows the page.                                                     *)
THEOREM JiqFitsCorrect == JiqSpec => []JiqFits
<1>1. JiqInv => JiqFits
  BY DEF JiqInv, JiqFits, JiqTypeOK, JiqOwn, JiqPage
<1>2. QED
  BY <1>1, JiqSafe, PTL

(* Undisturbed reads of the work and tasklet files, unless a signal ends   *)
(* them, end only when the page is full.                                   *)
THEOREM JiqWholeCorrect == JiqSpec => JiqWhole
<1> DEFINE End(r) == Undisturbed' /\ JiqFile[r] # "timer" /\ jpc[r] # "out"
                       /\ jpc'[r] = "out" => len > LIMIT
           Whole == \A r \in JiqReaders : End(r)
<1>1. JiqInv /\ [JiqNext]_jiqVars => [Whole]_jiqVars
  <2> SUFFICES ASSUME JiqInv, JiqNext, NEW r \in JiqReaders PROVE End(r)
    OBVIOUS
  <2> USE DEF JiqInv
  <2>a. JiqFile[r] \in Callbacks
    BY JiqAssumption
  <2>b. jpc = [s \in JiqReaders |-> jpc[s]]
    BY DEF JiqTypeOK
  <2>c. jpc[r] = "delete" => JiqFile[r] = "timer"
    BY DEF JiqPlaces
  <2>d. /\ jpc[r] = "check" => JiqFile[r] \notin WorkFiles
        /\ JiqFile[r] \in WorkFiles \cup {"tasklet", "timer"}
    BY <2>a, JiqAssumption DEF JiqPlaces, Callbacks
  <2>e. Undisturbed =>
          /\ jpc[r] = "check" /\ JiqFile[r] = "tasklet" /\ end => len > LIMIT
          /\ jpc[r] = "sleep" /\ JiqFile[r] \in WorkFiles /\ r \notin jiq_wait
               => len > LIMIT
    BY DEF JiqOwn
  <2> HIDE DEF JiqInv
  <2> USE <2>b DEF JGoto, FinishRead, CopyPage
  <2>1. ASSUME NEW s \in JiqReaders, Show(s) PROVE End(r)
    BY <2>1, SMTT(40) DEF Show
  <2>2. ASSUME NEW s \in JiqReaders, ArmWork(s) PROVE End(r)
    BY <2>2, SMTT(40) DEF ArmWork
  <2>3. ASSUME NEW s \in JiqReaders, ArmTasklet(s) PROVE End(r)
    BY <2>3, SMTT(40) DEF ArmTasklet
  <2>4. ASSUME NEW s \in JiqReaders, SetupTimer(s) PROVE End(r)
    BY <2>4 DEF SetupTimer
  <2>5. ASSUME NEW s \in JiqReaders, AddTimer(s) PROVE End(r)
    BY <2>5 DEF AddTimer
  <2>6. ASSUME NEW s \in JiqReaders, PrepareEvent(s) PROVE End(r)
    BY <2>6, SMTT(40) DEF PrepareEvent
  <2>7. ASSUME NEW s \in JiqReaders, CheckEnd(s) PROVE End(r)
    BY <2>7, <2>d, <2>e DEF CheckEnd, Undisturbed, Exclusive
  <2>8. ASSUME NEW s \in JiqReaders, WakeUp(s) PROVE End(r)
    BY <2>8, <2>e DEF WakeUp, Undisturbed, Exclusive
  <2>9. ASSUME NEW s \in JiqReaders, Signal(s) PROVE End(r)
    BY <2>9, <2>a DEF Signal, Undisturbed
  <2>10. ASSUME NEW s \in JiqReaders, DeleteTimer(s) PROVE End(r)
    BY <2>10, <2>c DEF DeleteTimer
  <2>11. ASSUME NEW c \in Callbacks, Begin(c) PROVE End(r)
    BY <2>11 DEF Begin
  <2>12. ASSUME NEW c \in Callbacks, jiq_print_again(c) PROVE End(r)
    BY <2>12 DEF jiq_print_again
  <2>13. ASSUME NEW c \in Callbacks, jiq_print_last(c) PROVE End(r)
    BY <2>13 DEF jiq_print_last
  <2>14. CASE jiq_timedout
    BY <2>14 DEF jiq_timedout
  <2>15. QED
    BY <2>1, <2>2, <2>3, <2>4, <2>5, <2>6, <2>7, <2>8, <2>9, <2>10, <2>11,
       <2>12, <2>13, <2>14
       DEF JiqNext, ReadStep, CallbackStep
<1>2. QED
  BY <1>1, JiqSafe, PTL DEF JiqSpec, JiqWhole

-----------------------------------------------------------------------------
(* The timer and tasklet files of jit                                      *)

(* A read of a callback's file is under way.                               *)
Awaiting == tpc \in {"event", "check", "sleep", "done"}

(* The callback counts down what is left to print; a reader is done when   *)
(* nothing is, or when a signal is pending.                                *)
JitCount ==
  /\ tpc \in {"out", "spin", "timeout"} \/ Awaiting
  /\ loops \in Nat /\ lines \in Nat
  /\ callback \in {"idle", "queued", "wake"}
  /\ callback = "queued" =>
       /\ loops > 0 /\ loops + lines = JIT_ASYNC_LOOPS /\ live
       /\ Awaiting \/ (tpc = "out" /\ ret = "ERESTARTSYS")
  /\ Awaiting => tfile \in AsyncFiles
  /\ Awaiting /\ callback # "queued" => loops = 0 /\ lines = JIT_ASYNC_LOOPS
  /\ tpc \in {"spin", "timeout"} => tfile \notin AsyncFiles
  /\ tpc = "done" => loops = 0 \/ signal
  /\ JitWhole

(* The readers and the callback of jit keep to JitCount.                   *)
LEMMA JitCounted == JitSpec => []JitCount
<1>1. JitInit => JitCount
  BY DEF JitInit, JitCount, JitWhole, Awaiting, AsyncFiles
<1>2. JitCount /\ [JitNext]_jitVars => JitCount'
  <2> SUFFICES ASSUME JitCount, [JitNext]_jitVars PROVE JitCount'
    OBVIOUS
  <2> USE JitAssumption
      DEF JitCount, JitWhole, Awaiting, delayVars, asyncVars, SpinFiles,
          TimeoutFiles, AsyncFiles
  <2>1. ASSUME NEW f \in SpinFiles \cup TimeoutFiles, jit_fn_show(f) PROVE JitCount'
    BY <2>1 DEF jit_fn_show, StartJit
  <2>2. ASSUME NEW f \in AsyncFiles, NoMemory(f) PROVE JitCount'
    BY <2>2 DEF NoMemory
  <2>3. ASSUME NEW f \in AsyncFiles, AsyncShow(f) PROVE JitCount'
    BY <2>3 DEF AsyncShow, StartJit
  <2>4. CASE PrepareLoops
    BY <2>4 DEF PrepareLoops
  <2>5. CASE CheckLoops
    BY <2>5 DEF CheckLoops
  <2>6. CASE Wake
    BY <2>6 DEF Wake
  <2>7. CASE Done
    BY <2>7 DEF Done, Return
  <2>8. CASE Tick
    BY <2>8 DEF Tick
  <2>9. CASE SpinEnds
    BY <2>9 DEF SpinEnds, PrintDiff, Return
  <2>10. CASE TimeoutEnds
    BY <2>10 DEF TimeoutEnds, PrintDiff, Return
  <2>11. CASE JitSignal
    BY <2>11 DEF JitSignal
  <2>12. CASE jit_callback
    BY <2>12 DEF jit_callback, CountDown
  <2>13. CASE CallbackWakes
    BY <2>13 DEF CallbackWakes
  <2>14. CASE UNCHANGED jitVars
    BY <2>14 DEF jitVars
  <2>15. QED
    BY <2>1, <2>2, <2>3, <2>4, <2>5, <2>6, <2>7, <2>8, <2>9, <2>10, <2>11,
       <2>12, <2>13, <2>14
       DEF JitNext, JitReads, JitReader
<1>3. QED
  BY <1>1, <1>2, PTL DEF JitSpec

(* For any number of lines, whenever a signal comes: a read that returns 0 *)
(* has all its lines.                                                      *)
THEOREM JitWholeCorrect == JitSpec => []JitWhole
<1>1. JitCount => JitWhole
  BY DEF JitCount
<1>2. QED
  BY <1>1, JitCounted, PTL

(* The callback never prints in freed data nor in a file whose read is     *)
(* over, unless a signal has ended it.  (Its last wake-up may come when    *)
(* data is freed.)                                                         *)
THEOREM JitPrintsCorrect == JitSpec => []JitPrintsInRead
<1>1. JitCount => JitPrintsInRead
  BY DEF JitCount, JitPrintsInRead, Awaiting
<1>2. QED
  BY <1>1, JitCounted, PTL

-----------------------------------------------------------------------------
(* The delay files of jit, across a wrap of jiffies                        *)

(* A number within one Wrap of the range of jiffies, reduced.              *)
LEMMA Reduced ==
  ASSUME NEW x \in -(2 * Wrap) .. (2 * Wrap - 1)
  PROVE  x % Wrap = IF x >= Wrap THEN x - Wrap
                    ELSE IF x >= 0 THEN x
                    ELSE IF x >= -Wrap THEN x + Wrap
                    ELSE x + 2 * Wrap
<1>1. Wrap \in Nat \ {0}
  BY JitAssumption
<1>2. QED
  BY <1>1

(* e jiffies after j, the signed difference that time_before and the       *)
(* printed line take is the true one, wrapped or not.                      *)
LEMMA ClockDifference ==
  ASSUME NEW j \in 0 .. Wrap - 1, NEW e \in 0 .. Delay + Late
  PROVE  /\ Minus((j + e) % Wrap, j + Delay) = e - Delay
         /\ Minus((j + e) % Wrap, (j + Delay) % Wrap) = e - Delay
<1> DEFINE now == (j + e) % Wrap
           target == (j + Delay) % Wrap
           half == Wrap \div 2
<1>1. /\ Wrap \in Nat \ {0} /\ Delay \in Nat /\ Late \in Nat /\ half \in Nat
      /\ Wrap = 2 * half /\ Delay <= half /\ Late < half
  BY JitAssumption
<1>2. now = IF j + e >= Wrap THEN j + e - Wrap ELSE j + e
  BY <1>1, Reduced
<1>3. target = IF j + Delay >= Wrap THEN j + Delay - Wrap ELSE j + Delay
  BY <1>1, Reduced
<1>4. ASSUME NEW x \in {e - Delay, e - Delay - Wrap, e - Delay + Wrap}
      PROVE  Signed(x % Wrap) = e - Delay
  <2>1. x \in -(2 * Wrap) .. (2 * Wrap - 1) /\ e - Delay < Wrap /\ e - Delay >= -Wrap
    BY <1>1
  <2>2. x % Wrap = IF e >= Delay THEN e - Delay ELSE e - Delay + Wrap
    BY <1>1, <1>4, <2>1, Reduced
  <2>3. QED
    BY <1>1, <2>2 DEF Signed
<1>5. now - (j + Delay) \in {e - Delay, e - Delay - Wrap, e - Delay + Wrap}
  BY <1>1, <1>2
<1>6. now - target \in {e - Delay, e - Delay - Wrap, e - Delay + Wrap}
  BY <1>1, <1>2, <1>3
<1>7. QED
  BY <1>4, <1>5, <1>6 DEF Minus

(* While a delay file is read, jiffies is the reduced time since j0; its   *)
(* reader is where its kind of file waits.                                 *)
Clocked ==
  /\ jiffies \in 0 .. Wrap - 1 /\ j0 \in 0 .. Wrap - 1 /\ elapsed \in 0 .. Delay + Late
  /\ tpc \in {"spin", "timeout"} => jiffies = (j0 + elapsed) % Wrap
  /\ tpc = "spin" => tfile \in SpinFiles
  /\ tpc = "timeout" => tfile \in TimeoutFiles
  /\ tpc \notin {"out", "spin", "timeout"} => tfile \in AsyncFiles
  /\ JitDelays

(* The clock's step keeps jiffies the reduced time since j0.               *)
LEMMA ClockStep ==
  ASSUME NEW j \in 0 .. Wrap - 1, NEW e \in 0 .. Delay + Late
  PROVE  (((j + e) % Wrap) + 1) % Wrap = (j + (e + 1)) % Wrap
<1>1. /\ Wrap \in Nat \ {0} /\ Delay + Late < Wrap /\ Delay + Late \in Nat
  BY JitAssumption
<1>2. (j + e) % Wrap = IF j + e >= Wrap THEN j + e - Wrap ELSE j + e
  <2>1. j + e \in 0 .. (2 * Wrap - 1)
    BY <1>1
  <2>2. QED
    BY <1>1, <2>1, Reduced
<1>3. (j + (e + 1)) % Wrap = IF j + e + 1 >= Wrap THEN j + e + 1 - Wrap ELSE j + e + 1
  BY <1>1, Reduced
<1>4. ASSUME NEW x \in 0 .. Wrap PROVE x % Wrap = IF x >= Wrap THEN x - Wrap ELSE x
  BY <1>1, Reduced
<1>5. QED
  BY <1>1, <1>2, <1>3, <1>4

(* For any delay up to half the range of jiffies, wherever the counter     *)
(* stands when the read begins: jitbusy and jitsched return no earlier     *)
(* than the delay, jitqueue and jitschedto only for a signal, and the      *)
(* difference they print is by how much they are late.                     *)
THEOREM JitDelayCorrect == JitSpec => []JitDelays
<1>1. JitInit => Clocked
  BY JitAssumption DEF JitInit, Clocked, JitDelays, SpinFiles, TimeoutFiles
<1>2. Clocked /\ [JitNext]_jitVars => Clocked'
  <2> SUFFICES ASSUME Clocked, [JitNext]_jitVars PROVE Clocked'
    OBVIOUS
  <2> USE DEF Clocked, JitDelays, delayVars, asyncVars, SpinFiles, TimeoutFiles, AsyncFiles
  <2>1. ASSUME NEW f \in SpinFiles \cup TimeoutFiles, jit_fn_show(f) PROVE Clocked'
    <3>1. (jiffies + 0) % Wrap = jiffies
      BY Reduced, JitAssumption
    <3>2. 0 \in 0 .. Delay + Late
      BY JitAssumption
    <3>3. QED
      BY <2>1, <3>1, <3>2 DEF jit_fn_show, StartJit
  <2>2. ASSUME NEW f \in AsyncFiles, NoMemory(f) PROVE Clocked'
    BY <2>2 DEF NoMemory
  <2>3. ASSUME NEW f \in AsyncFiles, AsyncShow(f) PROVE Clocked'
    BY <2>3 DEF AsyncShow, StartJit
  <2>4. CASE Tick
    <3>1. jiffies' = (j0 + (elapsed + 1)) % Wrap
      BY <2>4, ClockStep DEF Tick
    <3>2. elapsed + 1 \in 0 .. Delay + Late
      BY <2>4, JitAssumption DEF Tick
    <3>3. jiffies' \in 0 .. Wrap - 1
      BY <2>4, JitAssumption DEF Tick
    <3>4. QED
      BY <2>4, <3>1, <3>2, <3>3 DEF Tick
  <2>5. CASE SpinEnds
    <3>1. elapsed >= Delay
      <4>1. Minus(jiffies, (j0 + Delay) % Wrap) = elapsed - Delay
        BY <2>5, ClockDifference DEF SpinEnds
      <4>2. ~(elapsed - Delay < 0)
        BY <2>5, <4>1 DEF SpinEnds, time_before
      <4>3. QED
        BY <4>2, JitAssumption
    <3>2. diff' = elapsed - Delay
      BY <2>5, ClockDifference DEF SpinEnds, PrintDiff
    <3>3. QED
      BY <2>5, <3>1, <3>2 DEF SpinEnds, PrintDiff, Return
  <2>6. CASE TimeoutEnds
    <3>1. diff' = elapsed - Delay
      BY <2>6, ClockDifference DEF TimeoutEnds, PrintDiff
    <3>2. QED
      BY <2>6, <3>1 DEF TimeoutEnds, PrintDiff, Return
  <2>7. CASE PrepareLoops
    BY <2>7 DEF PrepareLoops
  <2>8. CASE CheckLoops
    BY <2>8 DEF CheckLoops
  <2>9. CASE Wake
    BY <2>9 DEF Wake
  <2>10. CASE Done
    BY <2>10 DEF Done, Return
  <2>11. CASE JitSignal
    BY <2>11 DEF JitSignal
  <2>12. CASE jit_callback
    BY <2>12 DEF jit_callback
  <2>13. CASE CallbackWakes
    BY <2>13 DEF CallbackWakes
  <2>14. CASE UNCHANGED jitVars
    BY <2>14 DEF jitVars
  <2>15. QED
    BY <2>1, <2>2, <2>3, <2>4, <2>5, <2>6, <2>7, <2>8, <2>9, <2>10, <2>11,
       <2>12, <2>13, <2>14
       DEF JitNext, JitReads, JitReader
<1>3. Clocked => JitDelays
  BY DEF Clocked
<1>4. QED
  BY <1>1, <1>2, <1>3, PTL DEF JitSpec
=============================================================================
