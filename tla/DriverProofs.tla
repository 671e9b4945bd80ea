---------------------------- MODULE DriverProofs ----------------------------
(***************************************************************************)
(* Theorems about Qus, EduProbe and ScullModule: whatever step fails, and  *)
(* whoever uses the drivers meanwhile, loading and unloading them leaves   *)
(* nothing behind (scull: but for objects of last slots and their cache)   *)
(* and takes nothing away from its users.                                  *)
(***************************************************************************)
EXTENDS Qus, EduProbe, ScullModule, TLAPS

-----------------------------------------------------------------------------
(* qus                                                                     *)

QusAll == {"dev", "intf", "buf", "urb"}

(* What is acquired at every point of probe and disconnect, and who points *)
(* to it.                                                                  *)
QusPlace ==
  /\ qpc \in {"rest", "endpoints", "buf", "urb", "register", "control", "error",
              "kill"}
  /\ owns \subseteq QusAll
  /\ kref = IF qpc = "rest" /\ ~usbBound THEN 0 ELSE 1
  /\ usbBound => qpc = "rest"
  /\ qpc = "rest" => owns = IF usbBound THEN QusAll ELSE {}
  /\ qpc \in {"endpoints", "buf", "urb"} => {"dev", "intf"} \subseteq owns
  /\ qpc = "urb" => "buf" \in owns
  /\ qpc \in {"register", "control", "kill"} => owns = QusAll
  /\ intfdata \/ minor => usbBound \/ qpc = "control"

(* Every step of qus_probe and qus_disconnect keeps to QusPlace.           *)
LEMMA QusSafe == QusSpec => []QusPlace
<1>1. QusInit => QusPlace
  BY DEF QusInit, QusPlace
<1>2. QusPlace /\ [QusNext]_qusVars => QusPlace'
  <2> SUFFICES ASSUME QusPlace, [QusNext]_qusVars PROVE QusPlace'
    OBVIOUS
  <2> USE DEF QusPlace, QusAll, Moves
  <2>1. CASE qus_probe
    BY <2>1 DEF qus_probe
  <2>2. CASE find_endpoints
    BY <2>2 DEF find_endpoints
  <2>3. CASE AllocQus("buf", "urb")
    BY <2>3, ZenonT(40) DEF AllocQus
  <2>4. CASE AllocQus("urb", "register")
    BY <2>4, ZenonT(40) DEF AllocQus
  <2>5. CASE register_dev
    BY <2>5 DEF register_dev
  <2>6. CASE test_control_endpoint
    BY <2>6 DEF test_control_endpoint
  <2>7. CASE qus_disconnect
    BY <2>7 DEF qus_disconnect
  <2>8. CASE usb_kill_urb
    BY <2>8 DEF usb_kill_urb
  <2>9. CASE kref_put
    BY <2>9 DEF kref_put, qus_del
  <2>10. CASE UNCHANGED qusVars
    BY <2>10 DEF qusVars
  <2>11. QED
    BY <2>1, <2>2, <2>3, <2>4, <2>5, <2>6, <2>7, <2>8, <2>9, <2>10 DEF QusNext
<1>3. QED
  BY <1>1, <1>2, PTL DEF QusSpec

(* On every path through qus_probe and qus_disconnect, whatever fails, the *)
(* structure and all it refers to are released, and nothing points to it,  *)
(* exactly when the driver is not bound.                                   *)
THEOREM QusReleasedCorrect == QusSpec => []QusReleased
<1>1. QusPlace => QusReleased
  BY DEF QusPlace, QusReleased, QusAll
<1>2. QED
  BY <1>1, QusSafe, PTL

(* Whoever finds the structure through the interface or the device node    *)
(* finds it alive.                                                         *)
THEOREM QusDataCorrect == QusSpec => []QusDataAlive
<1>1. QusPlace => QusDataAlive
  BY DEF QusPlace, QusDataAlive, QusAll
<1>2. QED
  BY <1>1, QusSafe, PTL

-----------------------------------------------------------------------------
(* Probe and removal of edu                                                *)

(* The driver is bound to a device that works.                             *)
Live == epc = "rest" /\ bound /\ "edu" \in held

(* The attributes may be in use.                                           *)
Serving == Live \/ epc \in {"create", "unwind", "entries"}

(* Nothing to do with a device.                                            *)
Detached == (epc = "rest" /\ ~Live) \/ epc = "oops"

(* What is held at every point of qedu_probe and qedu_remove.              *)
ProbePlace ==
  /\ epc \in {"mask", "coherent", "msi", "request", "id", "fail", "unmap"} \/ Serving
       => InUse \subseteq held
  /\ epc \in {"iomap", "disable"}
       => {"edu", "enabled", "region"} \subseteq held /\ "mapped" \notin held
  /\ epc \in {"region", "fail_region"}
       => {"edu", "enabled"} \subseteq held /\ held \cap {"region", "mapped"} = {}
  /\ epc = "release"
       => {"edu", "region"} \subseteq held /\ held \cap {"enabled", "mapped"} = {}
  /\ epc \in {"enable", "end"}
       => "edu" \in held /\ held \cap {"enabled", "region", "mapped"} = {}
  /\ Detached => held \subseteq {"vectors"}
  /\ "irq" \in held => epc \in {"id", "fail"} \/ Serving
  /\ bound => epc \in {"rest", "fail", "unmap", "disable", "release", "end"}

(* Who may be in the attributes, what they find, and who has the lock.     *)
ProbeUsers ==
  /\ files > 0 => Serving
  /\ \A u \in EduUsers : upc[u] # "out" => Serving
  /\ Serving \/ epc \in {"msi", "request", "id"} => drvdata
  /\ Serving \/ epc \notin {"rest", "oops"} => qedu_dev

ProbeLock ==
  /\ \A u \in EduUsers : upc[u] = "inverse" <=> elock = u
  /\ epc \in {"enable", "region", "iomap", "mask", "coherent", "msi", "request",
              "id", "create", "unwind"} => elock = "probe"
  /\ epc \in {"fail", "unmap", "disable", "release", "fail_region", "end"}
       => elock \in {"probe", "remove"}
  /\ Detached => elock = "free"

(* The types are preserved.                                                *)
LEMMA ProbeTypeStep ==
  ASSUME ProbeTypeOK, [EduProbeNext]_probeVars PROVE ProbeTypeOK'
<1> USE DEF ProbeTypeOK, InUse, Step, pointers, config
<1>1. CASE qedu_probe
  BY <1>1, ZenonT(40) DEF qedu_probe
<1>2. CASE qedu_remove
  BY <1>2, ZenonT(40) DEF qedu_remove
<1>3. CASE Restart
  BY <1>3, ZenonT(40) DEF Restart
<1>4. CASE pci_enable_device
  BY <1>4, ZenonT(40) DEF pci_enable_device, Acquires
<1>5. CASE pci_request_region
  BY <1>5, ZenonT(40) DEF pci_request_region, Acquires
<1>6. CASE pci_iomap
  BY <1>6, ZenonT(40) DEF pci_iomap, Acquires
<1>7. CASE pci_set_dma_mask
  BY <1>7, ZenonT(40) DEF pci_set_dma_mask
<1>8. CASE pci_set_consistent_dma_mask
  BY <1>8, ZenonT(40) DEF pci_set_consistent_dma_mask
<1>9. CASE pci_alloc_irq_vectors
  BY <1>9, ZenonT(40) DEF pci_alloc_irq_vectors
<1>10. CASE request_threaded_irq
  BY <1>10, ZenonT(40) DEF request_threaded_irq, Acquires
<1>11. CASE CheckId
  BY <1>11, ZenonT(40) DEF CheckId
<1>12. CASE CreateFile
  BY <1>12 DEF CreateFile
<1>13. CASE ProbeDone
  BY <1>13 DEF ProbeDone
<1>14. CASE RemoveFile
  BY <1>14 DEF RemoveFile
<1>15. CASE FilesRemoved
  BY <1>15 DEF FilesRemoved, Drained
<1>16. CASE free_irq
  BY <1>16 DEF free_irq, Releases
<1>17. CASE pci_iounmap
  BY <1>17 DEF pci_iounmap, Releases
<1>18. CASE pci_disable_device
  BY <1>18, ZenonT(40) DEF pci_disable_device, Releases
<1>19. CASE pci_release_regions
  BY <1>19 DEF pci_release_regions, Releases
<1>20. CASE Finish
  BY <1>20 DEF Finish
<1>21. ASSUME NEW u \in EduUsers, Enter(u) PROVE ProbeTypeOK'
  <2>1. CASE User(u, "out", "version")
    BY <1>21, <2>1 DEF Enter, User
  <2>2. CASE User(u, "out", "spin")
    BY <1>21, <2>2 DEF Enter, User
  <2>3. QED
    BY <1>21, <2>1, <2>2 DEF Enter
<1>22. ASSUME NEW u \in EduUsers, version_show(u) PROVE ProbeTypeOK'
  BY <1>22 DEF version_show, User
<1>23. ASSUME NEW u \in EduUsers, RejectValue(u) PROVE ProbeTypeOK'
  BY <1>23 DEF RejectValue, User
<1>24. ASSUME NEW u \in EduUsers, SpinLock(u) PROVE ProbeTypeOK'
  <2>1. CASE UNCHANGED probeVars
    BY <2>1 DEF probeVars
  <2>2. CASE elock' = u /\ elock = "free" /\ User(u, "spin", "inverse")
    BY <2>2 DEF User
  <2>3. QED
    BY <1>24, <2>1, <2>2 DEF SpinLock
<1>25. ASSUME NEW u \in EduUsers, inverse_access(u) PROVE ProbeTypeOK'
  BY <1>25 DEF inverse_access, User
<1>26. CASE UNCHANGED probeVars
  BY <1>26 DEF probeVars
<1>27. QED
  BY <1>1, <1>2, <1>3, <1>4, <1>5, <1>6, <1>7, <1>8, <1>9, <1>10, <1>11,
     <1>12, <1>13, <1>14, <1>15, <1>16, <1>17, <1>18, <1>19, <1>20, <1>21,
     <1>22, <1>23, <1>24, <1>25, <1>26
     DEF EduProbeNext, DriverStep, UserStep

(* No step acquires or releases out of turn.                               *)
LEMMA ProbePlaceStep ==
  ASSUME ProbeTypeOK, ProbePlace, ProbeUsers, [EduProbeNext]_probeVars
  PROVE  ProbePlace'
<1> USE DEF ProbeTypeOK, InUse, Step, pointers, config, ProbePlace, Live, Serving,
           Detached
<1>1. CASE qedu_probe
  BY <1>1 DEF qedu_probe
<1>2. CASE qedu_remove
  BY <1>2 DEF qedu_remove, ProbeUsers
<1>3. CASE Restart
  BY <1>3 DEF Restart
<1>4. CASE pci_enable_device
  BY <1>4 DEF pci_enable_device, Acquires
<1>5. CASE pci_request_region
  BY <1>5 DEF pci_request_region, Acquires
<1>6. CASE pci_iomap
  BY <1>6 DEF pci_iomap, Acquires
<1>7. CASE pci_set_dma_mask
  BY <1>7 DEF pci_set_dma_mask
<1>8. CASE pci_set_consistent_dma_mask
  BY <1>8 DEF pci_set_consistent_dma_mask
<1>9. CASE pci_alloc_irq_vectors
  BY <1>9 DEF pci_alloc_irq_vectors
<1>10. CASE request_threaded_irq
  BY <1>10 DEF request_threaded_irq, Acquires
<1>11. CASE CheckId
  BY <1>11 DEF CheckId
<1>12. CASE CreateFile
  BY <1>12 DEF CreateFile
<1>13. CASE ProbeDone
  BY <1>13 DEF ProbeDone
<1>14. CASE RemoveFile
  BY <1>14 DEF RemoveFile
<1>15. CASE FilesRemoved
  BY <1>15 DEF FilesRemoved, Drained
<1>16. CASE free_irq
  BY <1>16 DEF free_irq, Releases
<1>17. CASE pci_iounmap
  BY <1>17 DEF pci_iounmap, Releases
<1>18. CASE pci_disable_device
  BY <1>18 DEF pci_disable_device, Releases
<1>19. CASE pci_release_regions
  BY <1>19 DEF pci_release_regions, Releases
<1>20. CASE Finish
  BY <1>20 DEF Finish
<1>21. ASSUME NEW u \in EduUsers, Enter(u) PROVE ProbePlace'
  <2>1. CASE User(u, "out", "version")
    BY <1>21, <2>1 DEF Enter, User
  <2>2. CASE User(u, "out", "spin")
    BY <1>21, <2>2 DEF Enter, User
  <2>3. QED
    BY <1>21, <2>1, <2>2 DEF Enter
<1>22. ASSUME NEW u \in EduUsers, version_show(u) PROVE ProbePlace'
  BY <1>22 DEF version_show, User
<1>23. ASSUME NEW u \in EduUsers, RejectValue(u) PROVE ProbePlace'
  BY <1>23 DEF RejectValue, User
<1>24. ASSUME NEW u \in EduUsers, SpinLock(u) PROVE ProbePlace'
  <2>1. CASE UNCHANGED probeVars
    BY <2>1 DEF probeVars
  <2>2. CASE elock' = u /\ elock = "free" /\ User(u, "spin", "inverse")
    BY <2>2 DEF User
  <2>3. QED
    BY <1>24, <2>1, <2>2 DEF SpinLock
<1>25. ASSUME NEW u \in EduUsers, inverse_access(u) PROVE ProbePlace'
  BY <1>25 DEF inverse_access, User
<1>26. CASE UNCHANGED probeVars
  BY <1>26 DEF probeVars
<1>27. QED
  BY ZenonT(40), <1>1, <1>2, <1>3, <1>4, <1>5, <1>6, <1>7, <1>8, <1>9, <1>10, <1>11,
     <1>12, <1>13, <1>14, <1>15, <1>16, <1>17, <1>18, <1>19, <1>20, <1>21,
     <1>22, <1>23, <1>24, <1>25, <1>26
     DEF EduProbeNext, DriverStep, UserStep

(* Users come and go only while the attributes are served.                 *)
LEMMA ProbeUsersStep ==
  ASSUME ProbeTypeOK, ProbePlace, ProbeUsers, [EduProbeNext]_probeVars PROVE ProbeUsers'
<1> USE DEF ProbeTypeOK, InUse, Step, pointers, config, ProbePlace, ProbeUsers, Live,
           Serving, Detached
<1>1. CASE qedu_probe
  BY <1>1 DEF qedu_probe
<1>2. CASE qedu_remove
  BY <1>2 DEF qedu_remove
<1>3. CASE Restart
  BY <1>3 DEF Restart
<1>4. CASE pci_enable_device
  BY <1>4 DEF pci_enable_device, Acquires
<1>5. CASE pci_request_region
  BY <1>5 DEF pci_request_region, Acquires
<1>6. CASE pci_iomap
  BY <1>6 DEF pci_iomap, Acquires
<1>7. CASE pci_set_dma_mask
  BY <1>7 DEF pci_set_dma_mask
<1>8. CASE pci_set_consistent_dma_mask
  BY <1>8 DEF pci_set_consistent_dma_mask
<1>9. CASE pci_alloc_irq_vectors
  BY <1>9 DEF pci_alloc_irq_vectors
<1>10. CASE request_threaded_irq
  BY <1>10 DEF request_threaded_irq, Acquires
<1>11. CASE CheckId
  BY <1>11 DEF CheckId
<1>12. CASE CreateFile
  BY <1>12 DEF CreateFile
<1>13. CASE ProbeDone
  BY <1>13 DEF ProbeDone
<1>14. CASE RemoveFile
  BY <1>14 DEF RemoveFile
<1>15. CASE FilesRemoved
  BY <1>15 DEF FilesRemoved, Drained
<1>16. CASE free_irq
  BY <1>16 DEF free_irq, Releases
<1>17. CASE pci_iounmap
  BY <1>17 DEF pci_iounmap, Releases
<1>18. CASE pci_disable_device
  BY <1>18 DEF pci_disable_device, Releases
<1>19. CASE pci_release_regions
  BY <1>19 DEF pci_release_regions, Releases
<1>20. CASE Finish
  BY <1>20 DEF Finish
<1>21. ASSUME NEW u \in EduUsers, Enter(u) PROVE ProbeUsers'
  <2>1. CASE User(u, "out", "version")
    BY <1>21, <2>1 DEF Enter, User
  <2>2. CASE User(u, "out", "spin")
    BY <1>21, <2>2 DEF Enter, User
  <2>3. QED
    BY <1>21, <2>1, <2>2 DEF Enter
<1>22. ASSUME NEW u \in EduUsers, version_show(u) PROVE ProbeUsers'
  BY <1>22 DEF version_show, User
<1>23. ASSUME NEW u \in EduUsers, RejectValue(u) PROVE ProbeUsers'
  BY <1>23 DEF RejectValue, User
<1>24. ASSUME NEW u \in EduUsers, SpinLock(u) PROVE ProbeUsers'
  <2>1. CASE UNCHANGED probeVars
    BY <2>1 DEF probeVars
  <2>2. CASE elock' = u /\ elock = "free" /\ User(u, "spin", "inverse")
    BY <2>2 DEF User
  <2>3. QED
    BY <1>24, <2>1, <2>2 DEF SpinLock
<1>25. ASSUME NEW u \in EduUsers, inverse_access(u) PROVE ProbeUsers'
  BY <1>25 DEF inverse_access, User
<1>26. CASE UNCHANGED probeVars
  BY <1>26 DEF probeVars
<1>27. QED
  BY ZenonT(40), <1>1, <1>2, <1>3, <1>4, <1>5, <1>6, <1>7, <1>8, <1>9, <1>10, <1>11,
     <1>12, <1>13, <1>14, <1>15, <1>16, <1>17, <1>18, <1>19, <1>20, <1>21,
     <1>22, <1>23, <1>24, <1>25, <1>26
     DEF EduProbeNext, DriverStep, UserStep

(* The lock is passed on correctly.                                        *)
LEMMA ProbeLockStep ==
  ASSUME ProbeTypeOK, ProbePlace, ProbeUsers, ProbeLock, [EduProbeNext]_probeVars
  PROVE  ProbeLock'
<1> USE EduUsersAssumption
    DEF ProbeTypeOK, InUse, Step, pointers, config, ProbePlace, ProbeUsers, ProbeLock,
        Live, Serving, Detached
<1>1. CASE qedu_probe
  BY <1>1 DEF qedu_probe
<1>2. CASE qedu_remove
  BY <1>2 DEF qedu_remove
<1>3. CASE Restart
  BY <1>3 DEF Restart
<1>4. CASE pci_enable_device
  BY <1>4 DEF pci_enable_device, Acquires
<1>5. CASE pci_request_region
  BY <1>5 DEF pci_request_region, Acquires
<1>6. CASE pci_iomap
  BY <1>6 DEF pci_iomap, Acquires
<1>7. CASE pci_set_dma_mask
  BY <1>7 DEF pci_set_dma_mask
<1>8. CASE pci_set_consistent_dma_mask
  BY <1>8 DEF pci_set_consistent_dma_mask
<1>9. CASE pci_alloc_irq_vectors
  BY <1>9 DEF pci_alloc_irq_vectors
<1>10. CASE request_threaded_irq
  BY <1>10 DEF request_threaded_irq, Acquires
<1>11. CASE CheckId
  BY <1>11 DEF CheckId
<1>12. CASE CreateFile
  BY <1>12 DEF CreateFile
<1>13. CASE ProbeDone
  BY <1>13 DEF ProbeDone
<1>14. CASE RemoveFile
  BY <1>14 DEF RemoveFile
<1>15. CASE FilesRemoved
  BY <1>15 DEF FilesRemoved, Drained
<1>16. CASE free_irq
  BY <1>16 DEF free_irq, Releases
<1>17. CASE pci_iounmap
  BY <1>17 DEF pci_iounmap, Releases
<1>18. CASE pci_disable_device
  BY <1>18 DEF pci_disable_device, Releases
<1>19. CASE pci_release_regions
  BY <1>19 DEF pci_release_regions, Releases
<1>20. CASE Finish
  BY <1>20 DEF Finish
<1>21. ASSUME NEW u \in EduUsers, Enter(u) PROVE ProbeLock'
  <2>1. CASE User(u, "out", "version")
    BY <1>21, <2>1 DEF Enter, User
  <2>2. CASE User(u, "out", "spin")
    BY <1>21, <2>2 DEF Enter, User
  <2>3. QED
    BY <1>21, <2>1, <2>2 DEF Enter
<1>22. ASSUME NEW u \in EduUsers, version_show(u) PROVE ProbeLock'
  BY <1>22 DEF version_show, User
<1>23. ASSUME NEW u \in EduUsers, RejectValue(u) PROVE ProbeLock'
  BY <1>23 DEF RejectValue, User
<1>24. ASSUME NEW u \in EduUsers, SpinLock(u) PROVE ProbeLock'
  <2>1. CASE UNCHANGED probeVars
    BY <2>1 DEF probeVars
  <2>2. CASE elock' = u /\ elock = "free" /\ User(u, "spin", "inverse")
    BY <2>2 DEF User
  <2>3. QED
    BY <1>24, <2>1, <2>2 DEF SpinLock
<1>25. ASSUME NEW u \in EduUsers, inverse_access(u) PROVE ProbeLock'
  BY <1>25 DEF inverse_access, User
<1>26. CASE UNCHANGED probeVars
  BY <1>26 DEF probeVars
<1>27. QED
  BY <1>1, <1>2, <1>3, <1>4, <1>5, <1>6, <1>7, <1>8, <1>9, <1>10, <1>11,
     <1>12, <1>13, <1>14, <1>15, <1>16, <1>17, <1>18, <1>19, <1>20, <1>21,
     <1>22, <1>23, <1>24, <1>25, <1>26
     DEF EduProbeNext, DriverStep, UserStep

(* What qedu_probe and qedu_remove hold, who is inside the attributes, and *)
(* who has the lock.                                                       *)
ProbeInv == ProbeTypeOK /\ ProbePlace /\ ProbeUsers /\ ProbeLock

(* Every step of qedu_probe, qedu_remove and the attributes keeps to       *)
(* ProbeInv.                                                               *)
LEMMA ProbeSafe == EduProbeSpec => []ProbeInv
<1>1. EduProbeInit => ProbeInv
  <2> SUFFICES ASSUME EduProbeInit PROVE ProbeInv
    OBVIOUS
  <2> USE DEF ProbeInv, EduProbeInit, Live, Serving, Detached
  <2>1. upc \in [EduUsers -> {"out", "version", "spin", "inverse"}]
    OBVIOUS
  <2>2. use_msi \in BOOLEAN /\ default \in BOOLEAN
    OBVIOUS
  <2>3. ProbeTypeOK
    <3>1. epc = "rest" /\ held = {} /\ files = 0 /\ elock = "free"
      OBVIOUS
    <3>2. drvdata = FALSE /\ qedu_dev = FALSE /\ edu_msi = FALSE /\ bound = FALSE
      OBVIOUS
    <3>3. held \subseteq InUse \cup {"vectors", "irq"} /\ files \in 0 .. 3
      BY <3>1
    <3> HIDE DEF EduProbeInit
    <3>4. QED
      BY <2>1, <2>2, <3>1, <3>2, <3>3, ZenonT(40) DEF ProbeTypeOK
  <2>4. ProbeUsers
    BY DEF ProbeUsers
  <2>5. ProbePlace
    BY DEF ProbePlace
  <2>6. ProbeLock
    BY EduUsersAssumption DEF ProbeLock
  <2>7. QED
    BY <2>3, <2>4, <2>5, <2>6
<1>2. ProbeInv /\ [EduProbeNext]_probeVars => ProbeInv'
  BY ProbeTypeStep, ProbePlaceStep, ProbeUsersStep, ProbeLockStep DEF ProbeInv
<1>3. QED
  BY <1>1, <1>2, PTL DEF EduProbeSpec

(* Whatever fails in qedu_probe, a driver that is not bound holds nothing  *)
(* but vectors.                                                            *)
THEOREM ProbeReleases == EduProbeSpec => []ProbeNothingLeft
<1>1. ProbeInv => ProbeNothingLeft
  BY DEF ProbeInv, ProbeTypeOK, ProbePlace, ProbeUsers, ProbeLock, Live, Serving, Detached,
         InUse, ProbeNothingLeft
<1>2. QED
  BY <1>1, ProbeSafe, PTL

(* The interrupt handlers have their device as long as they are            *)
(* registered.                                                             *)
THEOREM HandlersCorrect == EduProbeSpec => []HandlersHaveDevice
<1>1. ProbeInv => HandlersHaveDevice
  BY DEF ProbeInv, ProbeTypeOK, ProbePlace, ProbeUsers, ProbeLock, Live, Serving, Detached,
         InUse, HandlersHaveDevice
<1>2. QED
  BY <1>1, ProbeSafe, PTL

(* Any number of processes inside the attributes, during probe and remove  *)
(* too, have their device.                                                 *)
THEOREM AttributesCorrect == EduProbeSpec => []AttributesHaveDevice
<1>1. ProbeInv => AttributesHaveDevice
  BY DEF ProbeInv, ProbeTypeOK, ProbePlace, ProbeUsers, ProbeLock, Live, Serving, Detached,
         InUse, AttributesHaveDevice
<1>2. QED
  BY <1>1, ProbeSafe, PTL

-----------------------------------------------------------------------------
(* Loading and unloading of scull                                          *)

Loading == {"init", "add", "p_region", "p_devices", "p_init", "p_add", "proc",
            "loaded"}

(* What is held at every point of init and cleanup.                        *)
ScullHeld ==
  /\ "region" \in have <=> spc \notin {"out", "p_del"}
  /\ "devices" \in have <=> spc \in Loading \cup {"cache", "trim", "free"}
  /\ spc \in Loading => "cache" \in have
  /\ "cache" \in have => "devices" \in have
  /\ "p_devices" \in have => "p_region" \in have /\
       spc \in {"p_init", "p_add", "proc", "loaded", "trim", "free", "final",
               "unregister", "p_del"}
  /\ spc \in {"p_init", "p_add", "p_del"} => "p_devices" \in have
  /\ "p_region" \in have => "p_devices" \in have \/ spc = "p_devices"
  /\ spc = "p_devices" => "p_region" \in have
  /\ "proc" \in have => spc \in {"loaded", "trim", "free", "final"}
  /\ "old_cache" \in have => "objects" \in have
  /\ "objects" \in have
       => "old_cache" \in have \/ spc \in Loading \cup {"trim", "free"}

(* Which devices are ready, visible and open, and where /proc readers are. *)
ScullUsers ==
  /\ cdevs \subseteq ready /\ opens \subseteq cdevs
  /\ Unloading => opens = {}
  /\ spc \in {"p_region", "p_devices", "p_init", "p_add", "proc", "loaded"}
       => Bare \subseteq ready
  /\ spc \in {"init", "add"} => \A k \in 0 .. i - 1 : <<"bare", k>> \in ready
  /\ spc = "add" => i < scull_nr_devs /\ <<"bare", i>> \in ready
  /\ spc = "p_add" => i < scull_p_nr_devs /\ <<"pipe", i>> \in ready
  /\ spc = "trim" => \A k \in 0 .. i - 1 : <<"bare", k>> \notin cdevs
  /\ spc = "p_del" => \A k \in 0 .. i - 1 : <<"pipe", k>> \notin cdevs
  /\ spc \notin Loading \cup {"trim"} => cdevs \cap Bare = {}
  /\ cdevs \cap Pipes # {} => "p_devices" \in have
  /\ \A r \in ProcReaders : at[r] # -1 => "proc" \in have

(* The types are preserved.                                                *)
LEMMA ScullTypeStep ==
  ASSUME ScullModuleTypeOK, ScullUsers, [ScullModuleNext]_scullVars
  PROVE  ScullModuleTypeOK'
<1> USE ScullModuleAssumption DEF ScullModuleTypeOK, Go, Gets, Loses, Bare, Pipes
<1>1. CASE register_region
  BY <1>1 DEF register_region
<1>2. CASE alloc_devices
  BY <1>2, ZenonT(40) DEF alloc_devices
<1>3. CASE create_cache
  BY <1>3, ZenonT(40) DEF create_cache
<1>4. CASE init_devs
  <2>1. CASE i < scull_nr_devs /\ init_dev("bare", "init", "add")
    BY <2>1 DEF init_dev
  <2>2. CASE setup_cdev("bare", "add", "init")
    BY <2>2, SMTT(40) DEF setup_cdev, ScullUsers
  <2>3. QED
    BY <1>4, <2>1, <2>2, ZenonT(40) DEF init_devs
<1>5. CASE p_region
  BY <1>5, ZenonT(40) DEF p_region
<1>6. CASE p_devices
  BY <1>6, ZenonT(40) DEF p_devices
<1>7. CASE p_init_devs
  <2>1. CASE i < scull_p_nr_devs /\ init_dev("pipe", "p_init", "p_add")
    BY <2>1 DEF init_dev
  <2>2. CASE setup_cdev("pipe", "p_add", "p_init")
    BY <2>2, SMTT(40) DEF setup_cdev, ScullUsers
  <2>3. QED
    BY <1>7, <2>1, <2>2, ZenonT(40) DEF p_init_devs
<1>8. CASE scull_create_proc
  BY <1>8, ZenonT(40) DEF scull_create_proc
<1>9. CASE rmmod
  BY <1>9 DEF rmmod
<1>10. CASE trim_devs
  BY <1>10 DEF trim_devs
<1>11. CASE free_devices
  BY <1>11 DEF free_devices
<1>12. CASE scull_remove_proc
  BY <1>12 DEF scull_remove_proc
<1>13. CASE unregister_region
  BY <1>13 DEF unregister_region
<1>14. CASE p_cleanup
  <2>1. CASE Go("p_del", "p_del")
    <3>1. i' = i + 1 /\ cdevs' \subseteq cdevs /\ spc' = "p_del"
      BY <1>14, <2>1 DEF p_cleanup
    <3>2. UNCHANGED <<have, ready, opens, at>>
      BY <1>14, <2>1 DEF p_cleanup
    <3>3. QED
      BY <3>1, <3>2
  <2>2. CASE Go("p_del", "out")
    BY <1>14, <2>2, ZenonT(40) DEF p_cleanup
  <2>3. QED
    BY <1>14, <2>1, <2>2 DEF p_cleanup
<1>15. ASSUME NEW d \in Bare \cup Pipes, OpenDevice(d) PROVE ScullModuleTypeOK'
  BY <1>15 DEF OpenDevice
<1>16. ASSUME NEW d \in Bare \cup Pipes, CloseDevice(d) PROVE ScullModuleTypeOK'
  BY <1>16 DEF CloseDevice
<1>17. ASSUME NEW r \in ProcReaders, scull_seq_start(r) PROVE ScullModuleTypeOK'
  BY <1>17 DEF scull_seq_start
<1>18. ASSUME NEW r \in ProcReaders, scull_seq_next(r) PROVE ScullModuleTypeOK'
  BY <1>18 DEF scull_seq_next
<1>19. CASE UNCHANGED scullVars
  BY <1>19 DEF scullVars
<1>20. ASSUME NEW d \in Bare \cup Pipes, scull_write(d) PROVE ScullModuleTypeOK'
  BY <1>20 DEF scull_write
<1>21. QED
  BY ZenonT(40), <1>1, <1>2, <1>3, <1>4, <1>5, <1>6, <1>7, <1>8, <1>9, <1>10, <1>11,
     <1>12, <1>13, <1>14, <1>15, <1>16, <1>17, <1>18, <1>19, <1>20
     DEF ScullModuleNext, LoadStep, UnloadStep

(* Every step finds what it releases, and leaves what it should.           *)
LEMMA ScullHeldStep ==
  ASSUME ScullModuleTypeOK, ScullHeld, ScullUsers, [ScullModuleNext]_scullVars
  PROVE  ScullHeld'
<1> USE DEF ScullModuleTypeOK, ScullHeld, Go, Gets, Loses, Loading
<1>1. CASE register_region
  BY <1>1 DEF register_region
<1>2. CASE alloc_devices
  BY <1>2 DEF alloc_devices
<1>3. CASE create_cache
  BY <1>3 DEF create_cache
<1>4. CASE init_devs
  BY <1>4 DEF init_devs, init_dev, setup_cdev
<1>5. CASE p_region
  BY <1>5 DEF p_region
<1>6. CASE p_devices
  BY <1>6 DEF p_devices
<1>7. CASE p_init_devs
  BY <1>7 DEF p_init_devs, init_dev, setup_cdev
<1>8. CASE scull_create_proc
  BY <1>8 DEF scull_create_proc
<1>9. CASE rmmod
  BY <1>9 DEF rmmod
<1>10. CASE trim_devs
  BY <1>10 DEF trim_devs
<1>11. CASE free_devices
  BY <1>11 DEF free_devices
<1>12. CASE scull_remove_proc
  BY <1>12 DEF scull_remove_proc
<1>13. CASE unregister_region
  BY <1>13 DEF unregister_region
<1>14. CASE p_cleanup
  BY <1>14 DEF p_cleanup
<1>15. ASSUME NEW d \in Bare \cup Pipes, OpenDevice(d) PROVE ScullHeld'
  BY <1>15 DEF OpenDevice
<1>16. ASSUME NEW d \in Bare \cup Pipes, CloseDevice(d) PROVE ScullHeld'
  BY <1>16 DEF CloseDevice
<1>17. ASSUME NEW r \in ProcReaders, scull_seq_start(r) PROVE ScullHeld'
  BY <1>17 DEF scull_seq_start
<1>18. ASSUME NEW r \in ProcReaders, scull_seq_next(r) PROVE ScullHeld'
  BY <1>18 DEF scull_seq_next
<1>19. CASE UNCHANGED scullVars
  BY <1>19 DEF scullVars
<1>20. ASSUME NEW d \in Bare \cup Pipes, scull_write(d) PROVE ScullHeld'
  <2>1. spc \in Loading
    BY <1>20 DEF scull_write, ScullUsers, Unloading
  <2>2. spc' = spc /\ have' = have \cup {"objects"}
    BY <1>20 DEF scull_write
  <2>3. QED
    BY <2>1, <2>2
<1>21. QED
  BY ZenonT(40), <1>1, <1>2, <1>3, <1>4, <1>5, <1>6, <1>7, <1>8, <1>9, <1>10, <1>11,
     <1>12, <1>13, <1>14, <1>15, <1>16, <1>17, <1>18, <1>19, <1>20
     DEF ScullModuleNext, LoadStep, UnloadStep

(* Devices appear when ready, disappear when closed.                       *)
LEMMA ScullUsersStep ==
  ASSUME ScullModuleTypeOK, ScullHeld, ScullUsers, [ScullModuleNext]_scullVars
  PROVE  ScullUsers'
<1> USE ScullModuleAssumption
    DEF ScullModuleTypeOK, ScullHeld, ScullUsers, Go, Gets, Loses, Loading, Bare,
        Pipes, Unloading
<1>1. CASE register_region
  BY <1>1 DEF register_region
<1>2. CASE alloc_devices
  BY <1>2 DEF alloc_devices
<1>3. CASE create_cache
  BY <1>3, SMTT(40) DEF create_cache
<1>4. CASE init_devs
  BY <1>4, SMTT(40) DEF init_devs, init_dev, setup_cdev
<1>5. CASE p_region
  BY <1>5 DEF p_region
<1>6. CASE p_devices
  BY <1>6 DEF p_devices
<1>7. CASE p_init_devs
  BY <1>7 DEF p_init_devs, init_dev, setup_cdev
<1>8. CASE scull_create_proc
  BY <1>8 DEF scull_create_proc
<1>9. CASE rmmod
  BY <1>9, SMTT(40) DEF rmmod
<1>10. CASE trim_devs
  BY <1>10, SMTT(40) DEF trim_devs
<1>11. CASE free_devices
  BY <1>11 DEF free_devices
<1>12. CASE scull_remove_proc
  BY <1>12 DEF scull_remove_proc
<1>13. CASE unregister_region
  BY <1>13, SMTT(40) DEF unregister_region
<1>14. CASE p_cleanup
  BY <1>14, SMTT(40) DEF p_cleanup
<1>15. ASSUME NEW d \in Bare \cup Pipes, OpenDevice(d) PROVE ScullUsers'
  BY <1>15 DEF OpenDevice
<1>16. ASSUME NEW d \in Bare \cup Pipes, CloseDevice(d) PROVE ScullUsers'
  BY <1>16 DEF CloseDevice
<1>17. ASSUME NEW r \in ProcReaders, scull_seq_start(r) PROVE ScullUsers'
  BY <1>17 DEF scull_seq_start
<1>18. ASSUME NEW r \in ProcReaders, scull_seq_next(r) PROVE ScullUsers'
  BY <1>18 DEF scull_seq_next
<1>19. CASE UNCHANGED scullVars
  BY <1>19, SMTT(40) DEF scullVars
<1>20. ASSUME NEW d \in Bare \cup Pipes, scull_write(d) PROVE ScullUsers'
  BY <1>20 DEF scull_write
<1>21. QED
  BY ZenonT(40), <1>1, <1>2, <1>3, <1>4, <1>5, <1>6, <1>7, <1>8, <1>9, <1>10, <1>11,
     <1>12, <1>13, <1>14, <1>15, <1>16, <1>17, <1>18, <1>19, <1>20
     DEF ScullModuleNext, LoadStep, UnloadStep

(* What the module holds, and who uses its devices.                        *)
ScullInv == ScullModuleTypeOK /\ ScullHeld /\ ScullUsers

(* Every step of init, cleanup, the opens and /proc keeps to ScullInv.     *)
LEMMA ScullSafe == ScullModuleSpec => []ScullInv
<1>1. ScullModuleInit => ScullInv
  BY ScullModuleAssumption
     DEF ScullModuleInit, ScullInv, ScullModuleTypeOK, ScullHeld, ScullUsers, Loading
<1>2. ScullInv /\ [ScullModuleNext]_scullVars => ScullInv'
  BY ScullTypeStep, ScullHeldStep, ScullUsersStep DEF ScullInv
<1>3. QED
  BY <1>1, <1>2, PTL DEF ScullModuleSpec

(* For any number of devices and pipes: whoever opens a device finds it    *)
(* initialised and backed, even while init still runs.                     *)
THEOREM OpenReadyCorrect == ScullModuleSpec => []OpenIsReady
<1>1. ScullInv => OpenIsReady
  BY DEF ScullInv, ScullModuleTypeOK, ScullHeld, ScullUsers, Loading, Unloading,
         OpenIsReady
<1>2. QED
  BY <1>1, ScullSafe, PTL

(* Any number of readers of /proc see initialised devices until cleanup    *)
(* starts.                                                                 *)
THEOREM ProcReadyCorrect == ScullModuleSpec => []ProcSeesReady
<1>1. ScullInv => ProcSeesReady
  BY DEF ScullInv, ScullModuleTypeOK, ScullHeld, ScullUsers, Loading, Unloading,
         ProcSeesReady
<1>2. QED
  BY <1>1, ScullSafe, PTL

(* Whatever step of init fails, nothing is left when the module is not     *)
(* loaded, but for objects of last slots and the cache they are from.      *)
THEOREM UnloadedCorrect == ScullModuleSpec => []UnloadLeavesObjects
<1>1. ScullInv => UnloadLeavesObjects
  BY DEF ScullInv, ScullModuleTypeOK, ScullHeld, ScullUsers, Loading, Unloading,
         UnloadLeavesObjects
<1>2. QED
  BY <1>1, ScullSafe, PTL
=============================================================================
