------------------------------ MODULE EduProbe ------------------------------
(***************************************************************************)
(* Probe and removal of the edu driver (edu/init.c) for one device, with   *)
(* every step failing or not, the creation and removal of the attributes   *)
(* (edu/sysfs.c), and processes in the "version" and "inverse" attributes  *)
(* meanwhile.  What __qedu_remove does about timer and interrupt handlers  *)
(* is in EduIrq; the values of the registers are left out.                 *)
(***************************************************************************)
EXTENDS Integers

CONSTANT EduUsers   \* processes using the attributes

ASSUME EduUsersAssumption == EduUsers \cap {"free", "probe", "remove"} = {}

VARIABLES
  epc,        \* where probe or remove is; "rest": neither runs
  held,       \* what the driver has acquired and not released
  drvdata,    \* pci_get_drvdata(dev) is not NULL
  qedu_dev,   \* the global qedu_dev is not NULL
  use_msi,    \* the module parameter
  edu_msi,    \* edu->use_msi
  default,    \* dma_mask is QEDU_DEFAULT_DMA_MASK
  files,      \* how many of the three attributes exist
  elock,      \* who holds edu->lock
  bound,      \* probe returns 0, and remove has not been called since
  upc         \* upc[u]: "out", "version", "spin" or "inverse"

config == <<use_msi, edu_msi, default>>
pointers == <<drvdata, qedu_dev>>
probeVars == <<epc, held, pointers, config, files, elock, bound, upc>>

EduProbeInit ==
  /\ epc = "rest" /\ held = {} /\ drvdata = FALSE /\ qedu_dev = FALSE
  /\ use_msi \in BOOLEAN /\ edu_msi = FALSE /\ default \in BOOLEAN
  /\ files = 0 /\ elock = "free" /\ bound = FALSE
  /\ upc = [u \in EduUsers |-> "out"]

Step(from, to) == epc = from /\ epc' = to

-----------------------------------------------------------------------------
(* qedu_probe; kzalloc failing returns -ENOMEM and changes nothing.        *)

qedu_probe ==
  /\ Step("rest", "enable") /\ ~bound
  /\ held' = held \cup {"edu"} /\ qedu_dev' = TRUE /\ elock' = "probe"
  /\ edu_msi' = FALSE
  /\ UNCHANGED <<drvdata, use_msi, default, files, bound, upc>>

(* A step that acquires x, or fails and goes to a label.                   *)
Acquires(from, x, to, label) ==
  /\ \/ Step(from, to) /\ held' = held \cup {x}
     \/ Step(from, label) /\ UNCHANGED held
  /\ UNCHANGED <<pointers, config, files, elock, bound, upc>>

pci_enable_device == Acquires("enable", "enabled", "region", "end")

pci_request_region == Acquires("region", "region", "iomap", "fail_region")

pci_iomap == Acquires("iomap", "mapped", "mask", "disable")

(* A mask that is refused is replaced by the default one; if the default   *)
(* is the one refused, the error is forgotten.                             *)
pci_set_dma_mask ==
  /\ \/ Step("mask", "coherent") /\ UNCHANGED default
     \/ /\ ~default /\ default' = TRUE
        /\ Step("mask", "coherent") \/ Step("mask", "fail")
  /\ UNCHANGED <<held, pointers, use_msi, edu_msi, files, elock, bound, upc>>

pci_set_consistent_dma_mask ==
  /\ \/ Step("coherent", "msi") /\ drvdata' = TRUE
     \/ Step("coherent", "fail") /\ UNCHANGED drvdata
  /\ UNCHANGED <<held, qedu_dev, config, files, elock, bound, upc>>

(* Without a vector the shared line is used; vectors left by an earlier    *)
(* probe make the allocation fail.                                         *)
pci_alloc_irq_vectors ==
  /\ \/ Step("msi", "request") /\ use_msi' = FALSE /\ UNCHANGED held
     \/ /\ use_msi /\ "vectors" \notin held
        /\ held' = held \cup {"vectors"} /\ UNCHANGED use_msi
        /\ Step("msi", "request") \/ Step("msi", "unmap")
  /\ UNCHANGED <<pointers, edu_msi, default, files, elock, bound, upc>>

request_threaded_irq == Acquires("request", "irq", "id", "unmap")

(* A wrong id goes to fail with ret = 0: the kernel is told of success.    *)
CheckId ==
  /\ \/ Step("id", "create") /\ UNCHANGED bound
     \/ Step("id", "fail") /\ bound' = TRUE
  /\ UNCHANGED <<held, pointers, config, files, elock, upc>>

(* qedu_sysfs_create_entries: version, inverse and test_irq in turn.       *)
CreateFile ==
  /\ epc = "create" /\ files < 3
  /\ \/ files' = files + 1 /\ UNCHANGED epc
     \/ Step("create", "unwind") /\ UNCHANGED files
  /\ UNCHANGED <<held, pointers, config, elock, bound, upc>>

ProbeDone ==
  /\ Step("create", "rest") /\ files = 3
  /\ edu_msi' = use_msi /\ elock' = "free" /\ bound' = TRUE
  /\ UNCHANGED <<held, pointers, use_msi, default, files, upc>>

-----------------------------------------------------------------------------
(* Removing attributes: the last one created first, and each waits for the *)
(* processes that are inside it.                                           *)

Drained ==
  \A u \in EduUsers : /\ upc[u] = "version" => files >= 1
                      /\ upc[u] \in {"spin", "inverse"} => files >= 2

RemoveFile ==
  /\ epc \in {"unwind", "entries"} /\ files > 0 /\ Drained
  /\ files' = files - 1
  /\ UNCHANGED <<epc, held, pointers, config, elock, bound, upc>>

FilesRemovedUndrained ==
  /\ files = 0
  /\ \/ Step("unwind", "fail") /\ UNCHANGED elock
     \/ Step("entries", "fail") /\ elock = "free" /\ elock' = "remove"
  /\ UNCHANGED <<held, pointers, config, files, bound, upc>>

FilesRemoved ==
  /\ files = 0 /\ Drained
  /\ \/ Step("unwind", "fail") /\ UNCHANGED elock
     \/ Step("entries", "fail") /\ elock = "free" /\ elock' = "remove"
  /\ UNCHANGED <<held, pointers, config, files, bound, upc>>

(* qedu_remove; data that probe has freed makes anything possible.         *)
qedu_remove ==
  /\ epc = "rest" /\ bound /\ bound' = FALSE
  /\ epc' = IF ~drvdata THEN "rest" ELSE IF "edu" \in held THEN "entries" ELSE "oops"
  /\ UNCHANGED <<held, pointers, config, files, elock, upc>>

Restart ==
  /\ Step("oops", "rest") /\ held' = {} /\ drvdata' = FALSE
  /\ UNCHANGED <<qedu_dev, config, files, elock, bound, upc>>

-----------------------------------------------------------------------------
(* The labels of qedu_probe and the end of __qedu_remove.                  *)

Releases(from, gone, to) ==
  /\ Step(from, to) /\ held' = held \ gone
  /\ UNCHANGED <<pointers, config, files, elock, bound, upc>>

(* free_irq, also of an interrupt that was never requested; edu->use_msi   *)
(* is set only when probe has succeeded.                                   *)
free_irq ==
  Releases("fail", {"irq"} \cup IF edu_msi THEN {"vectors"} ELSE {}, "unmap")

pci_iounmap == Releases("unmap", {"mapped"}, "disable")

DisableKeepsRegion ==
  Releases("disable", {"enabled"}, "end")
  \/ Releases("fail_region", {"enabled"}, "end")

pci_disable_device ==
  Releases("disable", {"enabled"}, "release")
  \/ Releases("fail_region", {"enabled"}, "end")

pci_release_regions == Releases("release", {"region"}, "end")

(* Unlock and free; only probe clears qedu_dev.  The kernel clears drvdata *)
(* when probe has failed and after remove.                                 *)
Finish ==
  /\ Step("end", "rest")
  /\ held' = held \ {"edu"}
  /\ qedu_dev' = (qedu_dev /\ elock = "remove") /\ drvdata' = (drvdata /\ bound)
  /\ elock' = "free"
  /\ UNCHANGED <<config, files, bound, upc>>

-----------------------------------------------------------------------------
(* version_show, inverse_show and inverse_store.                           *)

User(u, from, to) ==
  /\ upc[u] = from /\ upc' = [upc EXCEPT ![u] = to]
  /\ UNCHANGED <<epc, held, pointers, config, files, bound>>

Enter(u) ==
  /\ \/ files >= 1 /\ User(u, "out", "version")
     \/ files >= 2 /\ User(u, "out", "spin")
  /\ UNCHANGED elock

version_show(u) == User(u, "version", "out") /\ UNCHANGED elock

(* A value above UINT_MAX, perhaps the uninitialised one of a failed parse.*)
RejectValue(u) == User(u, "spin", "out") /\ UNCHANGED elock

(* spin_lock_irqsave, which keeps the processor busy.                      *)
SpinLock(u) ==
  \/ elock = "free" /\ elock' = u /\ User(u, "spin", "inverse")
  \/ elock # "free" /\ upc[u] = "spin" /\ UNCHANGED probeVars

InverseAgain(u) == User(u, "inverse", "spin") /\ elock' = "free"

inverse_access(u) == User(u, "inverse", "out") /\ elock' = "free"

-----------------------------------------------------------------------------
DriverStep ==
  \/ pci_enable_device \/ pci_request_region \/ pci_iomap \/ pci_set_dma_mask
  \/ pci_set_consistent_dma_mask \/ pci_alloc_irq_vectors
  \/ request_threaded_irq \/ CheckId \/ CreateFile \/ ProbeDone
  \/ RemoveFile \/ FilesRemoved \/ free_irq \/ pci_iounmap
  \/ pci_disable_device \/ pci_release_regions \/ Finish

UserStep(u) == version_show(u) \/ SpinLock(u) \/ inverse_access(u)

EduProbeNext ==
  \/ qedu_probe \/ qedu_remove \/ Restart \/ DriverStep
  \/ \E u \in EduUsers : Enter(u) \/ RejectValue(u) \/ UserStep(u)

EduProbeSpec == EduProbeInit /\ [][EduProbeNext]_probeVars

(* Probe, remove and processes inside an attribute go on when they can.    *)
EduProbeFairness ==
  /\ WF_probeVars(DriverStep)
  /\ \A u \in EduUsers : WF_probeVars(UserStep(u))

-----------------------------------------------------------------------------
InUse == {"edu", "enabled", "region", "mapped"}

ProbeTypeOK ==
  /\ epc \in {"rest", "enable", "region", "iomap", "mask", "coherent", "msi",
              "request", "id", "create", "unwind", "entries", "fail", "unmap",
              "disable", "release", "fail_region", "end", "oops"}
  /\ held \subseteq InUse \cup {"vectors", "irq"}
  /\ drvdata \in BOOLEAN /\ qedu_dev \in BOOLEAN /\ bound \in BOOLEAN
  /\ use_msi \in BOOLEAN /\ edu_msi \in BOOLEAN /\ default \in BOOLEAN
  /\ files \in 0 .. 3
  /\ elock \in EduUsers \cup {"free", "probe", "remove"}
  /\ upc \in [EduUsers -> {"out", "version", "spin", "inverse"}]

(* On every path, failing or not, a driver that is not bound has released  *)
(* all it acquired except MSI vectors, which the failing paths keep.       *)
ProbeNothingLeft ==
  epc = "rest" /\ ~bound => held \subseteq {"vectors"} /\ files = 0 /\ elock = "free"

(* As long as the interrupt is requested, what the handlers use exists.    *)
HandlersHaveDevice == "irq" \in held => InUse \subseteq held

(* A process inside an attribute finds qedu_dev, its driver data and the   *)
(* mapped device, although both probe and remove may be running.           *)
AttributesHaveDevice ==
  \A u \in EduUsers : upc[u] # "out" => qedu_dev /\ drvdata /\ InUse \subseteq held

(* Probe and remove end, with one exception: probe cannot remove "inverse" *)
(* while a process inside it waits for the lock that probe holds.          *)
ProbeEnds ==
  []<>\/ epc \in {"rest", "oops"}
      \/ epc = "unwind" /\ \E u \in EduUsers : upc[u] = "spin"
=============================================================================
