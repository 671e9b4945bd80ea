---------------------------- MODULE ScullModule ----------------------------
(***************************************************************************)
(* Loading and unloading scull (scull/main.c, scull/pipe.c), with every    *)
(* step failing or not, while processes open the devices as they appear    *)
(* and read /proc/scullmem (scull/proc.c).  An open device keeps the       *)
(* module loaded; a reader of /proc does not, but the removal of the entry *)
(* waits for the readers inside.  The data of the devices is in ScullDev   *)
(* and ScullPipe.                                                          *)
(***************************************************************************)
EXTENDS Integers

CONSTANTS scull_nr_devs, scull_p_nr_devs, ProcReaders

ASSUME ScullModuleAssumption == scull_nr_devs \in Nat /\ scull_p_nr_devs \in Nat

VARIABLES
  spc,      \* where init or cleanup is; "out" and "loaded": neither runs
  i,        \* the index of its loop
  have,     \* regions, memory, caches, /proc entry and stuck objects held
  ready,    \* devices whose mutex and fields are initialised
  cdevs,    \* devices users can open
  opens,    \* devices that are open
  at        \* at[r]: the device reader r of /proc is at, or -1

scullVars == <<spc, i, have, ready, cdevs, opens, at>>

Bare == {<<"bare", k>> : k \in 0 .. scull_nr_devs - 1}
Pipes == {<<"pipe", k>> : k \in 0 .. scull_p_nr_devs - 1}

ScullModuleInit ==
  /\ spc = "out" /\ i = 0 /\ have = {} /\ ready = {} /\ cdevs = {} /\ opens = {}
  /\ at = [r \in ProcReaders |-> -1]

Go(from, to) == spc = from /\ spc' = to
Gets(x) == have' = have \cup {x}
Loses(x) == have' = have \ x

-----------------------------------------------------------------------------
(* scull_init_module                                                       *)

(* Without a major number nothing has happened yet.                        *)
register_region ==
  /\ Go("out", "devices") /\ Gets("region")
  /\ UNCHANGED <<i, ready, cdevs, opens, at>>

ProcEarly ==
  /\ \/ Go("devices", "cache") /\ have' = have \cup {"devices", "proc"}
     \/ Go("devices", "final") /\ UNCHANGED have
  /\ UNCHANGED <<i, ready, cdevs, opens, at>>

(* Without memory cleanup skips to its last part.                          *)
alloc_devices ==
  /\ \/ Go("devices", "cache") /\ Gets("devices")
     \/ Go("devices", "final") /\ UNCHANGED have
  /\ UNCHANGED <<i, ready, cdevs, opens, at>>

(* Without the cache cleanup goes through devices never initialised.       *)
create_cache ==
  /\ \/ Go("cache", "init") /\ Gets("cache")
     \/ Go("cache", "trim") /\ UNCHANGED have
  /\ i' = 0
  /\ UNCHANGED <<ready, cdevs, opens, at>>

InitLate(kind, here, add) ==
  /\ Go(here, add)
  /\ cdevs' = cdevs \cup {<<kind, i>>}
  /\ UNCHANGED <<i, have, ready, opens, at>>

(* The fields and the mutex come before the cdev.                          *)
init_dev(kind, here, add) ==
  /\ Go(here, add)
  /\ ready' = ready \cup {<<kind, i>>}
  /\ UNCHANGED <<i, have, cdevs, opens, at>>

(* scull_setup_cdev, scull_p_setup_cdev: errors are only logged.           *)
setup_cdev(kind, add, here) ==
  /\ Go(add, here)
  /\ cdevs' = cdevs \cup {<<kind, i>>} \/ UNCHANGED cdevs
  /\ i' = i + 1
  /\ UNCHANGED <<have, ready, opens, at>>

init_devs ==
  \/ i < scull_nr_devs /\ init_dev("bare", "init", "add")
  \/ setup_cdev("bare", "add", "init")
  \/ /\ i = scull_nr_devs /\ Go("init", "p_region")
     /\ UNCHANGED <<i, have, ready, cdevs, opens, at>>

(* scull_p_init: a failure leaves scull without pipes.                     *)
p_region ==
  /\ \/ Go("p_region", "p_devices") /\ Gets("p_region")
     \/ Go("p_region", "proc") /\ UNCHANGED have
  /\ UNCHANGED <<i, ready, cdevs, opens, at>>

KeepRegion ==
  /\ \/ Go("p_devices", "p_init") /\ Gets("p_devices")
     \/ Go("p_devices", "proc") /\ UNCHANGED have
  /\ i' = 0
  /\ UNCHANGED <<ready, cdevs, opens, at>>

p_devices ==
  /\ \/ Go("p_devices", "p_init") /\ Gets("p_devices")
     \/ Go("p_devices", "proc") /\ Loses({"p_region"})
  /\ i' = 0
  /\ UNCHANGED <<ready, cdevs, opens, at>>

p_init_devs ==
  \/ i < scull_p_nr_devs /\ init_dev("pipe", "p_init", "p_add")
  \/ setup_cdev("pipe", "p_add", "p_init")
  \/ /\ i = scull_p_nr_devs /\ Go("p_init", "proc")
     /\ UNCHANGED <<i, have, ready, cdevs, opens, at>>

scull_create_proc ==
  /\ Go("proc", "loaded")
  /\ Gets("proc") \/ UNCHANGED have
  /\ UNCHANGED <<i, ready, cdevs, opens, at>>

-----------------------------------------------------------------------------
(* scull_cleanup_module, called by rmmod and by a failed init.             *)

rmmod ==
  /\ Go("loaded", "trim") /\ opens = {}
  /\ i' = 0
  /\ UNCHANGED <<have, ready, cdevs, opens, at>>

trim_devs ==
  /\ \/ /\ i < scull_nr_devs /\ Go("trim", "trim")
        /\ cdevs' = cdevs \ {<<"bare", i>>} /\ i' = i + 1
     \/ i = scull_nr_devs /\ Go("trim", "free") /\ UNCHANGED <<cdevs, i>>
  /\ UNCHANGED <<have, ready, opens, at>>

(* kmem_cache_destroy keeps a cache that has objects, with its objects.    *)
free_devices ==
  /\ Go("free", "final")
  /\ have' = (have \ {"devices", "cache"})
               \cup (IF "objects" \in have THEN {"old_cache"} ELSE {})
  /\ ready' = ready \ Bare
  /\ UNCHANGED <<i, cdevs, opens, at>>

(* remove_proc_entry waits for the readers inside.                         *)
scull_remove_proc ==
  /\ Go("final", "unregister") /\ \A r \in ProcReaders : at[r] = -1
  /\ Loses({"proc"})
  /\ UNCHANGED <<i, ready, cdevs, opens, at>>

(* unregister_chrdev_region, then scull_p_cleanup.                         *)
unregister_region ==
  /\ Go("unregister", IF "p_devices" \in have THEN "p_del" ELSE "out")
  /\ Loses({"region"}) /\ i' = 0
  /\ UNCHANGED <<ready, cdevs, opens, at>>

p_cleanup ==
  /\ \/ /\ i < scull_p_nr_devs /\ Go("p_del", "p_del")
        /\ cdevs' = cdevs \ {<<"pipe", i>>} /\ i' = i + 1
        /\ UNCHANGED <<have, ready>>
     \/ /\ i = scull_p_nr_devs /\ Go("p_del", "out")
        /\ Loses({"p_devices", "p_region"}) /\ ready' = ready \ Pipes
        /\ UNCHANGED <<cdevs, i>>
  /\ UNCHANGED <<opens, at>>

-----------------------------------------------------------------------------
(* Users.  A module that is being unloaded gives out no device.            *)
Unloading == spc \in {"trim", "free", "final", "unregister", "p_del"}

OpenDevice(d) ==
  /\ d \in cdevs /\ ~Unloading
  /\ opens' = opens \cup {d}
  /\ UNCHANGED <<spc, i, have, ready, cdevs, at>>

(* A write that allocates in the last slot of an array: __scull_trim frees *)
(* one slot less than there are, so that the object stays for ever.        *)
scull_write(d) ==
  /\ d \in opens \cap Bare /\ Gets("objects")
  /\ UNCHANGED <<spc, i, ready, cdevs, opens, at>>

CloseDevice(d) ==
  /\ d \in opens /\ opens' = opens \ {d}
  /\ UNCHANGED <<spc, i, have, ready, cdevs, at>>

(* scull_seq_start, once the entry exists.                                 *)
scull_seq_start(r) ==
  /\ at[r] = -1 /\ "proc" \in have /\ 0 < scull_nr_devs
  /\ at' = [at EXCEPT ![r] = 0]
  /\ UNCHANGED <<spc, i, have, ready, cdevs, opens>>

(* scull_seq_show and scull_seq_next; a signal or a full buffer ends it.   *)
scull_seq_next(r) ==
  /\ at[r] # -1
  /\ \/ at[r] + 1 < scull_nr_devs /\ at' = [at EXCEPT ![r] = @ + 1]
     \/ at' = [at EXCEPT ![r] = -1]
  /\ UNCHANGED <<spc, i, have, ready, cdevs, opens>>

-----------------------------------------------------------------------------
LoadStep ==
  \/ alloc_devices \/ create_cache \/ init_devs \/ p_region \/ p_devices
  \/ p_init_devs \/ scull_create_proc

UnloadStep ==
  \/ trim_devs \/ free_devices \/ scull_remove_proc \/ unregister_region
  \/ p_cleanup

ScullModuleNext ==
  \/ register_region \/ LoadStep \/ rmmod \/ UnloadStep
  \/ \E d \in Bare \cup Pipes : OpenDevice(d) \/ scull_write(d) \/ CloseDevice(d)
  \/ \E r \in ProcReaders : scull_seq_start(r) \/ scull_seq_next(r)

ScullModuleSpec == ScullModuleInit /\ [][ScullModuleNext]_scullVars

-----------------------------------------------------------------------------
ScullModuleTypeOK ==
  /\ spc \in {"out", "devices", "cache", "init", "add", "p_region", "p_devices",
              "p_init", "p_add", "proc", "loaded", "trim", "free", "final",
              "unregister", "p_del"}
  /\ i \in Nat
  /\ have \subseteq {"region", "devices", "cache", "p_region", "p_devices", "proc",
                      "objects", "old_cache"}
  /\ ready \subseteq Bare \cup Pipes /\ cdevs \subseteq Bare \cup Pipes
  /\ opens \subseteq Bare \cup Pipes
  /\ at \in [ProcReaders -> -1 .. scull_nr_devs - 1]

(* A device that is open, perhaps opened while init still ran, has been    *)
(* initialised, and its memory, region and cache are there until closed.   *)
OpenIsReady ==
  \A d \in opens :
    /\ d \in ready
    /\ d \in Bare => {"region", "devices", "cache"} \subseteq have
    /\ d \in Pipes => {"p_region", "p_devices"} \subseteq have

(* Until the module is unloaded, a reader of /proc walks over devices that *)
(* are all initialised.                                                    *)
ProcSeesReady ==
  \A r \in ProcReaders : at[r] # -1 /\ ~Unloading =>
    "devices" \in have /\ Bare \subseteq ready

(* After unloading, and after a failed load, no region, memory or entry is *)
(* left, no device to open and nobody inside; nor is the cache, unless a   *)
(* write has put an object in a last slot, which __scull_trim does not     *)
(* free: then the cache stays with it, and nothing else.                   *)
UnloadLeavesObjects ==
  spc = "out" => /\ have = {} \/ have = {"objects", "old_cache"}
                 /\ cdevs = {} /\ opens = {}
                 /\ \A r \in ProcReaders : at[r] = -1
=============================================================================
