------------------------------ MODULE CharDev ------------------------------
(***************************************************************************)
(* Character devices whose drivers are modules: what register_chrdev(),    *)
(* unregister_chrdev(), open(), close(), insmod and rmmod do to each other *)
(* when a driver such as src/module/chardriver/mychar_dev.c or             *)
(* src/module/memory/Access_Physical_Memory/dram.c is loaded, used and     *)
(* unloaded (fs/char_dev.c, drivers/base/map.c, kernel/module.c, __fput()  *)
(* of fs/file_table.c).                                                    *)
(*                                                                         *)
(* A driver registers all 256 minors of one fixed major, so a region is    *)
(* its major.  A cdev is named by its driver: a driver has at most one.    *)
(* An action is one critical section of chrdevs_lock or cdev_lock, or one  *)
(* update of a reference count.  kzalloc() fails when it likes.            *)
(***************************************************************************)
EXTENDS Integers, SequencesExt

CONSTANTS
  Drivers,    \* modules that call register_chrdev() when loaded
  MajorOf,    \* the major each of them asks for
  Careless,   \* those whose init function is the chrdev_init() of mychar_dev.c,
              \* which loses the result; the others return it, like dram_init()
  Nodes,      \* device nodes in /dev (their inodes)
  NodeMajor,  \* the major of each node
  Openers,    \* processes that open, use and close a node
  NULL

Majors == {MajorOf[d] : d \in Drivers}

ASSUME CharDevAssumption ==
  /\ Careless \subseteq Drivers
  /\ \A n \in Nodes : NodeMajor[n] \in Majors
  /\ NULL \notin Drivers \cup Nodes
ASSUME OpenersAssumption == IsFiniteSet(Openers)

VARIABLES
  state,     \* mod->state of each driver, "none" when it is not in memory
  refcnt,    \* mod->refcnt
  ldr,       \* where insmod or rmmod of a driver is
  victim,    \* the cdev that rmmod of a driver is deleting
  region,    \* chrdevs[]: the driver whose char_device_struct has the major
  cd_cdev,   \* is cd->cdev set in the char_device_struct of the driver?
  cdev_map,  \* cdev_map->probes[]: the cdevs of each major, first probe first
  kref,      \* the reference count of each cdev's kobject
  alive,     \* is the cdev allocated?
  i_cdev,    \* inode->i_cdev
  opc,       \* where an opener is
  node,      \* the node it opens
  cd,        \* the cdev p of chrdev_open() that it has a reference to
  new,       \* the cdev new of chrdev_open() that it has a reference to
  f_op       \* the driver whose file_operations its file has

modvars == <<state, refcnt, ldr, victim>>
devvars == <<region, cd_cdev, cdev_map, kref, alive, i_cdev>>
openvars == <<opc, node, cd, new, f_op>>
vars == <<modvars, devvars, openvars>>

Init ==
  /\ state = [d \in Drivers |-> "none"]
  /\ refcnt = [d \in Drivers |-> 0]
  /\ ldr = [d \in Drivers |-> "none"]
  /\ victim = [d \in Drivers |-> NULL]
  /\ region = [m \in Majors |-> NULL]
  /\ cd_cdev = [d \in Drivers |-> FALSE]
  /\ cdev_map = [m \in Majors |-> <<>>]
  /\ kref = [d \in Drivers |-> 0]
  /\ alive = [d \in Drivers |-> FALSE]
  /\ i_cdev = [n \in Nodes |-> NULL]
  /\ opc = [o \in Openers |-> "idle"]
  /\ node = [o \in Openers |-> NULL]
  /\ cd = [o \in Openers |-> NULL]
  /\ new = [o \in Openers |-> NULL]
  /\ f_op = [o \in Openers |-> NULL]

Ldr(d, from, to) == ldr[d] = from /\ ldr' = [ldr EXCEPT ![d] = to]

Goto(o, from, to) == opc[o] = from /\ opc' = [opc EXCEPT ![o] = to]

(* try_module_get(): succeeds unless the module is going or has no         *)
(* reference left.                                                         *)
try_module_get(d) == state[d] \in {"COMING", "LIVE"} /\ refcnt[d] > 0

(* module_put(): atomic_dec_if_positive() *)
module_put(d) == [refcnt EXCEPT ![d] = IF @ > 0 THEN @ - 1 ELSE @]

(* Faulty: the inodes keep pointing to the cdev. *)
cdev_purge_None(c) == i_cdev

(* cdev_purge(): the inodes that cache the cdev forget it. *)
cdev_purge(c) == [n \in Nodes |-> IF i_cdev[n] = c THEN NULL ELSE i_cdev[n]]

----------------------------------------------------------------------------
(* insmod: load_module(), the driver's init function, do_init_module() *)

(* The module is in memory, with its base reference and one for its        *)
(* initialisation.  It cannot be loaded twice.                             *)
insmod(d) ==
  /\ Ldr(d, "none", "register")
  /\ state' = [state EXCEPT ![d] = "COMING"]
  /\ refcnt' = [refcnt EXCEPT ![d] = 2]
  /\ UNCHANGED <<victim, devvars, openvars>>

(* __register_chrdev_region(): fails with -EBUSY if the major is taken,    *)
(* with -ENOMEM if there is no memory.                                     *)
RegisterRegion(d) ==
  /\ \/ /\ region[MajorOf[d]] = NULL
        /\ region' = [region EXCEPT ![MajorOf[d]] = d]
        /\ Ldr(d, "register", "add")
     \/ UNCHANGED region /\ Ldr(d, "register", "failed")
  /\ UNCHANGED <<state, refcnt, victim, cd_cdev, cdev_map, kref, alive, i_cdev, openvars>>

(* cdev_alloc() and cdev_add(): kobj_map() puts the new probe before those *)
(* of the same range.  From here on the device can be opened.              *)
CdevAdd(d) ==
  /\ \/ /\ Ldr(d, "add", "set_cdev")
        /\ cdev_map' = [cdev_map EXCEPT ![MajorOf[d]] = <<d>> \o @]
        /\ kref' = [kref EXCEPT ![d] = 1]
        /\ alive' = [alive EXCEPT ![d] = TRUE]
     \/ Ldr(d, "add", "undo") /\ UNCHANGED <<cdev_map, kref, alive>>
  /\ UNCHANGED <<state, refcnt, victim, region, cd_cdev, i_cdev, openvars>>

(* Faulty: the region is kept. *)
UndoRegion_Keep(d) ==
  /\ Ldr(d, "undo", "failed")
  /\ UNCHANGED <<state, refcnt, victim, devvars, openvars>>

(* No memory for the cdev or the probe: the region is given back. *)
UndoRegion(d) ==
  /\ Ldr(d, "undo", "failed")
  /\ region' = [region EXCEPT ![MajorOf[d]] = NULL]
  /\ UNCHANGED <<state, refcnt, victim, cd_cdev, cdev_map, kref, alive, i_cdev, openvars>>

(* cd->cdev = cdev *)
SetCdev(d) ==
  /\ Ldr(d, "set_cdev", "registered")
  /\ cd_cdev' = [cd_cdev EXCEPT ![d] = TRUE]
  /\ UNCHANGED <<state, refcnt, victim, region, cdev_map, kref, alive, i_cdev, openvars>>

(* register_chrdev() returned 0, and so does the init function (although   *)
(* chrdev_init() prints that the registration failed).                     *)
InitOk(d) ==
  /\ Ldr(d, "registered", "put_init")
  /\ state' = [state EXCEPT ![d] = "LIVE"]
  /\ UNCHANGED <<refcnt, victim, devvars, openvars>>

(* register_chrdev() returned an error.  dram_init() returns it and        *)
(* do_init_module() frees the module.  chrdev_init() reaches its end       *)
(* without a return: what do_init_module() sees may be negative or not.    *)
InitFailed(d) ==
  /\ \/ /\ Ldr(d, "failed", "free")
        /\ state' = [state EXCEPT ![d] = "GOING"]
        /\ refcnt' = module_put(d)
     \/ /\ d \in Careless
        /\ Ldr(d, "failed", "put_init")
        /\ state' = [state EXCEPT ![d] = "LIVE"]
        /\ UNCHANGED refcnt
  /\ UNCHANGED <<victim, devvars, openvars>>

(* do_init_module() drops the reference held for the initialisation.  (A   *)
(* rmmod that comes before finds the module in use.)                       *)
PutInit(d) ==
  /\ Ldr(d, "put_init", "loaded")
  /\ refcnt' = module_put(d)
  /\ UNCHANGED <<state, victim, devvars, openvars>>

----------------------------------------------------------------------------
(* rmmod: delete_module(), the driver's exit function, free_module() *)

(* try_release_module_ref(): the base reference is taken away...           *)
delete_module(d) ==
  /\ refcnt' = [refcnt EXCEPT ![d] = @ - 1]
  /\ IF refcnt'[d] = 0
     THEN Ldr(d, "loaded", "exit") /\ state' = [state EXCEPT ![d] = "GOING"]
     ELSE Ldr(d, "loaded", "recover") /\ UNCHANGED state
  /\ UNCHANGED <<victim, devvars, openvars>>

(* Faulty: the module goes although it is in use. *)
Recover_Forced(d) ==
  /\ Ldr(d, "recover", "exit") /\ state' = [state EXCEPT ![d] = "GOING"]
  /\ UNCHANGED <<refcnt, victim, devvars, openvars>>

(* ... and given back if the module is still in use; the last user may     *)
(* have gone meanwhile.                                                    *)
Recover(d) ==
  /\ IF refcnt[d] = 0
     THEN /\ Ldr(d, "recover", "exit")
          /\ state' = [state EXCEPT ![d] = "GOING"]
          /\ UNCHANGED refcnt
     ELSE /\ Ldr(d, "recover", "loaded")
          /\ refcnt' = [refcnt EXCEPT ![d] = @ + 1]
          /\ UNCHANGED state
  /\ UNCHANGED <<victim, devvars, openvars>>

(* unregister_chrdev() in the exit function: __unregister_chrdev_region()  *)
(* takes whatever char_device_struct has the major.                        *)
UnregisterRegion(d) ==
  LET c == region[MajorOf[d]]
  IN  /\ region' = [region EXCEPT ![MajorOf[d]] = NULL]
      /\ IF c # NULL /\ cd_cdev[c]
         THEN /\ Ldr(d, "exit", "unmap")
              /\ victim' = [victim EXCEPT ![d] = c]
              /\ cd_cdev' = [cd_cdev EXCEPT ![c] = FALSE]
         ELSE Ldr(d, "exit", "free") /\ UNCHANGED <<victim, cd_cdev>>
      /\ UNCHANGED <<state, refcnt, cdev_map, kref, alive, i_cdev, openvars>>

(* cdev_del(): kobj_unmap() removes the first probe of the major. *)
Unmap(d) ==
  LET m == MajorOf[victim[d]]
  IN  /\ Ldr(d, "unmap", "put_cdev")
      /\ cdev_map' = [cdev_map EXCEPT ![m] = IF @ = <<>> THEN @ ELSE Tail(@)]
      /\ UNCHANGED <<state, refcnt, victim, region, cd_cdev, kref, alive, i_cdev, openvars>>

(* cdev_del(): kobject_put() *)
PutCdev(d) ==
  /\ kref' = [kref EXCEPT ![victim[d]] = @ - 1]
  /\ Ldr(d, "put_cdev", IF kref'[victim[d]] = 0 THEN "purge" ELSE "free")
  /\ UNCHANGED <<state, refcnt, victim, region, cd_cdev, cdev_map, alive, i_cdev, openvars>>

(* cdev_dynamic_release() *)
Purge(d) ==
  /\ Ldr(d, "purge", "free")
  /\ i_cdev' = cdev_purge(victim[d])
  /\ alive' = [alive EXCEPT ![victim[d]] = FALSE]
  /\ UNCHANGED <<state, refcnt, victim, region, cd_cdev, cdev_map, kref, openvars>>

free_module(d) ==
  /\ Ldr(d, "free", "none")
  /\ state' = [state EXCEPT ![d] = "none"]
  /\ refcnt' = [refcnt EXCEPT ![d] = 0]
  /\ victim' = [victim EXCEPT ![d] = NULL]
  /\ UNCHANGED <<devvars, openvars>>

----------------------------------------------------------------------------
(* open() of a node: chrdev_open() of fs/char_dev.c *)

(* The first section of cdev_lock: cdev_get() of a cdev that the inode     *)
(* caches, or a lookup.  A failed open() returns -ENXIO.                   *)
Open(o, n) ==
  LET p == i_cdev[n]
  IN  /\ IF p = NULL \/ try_module_get(p)
         THEN node' = [node EXCEPT ![o] = n]
         ELSE UNCHANGED node
      /\ CASE p = NULL -> Goto(o, "idle", "lookup") /\ UNCHANGED <<refcnt, kref, cd>>
           [] p # NULL /\ try_module_get(p) ->
                /\ Goto(o, "idle", "fops")
                /\ refcnt' = [refcnt EXCEPT ![p] = @ + 1]
                /\ kref' = [kref EXCEPT ![p] = @ + 1]
                /\ cd' = [cd EXCEPT ![o] = p]
           [] OTHER -> Goto(o, "idle", "idle") /\ UNCHANGED <<refcnt, kref, cd>>
      /\ UNCHANGED <<state, ldr, victim, region, cd_cdev, cdev_map, alive, i_cdev, new, f_op>>

(* kobj_lookup(): exact_lock() gets a reference to the cdev of the first   *)
(* probe; after a failure no probe of the same range is tried.             *)
Lookup(o) ==
  LET probes == cdev_map[NodeMajor[node[o]]]
      c == Head(probes)
  IN  /\ opc[o] = "lookup"
      /\ IF probes # <<>> /\ try_module_get(c)
         THEN /\ Goto(o, "lookup", "install")
              /\ refcnt' = [refcnt EXCEPT ![c] = @ + 1]
              /\ kref' = [kref EXCEPT ![c] = @ + 1]
              /\ new' = [new EXCEPT ![o] = c]
              /\ UNCHANGED node
         ELSE /\ Goto(o, "lookup", "idle")
              /\ node' = [node EXCEPT ![o] = NULL]
              /\ UNCHANGED <<refcnt, kref, new>>
      /\ UNCHANGED <<state, ldr, victim, region, cd_cdev, cdev_map, alive, i_cdev, cd, f_op>>

(* Faulty: the reference of the lookup is kept when somebody was faster. *)
Install_NoPut(o) ==
  LET p == i_cdev[node[o]]
  IN  /\ Goto(o, "install", "fops")
      /\ IF p = NULL
         THEN i_cdev' = [i_cdev EXCEPT ![node[o]] = new[o]] /\ UNCHANGED <<refcnt, kref>>
         ELSE /\ refcnt' = [refcnt EXCEPT ![p] = @ + 1]
              /\ kref' = [kref EXCEPT ![p] = @ + 1]
              /\ UNCHANGED i_cdev
      /\ cd' = [cd EXCEPT ![o] = new[o]]
      /\ new' = [new EXCEPT ![o] = NULL]
      /\ UNCHANGED <<state, ldr, victim, region, cd_cdev, cdev_map, alive, node, f_op>>

(* The second section of cdev_lock: the inode caches the cdev, unless      *)
(* somebody was faster, whose cdev is used then.                           *)
Install(o) ==
  LET p == i_cdev[node[o]]
  IN  /\ opc[o] = "install"
      /\ CASE p = NULL ->
                /\ Goto(o, "install", "fops")
                /\ i_cdev' = [i_cdev EXCEPT ![node[o]] = new[o]]
                /\ cd' = [cd EXCEPT ![o] = new[o]]
                /\ new' = [new EXCEPT ![o] = NULL]
                /\ UNCHANGED <<refcnt, kref>>
           [] p # NULL /\ try_module_get(p) ->
                /\ Goto(o, "install", "put_new")
                /\ refcnt' = [refcnt EXCEPT ![p] = @ + 1]
                /\ kref' = [kref EXCEPT ![p] = @ + 1]
                /\ cd' = [cd EXCEPT ![o] = p]
                /\ UNCHANGED <<i_cdev, new>>
           [] OTHER -> Goto(o, "install", "put_new") /\ UNCHANGED <<i_cdev, refcnt, kref, cd, new>>
      /\ UNCHANGED <<state, ldr, victim, region, cd_cdev, cdev_map, alive, node, f_op>>

(* kobject_put(), with cdev_dynamic_release() when that was the last one. *)
KobjectPut(c) ==
  /\ kref' = [kref EXCEPT ![c] = @ - 1]
  /\ IF kref'[c] = 0
     THEN i_cdev' = cdev_purge(c) /\ alive' = [alive EXCEPT ![c] = FALSE]
     ELSE UNCHANGED <<i_cdev, alive>>

(* cdev_put(new), its two halves *)
PutNew(o) ==
  /\ Goto(o, "put_new", "put_new_owner")
  /\ KobjectPut(new[o])
  /\ UNCHANGED <<modvars, region, cd_cdev, cdev_map, node, cd, new, f_op>>

PutNewOwner(o) ==
  /\ refcnt' = module_put(new[o])
  /\ new' = [new EXCEPT ![o] = NULL]
  /\ IF cd[o] # NULL
     THEN Goto(o, "put_new_owner", "fops") /\ UNCHANGED node
     ELSE Goto(o, "put_new_owner", "idle") /\ node' = [node EXCEPT ![o] = NULL]
  /\ UNCHANGED <<state, ldr, victim, devvars, cd, f_op>>

(* fops_get(): the file gets a reference to the module of its own, and the *)
(* driver's open() runs, which succeeds.                                   *)
FopsGet(o) ==
  /\ opc[o] = "fops"
  /\ IF try_module_get(cd[o])
     THEN /\ Goto(o, "fops", "open")
          /\ refcnt' = [refcnt EXCEPT ![cd[o]] = @ + 1]
          /\ f_op' = [f_op EXCEPT ![o] = cd[o]]
     ELSE Goto(o, "fops", "cdev_put") /\ UNCHANGED <<refcnt, f_op>>
  /\ UNCHANGED <<state, ldr, victim, devvars, node, cd, new>>

----------------------------------------------------------------------------
(* close(): __fput() of fs/file_table.c *)

(* The driver's release() runs and the cdev is found through the inode. *)
Close(o) ==
  LET c == i_cdev[node[o]]
  IN  /\ Goto(o, "open", IF c # NULL THEN "cdev_put" ELSE "fops_put")
      /\ cd' = [cd EXCEPT ![o] = c]
      /\ UNCHANGED <<modvars, devvars, node, new, f_op>>

(* cdev_put(), its two halves *)
CdevPut(o) ==
  /\ Goto(o, "cdev_put", "owner_put")
  /\ KobjectPut(cd[o])
  /\ UNCHANGED <<modvars, region, cd_cdev, cdev_map, node, cd, new, f_op>>

OwnerPut(o) ==
  /\ refcnt' = module_put(cd[o])
  /\ cd' = [cd EXCEPT ![o] = NULL]
  /\ IF f_op[o] # NULL
     THEN Goto(o, "owner_put", "fops_put") /\ UNCHANGED node
     ELSE Goto(o, "owner_put", "idle") /\ node' = [node EXCEPT ![o] = NULL]
  /\ UNCHANGED <<state, ldr, victim, devvars, new, f_op>>

FopsPut(o) ==
  /\ Goto(o, "fops_put", "idle")
  /\ refcnt' = module_put(f_op[o])
  /\ f_op' = [f_op EXCEPT ![o] = NULL]
  /\ node' = [node EXCEPT ![o] = NULL]
  /\ UNCHANGED <<state, ldr, victim, devvars, cd, new>>

(* The inode leaves memory while nobody uses it, and forgets its cdev. *)
cd_forget(n) ==
  /\ \A o \in Openers : node[o] # n
  /\ i_cdev' = [i_cdev EXCEPT ![n] = NULL]
  /\ UNCHANGED <<modvars, region, cd_cdev, cdev_map, kref, alive, openvars>>

----------------------------------------------------------------------------

Next ==
  \/ \E d \in Drivers :
       \/ insmod(d) \/ RegisterRegion(d) \/ CdevAdd(d) \/ UndoRegion(d) \/ SetCdev(d)
       \/ InitOk(d) \/ InitFailed(d) \/ PutInit(d)
       \/ delete_module(d) \/ Recover(d) \/ UnregisterRegion(d) \/ Unmap(d)
       \/ PutCdev(d) \/ Purge(d) \/ free_module(d)
  \/ \E o \in Openers :
       \/ \E n \in Nodes : Open(o, n)
       \/ Lookup(o) \/ Install(o) \/ PutNew(o) \/ PutNewOwner(o) \/ FopsGet(o)
       \/ Close(o) \/ CdevPut(o) \/ OwnerPut(o) \/ FopsPut(o)
  \/ \E n \in Nodes : cd_forget(n)

Spec == Init /\ [][Next]_vars

----------------------------------------------------------------------------

(* A cdev that can be reached is allocated: from an inode that caches it,  *)
(* through the map, from an open() or close() under way, or from rmmod.    *)
NoDanglingCdev ==
  /\ \A n \in Nodes : i_cdev[n] # NULL => alive[i_cdev[n]]
  /\ \A m \in Majors : \A c \in ToSet(cdev_map[m]) : alive[c]
  /\ \A o \in Openers :
       /\ new[o] # NULL /\ opc[o] # "put_new_owner" => alive[new[o]]
       /\ cd[o] # NULL /\ opc[o] # "owner_put" => alive[cd[o]]
  /\ \A d \in Drivers : ldr[d] \in {"unmap", "put_cdev", "purge"} => alive[victim[d]]

(* The users of module d: opens under way and open files. *)
Users(d) == {o \in Openers : d \in {cd[o], new[o], f_op[o]}}

(* A driver's exit function does not run, and its code and data are not    *)
(* freed, while a file of it is open, or an open() or close() still holds  *)
(* one of its references.                                                  *)
ModulePinned ==
  \A d \in Drivers : Users(d) # {} => state[d] \in {"COMING", "LIVE"}

(* The references to a module are exactly counted, so that it can be       *)
(* removed again after every way in which opens and closes end.            *)
RefsExact ==
  \A d \in Drivers : state[d] \in {"COMING", "LIVE"} =>
    refcnt[d] =
      (IF ldr[d] = "recover" THEN 0 ELSE 1)
      + (IF state[d] = "COMING" \/ ldr[d] = "put_init" THEN 1 ELSE 0)
      + Cardinality({o \in Openers : cd[o] = d}) + Cardinality({o \in Openers : new[o] = d})
      + Cardinality({o \in Openers : f_op[o] = d})

(* While a driver is loaded and registered, and rmmod has not found it     *)
(* unused, every open() of its nodes finds it and gets it, through the map *)
(* or through what the inode caches.  (That the cache is not left from     *)
(* earlier is NoDanglingCdev.)                                             *)
OpenSucceeds ==
  \A d \in Drivers :
    /\ region[MajorOf[d]] = d
    /\ ldr[d] = "loaded" \/ (ldr[d] = "recover" /\ Users(d) # {})
    => /\ try_module_get(d)
       /\ cdev_map[MajorOf[d]] = <<d>>
       /\ \A n \in Nodes : NodeMajor[n] = MajorOf[d] => i_cdev[n] \in {NULL, d}

----------------------------------------------------------------------------
(* What a comment says, and the code does not do *)

(* fs/char_dev.c on cdev_del(): it "removes @p from the system, possibly   *)
(* freeing the structure itself".  So a freed cdev is not in the map.      *)
FreedIsUnmapped == \A m \in Majors : \A c \in ToSet(cdev_map[m]) : alive[c]

============================================================================
