--------------------------- MODULE CharDevProofs ---------------------------
(***************************************************************************)
(* Proofs about CharDev, for any number of drivers with majors of their    *)
(* own, nodes and processes; and, at the end, about FileView, the viewer   *)
(* of one such device, for any window and memory size.                     *)
(*                                                                         *)
(* The four invariants of the runs are inductive together with what        *)
(* insmod, rmmod, open() and close() have done at each of their steps      *)
(* (DriverAt, OpenerAt) and with the exact reference count of every cdev   *)
(* (KrefAt).  The two counts hold each other up: the module's keeps rmmod  *)
(* from unmapping a cdev that has users, so theirs is never its last       *)
(* reference, so the inode still leads close() to the cdev that open()     *)
(* counted.                                                                *)
(***************************************************************************)
EXTENDS CharDev, FileView, FiniteSetTheorems, TLAPS

USE CharDevAssumption, OpenersAssumption

----------------------------------------------------------------------------

(* No two drivers ask for the same major, as mychar_dev.c (200) and dram.c *)
(* (85) do.                                                                *)
DistinctMajors == \A d, e \in Drivers : MajorOf[d] = MajorOf[e] => d = e

ComingPC == {"register", "add", "undo", "set_cdev", "registered", "failed"}
LivePC == {"put_init", "loaded", "recover"}
GoingPC == {"exit", "unmap", "put_cdev", "purge", "free"}

LdrPC == {"none"} \cup ComingPC \cup LivePC \cup GoingPC

OpenPC == {"idle", "lookup", "install", "put_new", "put_new_owner", "fops", "open",
           "cdev_put", "owner_put", "fops_put"}

TypeOK ==
  /\ state \in [Drivers -> {"none", "COMING", "LIVE", "GOING"}]
  /\ refcnt \in [Drivers -> Int]
  /\ ldr \in [Drivers -> LdrPC]
  /\ victim \in [Drivers -> Drivers \cup {NULL}]
  /\ region \in [Majors -> Drivers \cup {NULL}]
  /\ cd_cdev \in [Drivers -> BOOLEAN]
  /\ cdev_map \in [Majors -> Seq(Drivers)]
  /\ kref \in [Drivers -> Int]
  /\ alive \in [Drivers -> BOOLEAN]
  /\ i_cdev \in [Nodes -> Drivers \cup {NULL}]
  /\ opc \in [Openers -> OpenPC]
  /\ node \in [Openers -> Nodes \cup {NULL}]
  /\ cd \in [Openers -> Drivers \cup {NULL}]
  /\ new \in [Openers -> Drivers \cup {NULL}]
  /\ f_op \in [Openers -> Drivers \cup {NULL}]

(* The cdev of d is in the map. *)
Mapped(d) == cdev_map[MajorOf[d]] = <<d>>

(* What a driver's insmod or rmmod has done so far *)
DriverAt(d) ==
  /\ state[d] = "none" <=> ldr[d] = "none"
  /\ state[d] = "COMING" <=> ldr[d] \in ComingPC
  /\ state[d] = "LIVE" <=> ldr[d] \in LivePC
  /\ region[MajorOf[d]] \in {NULL, d}
  /\ cdev_map[MajorOf[d]] \in {<<>>, <<d>>}
  /\ ldr[d] \in {"none", "register", "failed", "put_cdev", "purge", "free"} =>
       region[MajorOf[d]] = NULL /\ ~cd_cdev[d] /\ ~Mapped(d)
  /\ ldr[d] \in {"add", "undo"} => region[MajorOf[d]] = d /\ ~cd_cdev[d] /\ ~Mapped(d)
  /\ ldr[d] = "set_cdev" => region[MajorOf[d]] = d /\ ~cd_cdev[d] /\ Mapped(d)
  /\ ldr[d] = "registered" => region[MajorOf[d]] = d /\ cd_cdev[d] /\ Mapped(d)
  /\ ldr[d] \in LivePC \cup {"exit"} =>
       (region[MajorOf[d]] = d <=> cd_cdev[d]) /\ (cd_cdev[d] <=> Mapped(d))
  /\ ldr[d] = "unmap" => region[MajorOf[d]] = NULL /\ ~cd_cdev[d] /\ Mapped(d)
  /\ ldr[d] \in {"unmap", "put_cdev", "purge"} => victim[d] = d
  /\ alive[d] <=> Mapped(d) \/ ldr[d] \in {"put_cdev", "purge"}

(* What an open() or close() under way has in hand *)
OpenerAt(o) ==
  /\ opc[o] \notin {"idle"} => node[o] \in Nodes
  /\ opc[o] \in {"idle", "lookup"} => cd[o] = NULL /\ new[o] = NULL /\ f_op[o] = NULL
  /\ opc[o] \in {"install", "put_new", "put_new_owner"} => new[o] # NULL /\ f_op[o] = NULL
  /\ opc[o] = "install" => cd[o] = NULL
  /\ opc[o] \in {"fops", "open", "cdev_put", "owner_put", "fops_put"} => new[o] = NULL
  /\ opc[o] \in {"fops", "open", "cdev_put", "owner_put"} => cd[o] # NULL
  /\ opc[o] = "fops" => f_op[o] = NULL
  /\ opc[o] = "fops_put" => cd[o] = NULL
  /\ opc[o] \in {"open", "fops_put"} => f_op[o] # NULL
  /\ new[o] # NULL => MajorOf[new[o]] = NodeMajor[node[o]]
  /\ cd[o] # NULL /\ opc[o] \notin {"cdev_put", "owner_put"} => i_cdev[node[o]] = cd[o]

(* Who has a reference of d finds it in memory and in the map. *)
PinAt(o, d) ==
  d \in {cd[o], new[o], f_op[o]} => state[d] \in {"COMING", "LIVE"} /\ Mapped(d)

(* What an inode caches is there. *)
NodeAt(n) ==
  i_cdev[n] # NULL => alive[i_cdev[n]] /\ MajorOf[i_cdev[n]] = NodeMajor[n]

(* The references of each kind to driver d: the first two are also         *)
(* references to its cdev, until they are dropped.                         *)
CdRefs(d) == {o \in Openers : cd[o] = d}
NewRefs(d) == {o \in Openers : new[o] = d}
FopRefs(d) == {o \in Openers : f_op[o] = d}
CdKrefs(d) == {o \in Openers : cd[o] = d /\ opc[o] # "owner_put"}
NewKrefs(d) == {o \in Openers : new[o] = d /\ opc[o] # "put_new_owner"}

(* A mapped cdev has the reference that its registration made. *)
KrefAt(d) ==
  kref[d] = (IF Mapped(d) \/ ldr[d] = "put_cdev" THEN 1 ELSE 0)
            + (Cardinality(CdKrefs(d)) + Cardinality(NewKrefs(d)))

IInv ==
  /\ TypeOK
  /\ \A d \in Drivers : DriverAt(d)
  /\ \A o \in Openers : OpenerAt(o)
  /\ \A o \in Openers, d \in Drivers : PinAt(o, d)
  /\ \A n \in Nodes : NodeAt(n)
  /\ RefsExact
  /\ \A d \in Drivers : KrefAt(d)

----------------------------------------------------------------------------

(* A step of insmod or rmmod of driver d *)
DriverStep(d) ==
  \/ insmod(d) \/ RegisterRegion(d) \/ CdevAdd(d) \/ UndoRegion(d) \/ SetCdev(d)
  \/ InitOk(d) \/ InitFailed(d) \/ PutInit(d)
  \/ delete_module(d) \/ Recover(d) \/ UnregisterRegion(d) \/ Unmap(d)
  \/ PutCdev(d) \/ Purge(d) \/ free_module(d)

Opens(o) == \E n \in Nodes : Open(o, n)

(* A step of open() or close() by process o *)
OpenerStep(o) ==
  \/ Opens(o) \/ Lookup(o) \/ Install(o) \/ PutNew(o) \/ PutNewOwner(o) \/ FopsGet(o)
  \/ Close(o) \/ CdevPut(o) \/ OwnerPut(o) \/ FopsPut(o)

(* Every step is one of these, or an inode leaves memory. *)
LEMMA NextCases ==
  Next <=> \/ \E d \in Drivers : DriverStep(d)
           \/ \E o \in Openers : OpenerStep(o)
           \/ \E n \in Nodes : cd_forget(n)
BY DEF Next, DriverStep, OpenerStep, Opens

(* A driver's major is a major. *)
LEMMA MajorsOf == \A d \in Drivers : MajorOf[d] \in Majors
BY DEF Majors

(* What a list with one entry is *)
LEMMA OneList ==
  ASSUME NEW d \in Drivers
  PROVE  /\ <<d>> \in Seq(Drivers) /\ <<d>> # <<>> /\ Head(<<d>>) = d /\ Tail(<<d>>) = <<>>
         /\ <<d>> \o <<>> = <<d>> /\ <<>> \in Seq(Drivers) /\ ToSet(<<d>>) = {d} /\ ToSet(<<>>) = {}
BY DEF ToSet

(* Where insmod or rmmod goes *)
LEMMA LdrMove ==
  ASSUME ldr \in [Drivers -> LdrPC], NEW d \in Drivers, NEW from, NEW to \in LdrPC, Ldr(d, from, to)
  PROVE  /\ ldr[d] = from /\ ldr'[d] = to /\ ldr' \in [Drivers -> LdrPC]
         /\ \A e \in Drivers \ {d} : ldr'[e] = ldr[e]
BY DEF Ldr

(* Where open() or close() goes *)
LEMMA GotoMove ==
  ASSUME opc \in [Openers -> OpenPC], NEW o \in Openers, NEW from, NEW to \in OpenPC, Goto(o, from, to)
  PROVE  /\ opc[o] = from /\ opc'[o] = to /\ opc' \in [Openers -> OpenPC]
         /\ \A u \in Openers \ {o} : opc'[u] = opc[u]
BY DEF Goto

(* The places there are *)
LEMMA AllPlaces ==
  /\ \A p \in {"none", "register", "add", "undo", "set_cdev", "registered", "failed", "put_init",
       "loaded", "recover", "exit", "unmap", "put_cdev", "purge", "free"} : p \in LdrPC
  /\ \A p \in {"idle", "lookup", "install", "put_new", "put_new_owner", "fops", "open",
       "cdev_put", "owner_put", "fops_put"} : p \in OpenPC
BY DEF LdrPC, ComingPC, LivePC, GoingPC, OpenPC

(* What a step of insmod or rmmod of d does: where it goes, then what      *)
(* becomes of the module and of the device.                                *)
Goes(d, from, to) == ldr[d] = from /\ ldr'[d] = to

Mod(d, s, r) == state'[d] = s /\ refcnt'[d] = r

Dev(d, g, c, m, k, a) ==
  /\ region'[MajorOf[d]] = g /\ cd_cdev'[d] = c /\ cdev_map'[MajorOf[d]] = m
  /\ kref'[d] = k /\ alive'[d] = a

ModKept(d) == Mod(d, state[d], refcnt[d]) /\ victim'[d] = victim[d]

DevKept(d) ==
  Dev(d, region[MajorOf[d]], cd_cdev[d], cdev_map[MajorOf[d]], kref[d], alive[d]) /\ i_cdev' = i_cdev

DriverMove(d) ==
  LET g == region[MajorOf[d]]
      m == cdev_map[MajorOf[d]]
  IN
  \/ Goes(d, "none", "register") /\ Mod(d, "COMING", 2) /\ victim' = victim /\ DevKept(d)
  \/ /\ Goes(d, "register", "add") /\ ModKept(d)
     /\ Dev(d, d, cd_cdev[d], m, kref[d], alive[d]) /\ i_cdev' = i_cdev
  \/ Goes(d, "register", "failed") /\ ModKept(d) /\ DevKept(d)
  \/ /\ Goes(d, "add", "set_cdev") /\ ModKept(d)
     /\ Dev(d, g, cd_cdev[d], <<d>>, 1, TRUE) /\ i_cdev' = i_cdev
  \/ Goes(d, "add", "undo") /\ ModKept(d) /\ DevKept(d)
  \/ /\ Goes(d, "undo", "failed") /\ ModKept(d)
     /\ Dev(d, NULL, cd_cdev[d], m, kref[d], alive[d]) /\ i_cdev' = i_cdev
  \/ /\ Goes(d, "set_cdev", "registered") /\ ModKept(d)
     /\ Dev(d, g, TRUE, m, kref[d], alive[d]) /\ i_cdev' = i_cdev
  \/ Goes(d, "registered", "put_init") /\ Mod(d, "LIVE", refcnt[d]) /\ victim' = victim /\ DevKept(d)
  \/ /\ Goes(d, "failed", "free") /\ state'[d] = "GOING" /\ victim' = victim /\ DevKept(d)
  \/ /\ Goes(d, "failed", "put_init") /\ Mod(d, "LIVE", refcnt[d]) /\ victim' = victim /\ DevKept(d)
  \/ /\ Goes(d, "put_init", "loaded") /\ state'[d] = state[d] /\ victim' = victim /\ DevKept(d)
     /\ refcnt[d] > 0 => refcnt'[d] = refcnt[d] - 1
  \/ /\ Goes(d, "loaded", "exit") /\ refcnt[d] = 1 /\ Mod(d, "GOING", 0) /\ victim' = victim /\ DevKept(d)
  \/ /\ Goes(d, "loaded", "recover") /\ Mod(d, state[d], refcnt[d] - 1) /\ victim' = victim /\ DevKept(d)
  \/ /\ Goes(d, "recover", "exit") /\ refcnt[d] = 0 /\ Mod(d, "GOING", 0) /\ victim' = victim /\ DevKept(d)
  \/ /\ Goes(d, "recover", "loaded") /\ Mod(d, state[d], refcnt[d] + 1) /\ victim' = victim /\ DevKept(d)
  \/ /\ Goes(d, "exit", "unmap") /\ cd_cdev[d] /\ Mod(d, state[d], refcnt[d]) /\ victim'[d] = d
     /\ Dev(d, NULL, FALSE, m, kref[d], alive[d]) /\ i_cdev' = i_cdev
  \/ /\ Goes(d, "exit", "free") /\ ~cd_cdev[d] /\ ModKept(d)
     /\ Dev(d, NULL, cd_cdev[d], m, kref[d], alive[d]) /\ i_cdev' = i_cdev
  \/ /\ Goes(d, "unmap", "put_cdev") /\ ModKept(d)
     /\ Dev(d, g, cd_cdev[d], <<>>, kref[d], alive[d]) /\ i_cdev' = i_cdev
  \/ /\ ldr[d] = "put_cdev" /\ ldr'[d] = (IF kref[d] = 1 THEN "purge" ELSE "free") /\ ModKept(d)
     /\ Dev(d, g, cd_cdev[d], m, kref[d] - 1, alive[d]) /\ i_cdev' = i_cdev
  \/ /\ Goes(d, "purge", "free") /\ ModKept(d) /\ i_cdev' = cdev_purge(d)
     /\ Dev(d, g, cd_cdev[d], m, kref[d], FALSE)
  \/ Goes(d, "free", "none") /\ Mod(d, "none", 0) /\ DevKept(d)

(* Every step of insmod or rmmod is such a move, and touches nothing of    *)
(* another driver.                                                         *)
LEMMA DriverMoves ==
  ASSUME TypeOK, DistinctMajors, NEW d \in Drivers, DriverAt(d), DriverStep(d)
  PROVE  /\ TypeOK' /\ DriverMove(d)
         /\ openvars' = openvars
         /\ \A e \in Drivers \ {d} :
              /\ state'[e] = state[e] /\ refcnt'[e] = refcnt[e] /\ ldr'[e] = ldr[e]
              /\ victim'[e] = victim[e] /\ cd_cdev'[e] = cd_cdev[e]
              /\ kref'[e] = kref[e] /\ alive'[e] = alive[e]
              /\ region'[MajorOf[e]] = region[MajorOf[e]]
              /\ cdev_map'[MajorOf[e]] = cdev_map[MajorOf[e]]
<1>t. /\ state \in [Drivers -> {"none", "COMING", "LIVE", "GOING"}] /\ refcnt \in [Drivers -> Int]
      /\ ldr \in [Drivers -> LdrPC] /\ victim \in [Drivers -> Drivers \cup {NULL}]
      /\ region \in [Majors -> Drivers \cup {NULL}] /\ cd_cdev \in [Drivers -> BOOLEAN]
      /\ cdev_map \in [Majors -> Seq(Drivers)] /\ kref \in [Drivers -> Int]
      /\ alive \in [Drivers -> BOOLEAN] /\ MajorOf[d] \in Majors /\ NULL \notin Drivers
  BY MajorsOf DEF TypeOK
<1>m. \A e \in Drivers \ {d} : MajorOf[e] # MajorOf[d] /\ MajorOf[e] \in Majors
  BY MajorsOf DEF DistinctMajors
<1>p. \A p \in {"none", "register", "add", "undo", "set_cdev", "registered", "failed", "put_init",
       "loaded", "recover", "exit", "unmap", "put_cdev", "purge", "free"} : p \in LdrPC
  BY AllPlaces
<1>l. <<d>> \in Seq(Drivers) /\ <<>> \in Seq(Drivers)
  BY OneList
<1>1. CASE insmod(d)
  <2>1. /\ Ldr(d, "none", "register")
        /\ state' = [state EXCEPT ![d] = "COMING"]
        /\ refcnt' = [refcnt EXCEPT ![d] = 2]
        /\ UNCHANGED <<victim, region, cd_cdev, cdev_map, kref, alive, i_cdev, openvars>>
    BY <1>1, <1>t DEF insmod, modvars, devvars, openvars
  <2>2. TypeOK'
    BY <2>1, <1>t, <1>p, <1>l, LdrMove DEF TypeOK, openvars, cdev_purge
  <2> QED BY <2>1, <2>2, <1>t, <1>m, <1>p, LdrMove DEF DriverMove, Goes, Mod, Dev, ModKept, DevKept
<1>2. CASE RegisterRegion(d)
  <2>1. \/ /\ Ldr(d, "register", "add")
           /\ region' = [region EXCEPT ![MajorOf[d]] = d]
           /\ UNCHANGED <<state, refcnt, victim, cd_cdev, cdev_map, kref, alive, i_cdev, openvars>>
        \/ /\ Ldr(d, "register", "failed")
           /\ UNCHANGED <<state, refcnt, victim, region, cd_cdev, cdev_map, kref, alive, i_cdev, openvars>>
    BY <1>2, <1>t DEF RegisterRegion, modvars, devvars, openvars
  <2>2. CASE /\ Ldr(d, "register", "add")
            /\ region' = [region EXCEPT ![MajorOf[d]] = d]
            /\ UNCHANGED <<state, refcnt, victim, cd_cdev, cdev_map, kref, alive, i_cdev, openvars>>
    <3>1. TypeOK'
      BY <2>2, <1>t, <1>p, <1>l, LdrMove DEF TypeOK, openvars, cdev_purge
    <3> QED BY <2>2, <3>1, <1>t, <1>m, <1>p, LdrMove DEF DriverMove, Goes, Mod, Dev, ModKept, DevKept
  <2>3. CASE /\ Ldr(d, "register", "failed")
            /\ UNCHANGED <<state, refcnt, victim, region, cd_cdev, cdev_map, kref, alive, i_cdev, openvars>>
    <3>1. TypeOK'
      BY <2>3, <1>t, <1>p, <1>l, LdrMove DEF TypeOK, openvars, cdev_purge
    <3> QED BY <2>3, <3>1, <1>t, <1>m, <1>p, LdrMove DEF DriverMove, Goes, Mod, Dev, ModKept, DevKept
  <2> QED BY <2>1, <2>2, <2>3
<1>3. CASE CdevAdd(d)
  <2>0. ldr[d] = "add" => cdev_map[MajorOf[d]] = <<>> /\ <<d>> \o <<>> = <<d>>
    BY OneList DEF DriverAt, Mapped
  <2>1. \/ /\ Ldr(d, "add", "set_cdev")
           /\ cdev_map' = [cdev_map EXCEPT ![MajorOf[d]] = <<d>>]
           /\ kref' = [kref EXCEPT ![d] = 1]
           /\ alive' = [alive EXCEPT ![d] = TRUE]
           /\ UNCHANGED <<state, refcnt, victim, region, cd_cdev, i_cdev, openvars>>
        \/ /\ Ldr(d, "add", "undo")
           /\ UNCHANGED <<state, refcnt, victim, region, cd_cdev, cdev_map, kref, alive, i_cdev, openvars>>
    BY <1>3, <2>0, <1>t DEF CdevAdd, Ldr, modvars, devvars, openvars
  <2>2. CASE /\ Ldr(d, "add", "set_cdev")
            /\ cdev_map' = [cdev_map EXCEPT ![MajorOf[d]] = <<d>>]
            /\ kref' = [kref EXCEPT ![d] = 1]
            /\ alive' = [alive EXCEPT ![d] = TRUE]
            /\ UNCHANGED <<state, refcnt, victim, region, cd_cdev, i_cdev, openvars>>
    <3>1. TypeOK'
      BY <2>2, <1>t, <1>p, <1>l, LdrMove DEF TypeOK, openvars, cdev_purge
    <3> QED BY <2>2, <3>1, <1>t, <1>m, <1>p, LdrMove, ZenonT(60) DEF DriverMove, Goes, Mod, Dev, ModKept, DevKept
  <2>3. CASE /\ Ldr(d, "add", "undo")
            /\ UNCHANGED <<state, refcnt, victim, region, cd_cdev, cdev_map, kref, alive, i_cdev, openvars>>
    <3>1. TypeOK'
      BY <2>3, <1>t, <1>p, <1>l, LdrMove DEF TypeOK, openvars, cdev_purge
    <3> QED BY <2>3, <3>1, <1>t, <1>m, <1>p, LdrMove DEF DriverMove, Goes, Mod, Dev, ModKept, DevKept
  <2> QED BY <2>1, <2>2, <2>3
<1>4. CASE UndoRegion(d)
  <2>1. /\ Ldr(d, "undo", "failed")
        /\ region' = [region EXCEPT ![MajorOf[d]] = NULL]
        /\ UNCHANGED <<state, refcnt, victim, cd_cdev, cdev_map, kref, alive, i_cdev, openvars>>
    BY <1>4, <1>t DEF UndoRegion, modvars, devvars, openvars
  <2>2. TypeOK'
    BY <2>1, <1>t, <1>p, <1>l, LdrMove DEF TypeOK, openvars, cdev_purge
  <2> QED BY <2>1, <2>2, <1>t, <1>m, <1>p, LdrMove, ZenonT(60) DEF DriverMove, Goes, Mod, Dev, ModKept, DevKept
<1>5. CASE SetCdev(d)
  <2>1. /\ Ldr(d, "set_cdev", "registered")
        /\ cd_cdev' = [cd_cdev EXCEPT ![d] = TRUE]
        /\ UNCHANGED <<state, refcnt, victim, region, cdev_map, kref, alive, i_cdev, openvars>>
    BY <1>5, <1>t DEF SetCdev, modvars, devvars, openvars
  <2>2. TypeOK'
    BY <2>1, <1>t, <1>p, <1>l, LdrMove DEF TypeOK, openvars, cdev_purge
  <2> QED BY <2>1, <2>2, <1>t, <1>m, <1>p, LdrMove, ZenonT(60) DEF DriverMove, Goes, Mod, Dev, ModKept, DevKept
<1>6. CASE InitOk(d)
  <2>1. /\ Ldr(d, "registered", "put_init")
        /\ state' = [state EXCEPT ![d] = "LIVE"]
        /\ UNCHANGED <<refcnt, victim, region, cd_cdev, cdev_map, kref, alive, i_cdev, openvars>>
    BY <1>6, <1>t DEF InitOk, modvars, devvars, openvars
  <2>2. TypeOK'
    BY <2>1, <1>t, <1>p, <1>l, LdrMove DEF TypeOK, openvars, cdev_purge
  <2> QED BY <2>1, <2>2, <1>t, <1>m, <1>p, LdrMove DEF DriverMove, Goes, Mod, Dev, ModKept, DevKept
<1>7. CASE InitFailed(d)
  <2>1. \/ /\ Ldr(d, "failed", "free")
           /\ state' = [state EXCEPT ![d] = "GOING"]
           /\ refcnt' = [refcnt EXCEPT ![d] = IF @ > 0 THEN @ - 1 ELSE @]
           /\ UNCHANGED <<victim, region, cd_cdev, cdev_map, kref, alive, i_cdev, openvars>>
        \/ /\ Ldr(d, "failed", "put_init")
           /\ state' = [state EXCEPT ![d] = "LIVE"]
           /\ UNCHANGED <<refcnt, victim, region, cd_cdev, cdev_map, kref, alive, i_cdev, openvars>>
    BY <1>7, <1>t DEF InitFailed, module_put, modvars, devvars, openvars
  <2>2. CASE /\ Ldr(d, "failed", "free")
            /\ state' = [state EXCEPT ![d] = "GOING"]
            /\ refcnt' = [refcnt EXCEPT ![d] = IF @ > 0 THEN @ - 1 ELSE @]
            /\ UNCHANGED <<victim, region, cd_cdev, cdev_map, kref, alive, i_cdev, openvars>>
    <3>1. TypeOK'
      BY <2>2, <1>t, <1>p, <1>l, LdrMove DEF TypeOK, openvars, cdev_purge
    <3> QED BY <2>2, <3>1, <1>t, <1>m, <1>p, LdrMove DEF DriverMove, Goes, Mod, Dev, ModKept, DevKept
  <2>3. CASE /\ Ldr(d, "failed", "put_init")
            /\ state' = [state EXCEPT ![d] = "LIVE"]
            /\ UNCHANGED <<refcnt, victim, region, cd_cdev, cdev_map, kref, alive, i_cdev, openvars>>
    <3>1. TypeOK'
      BY <2>3, <1>t, <1>p, <1>l, LdrMove DEF TypeOK, openvars, cdev_purge
    <3> QED BY <2>3, <3>1, <1>t, <1>m, <1>p, LdrMove DEF DriverMove, Goes, Mod, Dev, ModKept, DevKept
  <2> QED BY <2>1, <2>2, <2>3
<1>8. CASE PutInit(d)
  <2>1. /\ Ldr(d, "put_init", "loaded")
        /\ refcnt' = [refcnt EXCEPT ![d] = IF @ > 0 THEN @ - 1 ELSE @]
        /\ UNCHANGED <<state, victim, region, cd_cdev, cdev_map, kref, alive, i_cdev, openvars>>
    BY <1>8, <1>t DEF PutInit, module_put, modvars, devvars, openvars
  <2>2. TypeOK'
    BY <2>1, <1>t, <1>p, <1>l, LdrMove DEF TypeOK, openvars, cdev_purge
  <2> QED BY <2>1, <2>2, <1>t, <1>m, <1>p, LdrMove DEF DriverMove, Goes, Mod, Dev, ModKept, DevKept
<1>9. CASE delete_module(d)
  <2>1. \/ /\ Ldr(d, "loaded", "exit") /\ refcnt[d] = 1
           /\ refcnt' = [refcnt EXCEPT ![d] = @ - 1]
           /\ state' = [state EXCEPT ![d] = "GOING"]
           /\ UNCHANGED <<victim, region, cd_cdev, cdev_map, kref, alive, i_cdev, openvars>>
        \/ /\ Ldr(d, "loaded", "recover")
           /\ refcnt' = [refcnt EXCEPT ![d] = @ - 1]
           /\ UNCHANGED <<state, victim, region, cd_cdev, cdev_map, kref, alive, i_cdev, openvars>>
    BY <1>9, <1>t DEF delete_module, modvars, devvars, openvars
  <2>2. CASE /\ Ldr(d, "loaded", "exit") /\ refcnt[d] = 1
            /\ refcnt' = [refcnt EXCEPT ![d] = @ - 1]
            /\ state' = [state EXCEPT ![d] = "GOING"]
            /\ UNCHANGED <<victim, region, cd_cdev, cdev_map, kref, alive, i_cdev, openvars>>
    <3>1. TypeOK'
      BY <2>2, <1>t, <1>p, <1>l, LdrMove DEF TypeOK, openvars, cdev_purge
    <3> QED BY <2>2, <3>1, <1>t, <1>m, <1>p, LdrMove DEF DriverMove, Goes, Mod, Dev, ModKept, DevKept
  <2>3. CASE /\ Ldr(d, "loaded", "recover")
            /\ refcnt' = [refcnt EXCEPT ![d] = @ - 1]
            /\ UNCHANGED <<state, victim, region, cd_cdev, cdev_map, kref, alive, i_cdev, openvars>>
    <3>1. TypeOK'
      BY <2>3, <1>t, <1>p, <1>l, LdrMove DEF TypeOK, openvars, cdev_purge
    <3> QED BY <2>3, <3>1, <1>t, <1>m, <1>p, LdrMove DEF DriverMove, Goes, Mod, Dev, ModKept, DevKept
  <2> QED BY <2>1, <2>2, <2>3
<1>10. CASE Recover(d)
  <2>1. \/ /\ Ldr(d, "recover", "exit") /\ refcnt[d] = 0
           /\ state' = [state EXCEPT ![d] = "GOING"]
           /\ UNCHANGED <<refcnt, victim, region, cd_cdev, cdev_map, kref, alive, i_cdev, openvars>>
        \/ /\ Ldr(d, "recover", "loaded")
           /\ refcnt' = [refcnt EXCEPT ![d] = @ + 1]
           /\ UNCHANGED <<state, victim, region, cd_cdev, cdev_map, kref, alive, i_cdev, openvars>>
    BY <1>10, <1>t DEF Recover, modvars, devvars, openvars
  <2>2. CASE /\ Ldr(d, "recover", "exit") /\ refcnt[d] = 0
            /\ state' = [state EXCEPT ![d] = "GOING"]
            /\ UNCHANGED <<refcnt, victim, region, cd_cdev, cdev_map, kref, alive, i_cdev, openvars>>
    <3>1. TypeOK'
      BY <2>2, <1>t, <1>p, <1>l, LdrMove DEF TypeOK, openvars, cdev_purge
    <3> QED BY <2>2, <3>1, <1>t, <1>m, <1>p, LdrMove DEF DriverMove, Goes, Mod, Dev, ModKept, DevKept
  <2>3. CASE /\ Ldr(d, "recover", "loaded")
            /\ refcnt' = [refcnt EXCEPT ![d] = @ + 1]
            /\ UNCHANGED <<state, victim, region, cd_cdev, cdev_map, kref, alive, i_cdev, openvars>>
    <3>1. TypeOK'
      BY <2>3, <1>t, <1>p, <1>l, LdrMove DEF TypeOK, openvars, cdev_purge
    <3> QED BY <2>3, <3>1, <1>t, <1>m, <1>p, LdrMove DEF DriverMove, Goes, Mod, Dev, ModKept, DevKept
  <2> QED BY <2>1, <2>2, <2>3
<1>11. CASE UnregisterRegion(d)
  <2>0. region[MajorOf[d]] \in {NULL, d} /\ (ldr[d] = "exit" => (region[MajorOf[d]] = d <=> cd_cdev[d]))
    BY DEF DriverAt
  <2>1. \/ /\ Ldr(d, "exit", "unmap") /\ cd_cdev[d]
           /\ region' = [region EXCEPT ![MajorOf[d]] = NULL]
           /\ victim' = [victim EXCEPT ![d] = d]
           /\ cd_cdev' = [cd_cdev EXCEPT ![d] = FALSE]
           /\ UNCHANGED <<state, refcnt, cdev_map, kref, alive, i_cdev, openvars>>
        \/ /\ Ldr(d, "exit", "free") /\ ~cd_cdev[d]
           /\ region' = [region EXCEPT ![MajorOf[d]] = NULL]
           /\ UNCHANGED <<state, refcnt, victim, cd_cdev, cdev_map, kref, alive, i_cdev, openvars>>
    BY <1>11, <2>0, <1>t DEF UnregisterRegion, Ldr, modvars, devvars, openvars
  <2>2. CASE /\ Ldr(d, "exit", "unmap") /\ cd_cdev[d]
            /\ region' = [region EXCEPT ![MajorOf[d]] = NULL]
            /\ victim' = [victim EXCEPT ![d] = d]
            /\ cd_cdev' = [cd_cdev EXCEPT ![d] = FALSE]
            /\ UNCHANGED <<state, refcnt, cdev_map, kref, alive, i_cdev, openvars>>
    <3>1. TypeOK'
      BY <2>2, <1>t, <1>p, <1>l, LdrMove DEF TypeOK, openvars, cdev_purge
    <3> QED BY <2>2, <3>1, <1>t, <1>m, <1>p, LdrMove DEF DriverMove, Goes, Mod, Dev, ModKept, DevKept
  <2>3. CASE /\ Ldr(d, "exit", "free") /\ ~cd_cdev[d]
            /\ region' = [region EXCEPT ![MajorOf[d]] = NULL]
            /\ UNCHANGED <<state, refcnt, victim, cd_cdev, cdev_map, kref, alive, i_cdev, openvars>>
    <3>1. TypeOK'
      BY <2>3, <1>t, <1>p, <1>l, LdrMove DEF TypeOK, openvars, cdev_purge
    <3> QED BY <2>3, <3>1, <1>t, <1>m, <1>p, LdrMove DEF DriverMove, Goes, Mod, Dev, ModKept, DevKept
  <2> QED BY <2>1, <2>2, <2>3
<1>12. CASE Unmap(d)
  <2>0. ldr[d] = "unmap" => cdev_map[MajorOf[d]] # <<>> /\ Tail(cdev_map[MajorOf[d]]) = <<>> /\ victim[d] = d
    BY OneList DEF DriverAt, Mapped
  <2>1. /\ Ldr(d, "unmap", "put_cdev")
        /\ cdev_map' = [cdev_map EXCEPT ![MajorOf[d]] = <<>>]
        /\ UNCHANGED <<state, refcnt, victim, region, cd_cdev, kref, alive, i_cdev, openvars>>
    BY <1>12, <2>0, <1>t DEF Unmap, Ldr, modvars, devvars, openvars
  <2>2. TypeOK'
    BY <2>1, <1>t, <1>p, <1>l, LdrMove DEF TypeOK, openvars, cdev_purge
  <2> QED BY <2>1, <2>2, <1>t, <1>m, <1>p, LdrMove DEF DriverMove, Goes, Mod, Dev, ModKept, DevKept
<1>13. CASE PutCdev(d)
  <2>0. /\ ldr[d] = "put_cdev" /\ victim[d] = d /\ kref' = [kref EXCEPT ![d] = @ - 1]
        /\ kref'[d] = 0 <=> kref[d] = 1
    <3>1. ldr[d] = "put_cdev"
      BY <1>13 DEF PutCdev, Ldr
    <3>2. victim[d] = d
      BY <3>1 DEF DriverAt
    <3>3. kref' = [kref EXCEPT ![d] = @ - 1]
      BY <1>13, <3>2 DEF PutCdev
    <3>4. kref'[d] = kref[d] - 1 /\ kref[d] \in Int
      BY <1>t, <3>3
    <3> QED BY <3>1, <3>2, <3>3, <3>4
  <2>1. \/ /\ Ldr(d, "put_cdev", "purge") /\ kref[d] = 1
           /\ kref' = [kref EXCEPT ![d] = @ - 1]
           /\ UNCHANGED <<state, refcnt, victim, region, cd_cdev, cdev_map, alive, i_cdev, openvars>>
        \/ /\ Ldr(d, "put_cdev", "free") /\ kref[d] # 1
           /\ kref' = [kref EXCEPT ![d] = @ - 1]
           /\ UNCHANGED <<state, refcnt, victim, region, cd_cdev, cdev_map, alive, i_cdev, openvars>>
    BY <1>13, <2>0, <1>t DEF PutCdev, Ldr, modvars, devvars, openvars
  <2>2. CASE /\ Ldr(d, "put_cdev", "purge") /\ kref[d] = 1
            /\ kref' = [kref EXCEPT ![d] = @ - 1]
            /\ UNCHANGED <<state, refcnt, victim, region, cd_cdev, cdev_map, alive, i_cdev, openvars>>
    <3>1. TypeOK'
      BY <2>2, <1>t, <1>p, <1>l, LdrMove DEF TypeOK, openvars, cdev_purge
    <3> QED BY <2>2, <3>1, <1>t, <1>m, <1>p, LdrMove DEF DriverMove, Goes, Mod, Dev, ModKept, DevKept
  <2>3. CASE /\ Ldr(d, "put_cdev", "free") /\ kref[d] # 1
            /\ kref' = [kref EXCEPT ![d] = @ - 1]
            /\ UNCHANGED <<state, refcnt, victim, region, cd_cdev, cdev_map, alive, i_cdev, openvars>>
    <3>1. TypeOK'
      BY <2>3, <1>t, <1>p, <1>l, LdrMove DEF TypeOK, openvars, cdev_purge
    <3> QED BY <2>3, <3>1, <1>t, <1>m, <1>p, LdrMove, SMTT(60) DEF DriverMove, Goes, Mod, Dev, ModKept, DevKept
  <2> QED BY <2>1, <2>2, <2>3
<1>14. CASE Purge(d)
  <2>0. ldr[d] = "purge" => victim[d] = d
    BY DEF DriverAt
  <2>1. /\ Ldr(d, "purge", "free")
        /\ alive' = [alive EXCEPT ![d] = FALSE]
        /\ i_cdev' = cdev_purge(d)
        /\ UNCHANGED <<state, refcnt, victim, region, cd_cdev, cdev_map, kref, openvars>>
    BY <1>14, <2>0, <1>t DEF Purge, Ldr, modvars, devvars, openvars
  <2>2. TypeOK'
    BY <2>1, <1>t, <1>p, <1>l, LdrMove DEF TypeOK, openvars, cdev_purge
  <2> QED BY <2>1, <2>2, <1>t, <1>m, <1>p, LdrMove, ZenonT(60) DEF DriverMove, Goes, Mod, Dev, ModKept, DevKept
<1>15. CASE free_module(d)
  <2>1. /\ Ldr(d, "free", "none")
        /\ state' = [state EXCEPT ![d] = "none"]
        /\ refcnt' = [refcnt EXCEPT ![d] = 0]
        /\ victim' = [victim EXCEPT ![d] = NULL]
        /\ UNCHANGED <<region, cd_cdev, cdev_map, kref, alive, i_cdev, openvars>>
    BY <1>15, <1>t DEF free_module, modvars, devvars, openvars
  <2>2. TypeOK'
    BY <2>1, <1>t, <1>p, <1>l, LdrMove DEF TypeOK, openvars, cdev_purge
  <2> QED BY <2>1, <2>2, <1>t, <1>m, <1>p, LdrMove DEF DriverMove, Goes, Mod, Dev, ModKept, DevKept
<1> QED
  BY <1>1, <1>2, <1>3, <1>4, <1>5, <1>6, <1>7, <1>8, <1>9, <1>10, <1>11,
     <1>12, <1>13, <1>14, <1>15 DEF DriverStep

----------------------------------------------------------------------------

Ind(p) == IF p THEN 1 ELSE 0

(* How a count changes when only o may enter or leave the set *)
LEMMA CardMove ==
  ASSUME NEW S \in SUBSET Openers, NEW T \in SUBSET Openers, NEW o \in Openers, S \ {o} = T \ {o}
  PROVE  /\ Cardinality(S) \in Nat /\ Cardinality(T) \in Nat
         /\ Cardinality(T) = Cardinality(S) + Ind(o \in T) - Ind(o \in S)
<1>1. IsFiniteSet(S) /\ IsFiniteSet(T)
  BY FS_Subset
<1>2. Cardinality(S) \in Nat /\ Cardinality(T) \in Nat
  BY <1>1, FS_CardinalityType
<1>3. CASE o \in S /\ o \notin T
  <2>1. T = S \ {o}
    BY <1>3
  <2>2. Cardinality(T) = Cardinality(S) - 1
    BY <1>1, <1>3, <2>1, FS_RemoveElement
  <2> QED BY <1>2, <1>3, <2>2 DEF Ind
<1>4. CASE o \in T /\ o \notin S
  <2>1. S = T \ {o}
    BY <1>4
  <2>2. Cardinality(S) = Cardinality(T) - 1
    BY <1>1, <1>4, <2>1, FS_RemoveElement
  <2> QED BY <1>2, <1>4, <2>2 DEF Ind
<1>5. CASE (o \in S) = (o \in T)
  <2>1. S = T
    BY <1>5
  <2> QED BY <1>2, <2>1 DEF Ind
<1> QED BY <1>3, <1>4, <1>5

(* A count of openers is a number, positive if there is one of them. *)
LEMMA CardPos ==
  ASSUME NEW S \in SUBSET Openers
  PROVE  Cardinality(S) \in Nat /\ (S # {} => Cardinality(S) > 0)
<1>1. IsFiniteSet(S)
  BY FS_Subset
<1> QED BY <1>1, FS_CardinalityType, FS_EmptySet

(* All references to module d by openers, and those to its cdev *)
Refs(d) == Cardinality(CdRefs(d)) + Cardinality(NewRefs(d)) + Cardinality(FopRefs(d))
Krefs(d) == Cardinality(CdKrefs(d)) + Cardinality(NewKrefs(d))

(* The other references to module d: that of being loaded, which rmmod     *)
(* takes away while it tries, and that of insmod                           *)
Base(d) ==
  (IF ldr[d] = "recover" THEN 0 ELSE 1)
  + (IF state[d] = "COMING" \/ ldr[d] = "put_init" THEN 1 ELSE 0)

RefsAt(d) == state[d] \in {"COMING", "LIVE"} => refcnt[d] = Base(d) + Refs(d)

(* RefsExact says so of every driver. *)
LEMMA RefsExactAt == RefsExact <=> \A e \in Drivers : RefsAt(e)
<1> SUFFICES ASSUME NEW d \in Drivers
             PROVE  RefsAt(d) <=>
                      (state[d] \in {"COMING", "LIVE"} =>
                         refcnt[d] = (IF ldr[d] = "recover" THEN 0 ELSE 1)
                           + (IF state[d] = "COMING" \/ ldr[d] = "put_init" THEN 1 ELSE 0)
                           + Cardinality(CdRefs(d)) + Cardinality(NewRefs(d)) + Cardinality(FopRefs(d)))
  BY DEF RefsExact, CdRefs, NewRefs, FopRefs
<1>1. /\ Cardinality(CdRefs(d)) \in Nat
      /\ Cardinality(NewRefs(d)) \in Nat /\ Cardinality(FopRefs(d)) \in Nat
  <2>1. CdRefs(d) \in SUBSET Openers /\ NewRefs(d) \in SUBSET Openers /\ FopRefs(d) \in SUBSET Openers
    BY DEF CdRefs, NewRefs, FopRefs
  <2> QED BY <2>1, CardPos
<1> QED BY <1>1 DEF RefsAt, Base, Refs

(* And so it does after a step. *)
LEMMA RefsExactNext == (\A e \in Drivers : RefsAt(e))' => RefsExact'
BY RefsExactAt, PTL

(* The references of an opener that has c, w and f, and is at at *)
RefOf(c, w, f, d) == Ind(c = d) + Ind(w = d) + Ind(f = d)
KrefOf(c, w, at, d) == Ind(c = d /\ at # "owner_put") + Ind(w = d /\ at # "put_new_owner")

OthersKept(o) ==
  \A u \in Openers \ {o} :
    opc'[u] = opc[u] /\ node'[u] = node[u] /\ cd'[u] = cd[u] /\ new'[u] = new[u] /\ f_op'[u] = f_op[u]

(* A step of one opener changes the counts by what it changes in hand. *)
LEMMA RefsMove ==
  ASSUME TypeOK, TypeOK', NEW o \in Openers, OthersKept(o), NEW d \in Drivers
  PROVE  /\ Refs(d) \in Int /\ Krefs(d) \in Int
         /\ Refs(d)' = Refs(d) + RefOf(cd'[o], new'[o], f_op'[o], d) - RefOf(cd[o], new[o], f_op[o], d)
         /\ Krefs(d)' = Krefs(d) + KrefOf(cd'[o], new'[o], opc'[o], d) - KrefOf(cd[o], new[o], opc[o], d)
<1>1. /\ CdRefs(d) \in SUBSET Openers /\ CdRefs(d)' \in SUBSET Openers
      /\ CdRefs(d) \ {o} = CdRefs(d)' \ {o}
      /\ (o \in CdRefs(d)) = (cd[o] = d) /\ (o \in CdRefs(d)') = (cd'[o] = d)
  BY DEF CdRefs, OthersKept
<1>2. /\ NewRefs(d) \in SUBSET Openers /\ NewRefs(d)' \in SUBSET Openers
      /\ NewRefs(d) \ {o} = NewRefs(d)' \ {o}
      /\ (o \in NewRefs(d)) = (new[o] = d) /\ (o \in NewRefs(d)') = (new'[o] = d)
  BY DEF NewRefs, OthersKept
<1>3. /\ FopRefs(d) \in SUBSET Openers /\ FopRefs(d)' \in SUBSET Openers
      /\ FopRefs(d) \ {o} = FopRefs(d)' \ {o}
      /\ (o \in FopRefs(d)) = (f_op[o] = d) /\ (o \in FopRefs(d)') = (f_op'[o] = d)
  BY DEF FopRefs, OthersKept
<1>4. /\ CdKrefs(d) \in SUBSET Openers /\ CdKrefs(d)' \in SUBSET Openers
      /\ CdKrefs(d) \ {o} = CdKrefs(d)' \ {o}
      /\ (o \in CdKrefs(d)) = (cd[o] = d /\ opc[o] # "owner_put")
      /\ (o \in CdKrefs(d)') = (cd'[o] = d /\ opc'[o] # "owner_put")
  BY DEF CdKrefs, OthersKept
<1>5. /\ NewKrefs(d) \in SUBSET Openers /\ NewKrefs(d)' \in SUBSET Openers
      /\ NewKrefs(d) \ {o} = NewKrefs(d)' \ {o}
      /\ (o \in NewKrefs(d)) = (new[o] = d /\ opc[o] # "put_new_owner")
      /\ (o \in NewKrefs(d)') = (new'[o] = d /\ opc'[o] # "put_new_owner")
  BY DEF NewKrefs, OthersKept
<1>6. \A p \in BOOLEAN : Ind(p) \in {0, 1}
  BY DEF Ind
<1>c. /\ Cardinality(CdRefs(d)) \in Nat /\ Cardinality(CdRefs(d)') \in Nat
      /\ Cardinality(CdRefs(d)') = Cardinality(CdRefs(d)) + Ind(cd'[o] = d) - Ind(cd[o] = d)
  BY <1>1, CardMove
<1>n. /\ Cardinality(NewRefs(d)) \in Nat /\ Cardinality(NewRefs(d)') \in Nat
      /\ Cardinality(NewRefs(d)') = Cardinality(NewRefs(d)) + Ind(new'[o] = d) - Ind(new[o] = d)
  BY <1>2, CardMove
<1>f. /\ Cardinality(FopRefs(d)) \in Nat /\ Cardinality(FopRefs(d)') \in Nat
      /\ Cardinality(FopRefs(d)') = Cardinality(FopRefs(d)) + Ind(f_op'[o] = d) - Ind(f_op[o] = d)
  BY <1>3, CardMove
<1>k. /\ Cardinality(CdKrefs(d)) \in Nat /\ Cardinality(CdKrefs(d)') \in Nat
      /\ Cardinality(CdKrefs(d)') = Cardinality(CdKrefs(d))
           + Ind(cd'[o] = d /\ opc'[o] # "owner_put") - Ind(cd[o] = d /\ opc[o] # "owner_put")
  BY <1>4, CardMove
<1>w. /\ Cardinality(NewKrefs(d)) \in Nat /\ Cardinality(NewKrefs(d)') \in Nat
      /\ Cardinality(NewKrefs(d)') = Cardinality(NewKrefs(d))
           + Ind(new'[o] = d /\ opc'[o] # "put_new_owner") - Ind(new[o] = d /\ opc[o] # "put_new_owner")
  BY <1>5, CardMove
<1> QED BY <1>c, <1>n, <1>f, <1>k, <1>w DEF Refs, Krefs, RefOf, KrefOf, Ind

(* What an opener holds a reference to is loaded, mapped, and has more     *)
(* references than this one.                                               *)
LEMMA Held ==
  ASSUME IInv, NEW o \in Openers, NEW d \in Drivers, d \in {cd[o], new[o], f_op[o]}
  PROVE  /\ state[d] \in {"COMING", "LIVE"} /\ Mapped(d) /\ refcnt[d] > 0
         /\ cd[o] = d /\ opc[o] # "owner_put" => kref[d] > 1
         /\ new[o] = d /\ opc[o] # "put_new_owner" => kref[d] > 1
<1>1. state[d] \in {"COMING", "LIVE"} /\ Mapped(d)
  BY DEF IInv, PinAt
<1>2. refcnt[d] = Base(d) + Refs(d)
  BY <1>1, RefsExactAt DEF IInv, RefsAt
<1>3. /\ Cardinality(CdRefs(d)) \in Nat /\ Cardinality(NewRefs(d)) \in Nat /\ Cardinality(FopRefs(d)) \in Nat
      /\ cd[o] = d => Cardinality(CdRefs(d)) > 0
      /\ new[o] = d => Cardinality(NewRefs(d)) > 0
      /\ f_op[o] = d => Cardinality(FopRefs(d)) > 0
  <2>1. /\ CdRefs(d) \in SUBSET Openers /\ NewRefs(d) \in SUBSET Openers /\ FopRefs(d) \in SUBSET Openers
        /\ (cd[o] = d => CdRefs(d) # {}) /\ (new[o] = d => NewRefs(d) # {}) /\ (f_op[o] = d => FopRefs(d) # {})
    BY DEF CdRefs, NewRefs, FopRefs
  <2> QED BY <2>1, CardPos
<1>4. Base(d) \in Nat
  BY DEF Base
<1>5. refcnt[d] > 0
  BY <1>2, <1>3, <1>4 DEF Refs
<1>6. kref[d] = 1 + (Cardinality(CdKrefs(d)) + Cardinality(NewKrefs(d)))
  BY <1>1 DEF IInv, KrefAt
<1>7. /\ Cardinality(CdKrefs(d)) \in Nat /\ Cardinality(NewKrefs(d)) \in Nat
      /\ cd[o] = d /\ opc[o] # "owner_put" => Cardinality(CdKrefs(d)) > 0
      /\ new[o] = d /\ opc[o] # "put_new_owner" => Cardinality(NewKrefs(d)) > 0
  <2>1. /\ CdKrefs(d) \in SUBSET Openers /\ NewKrefs(d) \in SUBSET Openers
        /\ (cd[o] = d /\ opc[o] # "owner_put" => CdKrefs(d) # {})
        /\ (new[o] = d /\ opc[o] # "put_new_owner" => NewKrefs(d) # {})
    BY DEF CdKrefs, NewKrefs
  <2> QED BY <2>1, CardPos
<1> QED BY <1>1, <1>5, <1>6, <1>7

----------------------------------------------------------------------------

(* What a step of open() or close() by o does: where it goes and with what *)
(* in hand, then what becomes of the counts of a cdev p and its module.    *)
Walks(o, from, to, n, c, w, f) ==
  /\ opc[o] = from /\ opc'[o] = to
  /\ node'[o] = n /\ cd'[o] = c /\ new'[o] = w /\ f_op'[o] = f

Counts(p, r, k) ==
  \A d \in Drivers :
    /\ refcnt'[d] = refcnt[d] + (IF d = p THEN r ELSE 0)
    /\ kref'[d] = kref[d] + (IF d = p THEN k ELSE 0)

(* A new reference to p can be had. *)
Usable(p) == p \in Drivers /\ state[p] \in {"COMING", "LIVE"} /\ Mapped(p)

Installs(o) ==
  /\ Walks(o, "install", "fops", node[o], new[o], NULL, NULL)
  /\ Counts(NULL, 0, 0)
  /\ i_cdev[node[o]] = NULL /\ i_cdev' = [i_cdev EXCEPT ![node[o]] = new[o]]

Searches(o) ==
  \/ \E n \in Nodes : Walks(o, "idle", "lookup", n, NULL, NULL, NULL) /\ Counts(NULL, 0, 0)
  \/ \E n \in Nodes : /\ Usable(i_cdev[n])
                      /\ Walks(o, "idle", "fops", n, i_cdev[n], NULL, NULL)
                      /\ Counts(i_cdev[n], 1, 1)
  \/ Walks(o, "idle", "idle", node[o], NULL, NULL, NULL) /\ Counts(NULL, 0, 0)
  \/ \E c \in Drivers : /\ Usable(c) /\ MajorOf[c] = NodeMajor[node[o]]
                        /\ Walks(o, "lookup", "install", node[o], NULL, c, NULL)
                        /\ Counts(c, 1, 1)
  \/ Walks(o, "lookup", "idle", NULL, NULL, NULL, NULL) /\ Counts(NULL, 0, 0)
  \/ /\ Usable(i_cdev[node[o]])
     /\ Walks(o, "install", "put_new", node[o], i_cdev[node[o]], new[o], NULL)
     /\ Counts(i_cdev[node[o]], 1, 1)
  \/ Walks(o, "install", "put_new", node[o], NULL, new[o], NULL) /\ Counts(NULL, 0, 0)

Settles(o) ==
  \/ Walks(o, "put_new", "put_new_owner", node[o], cd[o], new[o], NULL) /\ Counts(new[o], 0, -1)
  \/ /\ cd[o] # NULL
     /\ Walks(o, "put_new_owner", "fops", node[o], cd[o], NULL, NULL) /\ Counts(new[o], -1, 0)
  \/ /\ cd[o] = NULL
     /\ Walks(o, "put_new_owner", "idle", NULL, NULL, NULL, NULL) /\ Counts(new[o], -1, 0)
  \/ Walks(o, "fops", "open", node[o], cd[o], NULL, cd[o]) /\ Counts(cd[o], 1, 0)

Closes(o) ==
  \/ Walks(o, "open", "cdev_put", node[o], cd[o], NULL, f_op[o]) /\ Counts(NULL, 0, 0)
  \/ Walks(o, "cdev_put", "owner_put", node[o], cd[o], NULL, f_op[o]) /\ Counts(cd[o], 0, -1)
  \/ /\ f_op[o] # NULL
     /\ Walks(o, "owner_put", "fops_put", node[o], NULL, NULL, f_op[o]) /\ Counts(cd[o], -1, 0)
  \/ /\ f_op[o] = NULL
     /\ Walks(o, "owner_put", "idle", NULL, NULL, NULL, NULL) /\ Counts(cd[o], -1, 0)
  \/ Walks(o, "fops_put", "idle", NULL, NULL, NULL, NULL) /\ Counts(f_op[o], -1, 0)

OpenerMove(o) == Installs(o) \/ (i_cdev' = i_cdev /\ (Searches(o) \/ Settles(o) \/ Closes(o)))

(* Every step of open() or close() is such a move: no reference that it    *)
(* drops is the last one, and the inode leads close() to the cdev that     *)
(* open() got.                                                             *)
LEMMA OpenerMoves ==
  ASSUME IInv, NEW o \in Openers, OpenerStep(o)
  PROVE  /\ TypeOK' /\ OpenerMove(o) /\ OthersKept(o)
         /\ UNCHANGED <<state, ldr, victim, region, cd_cdev, cdev_map, alive>>
<1>t. /\ refcnt \in [Drivers -> Int] /\ kref \in [Drivers -> Int]
      /\ i_cdev \in [Nodes -> Drivers \cup {NULL}]
      /\ opc \in [Openers -> OpenPC] /\ node \in [Openers -> Nodes \cup {NULL}]
      /\ cd \in [Openers -> Drivers \cup {NULL}] /\ new \in [Openers -> Drivers \cup {NULL}]
      /\ f_op \in [Openers -> Drivers \cup {NULL}] /\ NULL \notin Drivers /\ NULL \notin Nodes
  BY DEF IInv, TypeOK
<1>o. OpenerAt(o)
  BY DEF IInv
<1>p. \A p \in {"idle", "lookup", "install", "put_new", "put_new_owner", "fops", "open",
       "cdev_put", "owner_put", "fops_put"} : p \in OpenPC
  BY AllPlaces
<1>u. \A n \in Nodes : i_cdev[n] # NULL /\ try_module_get(i_cdev[n]) => Usable(i_cdev[n])
  <2> SUFFICES ASSUME NEW n \in Nodes, i_cdev[n] # NULL, try_module_get(i_cdev[n])
               PROVE  Usable(i_cdev[n])
    OBVIOUS
  <2>1. i_cdev[n] \in Drivers /\ alive[i_cdev[n]]
    BY <1>t DEF IInv, NodeAt
  <2>2. DriverAt(i_cdev[n]) /\ state[i_cdev[n]] \in {"COMING", "LIVE"}
    BY <2>1 DEF IInv, try_module_get
  <2> QED BY <2>1, <2>2 DEF Usable, DriverAt, ComingPC, LivePC
<1>1. CASE Opens(o)
  <2> PICK n \in Nodes : Open(o, n)
    BY <1>1 DEF Opens
  <2> DEFINE p == i_cdev[n]
  <2>n. opc[o] = "idle"
    BY DEF Open, Goto
  <2>1. \/ /\ Goto(o, "idle", "lookup")
           /\ node' = [node EXCEPT ![o] = n]
           /\ UNCHANGED <<state, ldr, victim, region, cd_cdev, cdev_map, alive,
                        refcnt, kref, i_cdev, cd, new, f_op>>
        \/ /\ Goto(o, "idle", "fops") /\ Usable(p)
           /\ refcnt' = [refcnt EXCEPT ![p] = @ + 1]
           /\ kref' = [kref EXCEPT ![p] = @ + 1]
           /\ node' = [node EXCEPT ![o] = n]
           /\ cd' = [cd EXCEPT ![o] = p]
           /\ UNCHANGED <<state, ldr, victim, region, cd_cdev, cdev_map, alive,
                        i_cdev, new, f_op>>
        \/ /\ Goto(o, "idle", "idle")
           /\ UNCHANGED <<state, ldr, victim, region, cd_cdev, cdev_map, alive,
                        refcnt, kref, i_cdev, node, cd, new, f_op>>
    BY <1>u, <2>n, <1>t DEF Open, modvars, devvars, openvars
  <2>2. CASE /\ Goto(o, "idle", "lookup")
            /\ node' = [node EXCEPT ![o] = n]
            /\ UNCHANGED <<state, ldr, victim, region, cd_cdev, cdev_map, alive,
                         refcnt, kref, i_cdev, cd, new, f_op>>
    <3>1. TypeOK'
      BY <2>2, <1>t, <1>o, <1>p, GotoMove DEF IInv, TypeOK, OpenerAt
    <3>2. OthersKept(o) /\ UNCHANGED <<state, ldr, victim, region, cd_cdev, cdev_map, alive>>
      BY <2>2, <1>t, <1>p, GotoMove DEF OthersKept
    <3>3. OpenerMove(o)
      BY <2>2, <1>t, <1>o, <1>p, GotoMove DEF OpenerMove, Searches, Walks, Counts, OpenerAt
    <3> QED BY <3>1, <3>2, <3>3
  <2>3. CASE /\ Goto(o, "idle", "fops") /\ Usable(p)
            /\ refcnt' = [refcnt EXCEPT ![p] = @ + 1]
            /\ kref' = [kref EXCEPT ![p] = @ + 1]
            /\ node' = [node EXCEPT ![o] = n]
            /\ cd' = [cd EXCEPT ![o] = p]
            /\ UNCHANGED <<state, ldr, victim, region, cd_cdev, cdev_map, alive,
                         i_cdev, new, f_op>>
    <3>1. TypeOK'
      BY <2>3, <1>t, <1>o, <1>p, GotoMove DEF IInv, TypeOK, OpenerAt, Usable
    <3>2. OthersKept(o) /\ UNCHANGED <<state, ldr, victim, region, cd_cdev, cdev_map, alive>>
      BY <2>3, <1>t, <1>p, GotoMove DEF OthersKept
    <3>3. OpenerMove(o)
      BY <2>3, <1>t, <1>o, <1>p, GotoMove DEF OpenerMove, Searches, Walks, Counts, OpenerAt
    <3> QED BY <3>1, <3>2, <3>3
  <2>4. CASE /\ Goto(o, "idle", "idle")
            /\ UNCHANGED <<state, ldr, victim, region, cd_cdev, cdev_map, alive,
                         refcnt, kref, i_cdev, node, cd, new, f_op>>
    <3>1. TypeOK'
      BY <2>4, <1>t, <1>o, <1>p, GotoMove DEF IInv, TypeOK, OpenerAt
    <3>2. OthersKept(o) /\ UNCHANGED <<state, ldr, victim, region, cd_cdev, cdev_map, alive>>
      BY <2>4, <1>t, <1>p, GotoMove DEF OthersKept
    <3>3. OpenerMove(o)
      BY <2>4, <1>t, <1>o, <1>p, GotoMove DEF OpenerMove, Searches, Walks, Counts, OpenerAt
    <3> QED BY <3>1, <3>2, <3>3
  <2> QED BY <2>1, <2>2, <2>3, <2>4
<1>2. CASE Lookup(o)
  <2>a. opc[o] = "lookup" /\ node[o] \in Nodes
    BY <1>2, <1>o DEF Lookup, Goto, OpenerAt
  <2> PICK c \in Drivers : MajorOf[c] = NodeMajor[node[o]]
    BY <2>a DEF Majors
  <2>b. DriverAt(c) /\ cdev_map[NodeMajor[node[o]]] \in {<<>>, <<c>>}
    BY DEF IInv, DriverAt
  <2>c. <<c>> # <<>> /\ Head(<<c>>) = c
    BY OneList
  <2>d. cdev_map[NodeMajor[node[o]]] = <<c>> /\ try_module_get(c) => Usable(c)
    BY DEF Usable, Mapped, try_module_get
  <2>1. \/ /\ Goto(o, "lookup", "install") /\ Usable(c)
           /\ refcnt' = [refcnt EXCEPT ![c] = @ + 1]
           /\ kref' = [kref EXCEPT ![c] = @ + 1]
           /\ new' = [new EXCEPT ![o] = c]
           /\ UNCHANGED <<state, ldr, victim, region, cd_cdev, cdev_map, alive,
                        i_cdev, node, cd, f_op>>
        \/ /\ Goto(o, "lookup", "idle")
           /\ node' = [node EXCEPT ![o] = NULL]
           /\ UNCHANGED <<state, ldr, victim, region, cd_cdev, cdev_map, alive,
                        refcnt, kref, i_cdev, cd, new, f_op>>
    BY <1>2, <2>b, <2>c, <2>d DEF Lookup, modvars, devvars, openvars, Goto
  <2>2. CASE /\ Goto(o, "lookup", "install") /\ Usable(c)
            /\ refcnt' = [refcnt EXCEPT ![c] = @ + 1]
            /\ kref' = [kref EXCEPT ![c] = @ + 1]
            /\ new' = [new EXCEPT ![o] = c]
            /\ UNCHANGED <<state, ldr, victim, region, cd_cdev, cdev_map, alive,
                         i_cdev, node, cd, f_op>>
    <3>1. TypeOK'
      BY <2>2, <1>t, <1>o, <1>p, GotoMove DEF IInv, TypeOK, OpenerAt, Usable
    <3>2. OthersKept(o) /\ UNCHANGED <<state, ldr, victim, region, cd_cdev, cdev_map, alive>>
      BY <2>2, <1>t, <1>p, GotoMove DEF OthersKept
    <3>3. OpenerMove(o)
      BY <2>2, <1>t, <1>o, <1>p, GotoMove DEF OpenerMove, Searches, Walks, Counts, OpenerAt
    <3> QED BY <3>1, <3>2, <3>3
  <2>3. CASE /\ Goto(o, "lookup", "idle")
            /\ node' = [node EXCEPT ![o] = NULL]
            /\ UNCHANGED <<state, ldr, victim, region, cd_cdev, cdev_map, alive,
                         refcnt, kref, i_cdev, cd, new, f_op>>
    <3>1. TypeOK'
      BY <2>3, <1>t, <1>o, <1>p, GotoMove DEF IInv, TypeOK, OpenerAt
    <3>2. OthersKept(o) /\ UNCHANGED <<state, ldr, victim, region, cd_cdev, cdev_map, alive>>
      BY <2>3, <1>t, <1>p, GotoMove DEF OthersKept
    <3>3. OpenerMove(o)
      BY <2>3, <1>t, <1>o, <1>p, GotoMove DEF OpenerMove, Searches, Walks, Counts, OpenerAt
    <3> QED BY <3>1, <3>2, <3>3
  <2> QED BY <2>1, <2>2, <2>3
<1>3. CASE Install(o)
  <2>a. opc[o] = "install" /\ node[o] \in Nodes /\ new[o] \in Drivers /\ cd[o] = NULL /\ f_op[o] = NULL
    BY <1>3, <1>t, <1>o DEF Install, OpenerAt
  <2> DEFINE p == i_cdev[node[o]]
  <2>1. \/ /\ Goto(o, "install", "fops") /\ p = NULL
           /\ i_cdev' = [i_cdev EXCEPT ![node[o]] = new[o]]
           /\ cd' = [cd EXCEPT ![o] = new[o]]
           /\ new' = [new EXCEPT ![o] = NULL]
           /\ UNCHANGED <<state, ldr, victim, region, cd_cdev, cdev_map, alive,
                        refcnt, kref, node, f_op>>
        \/ /\ Goto(o, "install", "put_new") /\ Usable(p)
           /\ refcnt' = [refcnt EXCEPT ![p] = @ + 1]
           /\ kref' = [kref EXCEPT ![p] = @ + 1]
           /\ cd' = [cd EXCEPT ![o] = p]
           /\ UNCHANGED <<state, ldr, victim, region, cd_cdev, cdev_map, alive,
                        i_cdev, node, new, f_op>>
        \/ /\ Goto(o, "install", "put_new")
           /\ UNCHANGED <<state, ldr, victim, region, cd_cdev, cdev_map, alive,
                        refcnt, kref, i_cdev, node, cd, new, f_op>>
    BY <1>3, <2>a, <1>u DEF Install, modvars, devvars, openvars, Goto
  <2>2. CASE /\ Goto(o, "install", "fops") /\ p = NULL
            /\ i_cdev' = [i_cdev EXCEPT ![node[o]] = new[o]]
            /\ cd' = [cd EXCEPT ![o] = new[o]]
            /\ new' = [new EXCEPT ![o] = NULL]
            /\ UNCHANGED <<state, ldr, victim, region, cd_cdev, cdev_map, alive,
                         refcnt, kref, node, f_op>>
    <3>1. TypeOK'
      BY <2>2, <1>t, <1>o, <1>p, GotoMove, <2>a DEF IInv, TypeOK, OpenerAt
    <3>2. OthersKept(o) /\ UNCHANGED <<state, ldr, victim, region, cd_cdev, cdev_map, alive>>
      BY <2>2, <1>t, <1>p, GotoMove DEF OthersKept
    <3>3. OpenerMove(o)
      BY <2>2, <1>t, <1>o, <1>p, GotoMove, <2>a DEF OpenerMove, Installs, Walks, Counts, OpenerAt
    <3> QED BY <3>1, <3>2, <3>3
  <2>3. CASE /\ Goto(o, "install", "put_new") /\ Usable(p)
            /\ refcnt' = [refcnt EXCEPT ![p] = @ + 1]
            /\ kref' = [kref EXCEPT ![p] = @ + 1]
            /\ cd' = [cd EXCEPT ![o] = p]
            /\ UNCHANGED <<state, ldr, victim, region, cd_cdev, cdev_map, alive,
                         i_cdev, node, new, f_op>>
    <3>1. TypeOK'
      BY <2>3, <1>t, <1>o, <1>p, GotoMove, <2>a DEF IInv, TypeOK, OpenerAt, Usable
    <3>2. OthersKept(o) /\ UNCHANGED <<state, ldr, victim, region, cd_cdev, cdev_map, alive>>
      BY <2>3, <1>t, <1>p, GotoMove DEF OthersKept
    <3>3. OpenerMove(o)
      BY <2>3, <1>t, <1>o, <1>p, GotoMove, <2>a DEF OpenerMove, Searches, Walks, Counts, OpenerAt
    <3> QED BY <3>1, <3>2, <3>3
  <2>4. CASE /\ Goto(o, "install", "put_new")
            /\ UNCHANGED <<state, ldr, victim, region, cd_cdev, cdev_map, alive,
                         refcnt, kref, i_cdev, node, cd, new, f_op>>
    <3>1. TypeOK'
      BY <2>4, <1>t, <1>o, <1>p, GotoMove, <2>a DEF IInv, TypeOK, OpenerAt
    <3>2. OthersKept(o) /\ UNCHANGED <<state, ldr, victim, region, cd_cdev, cdev_map, alive>>
      BY <2>4, <1>t, <1>p, GotoMove DEF OthersKept
    <3>3. OpenerMove(o)
      BY <2>4, <1>t, <1>o, <1>p, GotoMove, <2>a DEF OpenerMove, Searches, Walks, Counts, OpenerAt
    <3> QED BY <3>1, <3>2, <3>3
  <2> QED BY <2>1, <2>2, <2>3, <2>4
<1>4. CASE PutNew(o)
  <2>h. opc[o] = "put_new" /\ new[o] \in Drivers
    BY <1>4, <1>t, <1>o DEF PutNew, Goto, OpenerAt
  <2>g. state[new[o]] \in {"COMING", "LIVE"} /\ Mapped(new[o]) /\ refcnt[new[o]] > 0 /\ kref[new[o]] > 1
    BY <2>h, Held
  <2>k. kref' = [kref EXCEPT ![new[o]] = @ - 1] /\ kref'[new[o]] # 0
    <3>1. kref' = [kref EXCEPT ![new[o]] = @ - 1]
      BY <1>4 DEF PutNew, KobjectPut
    <3> QED BY <3>1, <1>t, <2>h, <2>g
  <2>1. /\ Goto(o, "put_new", "put_new_owner")
        /\ kref' = [kref EXCEPT ![new[o]] = @ - 1]
        /\ UNCHANGED <<state, ldr, victim, region, cd_cdev, cdev_map, alive,
                     refcnt, i_cdev, node, cd, new, f_op>>
    BY <1>4, <2>h, <2>g, <2>k DEF PutNew, KobjectPut, modvars, devvars, openvars
  <2>2. TypeOK'
    BY <2>1, <1>t, <1>o, <1>p, GotoMove, <2>h DEF IInv, TypeOK, OpenerAt
  <2>3. OthersKept(o) /\ UNCHANGED <<state, ldr, victim, region, cd_cdev, cdev_map, alive>>
    BY <2>1, <1>t, <1>p, GotoMove DEF OthersKept
  <2>4. OpenerMove(o)
    BY <2>1, <1>t, <1>o, <1>p, GotoMove, <2>h DEF OpenerMove, Settles, Walks, Counts, OpenerAt
  <2> QED BY <2>2, <2>3, <2>4
<1>5. CASE PutNewOwner(o)
  <2>h. opc[o] = "put_new_owner" /\ new[o] \in Drivers
    BY <1>5, <1>t, <1>o DEF PutNewOwner, Goto, OpenerAt
  <2>g. state[new[o]] \in {"COMING", "LIVE"} /\ Mapped(new[o]) /\ refcnt[new[o]] > 0
    BY <2>h, Held
  <2>k. refcnt' = [refcnt EXCEPT ![new[o]] = @ - 1]
    BY <1>5, <1>t, <2>h, <2>g DEF PutNewOwner, module_put
  <2>1. \/ /\ Goto(o, "put_new_owner", "fops") /\ cd[o] # NULL
           /\ refcnt' = [refcnt EXCEPT ![new[o]] = @ - 1]
           /\ new' = [new EXCEPT ![o] = NULL]
           /\ UNCHANGED <<state, ldr, victim, region, cd_cdev, cdev_map, alive,
                        kref, i_cdev, node, cd, f_op>>
        \/ /\ Goto(o, "put_new_owner", "idle") /\ cd[o] = NULL
           /\ refcnt' = [refcnt EXCEPT ![new[o]] = @ - 1]
           /\ new' = [new EXCEPT ![o] = NULL]
           /\ node' = [node EXCEPT ![o] = NULL]
           /\ UNCHANGED <<state, ldr, victim, region, cd_cdev, cdev_map, alive,
                        kref, i_cdev, cd, f_op>>
    BY <1>5, <2>h, <2>g, <2>k DEF PutNewOwner, modvars, devvars, openvars
  <2>2. CASE /\ Goto(o, "put_new_owner", "fops") /\ cd[o] # NULL
            /\ refcnt' = [refcnt EXCEPT ![new[o]] = @ - 1]
            /\ new' = [new EXCEPT ![o] = NULL]
            /\ UNCHANGED <<state, ldr, victim, region, cd_cdev, cdev_map, alive,
                         kref, i_cdev, node, cd, f_op>>
    <3>1. TypeOK'
      BY <2>2, <1>t, <1>o, <1>p, GotoMove, <2>h DEF IInv, TypeOK, OpenerAt
    <3>2. OthersKept(o) /\ UNCHANGED <<state, ldr, victim, region, cd_cdev, cdev_map, alive>>
      BY <2>2, <1>t, <1>p, GotoMove DEF OthersKept
    <3>3. OpenerMove(o)
      BY <2>2, <1>t, <1>o, <1>p, GotoMove, <2>h DEF OpenerMove, Settles, Walks, Counts, OpenerAt
    <3> QED BY <3>1, <3>2, <3>3
  <2>3. CASE /\ Goto(o, "put_new_owner", "idle") /\ cd[o] = NULL
            /\ refcnt' = [refcnt EXCEPT ![new[o]] = @ - 1]
            /\ new' = [new EXCEPT ![o] = NULL]
            /\ node' = [node EXCEPT ![o] = NULL]
            /\ UNCHANGED <<state, ldr, victim, region, cd_cdev, cdev_map, alive,
                         kref, i_cdev, cd, f_op>>
    <3>1. TypeOK'
      BY <2>3, <1>t, <1>o, <1>p, GotoMove, <2>h DEF IInv, TypeOK, OpenerAt
    <3>2. OthersKept(o) /\ UNCHANGED <<state, ldr, victim, region, cd_cdev, cdev_map, alive>>
      BY <2>3, <1>t, <1>p, GotoMove DEF OthersKept
    <3>3. OpenerMove(o)
      BY <2>3, <1>t, <1>o, <1>p, GotoMove, <2>h DEF OpenerMove, Settles, Walks, Counts, OpenerAt
    <3> QED BY <3>1, <3>2, <3>3
  <2> QED BY <2>1, <2>2, <2>3
<1>6. CASE FopsGet(o)
  <2>h. opc[o] = "fops" /\ cd[o] \in Drivers
    BY <1>6, <1>t, <1>o DEF FopsGet, Goto, OpenerAt
  <2>g. state[cd[o]] \in {"COMING", "LIVE"} /\ Mapped(cd[o]) /\ refcnt[cd[o]] > 0
    BY <2>h, Held
  <2>1. /\ Goto(o, "fops", "open")
        /\ refcnt' = [refcnt EXCEPT ![cd[o]] = @ + 1]
        /\ f_op' = [f_op EXCEPT ![o] = cd[o]]
        /\ UNCHANGED <<state, ldr, victim, region, cd_cdev, cdev_map, alive,
                     kref, i_cdev, node, cd, new>>
    BY <1>6, <2>h, <2>g DEF FopsGet, modvars, devvars, openvars, try_module_get, Goto
  <2>2. TypeOK'
    BY <2>1, <1>t, <1>o, <1>p, GotoMove, <2>h DEF IInv, TypeOK, OpenerAt
  <2>3. OthersKept(o) /\ UNCHANGED <<state, ldr, victim, region, cd_cdev, cdev_map, alive>>
    BY <2>1, <1>t, <1>p, GotoMove DEF OthersKept
  <2>4. OpenerMove(o)
    BY <2>1, <1>t, <1>o, <1>p, GotoMove, <2>h DEF OpenerMove, Settles, Walks, Counts, OpenerAt
  <2> QED BY <2>2, <2>3, <2>4
<1>7. CASE Close(o)
  <2>h. opc[o] = "open" /\ cd[o] # NULL /\ i_cdev[node[o]] = cd[o]
    BY <1>7, <1>o DEF Close, Goto, OpenerAt
  <2>1. /\ Goto(o, "open", "cdev_put")
        /\ UNCHANGED <<state, ldr, victim, region, cd_cdev, cdev_map, alive,
                     refcnt, kref, i_cdev, node, cd, new, f_op>>
    BY <1>7, <1>t, <2>h DEF Close, modvars, devvars, openvars, Goto
  <2>2. TypeOK'
    BY <2>1, <1>t, <1>o, <1>p, GotoMove, <2>h DEF IInv, TypeOK, OpenerAt
  <2>3. OthersKept(o) /\ UNCHANGED <<state, ldr, victim, region, cd_cdev, cdev_map, alive>>
    BY <2>1, <1>t, <1>p, GotoMove DEF OthersKept
  <2>4. OpenerMove(o)
    BY <2>1, <1>t, <1>o, <1>p, GotoMove, <2>h DEF OpenerMove, Closes, Walks, Counts, OpenerAt
  <2> QED BY <2>2, <2>3, <2>4
<1>8. CASE CdevPut(o)
  <2>h. opc[o] = "cdev_put" /\ cd[o] \in Drivers
    BY <1>8, <1>t, <1>o DEF CdevPut, Goto, OpenerAt
  <2>g. state[cd[o]] \in {"COMING", "LIVE"} /\ Mapped(cd[o]) /\ refcnt[cd[o]] > 0 /\ kref[cd[o]] > 1
    BY <2>h, Held
  <2>k. kref' = [kref EXCEPT ![cd[o]] = @ - 1] /\ kref'[cd[o]] # 0
    <3>1. kref' = [kref EXCEPT ![cd[o]] = @ - 1]
      BY <1>8 DEF CdevPut, KobjectPut
    <3> QED BY <3>1, <1>t, <2>h, <2>g
  <2>1. /\ Goto(o, "cdev_put", "owner_put")
        /\ kref' = [kref EXCEPT ![cd[o]] = @ - 1]
        /\ UNCHANGED <<state, ldr, victim, region, cd_cdev, cdev_map, alive,
                     refcnt, i_cdev, node, cd, new, f_op>>
    BY <1>8, <2>h, <2>g, <2>k DEF CdevPut, KobjectPut, modvars, devvars, openvars
  <2>2. TypeOK'
    BY <2>1, <1>t, <1>o, <1>p, GotoMove, <2>h DEF IInv, TypeOK, OpenerAt
  <2>3. OthersKept(o) /\ UNCHANGED <<state, ldr, victim, region, cd_cdev, cdev_map, alive>>
    BY <2>1, <1>t, <1>p, GotoMove DEF OthersKept
  <2>4. OpenerMove(o)
    BY <2>1, <1>t, <1>o, <1>p, GotoMove, <2>h DEF OpenerMove, Closes, Walks, Counts, OpenerAt
  <2> QED BY <2>2, <2>3, <2>4
<1>9. CASE OwnerPut(o)
  <2>h. opc[o] = "owner_put" /\ cd[o] \in Drivers
    BY <1>9, <1>t, <1>o DEF OwnerPut, Goto, OpenerAt
  <2>g. state[cd[o]] \in {"COMING", "LIVE"} /\ Mapped(cd[o]) /\ refcnt[cd[o]] > 0
    BY <2>h, Held
  <2>k. refcnt' = [refcnt EXCEPT ![cd[o]] = @ - 1]
    BY <1>9, <1>t, <2>h, <2>g DEF OwnerPut, module_put
  <2>1. \/ /\ Goto(o, "owner_put", "fops_put") /\ f_op[o] # NULL
           /\ refcnt' = [refcnt EXCEPT ![cd[o]] = @ - 1]
           /\ cd' = [cd EXCEPT ![o] = NULL]
           /\ UNCHANGED <<state, ldr, victim, region, cd_cdev, cdev_map, alive,
                        kref, i_cdev, node, new, f_op>>
        \/ /\ Goto(o, "owner_put", "idle") /\ f_op[o] = NULL
           /\ refcnt' = [refcnt EXCEPT ![cd[o]] = @ - 1]
           /\ cd' = [cd EXCEPT ![o] = NULL]
           /\ node' = [node EXCEPT ![o] = NULL]
           /\ UNCHANGED <<state, ldr, victim, region, cd_cdev, cdev_map, alive,
                        kref, i_cdev, new, f_op>>
    BY <1>9, <2>h, <2>g, <2>k DEF OwnerPut, modvars, devvars, openvars
  <2>2. CASE /\ Goto(o, "owner_put", "fops_put") /\ f_op[o] # NULL
            /\ refcnt' = [refcnt EXCEPT ![cd[o]] = @ - 1]
            /\ cd' = [cd EXCEPT ![o] = NULL]
            /\ UNCHANGED <<state, ldr, victim, region, cd_cdev, cdev_map, alive,
                         kref, i_cdev, node, new, f_op>>
    <3>1. TypeOK'
      BY <2>2, <1>t, <1>o, <1>p, GotoMove, <2>h DEF IInv, TypeOK, OpenerAt
    <3>2. OthersKept(o) /\ UNCHANGED <<state, ldr, victim, region, cd_cdev, cdev_map, alive>>
      BY <2>2, <1>t, <1>p, GotoMove DEF OthersKept
    <3>3. OpenerMove(o)
      BY <2>2, <1>t, <1>o, <1>p, GotoMove, <2>h DEF OpenerMove, Closes, Walks, Counts, OpenerAt
    <3> QED BY <3>1, <3>2, <3>3
  <2>3. CASE /\ Goto(o, "owner_put", "idle") /\ f_op[o] = NULL
            /\ refcnt' = [refcnt EXCEPT ![cd[o]] = @ - 1]
            /\ cd' = [cd EXCEPT ![o] = NULL]
            /\ node' = [node EXCEPT ![o] = NULL]
            /\ UNCHANGED <<state, ldr, victim, region, cd_cdev, cdev_map, alive,
                         kref, i_cdev, new, f_op>>
    <3>1. TypeOK'
      BY <2>3, <1>t, <1>o, <1>p, GotoMove, <2>h DEF IInv, TypeOK, OpenerAt
    <3>2. OthersKept(o) /\ UNCHANGED <<state, ldr, victim, region, cd_cdev, cdev_map, alive>>
      BY <2>3, <1>t, <1>p, GotoMove DEF OthersKept
    <3>3. OpenerMove(o)
      BY <2>3, <1>t, <1>o, <1>p, GotoMove, <2>h DEF OpenerMove, Closes, Walks, Counts, OpenerAt
    <3> QED BY <3>1, <3>2, <3>3
  <2> QED BY <2>1, <2>2, <2>3
<1>10. CASE FopsPut(o)
  <2>h. opc[o] = "fops_put" /\ f_op[o] \in Drivers
    BY <1>10, <1>t, <1>o DEF FopsPut, Goto, OpenerAt
  <2>g. state[f_op[o]] \in {"COMING", "LIVE"} /\ Mapped(f_op[o]) /\ refcnt[f_op[o]] > 0
    BY <2>h, Held
  <2>k. refcnt' = [refcnt EXCEPT ![f_op[o]] = @ - 1]
    BY <1>10, <1>t, <2>h, <2>g DEF FopsPut, module_put
  <2>1. /\ Goto(o, "fops_put", "idle")
        /\ refcnt' = [refcnt EXCEPT ![f_op[o]] = @ - 1]
        /\ f_op' = [f_op EXCEPT ![o] = NULL]
        /\ node' = [node EXCEPT ![o] = NULL]
        /\ UNCHANGED <<state, ldr, victim, region, cd_cdev, cdev_map, alive,
                     kref, i_cdev, cd, new>>
    BY <1>10, <2>h, <2>g, <2>k DEF FopsPut, modvars, devvars, openvars
  <2>2. TypeOK'
    BY <2>1, <1>t, <1>o, <1>p, GotoMove, <2>h DEF IInv, TypeOK, OpenerAt
  <2>3. OthersKept(o) /\ UNCHANGED <<state, ldr, victim, region, cd_cdev, cdev_map, alive>>
    BY <2>1, <1>t, <1>p, GotoMove DEF OthersKept
  <2>4. OpenerMove(o)
    BY <2>1, <1>t, <1>o, <1>p, GotoMove, <2>h DEF OpenerMove, Closes, Walks, Counts, OpenerAt
  <2> QED BY <2>2, <2>3, <2>4
<1> QED
  BY <1>1, <1>2, <1>3, <1>4, <1>5, <1>6, <1>7, <1>8, <1>9, <1>10 DEF OpenerStep

(* A move changes the counts by what it changes in hand, and leaves the    *)
(* opener with what its place says and only with references to what is     *)
(* loaded and mapped.                                                      *)
LEMMA OpenerEffect ==
  ASSUME IInv, TypeOK', NEW o \in Openers, OpenerMove(o), OthersKept(o),
         UNCHANGED <<state, ldr, victim, region, cd_cdev, cdev_map, alive>>
  PROVE  /\ \A d \in Drivers :
              /\ refcnt'[d] = refcnt[d] + RefOf(cd'[o], new'[o], f_op'[o], d) - RefOf(cd[o], new[o], f_op[o], d)
              /\ kref'[d] = kref[d] + KrefOf(cd'[o], new'[o], opc'[o], d) - KrefOf(cd[o], new[o], opc[o], d)
         /\ OpenerAt(o)'
         /\ \A d \in Drivers : PinAt(o, d)'
<1>t. /\ refcnt \in [Drivers -> Int] /\ kref \in [Drivers -> Int]
      /\ i_cdev \in [Nodes -> Drivers \cup {NULL}]
      /\ opc[o] \in OpenPC /\ node[o] \in Nodes \cup {NULL}
      /\ cd[o] \in Drivers \cup {NULL} /\ new[o] \in Drivers \cup {NULL} /\ f_op[o] \in Drivers \cup {NULL}
      /\ NULL \notin Drivers /\ NULL \notin Nodes
  BY DEF IInv, TypeOK
<1>o. OpenerAt(o)
  BY DEF IInv
<1>p. \A d \in Drivers : d \in {cd[o], new[o], f_op[o]} => state[d] \in {"COMING", "LIVE"} /\ Mapped(d)
  BY DEF IInv, PinAt
<1>n. \A n \in Nodes : i_cdev[n] # NULL => MajorOf[i_cdev[n]] = NodeMajor[n]
  BY DEF IInv, NodeAt
<1>1. CASE Searches(o) /\ i_cdev' = i_cdev
  <2>1. \A d \in Drivers :
          refcnt'[d] = refcnt[d] + RefOf(cd'[o], new'[o], f_op'[o], d) - RefOf(cd[o], new[o], f_op[o], d)
    BY <1>1, <1>t, <1>o DEF Searches, Usable, Walks, Counts, RefOf, Ind, OpenerAt
  <2>2. \A d \in Drivers :
          kref'[d] = kref[d] + KrefOf(cd'[o], new'[o], opc'[o], d) - KrefOf(cd[o], new[o], opc[o], d)
    BY <1>1, <1>t, <1>o DEF Searches, Usable, Walks, Counts, KrefOf, Ind, OpenerAt
  <2>3. OpenerAt(o)'
    BY <1>1, <1>t, <1>o, <1>n DEF Searches, Usable, Walks, OpenerAt
  <2>4. \A d \in Drivers : PinAt(o, d)'
    BY <1>1, <1>t, <1>o, <1>p, ZenonT(60) DEF Searches, Usable, Walks, PinAt, Mapped, OpenerAt
  <2> QED BY <2>1, <2>2, <2>3, <2>4
<1>2. CASE Settles(o) /\ i_cdev' = i_cdev
  <2>1. \A d \in Drivers :
          refcnt'[d] = refcnt[d] + RefOf(cd'[o], new'[o], f_op'[o], d) - RefOf(cd[o], new[o], f_op[o], d)
    BY <1>2, <1>t, <1>o DEF Settles, Walks, Counts, RefOf, Ind, OpenerAt
  <2>2. \A d \in Drivers :
          kref'[d] = kref[d] + KrefOf(cd'[o], new'[o], opc'[o], d) - KrefOf(cd[o], new[o], opc[o], d)
    BY <1>2, <1>t, <1>o DEF Settles, Walks, Counts, KrefOf, Ind, OpenerAt
  <2>3. OpenerAt(o)'
    BY <1>2, <1>t, <1>o, <1>n DEF Settles, Walks, OpenerAt
  <2>4. \A d \in Drivers : PinAt(o, d)'
    BY <1>2, <1>t, <1>o, <1>p, ZenonT(60) DEF Settles, Usable, Walks, PinAt, Mapped, OpenerAt
  <2> QED BY <2>1, <2>2, <2>3, <2>4
<1>3. CASE Closes(o) /\ i_cdev' = i_cdev
  <2>1. \A d \in Drivers :
          refcnt'[d] = refcnt[d] + RefOf(cd'[o], new'[o], f_op'[o], d) - RefOf(cd[o], new[o], f_op[o], d)
    BY <1>3, <1>t, <1>o DEF Closes, Walks, Counts, RefOf, Ind, OpenerAt
  <2>2. \A d \in Drivers :
          kref'[d] = kref[d] + KrefOf(cd'[o], new'[o], opc'[o], d) - KrefOf(cd[o], new[o], opc[o], d)
    BY <1>3, <1>t, <1>o DEF Closes, Walks, Counts, KrefOf, Ind, OpenerAt
  <2>3. OpenerAt(o)'
    BY <1>3, <1>t, <1>o, <1>n DEF Closes, Walks, OpenerAt
  <2>4. \A d \in Drivers : PinAt(o, d)'
    BY <1>3, <1>t, <1>o, <1>p, ZenonT(60) DEF Closes, Usable, Walks, PinAt, Mapped, OpenerAt
  <2> QED BY <2>1, <2>2, <2>3, <2>4
<1>4. CASE Installs(o)
  <2>1. \A d \in Drivers :
          refcnt'[d] = refcnt[d] + RefOf(cd'[o], new'[o], f_op'[o], d) - RefOf(cd[o], new[o], f_op[o], d)
    BY <1>4, <1>t, <1>o DEF Installs, Walks, Counts, RefOf, Ind, OpenerAt
  <2>2. \A d \in Drivers :
          kref'[d] = kref[d] + KrefOf(cd'[o], new'[o], opc'[o], d) - KrefOf(cd[o], new[o], opc[o], d)
    BY <1>4, <1>t, <1>o DEF Installs, Walks, Counts, KrefOf, Ind, OpenerAt
  <2>3. OpenerAt(o)'
    BY <1>4, <1>t, <1>o, <1>n DEF Installs, Walks, OpenerAt
  <2>4. \A d \in Drivers : PinAt(o, d)'
    BY <1>4, <1>t, <1>o, <1>p DEF Installs, Usable, Walks, PinAt, Mapped, OpenerAt
  <2> QED BY <2>1, <2>2, <2>3, <2>4
<1> QED BY <1>1, <1>2, <1>3, <1>4 DEF OpenerMove

(* The invariant is kept by a step of open() or close(). *)
LEMMA OpenerKeeps ==
  ASSUME IInv, NEW o \in Openers, OpenerStep(o)
  PROVE  IInv'
<1>1. /\ TypeOK' /\ OpenerMove(o) /\ OthersKept(o)
      /\ UNCHANGED <<state, ldr, victim, region, cd_cdev, cdev_map, alive>>
  BY OpenerMoves
<1>2. /\ \A d \in Drivers :
           /\ refcnt'[d] = refcnt[d] + RefOf(cd'[o], new'[o], f_op'[o], d) - RefOf(cd[o], new[o], f_op[o], d)
           /\ kref'[d] = kref[d] + KrefOf(cd'[o], new'[o], opc'[o], d) - KrefOf(cd[o], new[o], opc[o], d)
      /\ OpenerAt(o)'
      /\ \A d \in Drivers : PinAt(o, d)'
  BY <1>1, OpenerEffect
<1>3. \A d \in Drivers : DriverAt(d)'
  BY <1>1 DEF IInv, DriverAt, Mapped
<1>i. /\ \A n \in Nodes : i_cdev[n] # NULL => i_cdev'[n] = i_cdev[n]
      /\ \A n \in Nodes : i_cdev'[n] # i_cdev[n] =>
           /\ i_cdev'[n] \in Drivers /\ Mapped(i_cdev'[n]) /\ MajorOf[i_cdev'[n]] = NodeMajor[n]
  <2>1. CASE i_cdev' = i_cdev
    BY <2>1
  <2>2. CASE Installs(o)
    <3>1. /\ opc[o] = "install" /\ i_cdev[node[o]] = NULL /\ i_cdev' = [i_cdev EXCEPT ![node[o]] = new[o]]
          /\ i_cdev \in [Nodes -> Drivers \cup {NULL}]
      BY <2>2 DEF Installs, Walks, IInv, TypeOK
    <3>2. node[o] \in Nodes /\ new[o] \in Drivers /\ MajorOf[new[o]] = NodeMajor[node[o]]
      BY <3>1 DEF IInv, OpenerAt, TypeOK
    <3>3. Mapped(new[o])
      BY <3>2 DEF IInv, PinAt
    <3> QED BY <3>1, <3>2, <3>3
  <2> QED BY <1>1, <2>1, <2>2 DEF OpenerMove
<1>4. \A u \in Openers : OpenerAt(u)'
  <2> SUFFICES ASSUME NEW u \in Openers \ {o} PROVE OpenerAt(u)'
    BY <1>2
  <2>1. /\ opc'[u] = opc[u] /\ node'[u] = node[u] /\ cd'[u] = cd[u] /\ new'[u] = new[u] /\ f_op'[u] = f_op[u]
    BY <1>1 DEF OthersKept
  <2>2. OpenerAt(u) /\ opc[u] \in OpenPC
    BY DEF IInv, TypeOK
  <2>3. cd[u] # NULL /\ opc[u] \notin {"cdev_put", "owner_put"} => i_cdev'[node[u]] = cd[u]
    <3>1. cd[u] # NULL => opc[u] # "idle"
      BY <2>2 DEF OpenerAt
    <3> QED BY <2>2, <1>i, <3>1 DEF OpenerAt
  <2> QED BY <2>1, <2>2, <2>3 DEF OpenerAt
<1>5. \A u \in Openers, d \in Drivers : PinAt(u, d)'
  <2> SUFFICES ASSUME NEW u \in Openers \ {o}, NEW d \in Drivers PROVE PinAt(u, d)'
    BY <1>2
  <2>1. PinAt(u, d)
    BY DEF IInv
  <2> QED BY <1>1, <2>1 DEF OthersKept, PinAt, Mapped
<1>6. \A n \in Nodes : NodeAt(n)'
  <2> SUFFICES ASSUME NEW n \in Nodes PROVE NodeAt(n)'
    OBVIOUS
  <2>1. CASE i_cdev'[n] = i_cdev[n]
    BY <1>1, <2>1 DEF IInv, NodeAt
  <2>2. CASE i_cdev'[n] # i_cdev[n]
    BY <1>1, <1>i, <2>2 DEF IInv, NodeAt, DriverAt
  <2> QED BY <2>1, <2>2
<1>7. (\A e \in Drivers : RefsAt(e))'
  <2> SUFFICES ASSUME NEW d \in Drivers, state[d] \in {"COMING", "LIVE"}
               PROVE  refcnt'[d] = Base(d)' + Refs(d)'
    BY <1>1 DEF RefsAt
  <2>1. refcnt[d] = Base(d) + Refs(d)
    BY RefsExactAt DEF IInv, RefsAt
  <2>2. Base(d)' = Base(d) /\ Base(d) \in Int
    BY <1>1 DEF Base
  <2>3. /\ Refs(d) \in Int
        /\ Refs(d)' = Refs(d) + RefOf(cd'[o], new'[o], f_op'[o], d) - RefOf(cd[o], new[o], f_op[o], d)
    BY <1>1, RefsMove DEF IInv
  <2>4. RefOf(cd'[o], new'[o], f_op'[o], d) \in Int /\ RefOf(cd[o], new[o], f_op[o], d) \in Int
    BY DEF RefOf, Ind
  <2> QED BY <1>2, <2>1, <2>2, <2>3, <2>4
<1>8. \A d \in Drivers : KrefAt(d)'
  <2> SUFFICES ASSUME NEW d \in Drivers PROVE KrefAt(d)'
    OBVIOUS
  <2> DEFINE own == IF Mapped(d) \/ ldr[d] = "put_cdev" THEN 1 ELSE 0
  <2>1. kref[d] = own + Krefs(d)
    BY DEF IInv, KrefAt, Krefs
  <2>2. own' = own /\ own \in Int
    BY <1>1 DEF Mapped
  <2>3. /\ Krefs(d) \in Int
        /\ Krefs(d)' = Krefs(d) + KrefOf(cd'[o], new'[o], opc'[o], d) - KrefOf(cd[o], new[o], opc[o], d)
    BY <1>1, RefsMove DEF IInv
  <2>4. KrefOf(cd'[o], new'[o], opc'[o], d) \in Int /\ KrefOf(cd[o], new[o], opc[o], d) \in Int
    BY DEF KrefOf, Ind
  <2>5. kref'[d] = own' + Krefs(d)'
    <3> HIDE DEF own
    <3> QED BY <1>2, <2>1, <2>2, <2>3, <2>4
  <2> QED BY <2>5 DEF KrefAt, Krefs
<1>9. RefsExact'
  BY <1>7, RefsExactNext
<1> QED BY <1>1, <1>3, <1>4, <1>5, <1>6, <1>8, <1>9 DEF IInv

----------------------------------------------------------------------------

NoUsers(d) == \A o \in Openers : d \notin {cd[o], new[o], f_op[o]}

(* A driver without users has no references from them, and conversely. *)
LEMMA NoUsersCount ==
  ASSUME NEW d \in Drivers
  PROVE  /\ Refs(d) \in Nat /\ Krefs(d) \in Nat
         /\ NoUsers(d) <=> Refs(d) = 0
         /\ NoUsers(d) => Krefs(d) = 0
<1>1. /\ CdRefs(d) \in SUBSET Openers /\ NewRefs(d) \in SUBSET Openers /\ FopRefs(d) \in SUBSET Openers
      /\ CdKrefs(d) \in SUBSET Openers /\ NewKrefs(d) \in SUBSET Openers
  BY DEF CdRefs, NewRefs, FopRefs, CdKrefs, NewKrefs
<1>2. NoUsers(d) => CdKrefs(d) = {} /\ NewKrefs(d) = {}
  BY DEF NoUsers, CdKrefs, NewKrefs
<1>3. NoUsers(d) <=> CdRefs(d) = {} /\ NewRefs(d) = {} /\ FopRefs(d) = {}
  BY DEF NoUsers, CdRefs, NewRefs, FopRefs
<1>4. \A S \in SUBSET Openers : Cardinality(S) \in Nat /\ (S = {} <=> Cardinality(S) = 0)
  BY CardPos, FS_EmptySet
<1>5. /\ Cardinality(CdRefs(d)) \in Nat /\ (CdRefs(d) = {} <=> Cardinality(CdRefs(d)) = 0)
      /\ Cardinality(NewRefs(d)) \in Nat /\ (NewRefs(d) = {} <=> Cardinality(NewRefs(d)) = 0)
      /\ Cardinality(FopRefs(d)) \in Nat /\ (FopRefs(d) = {} <=> Cardinality(FopRefs(d)) = 0)
      /\ Cardinality(CdKrefs(d)) \in Nat /\ (CdKrefs(d) = {} <=> Cardinality(CdKrefs(d)) = 0)
      /\ Cardinality(NewKrefs(d)) \in Nat /\ (NewKrefs(d) = {} <=> Cardinality(NewKrefs(d)) = 0)
  BY <1>1, <1>4
<1>6. NoUsers(d) <=> Refs(d) = 0
  <2>1. \A a, b, c \in Nat : a + b + c = 0 <=> a = 0 /\ b = 0 /\ c = 0
    OBVIOUS
  <2>2. Refs(d) = 0 <=> /\ Cardinality(CdRefs(d)) = 0 /\ Cardinality(NewRefs(d)) = 0
                        /\ Cardinality(FopRefs(d)) = 0
    BY <1>5, <2>1 DEF Refs
  <2> QED BY <1>3, <1>5, <2>2
<1>7. NoUsers(d) => Krefs(d) = 0
  BY <1>2, <1>5 DEF Krefs
<1>8. Refs(d) \in Nat /\ Krefs(d) \in Nat
  BY <1>5 DEF Refs, Krefs
<1> QED BY <1>6, <1>7, <1>8

(* A driver that is not loaded or not mapped has no users. *)
LEMMA GoneUnused ==
  ASSUME IInv, NEW d \in Drivers, state[d] \notin {"COMING", "LIVE"} \/ ~Mapped(d)
  PROVE  NoUsers(d)
BY DEF IInv, PinAt, NoUsers

(* What the counts say where rmmod looks at them *)
LEMMA DriverCounts ==
  ASSUME IInv, NEW d \in Drivers
  PROVE  /\ ldr[d] = "put_cdev" => kref[d] = 1
         /\ ldr[d] = "put_init" => refcnt[d] > 0
         /\ ldr[d] = "loaded" /\ refcnt[d] = 1 => NoUsers(d)
         /\ ldr[d] = "recover" /\ refcnt[d] = 0 => NoUsers(d)
<1>1. DriverAt(d) /\ KrefAt(d) /\ RefsAt(d)
  BY RefsExactAt DEF IInv
<1>2. /\ Refs(d) \in Nat /\ Krefs(d) \in Nat
      /\ NoUsers(d) <=> Refs(d) = 0
      /\ NoUsers(d) => Krefs(d) = 0
  BY NoUsersCount
<1>3. ldr[d] = "put_cdev" => kref[d] = 1
  <2> HAVE ldr[d] = "put_cdev"
  <2>1. ~Mapped(d)
    BY <1>1 DEF DriverAt
  <2>2. NoUsers(d)
    BY <2>1, GoneUnused
  <2> QED BY <1>1, <1>2, <2>2 DEF KrefAt, Krefs
<1>4. ldr[d] \in {"put_init", "loaded", "recover"} => state[d] = "LIVE" /\ refcnt[d] = Base(d) + Refs(d)
  BY <1>1 DEF DriverAt, LivePC, RefsAt
<1> QED BY <1>2, <1>3, <1>4 DEF Base

(* What a step of insmod or rmmod leaves of the driver itself. *)
LEMMA DriverEffect ==
  ASSUME IInv, TypeOK', NEW d \in Drivers, DriverMove(d), openvars' = openvars
  PROVE  /\ DriverAt(d)'
         /\ NoUsers(d) \/ (state'[d] \in {"COMING", "LIVE"} /\ Mapped(d)')
         /\ RefsAt(d)'
         /\ KrefAt(d)'
         /\ \A n \in Nodes : i_cdev'[n] = i_cdev[n] \/ (i_cdev[n] = d /\ i_cdev'[n] = NULL)
         /\ ~alive'[d] => ~alive[d] \/ \A n \in Nodes : i_cdev'[n] # d
         /\ \A n \in Nodes : i_cdev'[n] # i_cdev[n] => NoUsers(d)
<1>1. DriverAt(d) /\ KrefAt(d) /\ RefsAt(d)
  BY RefsExactAt DEF IInv
<1>2. /\ Refs(d) \in Nat /\ Krefs(d) \in Nat
      /\ NoUsers(d) <=> Refs(d) = 0
      /\ NoUsers(d) => Krefs(d) = 0
  BY NoUsersCount
<1>3. /\ ldr[d] = "put_cdev" => kref[d] = 1
      /\ ldr[d] = "put_init" => refcnt[d] > 0
      /\ ldr[d] = "loaded" /\ refcnt[d] = 1 => NoUsers(d)
      /\ ldr[d] = "recover" /\ refcnt[d] = 0 => NoUsers(d)
  BY DriverCounts
<1>4. state[d] \notin {"COMING", "LIVE"} \/ ~Mapped(d) => NoUsers(d)
  BY GoneUnused
<1>5. Refs(d)' = Refs(d) /\ Krefs(d)' = Krefs(d)
  BY DEF openvars, Refs, Krefs, CdRefs, NewRefs, FopRefs, CdKrefs, NewKrefs
<1>t. refcnt[d] \in Int /\ kref[d] \in Int /\ <<d>> # <<>> /\ ldr[d] \in LdrPC /\ NULL \notin Drivers
      /\ i_cdev \in [Nodes -> Drivers \cup {NULL}]
      /\ cd_cdev[d] \in BOOLEAN /\ alive[d] \in BOOLEAN
  BY OneList DEF IInv, TypeOK
<1>6. DriverAt(d)'
  BY <1>1, <1>3, <1>t, ZenonT(60) DEF DriverMove, Goes, Mod, Dev, ModKept, DevKept, DriverAt, Mapped, ComingPC, LivePC
<1>7. NoUsers(d) \/ (state'[d] \in {"COMING", "LIVE"} /\ Mapped(d)')
  BY <1>1, <1>3, <1>4, <1>t DEF DriverMove, Goes, Mod, Dev, ModKept, DevKept, DriverAt, Mapped, ComingPC, LivePC
<1>8. RefsAt(d)'
  <2> SUFFICES ASSUME state'[d] \in {"COMING", "LIVE"} PROVE refcnt'[d] = Base(d)' + Refs(d)'
    BY DEF RefsAt
  <2>1. \/ state[d] \in {"COMING", "LIVE"} /\ refcnt'[d] - Base(d)' = refcnt[d] - Base(d)
        \/ state[d] = "none" /\ refcnt'[d] = 2 /\ Base(d)' = 2
    <3>1. \/ Goes(d, "none", "register") /\ state[d] = "none" /\ Mod(d, "COMING", 2)
          \/ /\ ldr[d] \in ComingPC /\ ldr'[d] \in ComingPC
             /\ state[d] = "COMING" /\ Mod(d, "COMING", refcnt[d])
          \/ /\ ldr[d] \in ComingPC /\ ldr'[d] = "put_init"
             /\ state[d] = "COMING" /\ Mod(d, "LIVE", refcnt[d])
          \/ Goes(d, "put_init", "loaded") /\ state[d] = "LIVE" /\ Mod(d, "LIVE", refcnt[d] - 1)
          \/ Goes(d, "loaded", "recover") /\ state[d] = "LIVE" /\ Mod(d, "LIVE", refcnt[d] - 1)
          \/ Goes(d, "recover", "loaded") /\ state[d] = "LIVE" /\ Mod(d, "LIVE", refcnt[d] + 1)
      BY <1>1, <1>3, <1>t, ZenonT(60) DEF DriverMove, Goes, Mod, ModKept, DriverAt, ComingPC, LivePC
    <3> QED BY <3>1, <1>t DEF Goes, Mod, Base, ComingPC
  <2>2. Base(d) \in Int /\ Base(d)' \in Int /\ refcnt'[d] \in Int
    BY DEF Base, TypeOK
  <2>3. CASE state[d] \in {"COMING", "LIVE"} /\ refcnt'[d] - Base(d)' = refcnt[d] - Base(d)
    <3>1. refcnt[d] = Base(d) + Refs(d)
      BY <1>1, <2>3 DEF RefsAt
    <3> QED BY <3>1, <2>2, <2>3, <1>2, <1>5, <1>t
  <2>4. CASE state[d] = "none" /\ refcnt'[d] = 2 /\ Base(d)' = 2
    <3>1. Refs(d) = 0
      BY <1>2, <1>4, <2>4
    <3> QED BY <3>1, <2>4, <1>5
  <2> QED BY <2>1, <2>3, <2>4
<1>9. KrefAt(d)'
  <2> DEFINE registered == Mapped(d) \/ ldr[d] = "put_cdev"
  <2>1. \/ kref'[d] = kref[d] /\ (registered' <=> registered)
        \/ kref'[d] = 1 /\ registered' /\ ~Mapped(d)
        \/ kref'[d] = kref[d] - 1 /\ ~registered' /\ registered
    BY <1>1, <1>3, <1>t, ZenonT(60) DEF DriverMove, Goes, Mod, Dev, ModKept, DevKept, DriverAt, Mapped
  <2>2. kref[d] = (IF registered THEN 1 ELSE 0) + Krefs(d)
    BY <1>1 DEF KrefAt, Krefs
  <2>3. ~Mapped(d) => Krefs(d) = 0
    BY <1>2, <1>4
  <2> HIDE DEF registered
  <2>4. kref'[d] = (IF registered' THEN 1 ELSE 0) + Krefs(d)'
    BY <1>2, <1>5, <1>t, <2>1, <2>2, <2>3
  <2> QED BY <2>4 DEF KrefAt, Krefs, registered
<1>10. /\ \A n \in Nodes : i_cdev'[n] = i_cdev[n] \/ (i_cdev[n] = d /\ i_cdev'[n] = NULL)
       /\ ~alive'[d] => ~alive[d] \/ \A n \in Nodes : i_cdev'[n] # d
       /\ \A n \in Nodes : i_cdev'[n] # i_cdev[n] => ldr[d] = "purge"
  BY <1>1, <1>t DEF DriverMove, Goes, Mod, Dev, ModKept, DevKept, cdev_purge
<1>11. ldr[d] = "purge" => NoUsers(d)
  BY <1>1, <1>4 DEF DriverAt
<1> QED BY <1>6, <1>7, <1>8, <1>9, <1>10, <1>11

(* The invariant is kept by a step of insmod or rmmod. *)
LEMMA DriverKeeps ==
  ASSUME IInv, DistinctMajors, NEW d \in Drivers, DriverStep(d)
  PROVE  IInv'
<1>0. TypeOK /\ DriverAt(d)
  BY DEF IInv
<1>1. /\ TypeOK' /\ DriverMove(d)
      /\ openvars' = openvars
      /\ \A e \in Drivers \ {d} :
           /\ state'[e] = state[e] /\ refcnt'[e] = refcnt[e] /\ ldr'[e] = ldr[e]
           /\ victim'[e] = victim[e] /\ cd_cdev'[e] = cd_cdev[e]
           /\ kref'[e] = kref[e] /\ alive'[e] = alive[e]
           /\ region'[MajorOf[e]] = region[MajorOf[e]]
           /\ cdev_map'[MajorOf[e]] = cdev_map[MajorOf[e]]
  BY <1>0, DriverMoves
<1>2. /\ DriverAt(d)'
      /\ NoUsers(d) \/ (state'[d] \in {"COMING", "LIVE"} /\ Mapped(d)')
      /\ RefsAt(d)'
      /\ KrefAt(d)'
      /\ \A n \in Nodes : i_cdev'[n] = i_cdev[n] \/ (i_cdev[n] = d /\ i_cdev'[n] = NULL)
      /\ ~alive'[d] => ~alive[d] \/ \A n \in Nodes : i_cdev'[n] # d
      /\ \A n \in Nodes : i_cdev'[n] # i_cdev[n] => NoUsers(d)
  BY <1>1, DriverEffect
<1>o. opc' = opc /\ node' = node /\ cd' = cd /\ new' = new /\ f_op' = f_op
  BY <1>1 DEF openvars
<1>3. \A e \in Drivers : DriverAt(e)'
  <2> SUFFICES ASSUME NEW e \in Drivers \ {d} PROVE DriverAt(e)'
    BY <1>2
  <2>1. DriverAt(e)
    BY DEF IInv
  <2> QED BY <1>1, <2>1 DEF DriverAt, Mapped
<1>4. \A o \in Openers : OpenerAt(o)'
  <2> SUFFICES ASSUME NEW o \in Openers PROVE OpenerAt(o)'
    OBVIOUS
  <2>1. OpenerAt(o) /\ node[o] \in Nodes \cup {NULL} /\ opc[o] \in OpenPC /\ NULL \notin Nodes
    BY DEF IInv, TypeOK
  <2>2. cd[o] # NULL /\ opc[o] \notin {"cdev_put", "owner_put"} => i_cdev'[node[o]] = cd[o]
    <3> SUFFICES ASSUME cd[o] # NULL, opc[o] \notin {"cdev_put", "owner_put"}
                 PROVE  i_cdev'[node[o]] = cd[o]
      OBVIOUS
    <3>1. i_cdev[node[o]] = cd[o] /\ node[o] \in Nodes
      BY <2>1 DEF OpenerAt
    <3>2. cd[o] = d => ~NoUsers(d)
      BY DEF NoUsers
    <3> QED BY <1>2, <3>1, <3>2
  <2> QED BY <1>o, <2>1, <2>2 DEF OpenerAt
<1>5. \A o \in Openers, e \in Drivers : PinAt(o, e)'
  <2> SUFFICES ASSUME NEW o \in Openers, NEW e \in Drivers PROVE PinAt(o, e)'
    OBVIOUS
  <2>1. CASE e = d
    BY <1>2, <1>o, <2>1 DEF PinAt, NoUsers
  <2>2. CASE e # d
    BY <1>1, <1>o, <2>2 DEF IInv, PinAt, Mapped
  <2> QED BY <2>1, <2>2
<1>6. \A n \in Nodes : NodeAt(n)'
  <2> SUFFICES ASSUME NEW n \in Nodes, i_cdev'[n] # NULL
               PROVE  alive'[i_cdev'[n]] /\ MajorOf[i_cdev'[n]] = NodeMajor[n]
    BY DEF NodeAt
  <2>1. i_cdev'[n] = i_cdev[n]
    BY <1>2
  <2>2. alive[i_cdev[n]] /\ MajorOf[i_cdev[n]] = NodeMajor[n] /\ i_cdev[n] \in Drivers
    BY <2>1 DEF IInv, NodeAt, TypeOK
  <2>3. CASE i_cdev[n] = d
    BY <1>2, <2>1, <2>2, <2>3
  <2>4. CASE i_cdev[n] # d
    BY <1>1, <2>1, <2>2, <2>4
  <2> QED BY <2>3, <2>4
<1>7. (\A e \in Drivers : RefsAt(e))'
  <2> SUFFICES ASSUME NEW e \in Drivers \ {d} PROVE RefsAt(e)'
    BY <1>2
  <2>1. RefsAt(e)
    BY RefsExactAt DEF IInv
  <2>2. Refs(e)' = Refs(e) /\ Base(e)' = Base(e)
    BY <1>1, <1>o DEF Refs, CdRefs, NewRefs, FopRefs, Base
  <2> QED BY <1>1, <2>1, <2>2 DEF RefsAt
<1>8. \A e \in Drivers : KrefAt(e)'
  <2> SUFFICES ASSUME NEW e \in Drivers \ {d} PROVE KrefAt(e)'
    BY <1>2
  <2>1. KrefAt(e)
    BY DEF IInv
  <2>2. CdKrefs(e)' = CdKrefs(e) /\ NewKrefs(e)' = NewKrefs(e)
    BY <1>o DEF CdKrefs, NewKrefs
  <2> QED BY <1>1, <2>1, <2>2 DEF KrefAt, Mapped
<1>9. RefsExact'
  BY <1>7, RefsExactNext
<1> QED BY <1>1, <1>3, <1>4, <1>5, <1>6, <1>8, <1>9 DEF IInv

(* The invariant is kept when an unused inode leaves memory. *)
LEMMA ForgetKeeps ==
  ASSUME IInv, NEW n \in Nodes, cd_forget(n)
  PROVE  IInv'
<1>1. /\ \A o \in Openers : node[o] # n
      /\ i_cdev' = [i_cdev EXCEPT ![n] = NULL]
      /\ UNCHANGED <<state, refcnt, ldr, victim, region, cd_cdev, cdev_map, kref, alive, opc, node, cd, new, f_op>>
  BY DEF cd_forget, modvars, openvars
<1>2. TypeOK'
  BY <1>1 DEF IInv, TypeOK
<1>3. \A d \in Drivers : DriverAt(d)'
  BY <1>1, SMTT(60) DEF IInv, DriverAt, Mapped
<1>4. \A o \in Openers : OpenerAt(o)'
  <2> SUFFICES ASSUME NEW o \in Openers PROVE OpenerAt(o)'
    OBVIOUS
  <2>1. OpenerAt(o) /\ i_cdev \in [Nodes -> Drivers \cup {NULL}] /\ opc[o] \in OpenPC
    BY DEF IInv, TypeOK
  <2>2. node[o] \in Nodes => i_cdev'[node[o]] = i_cdev[node[o]]
    BY <1>1, <2>1
  <2>3. cd[o] # NULL => node[o] \in Nodes
    BY <2>1 DEF OpenerAt
  <2> QED BY <1>1, <2>1, <2>2, <2>3 DEF OpenerAt
<1>5. \A o \in Openers, d \in Drivers : PinAt(o, d)'
  BY <1>1 DEF IInv, PinAt, Mapped
<1>6. \A k \in Nodes : NodeAt(k)'
  BY <1>1 DEF IInv, NodeAt, TypeOK
<1>7. RefsExact'
  BY <1>1 DEF IInv, RefsExact
<1>8. \A d \in Drivers : KrefAt(d)'
  BY <1>1 DEF IInv, KrefAt, CdKrefs, NewKrefs, Mapped
<1> QED BY <1>2, <1>3, <1>4, <1>5, <1>6, <1>7, <1>8 DEF IInv

(* Initially nothing is loaded, open or counted. *)
LEMMA InitInv ==
  ASSUME Init
  PROVE  IInv
<1>1. TypeOK
  BY OneList, AllPlaces DEF Init, TypeOK
<1>2. \A d \in Drivers : DriverAt(d) /\ ~Mapped(d)
  BY MajorsOf, OneList DEF Init, DriverAt, Mapped, ComingPC, LivePC
<1>3. \A o \in Openers : OpenerAt(o)
  BY DEF Init, OpenerAt
<1>4. \A o \in Openers, d \in Drivers : PinAt(o, d)
  BY DEF Init, PinAt
<1>5. \A n \in Nodes : NodeAt(n)
  BY DEF Init, NodeAt
<1>6. RefsExact
  BY DEF Init, RefsExact
<1>7. \A d \in Drivers : KrefAt(d)
  <2> SUFFICES ASSUME NEW d \in Drivers PROVE KrefAt(d)
    OBVIOUS
  <2>1. NoUsers(d)
    BY DEF Init, NoUsers
  <2>2. Krefs(d) = 0
    BY <2>1, NoUsersCount
  <2> QED BY <1>2, <2>2 DEF KrefAt, Krefs, Init
<1> QED BY <1>1, <1>2, <1>3, <1>4, <1>5, <1>6, <1>7 DEF IInv

(* The invariant holds whenever the drivers' majors differ. *)
LEMMA Invariance == DistinctMajors => (Spec => []IInv)
<1> SUFFICES ASSUME DistinctMajors PROVE Spec => []IInv
  OBVIOUS
<1>1. Init => IInv
  BY InitInv
<1>2. IInv /\ [Next]_vars => IInv'
  <2> SUFFICES ASSUME IInv, [Next]_vars PROVE IInv'
    OBVIOUS
  <2>1. CASE UNCHANGED vars
    <3>1. UNCHANGED <<state, refcnt, ldr, victim, region, cd_cdev, cdev_map, kref, alive, i_cdev,
                      opc, node, cd, new, f_op>>
      BY <2>1 DEF vars, modvars, devvars, openvars
    <3>2. TypeOK'
      BY <3>1 DEF IInv, TypeOK
    <3>3. \A d \in Drivers : DriverAt(d)' /\ KrefAt(d)'
      BY <3>1 DEF IInv, DriverAt, Mapped, KrefAt, CdKrefs, NewKrefs
    <3>4. \A o \in Openers : OpenerAt(o)'
      BY <3>1 DEF IInv, OpenerAt
    <3>5. \A o \in Openers, d \in Drivers : PinAt(o, d)'
      BY <3>1 DEF IInv, PinAt, Mapped
    <3>6. \A n \in Nodes : NodeAt(n)'
      BY <3>1 DEF IInv, NodeAt
    <3>7. RefsExact'
      BY <3>1 DEF IInv, RefsExact
    <3> QED BY <3>2, <3>3, <3>4, <3>5, <3>6, <3>7 DEF IInv
  <2>2. ASSUME NEW d \in Drivers, DriverStep(d) PROVE IInv'
    BY <2>2, DriverKeeps
  <2>3. ASSUME NEW o \in Openers, OpenerStep(o) PROVE IInv'
    BY <2>3, OpenerKeeps
  <2>4. ASSUME NEW n \in Nodes, cd_forget(n) PROVE IInv'
    BY <2>4, ForgetKeeps
  <2> QED BY <2>1, <2>2, <2>3, <2>4, NextCases
<1> QED BY <1>1, <1>2, PTL DEF Spec

----------------------------------------------------------------------------

(* insmod, rmmod, open() and close() keep every variable of the device     *)
(* layer in its type: the counts are numbers, the caches and the map name  *)
(* drivers or nothing.                                                     *)
THEOREM TypeCorrect == DistinctMajors => (Spec => []TypeOK)
<1>1. IInv => TypeOK
  BY DEF IInv
<1> QED BY <1>1, Invariance, PTL

(* try_module_get() and module_put() keep the reference count of a module  *)
(* exact through every open(), close(), insmod and rmmod under way.        *)
THEOREM RefsCorrect == DistinctMajors => (Spec => []RefsExact)
<1>1. IInv => RefsExact
  BY DEF IInv
<1> QED BY <1>1, Invariance, PTL

(* The exit function does not run while a file or an open() or close()     *)
(* under way has a reference to the module.                                *)
THEOREM PinCorrect == DistinctMajors => (Spec => []ModulePinned)
<1>1. IInv => ModulePinned
  BY DEF IInv, PinAt, ModulePinned, Users
<1> QED BY <1>1, Invariance, PTL

(* No inode, map entry, open(), close() or rmmod leads to a freed cdev. *)
THEOREM CdevsCorrect == DistinctMajors => (Spec => []NoDanglingCdev)
<1>1. IInv => NoDanglingCdev
  <2> SUFFICES ASSUME IInv PROVE NoDanglingCdev
    OBVIOUS
  <2>1. \A n \in Nodes : i_cdev[n] # NULL => alive[i_cdev[n]]
    BY DEF IInv, NodeAt
  <2>2. \A m \in Majors : \A c \in ToSet(cdev_map[m]) : alive[c]
    <3> SUFFICES ASSUME NEW d \in Drivers, NEW c \in ToSet(cdev_map[MajorOf[d]]) PROVE alive[c]
      BY DEF Majors
    <3>1. DriverAt(d)
      BY DEF IInv
    <3>2. cdev_map[MajorOf[d]] = <<d>> /\ c = d
      BY <3>1, OneList DEF DriverAt
    <3> QED BY <3>1, <3>2 DEF DriverAt, Mapped
  <2>3. \A o \in Openers : /\ new[o] # NULL => alive[new[o]]
                           /\ cd[o] # NULL => alive[cd[o]]
    <3> SUFFICES ASSUME NEW o \in Openers, NEW d \in Drivers, d \in {new[o], cd[o]} PROVE alive[d]
      BY DEF IInv, TypeOK
    <3> QED BY DEF IInv, PinAt, DriverAt
  <2>4. \A d \in Drivers : ldr[d] \in {"unmap", "put_cdev", "purge"} => alive[victim[d]]
    BY DEF IInv, DriverAt
  <2> QED BY <2>1, <2>2, <2>3, <2>4 DEF NoDanglingCdev
<1> QED BY <1>1, Invariance, PTL

(* While a driver is loaded, registered and not found unused, an open() of *)
(* its nodes gets it, from the map or from what the inode caches.          *)
THEOREM OpenCorrect == DistinctMajors => (Spec => []OpenSucceeds)
<1> SUFFICES ASSUME DistinctMajors PROVE Spec => []OpenSucceeds
  OBVIOUS
<1>1. IInv => OpenSucceeds
  <2> SUFFICES ASSUME IInv, NEW d \in Drivers, region[MajorOf[d]] = d,
                      ldr[d] = "loaded" \/ (ldr[d] = "recover" /\ Users(d) # {})
               PROVE  /\ try_module_get(d)
                      /\ cdev_map[MajorOf[d]] = <<d>>
                      /\ \A n \in Nodes : NodeMajor[n] = MajorOf[d] => i_cdev[n] \in {NULL, d}
    BY DEF OpenSucceeds
  <2>1. state[d] = "LIVE" /\ Mapped(d)
    BY DEF IInv, DriverAt, LivePC
  <2>2. refcnt[d] > 0
    <3>1. refcnt[d] = Base(d) + Refs(d)
      BY <2>1, RefsExactAt DEF IInv, RefsAt
    <3>2. Refs(d) \in Nat /\ (NoUsers(d) <=> Refs(d) = 0)
      BY NoUsersCount
    <3>3. Users(d) # {} => ~NoUsers(d)
      BY DEF Users, NoUsers
    <3> QED BY <3>1, <3>2, <3>3, <2>1 DEF Base
  <2>3. \A n \in Nodes : NodeMajor[n] = MajorOf[d] => i_cdev[n] \in {NULL, d}
    BY DEF IInv, NodeAt, DistinctMajors, TypeOK
  <2> QED BY <2>1, <2>2, <2>3 DEF try_module_get, Mapped
<1> QED BY <1>1, Invariance, PTL

----------------------------------------------------------------------------
(* The viewer FileView on the device of Dram *)

(* What the buffer holds when its last `left' bytes were not read. *)
Filled(left) ==
  \A j \in 0..(BUFSIZE - 1) :
    buffer[j] = IF j < BUFSIZE - left THEN position + j ELSE FILL

(* Nothing is left to read: the buffer is full or the memory ends. *)
ReadAll == to_read = 0 \/ f_pos >= dram_size

ViewTypes ==
  /\ pc \in {"draw", "read", "key", "done"}
  /\ position \in 0..posmax
  /\ pageincr \in Nat
  /\ DOMAIN buffer = 0..(BUFSIZE - 1)

(* The reads so far have filled the buffer from its start without a gap,   *)
(* and the file position is that of the next byte.                         *)
ViewInv ==
  /\ ViewTypes
  /\ pc \in {"read", "key"} =>
       /\ to_read \in 0..BUFSIZE
       /\ f_pos = position + (BUFSIZE - to_read)
       /\ Filled(to_read)
  /\ pc = "read" => to_read > 0
  /\ pc = "key" => ReadAll

(* The product of the window's sides is at least its width. *)
LEMMA WindowSize ==
  BUFSIZE \in Nat /\ BUFSIZE >= BUFWIDE /\ BUFWIDE > 0
<1>1. BUFWIDE \in Nat /\ BUFHIGH \in Nat /\ BUFWIDE >= 1 /\ BUFHIGH >= 1
  BY FileViewAssumption
<1>2. \A w, h \in Nat : h >= 1 => w * h \in Nat /\ w * h >= w
  OBVIOUS
<1> QED BY <1>1, <1>2 DEF BUFSIZE

(* lseek() to the end, by which main() learns the size of the memory *)
LEMMA FileSize ==
  filesize = dram_size /\ dram_size \in Nat
BY DramSizeAssumption DEF filesize, my_llseek

(* The last position is in the memory, and less than a window before its   *)
(* end.                                                                    *)
LEMMA LastPosition ==
  /\ posmax \in Nat /\ posmax <= dram_size
  /\ dram_size > 0 => posmax < dram_size /\ dram_size - posmax <= BUFSIZE
<1> DEFINE x == dram_size - (BUFSIZE - BUFWIDE + 1)
<1>1. x \in Int /\ BUFWIDE \in Nat /\ BUFWIDE > 0 /\ x % BUFWIDE \in 0..(BUFWIDE - 1)
  BY WindowSize, FileSize, FileViewAssumption
<1>2. posmax = IF x - (x % BUFWIDE) < 0 THEN 0 ELSE x - (x % BUFWIDE)
  BY FileSize DEF posmax, posmin, Align
<1>3. CASE x >= 0
  <2>1. x - (x % BUFWIDE) >= 0
    <3>1. x % BUFWIDE <= x
      BY <1>1, <1>3
    <3> QED BY <1>1, <3>1
  <2> QED BY <1>1, <1>2, <1>3, <2>1, WindowSize, FileSize
<1>4. CASE x < 0
  BY <1>1, <1>2, <1>4, WindowSize, FileSize
<1> QED BY <1>1, <1>3, <1>4

(* A position in bounds stays so. *)
LEMMA ClampBounds ==
  ASSUME NEW p \in Int
  PROVE  Clamp(p) \in 0..posmax
BY LastPosition DEF Clamp, posmin

(* The page increment stays a number. *)
LEMMA BoundedIncrNat ==
  ASSUME NEW i \in Nat
  PROVE  BoundedIncr(i) \in Nat
BY FileViewAssumption DEF BoundedIncr

(* A read() gives nothing at the end of the memory, and before it at least *)
(* one byte and not more than it was asked for.                            *)
LEMMA ReadCount ==
  ASSUME NEW pos \in Nat, NEW count \in Nat, count > 0
  PROVE  /\ my_read_count(pos, count) \in 0..count
         /\ my_read_count(pos, count) = 0 <=> pos >= dram_size
<1>1. PAGE_SIZE \in Nat /\ PAGE_SIZE > 0 /\ pos % PAGE_SIZE \in 0..(PAGE_SIZE - 1)
  BY PageSizeAssumption
<1> QED BY <1>1, FileSize DEF my_read_count

(* A move of the window keeps the invariant. *)
LEMMA MoveStep ==
  ASSUME ViewInv, NEW p \in Int, MoveTo(p)
  PROVE  ViewInv'
<1>1. position' \in 0..posmax
  BY ClampBounds DEF MoveTo
<1> QED BY <1>1 DEF ViewInv, ViewTypes, MoveTo

(* A read() of part of what is missing goes on where the last one ended;   *)
(* one that gives nothing has come to the end of the memory.               *)
LEMMA ReadStep ==
  ASSUME ViewInv, Read
  PROVE  ViewInv'
<1> DEFINE n == my_read_count(f_pos, to_read)
           where == BUFSIZE - to_read
<1>1. /\ position \in Nat /\ to_read \in 1..BUFSIZE /\ BUFSIZE \in Nat
      /\ f_pos = position + where /\ f_pos \in Nat /\ Filled(to_read)
  BY WindowSize, LastPosition DEF ViewInv, ViewTypes, Read
<1>2. n \in 0..to_read /\ (n = 0 <=> f_pos >= dram_size)
  BY <1>1, ReadCount
<1>3. /\ f_pos' = f_pos + n /\ to_read' = to_read - n /\ position' = position
      /\ pageincr' = pageincr
      /\ pc' = IF n <= 0 \/ to_read' = 0 THEN "key" ELSE "read"
      /\ buffer' = [j \in DOMAIN buffer |->
                      IF j \in where..(where + n - 1) THEN f_pos + (j - where) ELSE buffer[j]]
  BY DEF Read
<1> HIDE DEF n
<1>4. ViewTypes'
  BY <1>3 DEF ViewInv, ViewTypes
<1>5. to_read' \in 0..BUFSIZE /\ f_pos' = position' + (BUFSIZE - to_read')
  BY <1>1, <1>2, <1>3
<1>6. Filled(to_read)'
  <2> SUFFICES ASSUME NEW j \in 0..(BUFSIZE - 1)
               PROVE  buffer'[j] = IF j < BUFSIZE - to_read' THEN position' + j ELSE FILL
    BY DEF Filled
  <2>1. buffer'[j] = IF j \in where..(where + n - 1) THEN f_pos + (j - where) ELSE buffer[j]
    BY <1>3 DEF ViewInv, ViewTypes
  <2>2. buffer[j] = IF j < where THEN position + j ELSE FILL
    BY <1>1 DEF Filled
  <2> QED BY <1>1, <1>2, <1>3, <2>1, <2>2
<1>7. /\ pc' = "read" => to_read' > 0
      /\ pc' = "key" => ReadAll'
  <2>1. CASE n = 0
    BY <1>1, <1>2, <1>3, <2>1, FileSize DEF ReadAll
  <2>2. CASE n # 0
    BY <1>1, <1>2, <1>3, <2>2 DEF ReadAll
  <2> QED BY <2>1, <2>2
<1> QED BY <1>4, <1>5, <1>6, <1>7 DEF ViewInv

(* The main loop erases the buffer and seeks to the window. *)
LEMMA DrawStep ==
  ASSUME ViewInv, Draw
  PROVE  ViewInv'
<1>1. position \in Nat /\ position <= dram_size /\ BUFSIZE \in Nat /\ BUFSIZE > 0
      /\ dram_size \in Nat
  BY WindowSize, LastPosition, FileSize, FileViewAssumption DEF ViewInv, ViewTypes
<1>2. f_pos' = position /\ to_read' = BUFSIZE /\ position' = position /\ pc' = "read"
      /\ buffer' = [j \in 0..(BUFSIZE - 1) |-> FILL]
  BY <1>1 DEF Draw, my_llseek, Erased
<1>3. pageincr' \in Nat
  BY BoundedIncrNat DEF ViewInv, ViewTypes, Draw
<1>4. ViewTypes'
  BY <1>2, <1>3 DEF ViewInv, ViewTypes
<1>5. Filled(to_read)'
  BY <1>1, <1>2 DEF Filled
<1> QED BY <1>1, <1>2, <1>4, <1>5 DEF ViewInv

(* The invariant holds at first and every key and every read() keep it. *)
LEMMA ViewInductive ==
  /\ ViewInit => ViewInv
  /\ ViewInv /\ [ViewNext]_view_vars => ViewInv'
<1>1. ViewInit => ViewInv
  BY LastPosition, FileViewAssumption DEF ViewInit, ViewInv, ViewTypes, Erased
<1>2. ASSUME ViewInv, ViewNext PROVE ViewInv'
  <2>t. /\ position \in Int /\ pageincr \in Int /\ posmax \in Int /\ BUFWIDE \in Nat \ {0}
        /\ Factor \in Nat \ {0, 1}
    BY <1>2, LastPosition, FileViewAssumption DEF ViewInv, ViewTypes
  <2>1. CASE Draw
    BY <1>2, <2>1, DrawStep
  <2>2. CASE Read
    BY <1>2, <2>2, ReadStep
  <2>3. CASE Navigate
    <3>1. PICK p \in {posmin, posmax, position + BUFWIDE, position - BUFWIDE,
                      position + pageincr, position - pageincr, position} : MoveTo(p)
      BY <2>3 DEF Navigate
    <3>2. p \in Int
      BY <2>t, <3>1 DEF posmin
    <3> QED BY <1>2, <3>1, <3>2, MoveStep
  <2>4. CASE Seek
    <3>1. PICK a \in (-BUFWIDE)..MaxAddress : MoveTo(Align(a))
      BY <2>4 DEF Seek
    <3>2. Align(a) \in Int
      <4>1. a \in Int
        BY <2>t, <3>1, FileViewAssumption
      <4> QED BY <2>t, <4>1 DEF Align
    <3> QED BY <1>2, <3>1, <3>2, MoveStep
  <2>5. CASE ChangeIncr
    <3>1. pageincr' \in Nat
      BY <1>2, <2>t, <2>5 DEF ChangeIncr, ViewInv, ViewTypes
    <3> QED BY <1>2, <2>5, <3>1 DEF ChangeIncr, ViewInv, ViewTypes
  <2>6. CASE Quit
    BY <1>2, <2>6 DEF Quit, ViewInv, ViewTypes
  <2> QED BY <1>2, <2>1, <2>2, <2>3, <2>4, <2>5, <2>6 DEF ViewNext
<1>3. ASSUME ViewInv, UNCHANGED view_vars PROVE ViewInv'
  BY <1>3 DEF view_vars, ViewInv, ViewTypes, Filled, ReadAll
<1> QED BY <1>1, <1>2, <1>3

(* WindowShown: whatever keys were pressed, and however the reads ended at *)
(* page boundaries, the window shows each byte of the memory in its place. *)
THEOREM WindowCorrect == ViewSpec => []WindowShown
<1>1. ASSUME ViewInv PROVE WindowShown
  <2> SUFFICES ASSUME pc = "key", NEW j \in 0..(BUFSIZE - 1), position + j < filesize
               PROVE  buffer[j] = position + j
    BY DEF WindowShown
  <2>1. /\ position \in Nat /\ to_read \in 0..BUFSIZE /\ BUFSIZE \in Nat
        /\ f_pos = position + (BUFSIZE - to_read)
        /\ buffer[j] = IF j < BUFSIZE - to_read THEN position + j ELSE FILL
        /\ to_read = 0 \/ f_pos >= dram_size
    BY <1>1, WindowSize, LastPosition DEF ViewInv, ViewTypes, Filled, ReadAll
  <2>2. CASE j < BUFSIZE - to_read
    BY <2>1, <2>2
  <2>3. CASE ~(j < BUFSIZE - to_read)
    <3>1. position + j >= filesize
      BY <2>1, <2>3, FileSize
    <3>2. ~(position + j < filesize)
      BY <2>1, <3>1, FileSize
    <3> QED BY <2>1, <2>3, <3>2
  <2> QED BY <2>2, <2>3
<1> QED BY <1>1, ViewInductive, PTL DEF ViewSpec

(* EndReached: the last byte of the memory can be seen, at the last        *)
(* position the viewer goes to.                                            *)
THEOREM EndCorrect == ViewSpec => []EndReached
<1>1. ASSUME ViewInv PROVE EndReached
  <2> SUFFICES ASSUME pc = "key", position = posmax, filesize > 0
               PROVE  \E j \in 0..(BUFSIZE - 1) : buffer[j] = filesize - 1
    BY DEF EndReached
  <2> DEFINE j == dram_size - 1 - position
  <2>1. /\ position \in Nat /\ to_read \in 0..BUFSIZE /\ BUFSIZE \in Nat
        /\ f_pos = position + (BUFSIZE - to_read)
        /\ Filled(to_read)
        /\ to_read = 0 \/ f_pos >= dram_size
    BY <1>1, WindowSize, LastPosition DEF ViewInv, ViewTypes, ReadAll
  <2>2. j \in 0..(BUFSIZE - 1) /\ j < BUFSIZE - to_read /\ position + j = filesize - 1
    BY <2>1, LastPosition, FileSize
  <2>3. buffer[j] = position + j
    BY <2>1, <2>2 DEF Filled
  <2> QED BY <2>2, <2>3
<1> QED BY <1>1, ViewInductive, PTL DEF ViewSpec

============================================================================
