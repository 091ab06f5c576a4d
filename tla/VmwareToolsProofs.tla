------------------------- MODULE VmwareToolsProofs -------------------------
(***************************************************************************)
(* Theorems about VmwareTools, for any guests: that what a call leaves it  *)
(* has tried to remove, and that a second one removes what a dependency    *)
(* has kept.                                                               *)
(***************************************************************************)
EXTENDS VmwareTools, TLAPS

Left == guest.packages \cap Listed

(* What a call has tried by the time it is at its stage.                   *)
PackagesTried == /\ stage = "packages" => /\ ToSet(queue) \subseteq Listed
                                          /\ Left \subseteq ToSet(queue) \cup refused
                 /\ stage \in {"modules", "services", "paths", "done"} => Left \subseteq refused
ModulesTried  == stage \in {"services", "paths", "done"} /\ guest.modules => "modules" \in refused
ServicesTried == /\ stage = "services" => guest.services \subseteq ToSet(queue) \cup refused
                 /\ stage \in {"paths", "done"} => guest.services \subseteq refused
PathsTried    == /\ stage = "paths" => guest.paths \subseteq ToSet(queue) \cup refused
                 /\ stage = "done" => guest.paths \subseteq refused
Tried         == PackagesTried /\ ModulesTried /\ ServicesTried /\ PathsTried

\* The step that edits the module configuration meets a missing virt-customize.
AbsentShows == stage \in {"services", "paths", "done"} /\ absent => ~success

-----------------------------------------------------------------------------
(* Why dpkg keeps a package of the list: a first call, for one of the list *)
(* that needs it (Base); every call, for one that is not of the list       *)
(* (Solid), or for one of the list that is kept so itself (Held).          *)
NeededBy(q, p) == guest.manager = "deb" /\ q \in guest.packages /\ <<q, p>> \in guest.needs

Base(p)  == guest.manager = "deb" /\ \E q \in Listed : <<q, p>> \in guest.needs
Solid(p) == \E q \in Packages \ Listed : NeededBy(q, p)
Held(p)  == Solid(p) \/ \E q \in Listed : NeededBy(q, p) /\ Solid(q)

\* What a clean call may leave of the packages it has tried.
MayStay(p) == (Base(p) \/ Solid(p)) /\ (runs >= 1 => Held(p))

PackagesRemoved ==
  /\ stage = "packages" /\ clean => \A p \in Left \ ToSet(queue) : MayStay(p)
  /\ stage \in {"modules", "services", "paths"} /\ clean => \A p \in Left : MayStay(p)
  /\ runs >= 1 => \A p \in Left : Base(p) \/ Solid(p)
  /\ runs = MaxRuns => \A p \in Left : Held(p)

NoChains == \A a, b, c \in ToSet(VMWARE_PACKAGES_DEB) :
              ~(<<a, b>> \in guest.needs /\ <<b, c>> \in guest.needs)

IInv == TypeOK /\ NoChains /\ Tried /\ AbsentShows /\ PackagesRemoved

-----------------------------------------------------------------------------
(* The queue loses its head, and only that.                                *)
LEMMA QueueShrinks ==
  ASSUME NEW q \in Seq(Items), q # <<>>
  PROVE  /\ Head(q) \in Items /\ Tail(q) \in Seq(Items)
         /\ ToSet(q) = {Head(q)} \cup ToSet(Tail(q))
<1>1. Head(q) = q[1] /\ Tail(q) \in Seq(Items) /\ Len(q) \in Nat \ {0} /\ DOMAIN q = 1..Len(q)
  OBVIOUS
<1>2. /\ DOMAIN Tail(q) = 1..(Len(q) - 1)
      /\ \A i \in 1..(Len(q) - 1) : Tail(q)[i] = q[i + 1]
  BY <1>1
<1>3. ASSUME NEW x \in ToSet(q) PROVE x \in {Head(q)} \cup ToSet(Tail(q))
  <2>1. PICK i \in 1..Len(q) : x = q[i]
    BY <1>1, <1>3 DEF ToSet
  <2>2. CASE i = 1
    BY <1>1, <2>1, <2>2
  <2>3. CASE i # 1
    <3>1. i - 1 \in DOMAIN Tail(q) /\ Tail(q)[i - 1] = x
      BY <1>1, <1>2, <2>1, <2>3
    <3> QED BY <3>1 DEF ToSet
  <2> QED BY <2>2, <2>3
<1>4. ASSUME NEW x \in {Head(q)} \cup ToSet(Tail(q)) PROVE x \in ToSet(q)
  <2>1. CASE x = Head(q)
    BY <1>1, <2>1 DEF ToSet
  <2>2. CASE x \in ToSet(Tail(q))
    <3>1. PICK i \in 1..(Len(q) - 1) : x = Tail(q)[i]
      BY <1>2, <2>2 DEF ToSet
    <3>2. i + 1 \in DOMAIN q /\ q[i + 1] = x
      BY <1>1, <1>2, <3>1
    <3> QED BY <3>2 DEF ToSet
  <2> QED BY <1>4, <2>1, <2>2
<1>5. Head(q) \in Items
  BY <1>1
<1> QED BY <1>1, <1>3, <1>4, <1>5

LEMMA EmptyQueue == <<>> \in Seq(Items) /\ ToSet(<<>>) = {}
  BY DEF ToSet

(* The lists of the code are queues.                                       *)
LEMMA ListsAreQueues ==
  /\ VMWARE_PACKAGES_RPM \in Seq(Items) /\ VMWARE_PACKAGES_DEB \in Seq(Items)
  /\ VMWARE_SERVICES \in Seq(Items) /\ VMWARE_PATHS \in Seq(Items)
<1>1. \A i \in 1..3 : VMWARE_PACKAGES_RPM[i] \in ToSet(VMWARE_PACKAGES_RPM)
  BY DEF ToSet, VMWARE_PACKAGES_RPM
<1>2. \A i \in 1..3 : VMWARE_PACKAGES_DEB[i] \in ToSet(VMWARE_PACKAGES_DEB)
  BY DEF ToSet, VMWARE_PACKAGES_DEB
<1>3. \A i \in 1..4 : VMWARE_SERVICES[i] \in ToSet(VMWARE_SERVICES)
  BY DEF ToSet, VMWARE_SERVICES
<1>4. \A i \in 1..4 : VMWARE_PATHS[i] \in ToSet(VMWARE_PATHS)
  BY DEF ToSet, VMWARE_PATHS
<1> QED BY <1>1, <1>2, <1>3, <1>4 DEF Items, Packages, Services, Paths, VMWARE_PACKAGES_RPM, VMWARE_PACKAGES_DEB, VMWARE_SERVICES, VMWARE_PATHS

(* What one command removes.                                               *)
LEMMA WithoutRemoves ==
  ASSUME TypeOK, stage \in {"packages", "services", "paths"}, NEW item, NEW g, g = Without(item)
  PROVE  /\ g \in GuestType
         /\ g.manager = guest.manager /\ g.modules = guest.modules /\ g.needs = guest.needs
         /\ g.services = IF stage = "services" THEN guest.services \ {item} ELSE guest.services
         /\ g.paths = IF stage = "paths" THEN guest.paths \ {item} ELSE guest.paths
         /\ g.packages = IF stage = "packages" THEN guest.packages \ {item} ELSE guest.packages
<1>1. guest \in GuestType
  BY DEF TypeOK
<1>2. CASE stage = "services"
  BY <1>1, <1>2 DEF Without, GuestType
<1>3. CASE stage = "paths"
  BY <1>1, <1>3 DEF Without, GuestType
<1>4. CASE stage = "packages"
  BY <1>1, <1>4 DEF Without, GuestType
<1> QED BY <1>2, <1>3, <1>4

(* A step of the loops, as what it does to the disk and to the queue.      *)
LEMMA RemoveStep ==
  ASSUME TypeOK, RemoveItem
  PROVE  /\ stage \in {"packages", "services", "paths"}
         /\ UNCHANGED <<stage, absent, success, runs>>
         /\ queue' \in Seq(Items) /\ Head(queue) \in Items
         /\ ToSet(queue) = {Head(queue)} \cup ToSet(queue')
         /\ \/ /\ ~Needed(Head(queue)) /\ UNCHANGED <<refused, clean>>
               /\ guest' \in GuestType
               /\ guest'.manager = guest.manager /\ guest'.modules = guest.modules
               /\ guest'.needs = guest.needs
               /\ guest'.services = IF stage = "services" THEN guest.services \ {Head(queue)} ELSE guest.services
               /\ guest'.paths = IF stage = "paths" THEN guest.paths \ {Head(queue)} ELSE guest.paths
               /\ guest'.packages = IF stage = "packages" THEN guest.packages \ {Head(queue)} ELSE guest.packages
            \/ /\ guest' = guest /\ refused' = refused \cup {Head(queue)}
               /\ (clean' = clean /\ Needed(Head(queue))) \/ clean' = FALSE
<1>1. /\ stage \in {"packages", "services", "paths"} /\ queue # <<>>
      /\ UNCHANGED <<stage, absent, success, runs>> /\ queue' = Tail(queue)
      /\ Removed(Head(queue)) \/ Kept(Head(queue)) \/ Failed(Head(queue))
  BY DEF RemoveItem
<1>2. queue \in Seq(Items)
  BY DEF TypeOK
<1>3. CASE Removed(Head(queue))
  <2>1. guest' = Without(Head(queue)) /\ ~Needed(Head(queue)) /\ UNCHANGED <<refused, clean>>
    BY <1>3 DEF Removed
  <2> QED BY <1>1, <1>2, <2>1, QueueShrinks, WithoutRemoves
<1>4. CASE Kept(Head(queue)) \/ Failed(Head(queue))
  BY <1>1, <1>2, <1>4, QueueShrinks DEF Kept, Failed
<1> QED BY <1>1, <1>3, <1>4

LEMMA InitIInv == Init => IInv
<1> SUFFICES ASSUME Init PROVE IInv
  OBVIOUS
<1>1. guest \in GuestType /\ NoChains
  BY GuestsAssumption, NeedsAssumption DEF Init, NoChains
<1>2. TypeOK
  <2>1. queue \in Seq(Items) /\ runs \in 0..MaxRuns
    BY EmptyQueue DEF Init, MaxRuns
  <2> QED BY <1>1, <2>1 DEF Init, TypeOK, Ended
<1> QED BY <1>1, <1>2
        DEF Init, IInv, Tried, PackagesTried, ModulesTried, ServicesTried, PathsTried,
            AbsentShows, PackagesRemoved, MaxRuns

LEMMA StepTypeOK == TypeOK /\ [Next]_vars => TypeOK'
<1> SUFFICES ASSUME TypeOK, [Next]_vars PROVE TypeOK'
  OBVIOUS
<1>t. queue \in Seq(Items) /\ guest \in GuestType /\ refused \subseteq Items /\ clean \in BOOLEAN
  BY DEF TypeOK
<1>1. CASE RemoveVmwareTools
  BY <1>1 DEF RemoveVmwareTools, TypeOK, Ended
<1>2. CASE NoDiskImage
  BY <1>2 DEF NoDiskImage, TypeOK, Ended
<1>3. CASE DetectPackageManager
  <2>1. refused' \subseteq Items
    BY <1>t, <1>3 DEF DetectPackageManager, Items
  <2> QED BY <1>3, <2>1, ListsAreQueues DEF DetectPackageManager, TypeOK, Ended
<1>4. CASE RemoveItem
  <2>1. /\ stage \in {"packages", "services", "paths"} /\ UNCHANGED <<stage, absent, success, runs>>
        /\ queue' \in Seq(Items) /\ guest' \in GuestType
        /\ refused' \subseteq Items /\ clean' \in BOOLEAN
    BY <1>t, <1>4, RemoveStep
  <2> QED BY <2>1 DEF TypeOK, Ended
<1>5. CASE RemoveAbsent
  <2>1. ToSet(queue) \subseteq Items
    BY <1>t DEF ToSet
  <2> QED BY <1>5, <2>1, EmptyQueue DEF RemoveAbsent, TypeOK, Ended
<1>6. CASE PackagesDone
  BY <1>6 DEF PackagesDone, TypeOK, Ended, ghosts
<1>7. CASE RemoveModuleConfigs
  <2>1. guest' \in GuestType /\ success' \in BOOLEAN /\ clean' \in BOOLEAN /\ refused' \subseteq Items
    BY <1>t, <1>7 DEF RemoveModuleConfigs, TypeOK, GuestType, Items
  <2> QED BY <1>7, <2>1, ListsAreQueues DEF RemoveModuleConfigs, TypeOK, Ended
<1>8. CASE ServicesDone
  BY <1>8, ListsAreQueues DEF ServicesDone, TypeOK, Ended, ghosts
<1>9. CASE PathsDone
  BY <1>9 DEF PathsDone, TypeOK, Ended, MaxRuns
<1>10. CASE Killed
  BY <1>10, EmptyQueue DEF Killed, TypeOK, Ended, ghosts
<1>11. CASE UNCHANGED vars
  BY <1>11 DEF vars, TypeOK, ghosts
<1> QED BY <1>1, <1>2, <1>3, <1>4, <1>5, <1>6, <1>7, <1>8, <1>9, <1>10, <1>11 DEF Next, Steps

(* The dependencies are the guest's own.                                   *)
LEMMA StepNoChains == TypeOK /\ NoChains /\ [Next]_vars => NoChains'
<1> SUFFICES ASSUME TypeOK, NoChains, [Next]_vars PROVE guest'.needs = guest.needs
  BY DEF NoChains
<1>1. guest \in GuestType
  BY DEF TypeOK
<1>2. CASE RemoveItem
  BY <1>2, RemoveStep
<1>3. CASE RemoveModuleConfigs
  BY <1>1, <1>3 DEF RemoveModuleConfigs, GuestType
<1>4. CASE UNCHANGED guest
  BY <1>4
<1> QED BY <1>2, <1>3, <1>4
        DEF Next, Steps, RemoveVmwareTools, NoDiskImage, DetectPackageManager, RemoveAbsent,
            PackagesDone, ServicesDone, PathsDone, Killed, vars

LEMMA StepTried == TypeOK /\ Tried /\ [Next]_vars => Tried'
<1> SUFFICES ASSUME TypeOK, Tried, [Next]_vars PROVE Tried'
  OBVIOUS
<1> USE DEF Tried, PackagesTried, ModulesTried, ServicesTried, PathsTried
<1>t. /\ queue \in Seq(Items) /\ guest \in GuestType
      /\ guest.packages \subseteq Packages /\ guest.services \subseteq Services
      /\ guest.paths \subseteq Paths
      /\ stage \in Ended \cup {"detect", "packages", "modules", "services", "paths"}
  BY DEF TypeOK, GuestType
<1>0. guest'.manager = guest.manager => Listed' = Listed
  BY DEF Listed
<1>1. CASE RemoveVmwareTools \/ Killed
  BY <1>1 DEF RemoveVmwareTools, Killed, Ended
<1>2. CASE NoDiskImage
  <2>1. stage' = "done" /\ refused' = Items /\ guest' = guest
    BY <1>2 DEF NoDiskImage
  <2>2. Left' \subseteq guest.packages
    BY <2>1 DEF Left
  <2> QED BY <1>t, <2>1, <2>2 DEF Items
<1>3. CASE DetectPackageManager
  <2>1. /\ UNCHANGED guest
        /\ \/ stage' = "packages" /\ ToSet(queue') = Listed
           \/ stage' = "modules" /\ refused' = refused \cup Packages
    BY <1>3 DEF DetectPackageManager, Listed
  <2> QED BY <1>t, <1>0, <2>1 DEF Left
<1>4. CASE RemoveItem
  <2> DEFINE item == Head(queue)
  <2>1. /\ stage \in {"packages", "services", "paths"} /\ UNCHANGED stage
        /\ ToSet(queue) = {item} \cup ToSet(queue')
        /\ guest'.manager = guest.manager /\ guest'.modules = guest.modules
        /\ refused \subseteq refused'
        /\ \/ /\ guest'.services = IF stage = "services" THEN guest.services \ {item} ELSE guest.services
              /\ guest'.paths = IF stage = "paths" THEN guest.paths \ {item} ELSE guest.paths
              /\ guest'.packages = IF stage = "packages" THEN guest.packages \ {item} ELSE guest.packages
           \/ guest' = guest /\ refused' = refused \cup {item}
    BY <1>4, RemoveStep
  <2> HIDE DEF item
  <2>2. PackagesTried'
    BY <1>0, <2>1 DEF Left
  <2>3. ModulesTried'
    BY <2>1
  <2>4. ServicesTried'
    BY <2>1
  <2>5. PathsTried'
    BY <2>1
  <2> QED BY <2>2, <2>3, <2>4, <2>5
<1>5. CASE RemoveAbsent
  <2>1. /\ stage \in {"packages", "services", "paths"} /\ UNCHANGED <<stage, guest>>
        /\ queue' = <<>> /\ refused' = refused \cup ToSet(queue)
    BY <1>5 DEF RemoveAbsent
  <2> QED BY <1>0, <2>1, EmptyQueue DEF Left
<1>6. CASE PackagesDone
  <2>1. stage = "packages" /\ queue = <<>> /\ stage' = "modules" /\ UNCHANGED <<guest, refused>>
    BY <1>6 DEF PackagesDone, ghosts
  <2> QED BY <1>0, <2>1, EmptyQueue DEF Left
<1>7. CASE RemoveModuleConfigs
  <2>1. /\ stage = "modules" /\ stage' = "services" /\ queue' = VMWARE_SERVICES
        /\ \/ guest' = [guest EXCEPT !.modules = FALSE] /\ refused' = refused
           \/ guest' = guest /\ refused' = refused \cup {"modules"}
    BY <1>7 DEF RemoveModuleConfigs
  <2>2. /\ guest'.packages = guest.packages /\ guest'.manager = guest.manager
        /\ guest'.services = guest.services /\ guest'.paths = guest.paths
        /\ refused \subseteq refused'
        /\ guest'.modules => "modules" \in refused'
    BY <1>t, <2>1 DEF GuestType
  <2> QED BY <1>t, <1>0, <2>1, <2>2 DEF Left, Services
<1>8. CASE ServicesDone
  <2>1. /\ stage = "services" /\ stage' = "paths" /\ queue = <<>> /\ queue' = VMWARE_PATHS
        /\ UNCHANGED <<guest, refused>>
    BY <1>8 DEF ServicesDone, ghosts
  <2> QED BY <1>t, <1>0, <2>1, EmptyQueue DEF Left, Paths
<1>9. CASE PathsDone
  <2>1. stage = "paths" /\ stage' = "done" /\ queue = <<>> /\ UNCHANGED <<guest, refused>>
    BY <1>9 DEF PathsDone
  <2> QED BY <1>0, <2>1, EmptyQueue DEF Left
<1>10. CASE UNCHANGED vars
  BY <1>0, <1>10 DEF vars, ghosts, Left
<1> QED BY <1>1, <1>2, <1>3, <1>4, <1>5, <1>6, <1>7, <1>8, <1>9, <1>10 DEF Next, Steps

LEMMA StepAbsentShows == TypeOK /\ AbsentShows /\ [Next]_vars => AbsentShows'
<1> SUFFICES ASSUME TypeOK, AbsentShows, [Next]_vars PROVE AbsentShows'
  OBVIOUS
<1> USE DEF AbsentShows
<1>1. CASE RemoveVmwareTools \/ NoDiskImage \/ DetectPackageManager \/ PackagesDone \/ Killed
  BY <1>1 DEF RemoveVmwareTools, NoDiskImage, DetectPackageManager, PackagesDone, Killed
<1>2. CASE RemoveItem \/ RemoveAbsent \/ ServicesDone \/ PathsDone
  BY <1>2 DEF RemoveItem, RemoveAbsent, ServicesDone, PathsDone
<1>3. CASE RemoveModuleConfigs
  BY <1>3 DEF RemoveModuleConfigs
<1>4. CASE UNCHANGED vars
  BY <1>4 DEF vars
<1> QED BY <1>1, <1>2, <1>3, <1>4 DEF Next, Steps

-----------------------------------------------------------------------------
(* What holds a package stays: it is not the package a command removes.    *)
LEMMA HeldStays ==
  ASSUME TypeOK, stage = "packages" => ToSet(queue) \subseteq Listed, [Next]_vars
  PROVE  /\ guest'.manager = guest.manager /\ Listed' = Listed /\ Left' \subseteq Left
         /\ \A p : Base(p)' <=> Base(p)
         /\ \A p : Solid(p) => Solid(p)'
         /\ \A p : Held(p) => Held(p)'
<1>t. guest \in GuestType
  BY DEF TypeOK
<1>1. /\ guest'.manager = guest.manager /\ guest'.needs = guest.needs
      /\ \/ guest'.packages = guest.packages
         \/ \E item \in ToSet(queue) : /\ stage = "packages" /\ ~Needed(item)
                                       /\ guest'.packages = guest.packages \ {item}
  <2>1. CASE RemoveItem
    BY <2>1, RemoveStep
  <2>2. CASE RemoveModuleConfigs
    BY <1>t, <2>2 DEF RemoveModuleConfigs, GuestType
  <2>3. CASE UNCHANGED guest
    BY <2>3
  <2> QED BY <2>1, <2>2, <2>3
          DEF Next, Steps, RemoveVmwareTools, NoDiskImage, DetectPackageManager, RemoveAbsent,
              PackagesDone, ServicesDone, PathsDone, Killed, vars
<1>2. Listed' = Listed /\ Left' \subseteq Left
  BY <1>1 DEF Listed, Left
<1>3. \A p : Base(p)' <=> Base(p)
  BY <1>1, <1>2 DEF Base
<1>4. ASSUME NEW p, NEW q \in Packages \ Listed, NeededBy(q, p) PROVE NeededBy(q, p)'
  BY <1>1, <1>4 DEF NeededBy
<1>5. \A p : Solid(p) => Solid(p)'
  BY <1>2, <1>4 DEF Solid
<1>6. ASSUME NEW p, NEW q \in Listed, NeededBy(q, p), Solid(q) PROVE NeededBy(q, p)'
  <2>1. stage = "packages" => Needed(q)
    BY <1>6 DEF Solid, NeededBy, Needed
  <2> QED BY <1>1, <1>6, <2>1 DEF NeededBy
<1>7. \A p : Held(p) => Held(p)'
  BY <1>2, <1>5, <1>6 DEF Held
<1> QED BY <1>1, <1>2, <1>3, <1>5, <1>7

(* What a command leaves for a dependency may stay.                        *)
LEMMA NeededMayStay ==
  ASSUME TypeOK, NoChains, PackagesRemoved, stage = "packages", NEW p \in Left, Needed(p)
  PROVE  MayStay(p)
<1>t. guest \in GuestType /\ guest.packages \subseteq Packages
  BY DEF TypeOK, GuestType
<1>1. PICK q \in guest.packages : <<q, p>> \in guest.needs /\ guest.manager = "deb"
  BY DEF Needed
<1>2. NeededBy(q, p) /\ q \in Packages
  BY <1>t, <1>1 DEF NeededBy
<1>3. CASE q \notin Listed
  BY <1>2, <1>3 DEF Solid, Held, MayStay
<1>4. CASE q \in Listed
  <2>1. Base(p)
    BY <1>1, <1>4 DEF Base
  <2>2. Listed = ToSet(VMWARE_PACKAGES_DEB) /\ p \in Listed
    BY <1>1 DEF Listed, Left
  <2>3. ~Base(q)
    BY <1>1, <1>4, <2>2 DEF Base, NoChains
  <2>4. runs >= 1 => Solid(q)
    BY <1>1, <1>4, <2>3 DEF PackagesRemoved, Left
  <2> QED BY <1>2, <1>4, <2>1, <2>4 DEF Held, MayStay
<1> QED BY <1>3, <1>4

LEMMA StepPackagesRemoved ==
  TypeOK /\ NoChains /\ Tried /\ PackagesRemoved /\ [Next]_vars => PackagesRemoved'
<1> SUFFICES ASSUME TypeOK, NoChains, Tried, PackagesRemoved, [Next]_vars PROVE PackagesRemoved'
  OBVIOUS
<1>t. runs \in 0..2 /\ clean \in BOOLEAN
  BY DEF TypeOK, MaxRuns
<1>1. /\ guest'.manager = guest.manager /\ Listed' = Listed /\ Left' \subseteq Left
      /\ \A p : Base(p)' <=> Base(p)
      /\ \A p : Solid(p) => Solid(p)'
      /\ \A p : Held(p) => Held(p)'
  BY HeldStays DEF Tried, PackagesTried
<1>2. ASSUME runs' = runs PROVE \A p : MayStay(p) => MayStay(p)'
  BY <1>1, <1>2 DEF MayStay
<1>3. CASE PathsDone
  <2>1. /\ stage = "paths" /\ stage' = "done"
        /\ runs' = IF clean /\ runs < 2 THEN runs + 1 ELSE runs
    BY <1>3 DEF PathsDone, MaxRuns
  <2>2. CASE clean /\ runs < 2
    <3>1. runs' = runs + 1 /\ \A p \in Left : MayStay(p)
      BY <2>1, <2>2 DEF PackagesRemoved
    <3>2. \A p \in Left' : (Base(p) \/ Solid(p))' /\ (runs >= 1 => Held(p)')
      BY <1>1, <3>1 DEF MayStay
    <3>3. runs' = 2 => runs >= 1
      BY <1>t, <3>1
    <3> QED BY <2>1, <3>2, <3>3 DEF PackagesRemoved, MaxRuns
  <2>3. CASE ~(clean /\ runs < 2)
    BY <1>1, <2>1, <2>3 DEF PackagesRemoved
  <2> QED BY <2>2, <2>3
<1>4. ASSUME runs' = runs,
             stage' = "packages" /\ clean' => \A p \in Left' \ ToSet(queue)' : MayStay(p)',
             stage' \in {"modules", "services", "paths"} /\ clean' => \A p \in Left' : MayStay(p)'
      PROVE  PackagesRemoved'
  BY <1>1, <1>4 DEF PackagesRemoved
<1>5. CASE RemoveItem
  <2> DEFINE item == Head(queue)
  <2>1. /\ stage \in {"packages", "services", "paths"} /\ UNCHANGED <<stage, runs>>
        /\ ToSet(queue) = {item} \cup ToSet(queue')
        /\ clean' = TRUE => clean = TRUE
        /\ clean' = TRUE /\ stage = "packages" => item \notin guest'.packages \/ Needed(item)
    BY <1>5, RemoveStep
  <2> HIDE DEF item
  <2>2. ASSUME stage = "packages", clean' = TRUE, NEW p \in Left' \ ToSet(queue') PROVE MayStay(p)'
    <3>1. p \in Left /\ (p = item => Needed(p)) /\ (p # item => p \notin ToSet(queue))
      BY <1>1, <2>1, <2>2 DEF Left
    <3>2. CASE p = item
      BY <1>2, <2>1, <2>2, <3>1, <3>2, NeededMayStay
    <3>3. CASE p # item
      BY <1>2, <2>1, <2>2, <3>1, <3>3 DEF PackagesRemoved
    <3> QED BY <3>2, <3>3
  <2>3. stage \in {"services", "paths"} /\ clean' = TRUE => \A p \in Left' : MayStay(p)'
    BY <1>1, <1>2, <2>1 DEF PackagesRemoved
  <2> QED BY <1>4, <2>1, <2>2, <2>3
<1>6. CASE DetectPackageManager
  <2>1. /\ runs' = runs
        /\ \/ stage' = "packages" /\ ToSet(queue') = Listed
           \/ stage' = "modules" /\ clean' = FALSE
    BY <1>6 DEF DetectPackageManager, Listed
  <2>2. Left' \subseteq Listed
    BY <1>1 DEF Left
  <2> QED BY <1>4, <2>1, <2>2
<1>7. CASE PackagesDone
  <2>1. stage = "packages" /\ queue = <<>> /\ stage' = "modules" /\ UNCHANGED <<clean, runs>>
    BY <1>7 DEF PackagesDone, ghosts
  <2>2. clean => \A p \in Left' : MayStay(p)
    BY <1>1, <2>1, EmptyQueue DEF PackagesRemoved
  <2> QED BY <1>2, <1>4, <2>1, <2>2
<1>8. CASE RemoveModuleConfigs \/ ServicesDone
  <2>1. /\ stage \in {"modules", "services"} /\ stage' \in {"services", "paths"} /\ runs' = runs
        /\ clean' = TRUE => clean = TRUE
    BY <1>8 DEF RemoveModuleConfigs, ServicesDone, ghosts
  <2>2. clean' = TRUE => \A p \in Left' : MayStay(p)
    BY <1>1, <2>1 DEF PackagesRemoved
  <2>3. clean' \in BOOLEAN
    BY StepTypeOK DEF TypeOK
  <2> QED BY <1>2, <1>4, <2>1, <2>2, <2>3
<1>9. CASE RemoveVmwareTools \/ NoDiskImage \/ RemoveAbsent \/ Killed
  BY <1>4, <1>9 DEF RemoveVmwareTools, NoDiskImage, RemoveAbsent, Killed, ghosts
<1>10. CASE UNCHANGED vars
  <2>1. UNCHANGED <<stage, queue, clean, runs>>
    BY <1>10 DEF vars, ghosts
  <2> QED BY <1>1, <1>2, <1>4, <2>1 DEF PackagesRemoved
<1> QED BY <1>3, <1>5, <1>6, <1>7, <1>8, <1>9, <1>10 DEF Next, Steps

-----------------------------------------------------------------------------
(* What is known of the step a call is at holds in every reachable state.  *)
THEOREM Invariance == Spec => []IInv
<1>1. IInv /\ [Next]_vars => IInv'
  BY StepTypeOK, StepNoChains, StepTried, StepAbsentShows, StepPackagesRemoved DEF IInv
<1> QED BY <1>1, InitIInv, PTL DEF Spec

(* Every variable keeps its type.                                          *)
THEOREM TypeCorrect == Spec => []TypeOK
<1>1. IInv => TypeOK
  BY DEF IInv
<1> QED BY <1>1, Invariance, PTL

(* Whatever of VMware's is left at the end of a call, that call has tried  *)
(* to remove: no failure of one command keeps another from being run.      *)
THEOREM WhatIsLeftWasRefused == Spec => []LeftIsRefused
<1>1. IInv => LeftIsRefused
  <2> SUFFICES ASSUME IInv, stage = "done",
                      NEW item \in Present, item \in Listed \cup (Items \ Packages)
               PROVE  item \in refused
    BY DEF LeftIsRefused
  <2>1. /\ Left \subseteq refused /\ guest.services \subseteq refused /\ guest.paths \subseteq refused
        /\ guest.modules => "modules" \in refused
    BY DEF IInv, Tried, PackagesTried, ModulesTried, ServicesTried, PathsTried
  <2>2. guest.packages \subseteq Packages
    BY DEF IInv, TypeOK, GuestType
  <2> QED BY <2>1, <2>2 DEF Present, Left
<1> QED BY <1>1, Invariance, PTL

(* After two calls in which no command failed but for a dependency, what   *)
(* is left of the list is what an installed package needs, for any guest   *)
(* where what a listed package needs is not itself kept by a listed one.   *)
THEOREM SecondRunsRemove == Spec => []SecondRunRemoves
<1>1. IInv => SecondRunRemoves
  BY DEF IInv, PackagesRemoved, Left, Held, Solid, NeededBy, SecondRunRemoves
<1> QED BY <1>1, Invariance, PTL

(* No call ends in success without virt-customize.                         *)
THEOREM NoSuccessWithoutTools == Spec => []NoToolsNoSuccess
<1>1. IInv => NoToolsNoSuccess
  BY DEF IInv, AbsentShows, NoToolsNoSuccess
<1> QED BY <1>1, Invariance, PTL
=============================================================================
