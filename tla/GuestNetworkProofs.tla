------------------------- MODULE GuestNetworkProofs -------------------------
(***************************************************************************)
(* Theorems about GuestNetwork, for any guests and any NICs.               *)
(***************************************************************************)
EXTENDS GuestNetwork, TLAPS

-----------------------------------------------------------------------------
(* The hypothesis of the theorems about what the guest keeps.  An ifcfg    *)
(* file is moved, and what it is moved onto is lost: so of the ifcfg files *)
(* of one guest, at most one may be of a name that is moved, or moved to.  *)
(* Run guest_network_ifcfg shows the loss where this fails.                *)
MovedFiles == {Exact(n) : n \in Replaceable \cup {KVM_DEFAULT_IFACE}}

IfcfgApart(g) == \A a, b \in g.stanzas["ifcfg"] : a.file \in MovedFiles /\ b.file \in MovedFiles => a = b

ApartGuests == \A g \in Guests : IfcfgApart(g)

-----------------------------------------------------------------------------
(* What a run without old_iface has still to do.                           *)
Queued(name) == \E i \in 1..Len(queue) : queue[i] = name

Named(name) == store # "" /\ \E st \in guest.stanzas[store] : Concerns(store, st, name)

ToRename == stage \in {"fix", "edit"} /\ OldIfaces = {""} =>
              \A name \in VMwareNames : Named(name) => Queued(name) \/ name \in missed

ToEdit == stage = "edit" => Head(queue) = KVM_DEFAULT_IFACE \/ ~Named(Head(queue)) \/ Head(queue) \in missed

AllRenamed == stage \in {"cleanup", "done"} /\ OldIfaces = {""} =>
                \A name \in VMwareNames : Named(name) => name \in missed

UdevGone == stage = "done" /\ guest.udev => "udev" \in missed

IInv == TypeOK /\ ToRename /\ ToEdit /\ AllRenamed /\ UdevGone

-----------------------------------------------------------------------------
(* The names and the stores, as sets of strings.                           *)
LEMMA Names ==
  /\ VMwareNames = {"ens160", "ens192", "ens224", "ens256", "ens161", "ens193"}
  /\ KVM_DEFAULT_IFACE \notin VMwareNames
  /\ "" \notin VMwareNames
  /\ VMWARE_IFACE_NAMES \in Seq(VMwareNames)
  /\ \A name \in VMwareNames : \E i \in 1..Len(VMWARE_IFACE_NAMES) : VMWARE_IFACE_NAMES[i] = name
<1>1. Len(VMWARE_IFACE_NAMES) = 6
  BY DEF VMWARE_IFACE_NAMES
<1>2. VMwareNames = {VMWARE_IFACE_NAMES[1], VMWARE_IFACE_NAMES[2], VMWARE_IFACE_NAMES[3],
                     VMWARE_IFACE_NAMES[4], VMWARE_IFACE_NAMES[5], VMWARE_IFACE_NAMES[6]}
  BY <1>1 DEF VMwareNames
<1>3. VMwareNames = {"ens160", "ens192", "ens224", "ens256", "ens161", "ens193"}
  BY <1>2 DEF VMWARE_IFACE_NAMES
<1>4. VMWARE_IFACE_NAMES \in Seq({"ens160", "ens192", "ens224", "ens256", "ens161", "ens193"})
  BY DEF VMWARE_IFACE_NAMES
<1> QED BY <1>3, <1>4 DEF VMwareNames, KVM_DEFAULT_IFACE

(* The queues there are to begin with.                                     *)
LEMMA Queues ==
  /\ <<>> \in Seq(Replaceable)
  /\ \A old_iface \in OldIfaces : IfacesToReplace(old_iface) \in Seq(Replaceable)
<1>1. ASSUME NEW old_iface \in OldIfaces
      PROVE  IfacesToReplace(old_iface) \in Seq(Replaceable)
  <2>1. CASE old_iface = ""
    <3>1. ASSUME NEW S, NEW T, S \subseteq T, NEW q \in Seq(S) PROVE q \in Seq(T)
      BY <3>1
    <3>2. VMwareNames \subseteq Replaceable /\ VMWARE_IFACE_NAMES \in Seq(VMwareNames)
      BY Names DEF Replaceable
    <3>3. VMWARE_IFACE_NAMES \in Seq(Replaceable)
      BY <3>1, <3>2, Zenon
    <3> QED BY <2>1, <3>3 DEF IfacesToReplace
  <2>2. CASE old_iface # ""
    <3>1. old_iface \in Replaceable
      BY <1>1, <2>2 DEF Replaceable
    <3>2. <<old_iface>> \in Seq(Replaceable)
      BY <3>1
    <3> QED BY <2>2, <3>2 DEF IfacesToReplace
  <2> QED BY <2>1, <2>2
<1>2. <<>> \in Seq(Replaceable)
  OBVIOUS
<1> QED BY <1>1, <1>2, Zenon

LEMMA QueueNames ==
  ASSUME NEW q \in Seq(Replaceable), q # <<>>
  PROVE  /\ Head(q) \in Replaceable /\ Tail(q) \in Seq(Replaceable)
         /\ Head(q) \in Stems /\ Head(q) # ""
<1>1. Head(q) \in Replaceable /\ Tail(q) \in Seq(Replaceable)
  OBVIOUS
<1> QED BY <1>1, Names, OldIfacesAssumption DEF Replaceable, Stems

(* Names that differ by their stem, and only those, are different.         *)
LEMMA ExactNames ==
  /\ \A n \in Stems : Exact(n) \in Name
  /\ \A m, n : Exact(m) = Exact(n) <=> m = n
<1>1. ASSUME NEW n \in Stems PROVE Exact(n) \in Name
  BY NamesAssumption DEF Exact, Name
<1>2. ASSUME NEW m, NEW n, Exact(m) = Exact(n) PROVE m = n
  <2>1. Exact(m).stem = m /\ Exact(n).stem = n
    BY DEF Exact
  <2> QED BY <1>2, <2>1
<1> QED BY <1>1, <1>2

LEMMA StoreNames == StoreSet = {"netplan", "ifcfg", "networkd", "nm"} /\ Len(Stores) = 4
<1>1. Len(Stores) = 4
  BY DEF Stores
<1>2. StoreSet = {Stores[1], Stores[2], Stores[3], Stores[4]}
  BY <1>1 DEF StoreSet
<1> QED BY <1>1, <1>2 DEF Stores

(* What _detect_network_config answers: a store, or none.                  *)
LEMMA DetectedIsStore ==
  ASSUME NEW g, NEW seen
  PROVE  _detect_network_config(g, seen) \in StoreSet \cup {""}
<1>1. CASE StoresWithFiles(g, seen) = {}
  BY <1>1 DEF _detect_network_config
<1>2. CASE StoresWithFiles(g, seen) # {}
  <2> DEFINE Is == StoresWithFiles(g, seen)
  <2>1. Is \subseteq 1..4
    BY StoreNames DEF StoresWithFiles
  <2>2. \E i \in Is : \A j \in Is : i <= j
    BY <1>2, <2>1
  <2>3. (CHOOSE i \in Is : \A j \in Is : i <= j) \in 1..Len(Stores)
    BY <2>1, <2>2, StoreNames
  <2> HIDE DEF Is
  <2>4. Stores[CHOOSE i \in Is : \A j \in Is : i <= j] \in StoreSet
    BY <2>3 DEF StoreSet
  <2> QED BY <1>2, <2>4 DEF _detect_network_config, Is
<1> QED BY <1>1, <1>2

(* An edited stanza: where it was matched it has the new stem, and is the  *)
(* same otherwise.                                                         *)
LEMMA EditedStanza ==
  ASSUME NEW st \in Stanza, NEW kind, NEW old
  PROVE  /\ Edited(kind, st, old) \in Stanza
         /\ Edited(kind, st, old).file = st.file /\ Edited(kind, st, old).nic = st.nic
         /\ Matches(kind, st.iface, old) =>
              Edited(kind, st, old).iface.stem = KVM_DEFAULT_IFACE
         /\ ~Matches(kind, st.iface, old) => Edited(kind, st, old) = st
<1>1. CASE Matches(kind, st.iface, old)
  <2> DEFINE new == [st EXCEPT !.iface.stem = KVM_DEFAULT_IFACE]
  <2>1. Edited(kind, st, old) = new
    BY <1>1 DEF Edited
  <2>2. st.iface \in [lead : Leads, stem : Stems, rest : Rests]
    BY DEF Stanza, Name
  <2>3. KVM_DEFAULT_IFACE \in Stems
    BY DEF Stems
  <2>4. [st.iface EXCEPT !.stem = KVM_DEFAULT_IFACE] \in Name
        /\ [st.iface EXCEPT !.stem = KVM_DEFAULT_IFACE].stem = KVM_DEFAULT_IFACE
    BY <2>2, <2>3 DEF Name
  <2>5. new = [file |-> st.file, iface |-> [st.iface EXCEPT !.stem = KVM_DEFAULT_IFACE], nic |-> st.nic]
    BY DEF Stanza
  <2> QED BY <1>1, <2>1, <2>4, <2>5 DEF Stanza
<1>2. CASE ~Matches(kind, st.iface, old)
  BY <1>2 DEF Edited
<1> QED BY <1>1, <1>2

(* sed over some files of a store: nobody's settings are lost, nothing is  *)
(* concerned by a VMware name that was not, and what was not matched is as *)
(* it was.                                                                 *)
NicsKept(stanzas, new) == \A st \in stanzas : \E other \in new : other.nic = st.nic

Only(stanzas, a, b) == \A c, d \in stanzas : c.file = a.file /\ d.file = b.file => c = d

LEMMA SedIsSafe ==
  ASSUME NEW stanzas \in SUBSET Stanza, NEW kind, NEW old, NEW files,
         NEW new, new = SedReplace(stanzas, kind, old, files)
  PROVE  /\ new \in SUBSET Stanza
         /\ NicsKept(stanzas, new)
         /\ \A st \in new : \E was \in stanzas : /\ st.file = was.file
                                                 /\ st = was \/ st.iface.stem = KVM_DEFAULT_IFACE
         /\ \A st \in stanzas : ~Matches(kind, st.iface, old) => st \in new
         /\ \A a, b \in new : Only(stanzas, a, b) => a = b
<1> DEFINE F(st) == IF st \in files THEN Edited(kind, st, old) ELSE st
<1>1. new = {F(st) : st \in stanzas}
  BY DEF SedReplace
<1>2. ASSUME NEW st \in stanzas
      PROVE  /\ F(st) \in Stanza /\ F(st).file = st.file /\ F(st).nic = st.nic
             /\ F(st) = st \/ F(st).iface.stem = KVM_DEFAULT_IFACE
             /\ ~Matches(kind, st.iface, old) => F(st) = st
  BY EditedStanza
<1> HIDE DEF F
<1>3. new \in SUBSET Stanza /\ \A st \in stanzas : ~Matches(kind, st.iface, old) => st \in new
  BY <1>1, <1>2
<1>4. NicsKept(stanzas, new)
  BY <1>1, <1>2 DEF NicsKept
<1>5. \A st \in new : \E was \in stanzas : /\ st.file = was.file
                                           /\ st = was \/ st.iface.stem = KVM_DEFAULT_IFACE
  BY <1>1, <1>2
<1>6. ASSUME NEW a \in new, NEW b \in new, Only(stanzas, a, b)
      PROVE  a = b
  <2>1. PICK c \in stanzas : a = F(c)
    BY <1>1
  <2>2. PICK d \in stanzas : b = F(d)
    BY <1>1
  <2> QED BY <1>2, <1>6, <2>1, <2>2 DEF Only
<1> QED BY <1>3, <1>4, <1>5, <1>6

(* sed over all files of a store leaves no match.                          *)
LEMMA SedIsWhole ==
  ASSUME NEW stanzas \in SUBSET Stanza, NEW kind, NEW old, old # KVM_DEFAULT_IFACE
  PROVE  \A st \in SedReplace(stanzas, kind, old, stanzas) : ~Matches(kind, st.iface, old)
<1> SUFFICES ASSUME NEW was \in stanzas
             PROVE  ~Matches(kind, Edited(kind, was, old).iface, old)
  BY DEF SedReplace
<1> DEFINE st == Edited(kind, was, old)
<1>1. /\ Matches(kind, was.iface, old) => st.iface.stem = KVM_DEFAULT_IFACE
      /\ ~Matches(kind, was.iface, old) => st = was
  BY EditedStanza
<1> HIDE DEF st
<1>2. st.iface.stem = KVM_DEFAULT_IFACE => ~Matches(kind, st.iface, old)
  BY DEF Matches
<1>3. ~Matches(kind, st.iface, old)
  BY <1>1, <1>2
<1> QED BY <1>3 DEF st

(* A moved ifcfg file: of the old name there is none left, and any other    *)
(* was there before.                                                       *)
LEMMA MoveRenames ==
  ASSUME NEW stanzas \in SUBSET Stanza, NEW old \in Replaceable
  PROVE  /\ MvReplace(stanzas, old) \in SUBSET Stanza
         /\ \A st \in MvReplace(stanzas, old) :
              /\ st.file = Exact(old) => old = KVM_DEFAULT_IFACE
              /\ st.file # Exact(KVM_DEFAULT_IFACE) => st \in stanzas
<1> DEFINE Kvm    == Exact(KVM_DEFAULT_IFACE)
           To(st) == [st EXCEPT !.file = Kvm]
<1>1. CASE old = KVM_DEFAULT_IFACE
  BY <1>1 DEF MvReplace
<1>2. CASE old # KVM_DEFAULT_IFACE
  <2>1. MvReplace(stanzas, old) = {st \in stanzas : st.file \notin {Exact(old), Kvm}}
                                    \cup {To(st) : st \in FilesOf(stanzas, old)}
    BY <1>2 DEF MvReplace
  <2>2. Kvm # Exact(old)
    BY <1>2, ExactNames
  <2>3. ASSUME NEW st \in stanzas PROVE To(st) \in Stanza /\ To(st).file = Kvm
    BY ExactNames DEF Stanza, Stems
  <2> HIDE DEF To, Kvm
  <2>4. /\ MvReplace(stanzas, old) \in SUBSET Stanza
        /\ \A st \in MvReplace(stanzas, old) : st.file # Exact(old) /\ (st.file # Kvm => st \in stanzas)
    BY <2>1, <2>2, <2>3 DEF FilesOf
  <2> QED BY <2>4 DEF Kvm
<1> QED BY <1>1, <1>2

(* Where the files are apart nobody's settings are lost, and they stay so. *)
LEMMA MoveIsSafe ==
  ASSUME NEW stanzas \in SUBSET Stanza, NEW old \in Replaceable, FilesOf(stanzas, old) # {},
         \A a, b \in stanzas : a.file \in MovedFiles /\ b.file \in MovedFiles => a = b,
         NEW new, new = MvReplace(stanzas, old)
  PROVE  /\ \A mv \in FilesOf(stanzas, old) : \E other \in new : other.nic = mv.nic
         /\ \A st \in stanzas : st.file # Exact(old) => st \in new
         /\ \A a, b \in new : a.file \in MovedFiles /\ b.file \in MovedFiles => a = b
<1> DEFINE Kvm    == Exact(KVM_DEFAULT_IFACE)
           To(st) == [st EXCEPT !.file = Kvm]
<1>1. Kvm \in Name /\ Kvm \in MovedFiles /\ Exact(old) \in MovedFiles
  BY ExactNames DEF Stems, MovedFiles
<1>2. CASE old = KVM_DEFAULT_IFACE
  BY <1>2 DEF MvReplace, FilesOf
<1>3. CASE old # KVM_DEFAULT_IFACE
  <2>1. new = {st \in stanzas : st.file \notin {Exact(old), Kvm}}
                \cup {To(st) : st \in FilesOf(stanzas, old)}
    BY <1>3 DEF MvReplace
  <2>2. Kvm # Exact(old)
    BY <1>3, ExactNames
  <2>3. ASSUME NEW st \in stanzas
        PROVE  To(st) \in Stanza /\ To(st).file = Kvm /\ To(st).nic = st.nic
    BY <1>1 DEF Stanza
  <2>4. PICK mv \in FilesOf(stanzas, old) : TRUE
    OBVIOUS
  <2> HIDE DEF To, Kvm
  <2>5. mv \in stanzas /\ mv.file = Exact(old)
    BY <2>4 DEF FilesOf
  <2>6. \A st \in stanzas : st.file \in MovedFiles => st = mv
    BY <1>1, <2>5
  <2>7. \A st \in stanzas : st.file # Exact(old) => st \in new
    BY <1>1, <2>1, <2>2, <2>5, <2>6
  <2>8. To(mv) \in new /\ To(mv).nic = mv.nic
    BY <2>1, <2>3, <2>4, <2>5
  <2>9. \A st \in FilesOf(stanzas, old) : \E other \in new : other.nic = st.nic
    BY <1>1, <2>6, <2>7, <2>8 DEF FilesOf
  <2>10. \A a \in new : a.file \in MovedFiles => a = To(mv)
    BY <1>1, <2>1, <2>5, <2>6 DEF FilesOf
  <2> QED BY <2>7, <2>9, <2>10
<1> QED BY <1>2, <1>3

(* What one edit does to the guest: another guest, where only the store    *)
(* edited has changed.                                                     *)
Replaced(g, s, new) == [g EXCEPT !.stanzas[s] = new]

LEMMA EditIsTyped ==
  ASSUME NEW g \in GuestType, NEW s \in StoreSet, NEW new \in SUBSET Stanza
  PROVE  /\ Replaced(g, s, new) \in GuestType
         /\ Replaced(g, s, new).stanzas[s] = new
         /\ Replaced(g, s, new).udev = g.udev
         /\ \A t \in StoreSet \ {s} : Replaced(g, s, new).stanzas[t] = g.stanzas[t]
<1>1. g.stanzas \in [StoreSet -> SUBSET Stanza]
  BY DEF GuestType
<1>2. Replaced(g, s, new) =
        [stanzas |-> [g.stanzas EXCEPT ![s] = new], dirs |-> g.dirs,
         extras |-> g.extras, udev |-> g.udev]
  BY DEF GuestType, Replaced
<1>3. [g.stanzas EXCEPT ![s] = new] \in [StoreSet -> SUBSET Stanza]
  BY <1>1
<1> QED BY <1>1, <1>2, <1>3 DEF GuestType

LEMMA UdevEditIsTyped ==
  ASSUME NEW g \in GuestType, NEW edited, edited = [g EXCEPT !.udev = FALSE]
  PROVE  edited \in GuestType /\ edited.stanzas = g.stanzas /\ edited.udev = FALSE
  BY DEF GuestType

(* The steps that edit the disk, as what they do to it and to the result.  *)
LEMMA UdevStep ==
  ASSUME TypeOK, RemoveUdevRules \/ CleanupState
  PROVE  /\ guest' \in GuestType /\ guest'.stanzas = guest.stanzas
         /\ success' \in BOOLEAN
         /\ missed \subseteq missed' /\ missed' \subseteq Replaceable \cup {"udev"}
         /\ guest'.udev => "udev" \in missed'
<1>1. guest \in GuestType /\ success \in BOOLEAN /\ missed \subseteq Replaceable \cup {"udev"}
  BY DEF TypeOK
<1>2. RemoveRules
  BY DEF RemoveUdevRules, CleanupState
<1>3. success' \in BOOLEAN
  BY <1>1, <1>2 DEF RemoveRules
<1>4. CASE guest' = [guest EXCEPT !.udev = FALSE] /\ UNCHANGED missed
  BY <1>1, <1>3, <1>4, UdevEditIsTyped
<1>5. CASE missed' = missed \cup {"udev"} /\ UNCHANGED guest
  BY <1>1, <1>3, <1>5
<1> QED BY <1>2, <1>4, <1>5 DEF RemoveRules

(* What becomes of the stanzas of one store in a step of a loop.           *)
Replacing(old, new) ==
  \/ store # "ifcfg" /\ \E files \in SUBSET guest.stanzas[store] :
       /\ new = SedReplace(guest.stanzas[store], store, old, files)
       /\ missed' = IF files = guest.stanzas[store] THEN missed ELSE missed \cup {old}
  \/ store = "ifcfg" /\ new = guest.stanzas["ifcfg"] /\ missed' = missed \cup {old}
  \/ /\ store = "ifcfg" /\ missed' = missed
     /\ FilesOf(guest.stanzas["ifcfg"], old) = {} /\ new = guest.stanzas["ifcfg"]
  \/ /\ store = "ifcfg" /\ stage = "fix" /\ missed' = missed
     /\ FilesOf(guest.stanzas["ifcfg"], old) # {}
     /\ new = MvReplace(guest.stanzas["ifcfg"], old)
  \/ /\ store = "ifcfg" /\ stage = "edit" /\ missed' = missed
     /\ new = SedReplace(guest.stanzas["ifcfg"], "ifcfg", old,
                         FilesOf(guest.stanzas["ifcfg"], KVM_DEFAULT_IFACE))

LEMMA ReplacingIsTyped ==
  ASSUME TypeOK, store \in StoreSet, NEW old \in Replaceable, NEW new, Replacing(old, new)
  PROVE  new \in SUBSET Stanza
<1>1. guest.stanzas[store] \in SUBSET Stanza
  BY DEF TypeOK, GuestType
<1>2. CASE \E files : new = SedReplace(guest.stanzas[store], store, old, files)
  BY <1>1, <1>2, SedIsSafe
<1>3. CASE store = "ifcfg" /\ new = MvReplace(guest.stanzas["ifcfg"], old)
  BY <1>1, <1>3, MoveRenames
<1>4. CASE store = "ifcfg" /\ new = guest.stanzas["ifcfg"]
  BY <1>1, <1>4
<1>5. \/ \E files : new = SedReplace(guest.stanzas[store], store, old, files)
      \/ store = "ifcfg" /\ new = MvReplace(guest.stanzas["ifcfg"], old)
      \/ store = "ifcfg" /\ new = guest.stanzas["ifcfg"]
  BY DEF Replacing
<1> QED BY <1>2, <1>3, <1>4, <1>5

LEMMA FixStep ==
  ASSUME TypeOK, FixIface
  PROVE  /\ stage \in {"fix", "edit"} /\ UNCHANGED <<store, original>>
         /\ store \in StoreSet /\ queue # <<>> /\ queue \in Seq(Replaceable)
         /\ Head(queue) \in Replaceable
         /\ stage' \in {"fix", "edit"} /\ (stage' = "edit" => store = "ifcfg" /\ stage = "fix" /\ queue' = queue)
         /\ queue' \in Seq(Replaceable)
         /\ success' \in BOOLEAN /\ missed' \subseteq Replaceable \cup {"udev"} /\ missed \subseteq missed'
         /\ guest' \in GuestType
         /\ \/ /\ guest' = guest /\ stage = "fix" /\ stage' = "fix"
               /\ queue' = <<>> /\ missed' = missed \cup ToSet(queue)
            \/ /\ stage' = "edit" \/ queue' = Tail(queue)
               /\ Replacing(Head(queue), guest'.stanzas[store])
               /\ \A t \in StoreSet \ {store} : guest'.stanzas[t] = guest.stanzas[t]
         /\ stage' = "edit" => \/ Head(queue) \in missed'
                               \/ guest'.stanzas["ifcfg"] = MvReplace(guest.stanzas["ifcfg"], Head(queue))
<1>1. /\ stage \in {"fix", "edit"} /\ UNCHANGED <<store, original>> /\ queue # <<>>
      /\ stage = "edit" => store = "ifcfg"
  BY DEF FixIface, SedFiles, NoIfcfg, MoveIfcfg, EditIfcfg, FixAbsent, TypeOK
<1>2. /\ store \in StoreSet /\ queue \in Seq(Replaceable) /\ guest \in GuestType
      /\ success \in BOOLEAN /\ missed \subseteq Replaceable \cup {"udev"}
  BY <1>1 DEF TypeOK
<1>3. Head(queue) \in Replaceable /\ Tail(queue) \in Seq(Replaceable)
  BY <1>1, <1>2, QueueNames
<1>i. "ifcfg" \in StoreSet
  BY StoreNames
<1>4. ASSUME NEW new \in SUBSET Stanza,
             guest' = Replaced(guest, store, new)
      PROVE  /\ guest' \in GuestType /\ guest'.stanzas[store] = new
             /\ \A t \in StoreSet \ {store} : guest'.stanzas[t] = guest.stanzas[t]
  BY <1>2, <1>4, EditIsTyped
<1>5. CASE \E files \in SUBSET guest.stanzas[store] : SedFiles(files)
  <2>1. PICK files \in SUBSET guest.stanzas[store] : SedFiles(files)
    BY <1>5
  <2> DEFINE new == SedReplace(guest.stanzas[store], store, Head(queue), files)
  <2>2. /\ stage = "fix" /\ store # "ifcfg" /\ guest' = Replaced(guest, store, new)
        /\ missed' = IF files = guest.stanzas[store] THEN missed ELSE missed \cup {Head(queue)}
        /\ queue' = Tail(queue) /\ UNCHANGED <<stage, success>>
    BY <2>1 DEF SedFiles, Replaced
  <2>3. Replacing(Head(queue), new)
    BY <2>2 DEF Replacing
  <2> HIDE DEF new
  <2>4. new \in SUBSET Stanza
    BY <1>2, <1>3, <2>3, ReplacingIsTyped
  <2>5. /\ guest' \in GuestType /\ guest'.stanzas[store] = new
        /\ \A t \in StoreSet \ {store} : guest'.stanzas[t] = guest.stanzas[t]
    BY <1>4, <2>2, <2>4
  <2> QED BY <1>1, <1>2, <1>3, <2>2, <2>3, <2>5
<1>6. CASE NoIfcfg
  <2>1. /\ stage = "fix" /\ store = "ifcfg" /\ UNCHANGED <<stage, guest, missed, success>>
        /\ queue' = Tail(queue) /\ FilesOf(guest.stanzas["ifcfg"], Head(queue)) = {}
    BY <1>6 DEF NoIfcfg
  <2>2. Replacing(Head(queue), guest'.stanzas[store])
    BY <2>1 DEF Replacing
  <2> QED BY <1>1, <1>2, <1>3, <2>1, <2>2
<1>7. ASSUME NEW new, store = "ifcfg", guest' = Replaced(guest, "ifcfg", new), Replacing(Head(queue), new)
      PROVE  /\ guest' \in GuestType /\ guest'.stanzas["ifcfg"] = new
             /\ \A t \in StoreSet \ {store} : guest'.stanzas[t] = guest.stanzas[t]
  <2>1. new \in SUBSET Stanza
    BY <1>2, <1>3, <1>7, ReplacingIsTyped
  <2> QED BY <1>4, <1>7, <2>1
<1>8. CASE MoveIfcfg
  <2> DEFINE new == MvReplace(guest.stanzas["ifcfg"], Head(queue))
  <2>1. /\ stage = "fix" /\ store = "ifcfg" /\ stage' = "edit" /\ UNCHANGED <<queue, success>>
        /\ FilesOf(guest.stanzas["ifcfg"], Head(queue)) # {}
        /\ \/ guest' = Replaced(guest, "ifcfg", new) /\ missed' = missed
           \/ missed' = missed \cup {Head(queue)} /\ guest' = guest
    BY <1>8 DEF MoveIfcfg, Replaced
  <2>2. CASE guest' = Replaced(guest, "ifcfg", new) /\ missed' = missed
    <3>1. Replacing(Head(queue), new)
      BY <2>1, <2>2 DEF Replacing
    <3> HIDE DEF new
    <3>2. /\ guest' \in GuestType /\ guest'.stanzas["ifcfg"] = new
          /\ \A t \in StoreSet \ {store} : guest'.stanzas[t] = guest.stanzas[t]
      BY <1>7, <2>1, <2>2, <3>1
    <3> QED BY <1>1, <1>2, <1>3, <2>1, <2>2, <3>1, <3>2 DEF new
  <2>3. CASE missed' = missed \cup {Head(queue)} /\ guest' = guest
    <3>1. Replacing(Head(queue), guest'.stanzas[store])
      BY <2>1, <2>3 DEF Replacing
    <3> QED BY <1>1, <1>2, <1>3, <2>1, <2>3, <3>1
  <2> QED BY <2>1, <2>2, <2>3
<1>9. CASE EditIfcfg
  <2> DEFINE new == SedReplace(guest.stanzas["ifcfg"], "ifcfg", Head(queue),
                               FilesOf(guest.stanzas["ifcfg"], KVM_DEFAULT_IFACE))
  <2>1. /\ stage = "edit" /\ store = "ifcfg" /\ stage' = "fix" /\ queue' = Tail(queue)
        /\ success' = success
        /\ \/ guest' = Replaced(guest, "ifcfg", new) /\ missed' = missed
           \/ missed' = missed \cup {Head(queue)} /\ guest' = guest
    BY <1>1, <1>9 DEF EditIfcfg, Replaced
  <2>2. CASE guest' = Replaced(guest, "ifcfg", new) /\ missed' = missed
    <3>1. Replacing(Head(queue), new)
      BY <2>1, <2>2 DEF Replacing
    <3> HIDE DEF new
    <3>2. /\ guest' \in GuestType /\ guest'.stanzas["ifcfg"] = new
          /\ \A t \in StoreSet \ {store} : guest'.stanzas[t] = guest.stanzas[t]
      BY <1>7, <2>1, <2>2, <3>1
    <3> QED BY <1>1, <1>2, <1>3, <2>1, <2>2, <3>1, <3>2
  <2>3. CASE missed' = missed \cup {Head(queue)} /\ guest' = guest
    <3>1. Replacing(Head(queue), guest'.stanzas[store])
      BY <2>1, <2>3 DEF Replacing
    <3> QED BY <1>1, <1>2, <1>3, <2>1, <2>3, <3>1
  <2> QED BY <2>1, <2>2, <2>3
<1>10. CASE FixAbsent
  <2>1. ToSet(queue) \subseteq Replaceable
    BY <1>2 DEF ToSet
  <2>2. <<>> \in Seq(Replaceable)
    OBVIOUS
  <2> QED BY <1>1, <1>2, <1>3, <1>10, <2>1, <2>2 DEF FixAbsent
<1> QED BY <1>5, <1>6, <1>8, <1>9, <1>10 DEF FixIface

(* A replacement adds nothing that goes by a VMware name; and if nothing   *)
(* has failed, what it was for goes by its name no longer.                 *)
LEMMA ReplacingRenames ==
  ASSUME TypeOK, store \in StoreSet, NEW old \in Replaceable, NEW new, Replacing(old, new),
         NEW name \in VMwareNames, NEW st \in new, Concerns(store, st, name)
  PROVE  /\ \E was \in guest.stanzas[store] : Concerns(store, was, name)
         /\ name = old => stage = "edit" \/ old \in missed'
<1>1. guest.stanzas[store] \in SUBSET Stanza
  BY DEF TypeOK, GuestType
<1>2. name # KVM_DEFAULT_IFACE /\ name \in Stems
  BY Names DEF Stems
<1>3. CASE store # "ifcfg"
  <2>1. PICK files \in SUBSET guest.stanzas[store] :
             /\ new = SedReplace(guest.stanzas[store], store, old, files)
             /\ missed' = IF files = guest.stanzas[store] THEN missed ELSE missed \cup {old}
    BY <1>3 DEF Replacing
  <2>2. Matches(store, st.iface, name)
    BY <1>3 DEF Concerns
  <2>3. st.iface.stem = name
    BY <2>2 DEF Matches
  <2>4. st \in guest.stanzas[store]
    <3>1. \E was \in guest.stanzas[store] : /\ st.file = was.file
                                            /\ st = was \/ st.iface.stem = KVM_DEFAULT_IFACE
      BY <1>1, <2>1, SedIsSafe
    <3> QED BY <1>2, <2>3, <3>1
  <2>5. ASSUME name = old, files = guest.stanzas[store] PROVE FALSE
    BY <1>1, <1>2, <2>1, <2>2, <2>5, SedIsWhole
  <2>6. name = old => old \in missed'
    BY <2>1, <2>5
  <2> QED BY <2>2, <2>4, <2>6 DEF Concerns
<1>4. CASE store = "ifcfg"
  <2>1. st.file = Exact(name)
    BY <1>4 DEF Concerns
  <2>2. CASE new = guest.stanzas["ifcfg"] /\ missed' = missed \cup {old}
    BY <1>4, <2>2
  <2>3. CASE FilesOf(guest.stanzas["ifcfg"], old) = {} /\ new = guest.stanzas["ifcfg"]
    BY <1>4, <2>1, <2>3 DEF FilesOf
  <2>4. CASE new = MvReplace(guest.stanzas["ifcfg"], old)
    <3>1. st.file # Exact(KVM_DEFAULT_IFACE)
      BY <1>2, <2>1, ExactNames
    <3>2. st \in guest.stanzas["ifcfg"] /\ name # old
      BY <1>1, <1>2, <1>4, <2>1, <2>4, <3>1, MoveRenames
    <3> QED BY <1>4, <3>2
  <2>5. CASE /\ stage = "edit"
             /\ new = SedReplace(guest.stanzas["ifcfg"], "ifcfg", old,
                                 FilesOf(guest.stanzas["ifcfg"], KVM_DEFAULT_IFACE))
    <3>1. PICK was \in guest.stanzas["ifcfg"] : st.file = was.file
      BY <1>1, <1>4, <2>5, SedIsSafe
    <3> QED BY <1>4, <2>1, <2>5, <3>1 DEF Concerns
  <2> QED BY <1>4, <2>2, <2>3, <2>4, <2>5 DEF Replacing
<1> QED BY <1>3, <1>4

LEMMA DhcpStep ==
  ASSUME TypeOK, SetDhcpFallback
  PROVE  /\ guest' \in GuestType
         /\ \A s \in StoreSet : guest.stanzas[s] \subseteq guest'.stanzas[s]
         /\ \A s \in StoreSet \ {"netplan"} : guest'.stanzas[s] = guest.stanzas[s]
<1> DEFINE new == guest.stanzas["netplan"] \cup {DhcpStanza}
<1>1. guest \in GuestType /\ "netplan" \in StoreSet
  BY StoreNames DEF TypeOK
<1>2. guest.stanzas["netplan"] \subseteq Stanza
  BY <1>1 DEF GuestType
<1>3. new \in SUBSET Stanza
  <2>1. Exact("") \in Name /\ Exact(KVM_DEFAULT_IFACE) \in Name
    BY ExactNames DEF Stems
  <2>2. DhcpStanza \in Stanza
    BY <2>1, NicsAssumption DEF DhcpStanza, Stanza
  <2> QED BY <1>2, <2>2
<1>4. CASE guest' = guest
  BY <1>1, <1>4
<1>5. CASE guest' = [guest EXCEPT !.stanzas["netplan"] = @ \cup {DhcpStanza}]
  <2>1. guest' = Replaced(guest, "netplan", new)
    BY <1>5 DEF Replaced
  <2> HIDE DEF new
  <2>2. guest' \in GuestType /\ guest'.stanzas["netplan"] = new
        /\ \A s \in StoreSet \ {"netplan"} : guest'.stanzas[s] = guest.stanzas[s]
    BY <1>1, <1>3, <2>1, EditIsTyped
  <2>3. guest.stanzas["netplan"] \subseteq new
    BY DEF new
  <2> QED BY <2>2, <2>3
<1> QED BY <1>4, <1>5 DEF SetDhcpFallback

(* What is in a queue and is not its head stays in it.                     *)
LEMMA TailKeeps ==
  ASSUME NEW S, NEW q \in Seq(S), q # <<>>, NEW i \in 1..Len(q), q[i] # Head(q)
  PROVE  i - 1 \in 1..Len(Tail(q)) /\ Tail(q)[i - 1] = q[i]
<1>1. i # 1
  OBVIOUS
<1> QED BY <1>1

LEMMA InQueue ==
  ASSUME NEW S, NEW q \in Seq(S)
  PROVE  /\ \A i \in 1..Len(q) : q[i] \in ToSet(q)
         /\ q # <<>> => Head(q) \in ToSet(q)
<1>1. DOMAIN q = 1..Len(q)
  OBVIOUS
<1>2. \A i \in 1..Len(q) : q[i] \in ToSet(q)
  BY <1>1 DEF ToSet
<1>3. q # <<>> => Head(q) = q[1] /\ 1 \in 1..Len(q)
  OBVIOUS
<1> QED BY <1>2, <1>3

LEMMA EmptyQueue == ASSUME NEW q, q = <<>> PROVE \A i \in 1..Len(q) : FALSE
  OBVIOUS

-----------------------------------------------------------------------------
LEMMA InitIInv == Init => IInv
  BY Queues, GuestsAssumption DEF Init, IInv, TypeOK, ToRename, ToEdit, AllRenamed, UdevGone, Ended

LEMMA StepIInv == IInv /\ [Next]_vars => IInv'
<1> SUFFICES ASSUME IInv, [Next]_vars PROVE IInv'
  OBVIOUS
<1>t. TypeOK
  BY DEF IInv
<1> USE DEF IInv, ToRename, ToEdit, AllRenamed, UdevGone
<1>1. CASE FixGuestNetwork
  <2>1. TypeOK'
    BY <1>1, <1>t, Queues DEF FixGuestNetwork, TypeOK, Ended
  <2> QED BY <1>1, <2>1 DEF FixGuestNetwork
<1>2. CASE NoDiskImage
  <2>1. TypeOK'
    BY <1>2, <1>t DEF NoDiskImage, TypeOK, Ended
  <2> QED BY <1>2, <2>1 DEF NoDiskImage
<1>3. CASE RemoveUdevRules
  <2>1. stage' = "detect" /\ UNCHANGED <<store, queue, original>>
    BY <1>3 DEF RemoveUdevRules
  <2>2. TypeOK'
    BY <1>3, <1>t, <2>1, UdevStep DEF TypeOK, Ended
  <2> QED BY <2>1, <2>2
<1>4. ASSUME NEW old_iface \in OldIfaces, NEW seen \in SUBSET StoreSet, Detect(old_iface, seen)
      PROVE  IInv'
  <2>1. /\ UNCHANGED <<guest, success, missed, original>>
        /\ store' \in StoreSet \cup {""}
        /\ stage' = IF store' = "" THEN "cleanup" ELSE "fix"
    BY <1>4, <1>t, DetectedIsStore DEF Detect, TypeOK
  <2>2. /\ queue' \in Seq(Replaceable)
        /\ store' # "" /\ old_iface = "" => queue' = VMWARE_IFACE_NAMES
    BY <1>4, Queues DEF Detect, IfacesToReplace
  <2>3. TypeOK'
    BY <1>t, <2>1, <2>2 DEF TypeOK, Ended
  <2>4. ToRename' /\ ToEdit' /\ AllRenamed' /\ UdevGone'
    <3>1. \A name \in VMwareNames : queue' = VMWARE_IFACE_NAMES => Queued(name)'
      BY Names, Zenon DEF Queued
    <3>2. store' = "" => \A name : ~Named(name)'
      BY DEF Named
    <3> QED BY <2>1, <2>2, <3>1, <3>2
  <2> QED BY <2>3, <2>4
<1>5. CASE FixIface
  <2>1. TypeOK'
    BY <1>5, <1>t, FixStep DEF TypeOK
  <2>2. ASSUME NEW name \in VMwareNames, Named(name)'
        PROVE  Named(name) /\ (stage = "fix" /\ name = Head(queue) => name \in missed')
    <3>1. CASE guest' = guest /\ missed' = missed \cup ToSet(queue) /\ stage = "fix"
      <4>1. Named(name) /\ queue # <<>> /\ queue \in Seq(Replaceable)
        BY <1>5, <1>t, <2>2, <3>1, FixStep DEF Named
      <4>2. Head(queue) \in ToSet(queue)
        BY <4>1, InQueue
      <4> QED BY <3>1, <4>1, <4>2
    <3>2. CASE Replacing(Head(queue), guest'.stanzas[store])
      <4>1. store' = store /\ store \in StoreSet /\ Head(queue) \in Replaceable
        BY <1>5, <1>t, FixStep
      <4>2. PICK st \in guest'.stanzas[store] : Concerns(store, st, name)
        BY <2>2, <4>1 DEF Named
      <4>3. store # ""
        BY <2>2, <4>1 DEF Named
      <4> QED BY <1>t, <3>2, <4>1, <4>2, <4>3, ReplacingRenames DEF Named
    <3> QED BY <1>5, <1>t, <3>1, <3>2, FixStep
  <2>3. ToEdit'
    <3> SUFFICES ASSUME stage' = "edit", queue' = queue, Head(queue) # KVM_DEFAULT_IFACE,
                        Head(queue) \notin missed', Named(Head(queue))'
                 PROVE  FALSE
      BY <1>5, <1>t, FixStep
    <3>1. /\ store' = store /\ store = "ifcfg" /\ Head(queue) \in Replaceable
          /\ guest'.stanzas["ifcfg"] = MvReplace(guest.stanzas["ifcfg"], Head(queue))
      BY <1>5, <1>t, FixStep
    <3>2. guest.stanzas["ifcfg"] \in SUBSET Stanza
      BY <1>t, StoreNames DEF TypeOK, GuestType
    <3>3. PICK st \in guest'.stanzas["ifcfg"] : st.file = Exact(Head(queue))
      BY <3>1 DEF Named, Concerns
    <3>4. st \in MvReplace(guest.stanzas["ifcfg"], Head(queue)) /\ Head(queue) \in Replaceable
      BY <3>1, <3>3
    <3> QED BY <3>2, <3>3, <3>4, MoveRenames
  <2>4. ToRename'
    <3> SUFFICES ASSUME OldIfaces = {""}, NEW name \in VMwareNames, Named(name)'
                 PROVE  Queued(name)' \/ name \in missed'
      BY <2>1
    <3>1. /\ stage \in {"fix", "edit"} /\ missed \subseteq missed' /\ Named(name)
          /\ queue \in Seq(Replaceable) /\ queue # <<>>
      BY <1>5, <1>t, <2>2, FixStep
    <3>2. Queued(name) \/ name \in missed
      BY <3>1
    <3>3. CASE stage' = "edit"
      <4>1. queue' = queue
        BY <1>5, <1>t, <3>3, FixStep
      <4> QED BY <3>1, <3>2, <4>1 DEF Queued
    <3>4. CASE queue' = <<>> /\ missed' = missed \cup ToSet(queue)
      <4>1. Queued(name) => name \in ToSet(queue)
        BY <3>1, InQueue DEF Queued
      <4> QED BY <3>1, <3>2, <3>4, <4>1
    <3>5. CASE queue' = Tail(queue)
      <4>1. CASE name = Head(queue)
        <5>1. stage = "fix" => name \in missed'
          BY <2>2, <4>1
        <5>2. stage = "edit" => name \in missed
          BY <3>1, <4>1, Names
        <5> QED BY <3>1, <5>1, <5>2
      <4>2. CASE name # Head(queue) /\ Queued(name)
        <5>1. PICK i \in 1..Len(queue) : queue[i] = name
          BY <4>2 DEF Queued
        <5>2. i - 1 \in 1..Len(Tail(queue)) /\ Tail(queue)[i - 1] = name
          BY <3>1, <4>2, <5>1, TailKeeps
        <5> QED BY <3>5, <5>2 DEF Queued
      <4> QED BY <3>1, <3>2, <4>1, <4>2
    <3> QED BY <1>5, <1>t, <3>3, <3>4, <3>5, FixStep
  <2>5. stage' \in {"fix", "edit"}
    BY <1>5, <1>t, FixStep
  <2> QED BY <2>1, <2>3, <2>4, <2>5
<1>6. CASE FixDone
  <2>1. /\ stage = "fix" /\ queue = <<>> /\ stage' = "cleanup"
        /\ UNCHANGED <<guest, store, queue, success, missed, original>>
    BY <1>6 DEF FixDone
  <2>2. TypeOK'
    BY <1>t, <2>1 DEF TypeOK, Ended
  <2>3. \A name : ~Queued(name)
    BY <2>1, EmptyQueue, Zenon DEF Queued
  <2>4. AllRenamed'
    BY <2>1, <2>3 DEF Named
  <2> QED BY <2>1, <2>2, <2>4
<1>7. CASE CleanupState
  <2>1. stage = "cleanup" /\ stage' = "done" /\ UNCHANGED <<store, queue, original>>
    BY <1>7 DEF CleanupState
  <2>2. TypeOK'
    BY <1>7, <1>t, <2>1, UdevStep DEF TypeOK, Ended
  <2> QED BY <1>7, <1>t, <2>1, <2>2, UdevStep DEF Named
<1>8. CASE Killed
  <2>1. TypeOK'
    BY <1>8, <1>t DEF Killed, TypeOK, Ended
  <2> QED BY <1>8, <2>1 DEF Killed
<1>9. CASE SetDhcpFallback
  <2>1. stage' = "idle" /\ success' \in BOOLEAN /\ UNCHANGED <<store, queue, missed, original>>
    BY <1>9 DEF SetDhcpFallback
  <2>2. guest' \in GuestType
    BY <1>9, <1>t, DhcpStep
  <2>3. TypeOK'
    BY <1>t, <2>1, <2>2 DEF TypeOK, Ended
  <2> QED BY <2>1, <2>3
<1>10. CASE UNCHANGED vars
  <2>1. TypeOK'
    BY <1>10, <1>t DEF vars, TypeOK
  <2> QED BY <1>10, <2>1 DEF vars, Named, Queued
<1> QED BY <1>1, <1>2, <1>3, <1>4, <1>5, <1>6, <1>7, <1>8, <1>9, <1>10 DEF Next, Steps

-----------------------------------------------------------------------------
(* What the guest keeps, where its ifcfg files are apart.                  *)
Kept == /\ IfcfgApart(guest)
        /\ SettingsSurvive
        /\ OldIfaces \subseteq VMwareNames \cup {""} => OthersUntouched

LEMMA InitKept == ApartGuests /\ Init => Kept
  BY DEF ApartGuests, Init, Kept, SettingsSurvive, OthersUntouched, Holds

(* A step that keeps every stanza, and adds none to the ifcfg files, keeps *)
(* what is kept.                                                           *)
LEMMA MoreIsKept ==
  ASSUME Kept, original' = original,
         \A s \in StoreSet : guest.stanzas[s] \subseteq guest'.stanzas[s],
         guest'.stanzas["ifcfg"] = guest.stanzas["ifcfg"]
  PROVE  Kept'
<1>1. IfcfgApart(guest)'
  BY DEF Kept, IfcfgApart
<1>2. SettingsSurvive'
  BY DEF Kept, SettingsSurvive, Holds
<1>3. OldIfaces \subseteq VMwareNames \cup {""} => OthersUntouched'
  BY DEF Kept, OthersUntouched
<1> QED BY <1>1, <1>2, <1>3 DEF Kept

(* A replacement keeps what is kept.                                       *)
LEMMA ReplacingIsKept ==
  ASSUME TypeOK, store \in StoreSet, NEW old \in Replaceable, NEW new, Replacing(old, new), IfcfgApart(guest)
  PROVE  LET was == guest.stanzas[store]
         IN  /\ NicsKept(was, new)
             /\ \A st \in was : st.iface.stem # old /\ st.file # Exact(old) => st \in new
             /\ store = "ifcfg" => \A a, b \in new : a.file \in MovedFiles /\ b.file \in MovedFiles => a = b
<1> DEFINE was == guest.stanzas[store]
<1>1. was \in SUBSET Stanza
  BY DEF TypeOK, GuestType
<1>2. store = "ifcfg" => \A a, b \in was : a.file \in MovedFiles /\ b.file \in MovedFiles => a = b
  BY DEF IfcfgApart
<1>3. ASSUME NEW files, new = SedReplace(was, store, old, files)
      PROVE  /\ NicsKept(was, new)
             /\ \A st \in was : st.iface.stem # old => st \in new
             /\ store = "ifcfg" => \A a, b \in new : a.file \in MovedFiles /\ b.file \in MovedFiles => a = b
  <2> HIDE DEF was
  <2>1. \A st \in was : st.iface.stem # old => ~Matches(store, st.iface, old)
    BY DEF Matches
  <2>2. NicsKept(was, new)
    BY <1>1, <1>3, SedIsSafe
  <2>3. \A st \in was : ~Matches(store, st.iface, old) => st \in new
    BY <1>1, <1>3, SedIsSafe
  <2>4. \A a, b \in new : Only(was, a, b) => a = b
    BY <1>1, <1>3, SedIsSafe
  <2> QED BY <1>2, <2>1, <2>2, <2>3, <2>4 DEF Only
<1>4. CASE new = was
  BY <1>2, <1>4 DEF NicsKept
<1>5. CASE store = "ifcfg" /\ FilesOf(was, old) # {} /\ new = MvReplace(was, old)
  <2> HIDE DEF was
  <2>1. \A a, b \in was : a.file \in MovedFiles /\ b.file \in MovedFiles => a = b
    BY <1>2, <1>5
  <2>2. FilesOf(was, old) # {} /\ new = MvReplace(was, old)
    BY <1>5
  <2>3. NicsKept(was, new)
    <3>1. PICK mv \in FilesOf(was, old) : TRUE
      BY <2>2
    <3>2. mv \in was /\ mv.file = Exact(old) /\ mv.file \in MovedFiles
      BY <3>1 DEF FilesOf, MovedFiles
    <3>3. \E other \in new : other.nic = mv.nic
      BY <1>1, <2>1, <2>2, MoveIsSafe
    <3>4. \A st \in was : st.file # Exact(old) => st \in new
      BY <1>1, <2>1, <2>2, MoveIsSafe
    <3>5. \A st \in was : st.file = Exact(old) => st = mv
      BY <2>1, <3>2
    <3> QED BY <3>3, <3>4, <3>5 DEF NicsKept
  <2>4. \A st \in was : st.file # Exact(old) => st \in new
    BY <1>1, <2>1, <2>2, MoveIsSafe
  <2>5. \A a, b \in new : a.file \in MovedFiles /\ b.file \in MovedFiles => a = b
    BY <1>1, <2>1, <2>2, MoveIsSafe
  <2> QED BY <2>3, <2>4, <2>5 DEF was
<1>6. CASE \E files : new = SedReplace(was, store, old, files)
  BY <1>3, <1>6
<1> HIDE DEF was
<1>7. new = was \/ (store = "ifcfg" /\ FilesOf(was, old) # {} /\ new = MvReplace(was, old))
        \/ \E files : new = SedReplace(was, store, old, files)
  BY DEF Replacing, was
<1> QED BY <1>4, <1>5, <1>6, <1>7 DEF was

LEMMA StepKept == IInv /\ Kept /\ [Next]_vars => Kept'
<1> SUFFICES ASSUME IInv, Kept, [Next]_vars PROVE Kept'
  OBVIOUS
<1>t. TypeOK
  BY DEF IInv
<1>1. CASE FixIface
  <2> DEFINE old == Head(queue)
             was == guest.stanzas[store]
             new == guest'.stanzas[store]
  <2>1. /\ original' = original /\ store \in StoreSet /\ old \in Replaceable
        /\ \/ guest' = guest
           \/ /\ Replacing(old, new)
              /\ \A t \in StoreSet \ {store} : guest'.stanzas[t] = guest.stanzas[t]
    BY <1>1, <1>t, FixStep
  <2>2. CASE guest' = guest
    BY <2>1, <2>2, MoreIsKept, StoreNames
  <2>3. CASE /\ Replacing(old, new)
             /\ \A t \in StoreSet \ {store} : guest'.stanzas[t] = guest.stanzas[t]
    <3>3. /\ NicsKept(was, new)
          /\ \A st \in was : st.iface.stem # old /\ st.file # Exact(old) => st \in new
          /\ store = "ifcfg" => \A a, b \in new : a.file \in MovedFiles /\ b.file \in MovedFiles => a = b
      BY <1>t, <2>1, <2>3, ReplacingIsKept DEF Kept
    <3>4. IfcfgApart(guest)'
      <4>1. CASE store = "ifcfg"
        BY <3>3, <4>1 DEF IfcfgApart
      <4>2. CASE store # "ifcfg"
        BY <2>3, <4>2, StoreNames DEF Kept, IfcfgApart
      <4> QED BY <4>1, <4>2
    <3>5. SettingsSurvive'
      <4> SUFFICES ASSUME NEW s \in StoreSet PROVE Holds(original, s) \subseteq Holds(guest', s)
        BY <2>1 DEF SettingsSurvive
      <4>1. Holds(original, s) \subseteq Holds(guest, s)
        BY DEF Kept, SettingsSurvive
      <4>2. Holds(guest, s) \subseteq Holds(guest', s)
        BY <2>3, <3>3 DEF Holds, NicsKept
      <4> QED BY <4>1, <4>2
    <3>6. ASSUME OldIfaces \subseteq VMwareNames \cup {""} PROVE OthersUntouched'
      <4> SUFFICES ASSUME NEW s \in StoreSet, NEW st \in original.stanzas[s],
                          st.iface.stem \notin VMwareNames, st.file.stem \notin VMwareNames
                   PROVE  st \in guest'.stanzas[s]
        BY <2>1 DEF OthersUntouched
      <4>1. st \in guest.stanzas[s]
        BY <3>6 DEF Kept, OthersUntouched
      <4>2. old \in VMwareNames
        BY <2>1, <3>6 DEF Replaceable
      <4>3. st.iface.stem # old /\ st.file # Exact(old)
        <5>1. Exact(old).stem = old
          BY DEF Exact
        <5> QED BY <4>2, <5>1
      <4> QED BY <2>3, <3>3, <4>1, <4>3
    <3> QED BY <3>4, <3>5, <3>6 DEF Kept
  <2> QED BY <2>1, <2>2, <2>3
<1>2. CASE RemoveUdevRules \/ CleanupState
  <2>1. original' = original
    BY <1>2 DEF RemoveUdevRules, CleanupState
  <2> QED BY <1>2, <1>t, <2>1, UdevStep, MoreIsKept
<1>3. CASE SetDhcpFallback
  <2>1. original' = original
    BY <1>3 DEF SetDhcpFallback
  <2> QED BY <1>3, <1>t, <2>1, DhcpStep, MoreIsKept, StoreNames
<1>4. CASE UNCHANGED <<guest, original>>
  BY <1>4, MoreIsKept
<1> QED BY <1>1, <1>2, <1>3, <1>4
        DEF Next, Steps, FixGuestNetwork, NoDiskImage, Detect, FixDone, Killed, vars

-----------------------------------------------------------------------------
(* What is known of the stage a call is at holds in every reachable state. *)
THEOREM Invariance == Spec => []IInv
  BY InitIInv, StepIInv, PTL DEF Spec

(* Every variable keeps its type.                                          *)
THEOREM TypeCorrect == Spec => []TypeOK
<1>1. IInv => TypeOK
  BY DEF IInv
<1> QED BY <1>1, Invariance, PTL

(* What still goes by a VMware name at the end of a run without old_iface, *)
(* in the store it detected, is what a command of that run has failed on:  *)
(* whichever edits of this run or of earlier ones failed or were cut off.  *)
THEOREM WhatIsLeftWasMissed == Spec => []LeftIsMissed
<1>1. IInv => LeftIsMissed
  BY DEF IInv, AllRenamed, UdevGone, Named, LeftIsMissed
<1> QED BY <1>1, Invariance, PTL

(* Where at most one ifcfg file is of a name that is moved or moved to, a  *)
(* guest keeps every NIC's settings through any runs, failures and kills.  *)
THEOREM SettingsAreKept == ApartGuests /\ Spec => []SettingsSurvive
<1>1. ApartGuests /\ Spec => []Kept
  BY InitKept, StepKept, Invariance, PTL DEF Spec
<1>2. Kept => SettingsSurvive
  BY DEF Kept
<1> QED BY <1>1, <1>2, PTL

(* There, a stanza whose text holds no VMware name, in a file that goes by *)
(* none, is left as it was, if callers pass VMware names only.             *)
THEOREM OthersAreUntouched ==
  ASSUME OldIfaces \subseteq VMwareNames \cup {""}
  PROVE  ApartGuests /\ Spec => []OthersUntouched
<1>1. ApartGuests /\ Spec => []Kept
  BY InitKept, StepKept, Invariance, PTL DEF Spec
<1>2. Kept => OthersUntouched
  BY DEF Kept
<1> QED BY <1>1, <1>2, PTL
=============================================================================
