---------------------------- MODULE GuestNetwork ----------------------------
(***************************************************************************)
(* fix_guest_network and set_dhcp_fallback (fixup/network.py): the network *)
(* configuration of a guest's disk is moved from VMware's interface names  *)
(* to the one expected under KVM, by one virt-customize run per edit.      *)
(*                                                                         *)
(* The guest's configuration is seen as stanzas: what a Netplan key, an    *)
(* ifcfg file, a .network file or a connection file says of one interface. *)
(* A stanza is the text that names the interface, the NIC whose settings   *)
(* it holds, and in an ifcfg file the name in the file's own name.         *)
(***************************************************************************)
EXTENDS Integers, Sequences, SequencesExt

CONSTANTS Guests,        \* the guest disks a fixup may start on: see GuestType
          OldIfaces,     \* values the caller may pass for old_iface ("" : none)
          Nics,          \* whose settings a stanza may hold; "dhcp" is nobody's
          Leads, Rests   \* what may stand before and after a name, as in br-ens192
                         \* or ens192.100

VMWARE_IFACE_NAMES == <<"ens160", "ens192", "ens224", "ens256", "ens161", "ens193">>
KVM_DEFAULT_IFACE  == "ens18"
VMwareNames        == {VMWARE_IFACE_NAMES[i] : i \in 1..Len(VMWARE_IFACE_NAMES)}

\* The checks of _detect_network_config, in order.
Stores   == <<"netplan", "ifcfg", "networkd", "nm">>
StoreSet == {Stores[i] : i \in 1..Len(Stores)}

\* The text of a name.  sed looks for a stem wherever it stands in it; of the
\* stems none is a part of another.
Stems    == VMwareNames \cup {KVM_DEFAULT_IFACE, "eno1", ""}
Name     == [lead : Leads, stem : Stems, rest : Rests]
Exact(n) == [lead |-> "", stem |-> n, rest |-> ""]

Stanza    == [file : Name, iface : Name, nic : Nics]   \* file is of ifcfg stanzas
GuestType == [stanzas : [StoreSet -> SUBSET Stanza],
              dirs    : SUBSET StoreSet,   \* configuration directories present
              extras  : SUBSET StoreSet,   \* those with files of other kinds
              udev    : BOOLEAN]           \* 70-persistent-net.rules

ASSUME GuestsAssumption == Guests \subseteq GuestType
ASSUME NicsAssumption   == "dhcp" \in Nics   \* what set_dhcp_fallback writes
ASSUME NamesAssumption  == "" \in Leads \cap Rests

\* A caller's name is no part of another one, as ens1 would be.
ASSUME OldIfacesAssumption == OldIfaces \subseteq Stems

VARIABLES
  stage,    \* the step fix_guest_network is at
  guest,    \* the guest's disk
  store,    \* config_type, "" when none was found
  queue,    \* the interface names _fix_* has still to replace
  success,  \* result.success
  missed,   \* ghost: the names, and "udev", whose command of this call has not
            \* done all its work
  original  \* ghost: the disk the fixups started on

vars == <<stage, guest, store, queue, success, missed, original>>

\* The store's directory has at least one file.
Listed(g, s) == s \in g.dirs /\ (g.stanzas[s] # {} \/ s \in g.extras)

StoresWithFiles(g, seen) == {i \in 1..Len(Stores) : Stores[i] \in seen /\ Listed(g, Stores[i])}

\* The first directory decides that virt-ls can list and that is not empty.
_detect_network_config(g, seen) ==
  IF StoresWithFiles(g, seen) = {} THEN ""
  ELSE Stores[CHOOSE i \in StoresWithFiles(g, seen) :
                \A j \in StoresWithFiles(g, seen) : i <= j]

\* Mutant: the sed expression matches every interface name.
Matches_Any(kind, name, old) == kind = "netplan" \/ name.lead = ""

\* The text sed looks for is a part of the name.  But for Netplan, a key and
\* "=" come right before it.
Matches(kind, name, old) == name.stem = old /\ (kind = "netplan" \/ name.lead = "")

\* sed 's/<old>/<new>/g' keeps what stands around the match.
Edited(kind, st, old) ==
  IF Matches(kind, st.iface, old) THEN [st EXCEPT !.iface.stem = KVM_DEFAULT_IFACE] ELSE st

\* Mutant: sed writes a file of the new name, over what it held.
SedReplace_OneFile(stanzas, kind, old, files) ==
  LET found == {st \in files \cap stanzas : Matches(kind, st.iface, old)}
  IN  IF found = {} THEN stanzas
      ELSE {st \in stanzas \ found : st.iface # Exact(KVM_DEFAULT_IFACE)}
             \cup {Edited(kind, st, old) : st \in found}

\* sed over the stanzas in files, of all those of the directory.
SedReplace(stanzas, kind, old, files) ==
  {IF st \in files THEN Edited(kind, st, old) ELSE st : st \in stanzas}

FilesOf(stanzas, name) == {st \in stanzas : st.file = Exact(name)}

\* mv ifcfg-<old> ifcfg-<new>: what <new> held is gone.  A file is not moved
\* onto itself.
MvReplace(stanzas, old) ==
  IF old = KVM_DEFAULT_IFACE THEN stanzas
  ELSE {st \in stanzas : st.file \notin {Exact(old), Exact(KVM_DEFAULT_IFACE)}}
         \cup {[st EXCEPT !.file = Exact(KVM_DEFAULT_IFACE)] : st \in FilesOf(stanzas, old)}

IfacesToReplace(old_iface) == IF old_iface = "" THEN VMWARE_IFACE_NAMES ELSE <<old_iface>>

Ended == {"idle", "done", "failed"}

Init == /\ guest \in Guests
        /\ original = guest
        /\ stage = "idle"
        /\ store = ""
        /\ queue = <<>>
        /\ success = TRUE
        /\ missed = {}

-----------------------------------------------------------------------------
(* fix_guest_network                                                       *)

FixGuestNetwork == /\ stage \in Ended
                   /\ stage' = "udev"
                   /\ success' = TRUE
                   /\ missed' = {}
                   /\ store' = ""
                   /\ queue' = <<>>
                   /\ UNCHANGED <<guest, original>>

\* "Disk image not found"
NoDiskImage == /\ stage \in Ended
               /\ stage' = "failed"
               /\ success' = FALSE
               /\ UNCHANGED <<guest, store, queue, missed, original>>

\* "rm ... || true" does its work or not: the exit status does not tell, and a
\* status other than 0 only leaves an action unrecorded.  Only a virt-customize
\* that is not on PATH is an error.
RemoveRules == /\ \/ guest' = [guest EXCEPT !.udev = FALSE] /\ UNCHANGED missed
                  \/ missed' = missed \cup {"udev"} /\ UNCHANGED guest
               /\ success' \in {success, FALSE}

RemoveUdevRules == /\ stage = "udev"
                   /\ RemoveRules
                   /\ stage' = "detect"
                   /\ UNCHANGED <<store, queue, original>>

\* Mutant: a guest without static configuration is not told apart.
Detect_AlwaysFixes(old_iface, seen) ==
  /\ stage = "detect"
  /\ store' = _detect_network_config(guest, seen)
  /\ queue' = IF store' = "" THEN <<>> ELSE IfacesToReplace(old_iface)
  /\ stage' = "fix"
  /\ UNCHANGED <<guest, success, missed, original>>

\* virt-ls lists the directories in seen, and fails on the others or is not on
\* PATH, which passes for a guest without them.
Detect(old_iface, seen) ==
  /\ stage = "detect"
  /\ store' = _detect_network_config(guest, seen)
  /\ queue' = IF store' = "" THEN <<>> ELSE IfacesToReplace(old_iface)
  /\ stage' = IF store' = "" THEN "cleanup" ELSE "fix"
  /\ UNCHANGED <<guest, success, missed, original>>

\* Mutant: a name that is still in a file is tried again after the others.
SedFiles_Retries(files) ==
  /\ stage = "fix" /\ store # "ifcfg"
  /\ queue # <<>>
  /\ guest' = [guest EXCEPT !.stanzas[store] = SedReplace(@, store, Head(queue), files)]
  /\ missed' = IF files = guest.stanzas[store] THEN missed ELSE missed \cup {Head(queue)}
  /\ queue' = IF files = guest.stanzas[store] THEN Tail(queue) ELSE Append(Tail(queue), Head(queue))
  /\ UNCHANGED <<stage, store, success, original>>

\* One interface name in _fix_netplan, _fix_networkd or _fix_network_manager:
\* "find -exec sed" edits any of the files, and returns 0 whichever they are.
SedFiles(files) ==
  /\ stage = "fix" /\ store # "ifcfg"
  /\ queue # <<>>
  /\ guest' = [guest EXCEPT !.stanzas[store] = SedReplace(@, store, Head(queue), files)]
  /\ missed' = IF files = guest.stanzas[store] THEN missed ELSE missed \cup {Head(queue)}
  /\ queue' = Tail(queue)
  /\ UNCHANGED <<stage, store, success, original>>

\* One name in _fix_ifcfg: there is no such file; or it is moved (or mv fails),
\* and the seds on the new file are still to come.
NoIfcfg == /\ stage = "fix" /\ store = "ifcfg"
           /\ queue # <<>>
           /\ FilesOf(guest.stanzas["ifcfg"], Head(queue)) = {}
           /\ queue' = Tail(queue)
           /\ UNCHANGED <<stage, guest, store, success, missed, original>>

MoveIfcfg == /\ stage = "fix" /\ store = "ifcfg"
             /\ queue # <<>>
             /\ FilesOf(guest.stanzas["ifcfg"], Head(queue)) # {}
             /\ \/ /\ guest' = [guest EXCEPT !.stanzas["ifcfg"] = MvReplace(@, Head(queue))]
                   /\ UNCHANGED missed
                \/ missed' = missed \cup {Head(queue)} /\ UNCHANGED guest
             /\ stage' = "edit"
             /\ UNCHANGED <<store, queue, success, original>>

\* sed -i on DEVICE= in the new file; and on NAME=, which names no interface.
EditIfcfg ==
  /\ stage = "edit"
  /\ \/ /\ guest' = [guest EXCEPT !.stanzas["ifcfg"] =
                       SedReplace(@, "ifcfg", Head(queue), FilesOf(@, KVM_DEFAULT_IFACE))]
        /\ UNCHANGED missed
     \/ missed' = missed \cup {Head(queue)} /\ UNCHANGED guest
  /\ queue' = Tail(queue)
  /\ stage' = "fix"
  /\ UNCHANGED <<store, success, original>>

\* "virt-customize not found" ends the loop.
FixAbsent == /\ stage = "fix"
             /\ queue # <<>>
             /\ queue' = <<>>
             /\ success' = FALSE
             /\ missed' = missed \cup ToSet(queue)
             /\ UNCHANGED <<stage, guest, store, original>>

\* Mutant: the last name of the list is left out.
FixDone_Early == /\ stage = "fix"
                 /\ Len(queue) <= 1
                 /\ stage' = "cleanup"
                 /\ UNCHANGED <<guest, store, queue, success, missed, original>>

FixDone == /\ stage = "fix"
           /\ queue = <<>>
           /\ stage' = "cleanup"
           /\ UNCHANGED <<guest, store, queue, success, missed, original>>

\* _cleanup_network_state: of the paths it removes, only the udev rules are
\* state of this model.
CleanupState == /\ stage = "cleanup"
                /\ RemoveRules
                /\ stage' = "done"
                /\ UNCHANGED <<store, queue, original>>

\* The program is killed, and with it a script between two of its commands; the
\* disk keeps the edits made so far.
Killed == /\ stage \notin Ended
          /\ stage' = "idle"
          /\ UNCHANGED <<guest, store, queue, success, missed, original>>

-----------------------------------------------------------------------------
(* set_dhcp_fallback: a Netplan file for the new name.  Where /etc/netplan  *)
(* does not exist the shell's error is swallowed.                          *)
DhcpStanza == [file |-> Exact(""), iface |-> Exact(KVM_DEFAULT_IFACE), nic |-> "dhcp"]

SetDhcpFallback ==
  /\ stage \in Ended
  /\ \/ /\ guest' = IF "netplan" \in guest.dirs
                      THEN [guest EXCEPT !.stanzas["netplan"] = @ \cup {DhcpStanza}]
                      ELSE guest
        /\ success' = TRUE
     \/ success' = TRUE /\ UNCHANGED guest
     \/ success' = FALSE /\ UNCHANGED guest
  /\ stage' = "idle"
  /\ UNCHANGED <<store, queue, missed, original>>

FixIface == \/ store \in StoreSet /\ \E files \in SUBSET guest.stanzas[store] : SedFiles(files)
            \/ NoIfcfg \/ MoveIfcfg \/ EditIfcfg \/ FixAbsent

Steps == \/ RemoveUdevRules
         \/ \E old_iface \in OldIfaces, seen \in SUBSET StoreSet : Detect(old_iface, seen)
         \/ FixIface \/ FixDone \/ CleanupState

Next == FixGuestNetwork \/ NoDiskImage \/ Steps \/ Killed \/ SetDhcpFallback

Spec == Init /\ [][Next]_vars

\* A loop over six names and its child processes: each step ends.
FairSpec == Spec /\ WF_vars(Steps)

-----------------------------------------------------------------------------
Replaceable == VMwareNames \cup (OldIfaces \ {""})

TypeOK == /\ guest \in GuestType
          /\ original \in Guests
          /\ stage \in Ended \cup {"udev", "detect", "fix", "edit", "cleanup"}
          /\ store \in StoreSet \cup {""}
          /\ stage = "fix" => store # ""
          /\ stage = "edit" => store = "ifcfg" /\ queue # <<>>
          /\ queue \in Seq(Replaceable)
          /\ success \in BOOLEAN
          /\ missed \subseteq Replaceable \cup {"udev"}

Holds(g, s) == {st.nic : st \in g.stanzas[s]}

(***************************************************************************)
(* The settings of every NIC the guest had are still in the store they     *)
(* were in, however often the fixup is run, fails or is killed half way.   *)
(***************************************************************************)
SettingsSurvive == \A s \in StoreSet : Holds(original, s) \subseteq Holds(guest, s)

\* What the fixup of name looks for: the ifcfg file of that name (not what the
\* file says, which is of no avail once it is moved), or a setting that names it.
Concerns(s, st, name) == IF s = "ifcfg" THEN st.file = Exact(name) ELSE Matches(s, st.iface, name)

(***************************************************************************)
(* One failure hides no other name: when a run without old_iface ends,     *)
(* what still goes by a VMware name in the store it detected does so       *)
(* because the command for that very name has failed in this run, whatever *)
(* earlier runs have done; and so for a udev rule that pins a name.        *)
(***************************************************************************)
LeftIsMissed ==
  stage = "done" /\ OldIfaces = {""} =>
    /\ guest.udev => "udev" \in missed
    /\ store # "" => \A st \in guest.stanzas[store], name \in VMwareNames :
                        Concerns(store, st, name) => name \in missed

(***************************************************************************)
(* What holds no VMware name is left as it is: a NIC whose stanza names    *)
(* another interface, in no file named by one, keeps that stanza.  (sed    *)
(* looks for a part of the text: ens192.100 does hold a VMware name.)      *)
(***************************************************************************)
OthersUntouched ==
  \A s \in StoreSet : \A st \in original.stanzas[s] :
    st.iface.stem \notin VMwareNames /\ st.file.stem \notin VMwareNames => st \in guest.stanzas[s]

(* fix_guest_network returns, whatever its commands do.                    *)
EveryFixEnds == stage \notin Ended ~> stage \in Ended
=============================================================================
