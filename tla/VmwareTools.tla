---------------------------- MODULE VmwareTools -----------------------------
(***************************************************************************)
(* remove_vmware_tools_linux (fixup/vmware_tools.py): VMware's packages,   *)
(* module configuration, services and directories are removed from a Linux *)
(* guest's disk, by one virt-customize run for each.                       *)
(***************************************************************************)
EXTENDS Naturals, Sequences, SequencesExt

CONSTANTS Guests  \* the guest disks a removal may start on: see GuestType

VMWARE_PACKAGES_RPM == <<"open-vm-tools", "open-vm-tools-desktop", "vmware-tools-*">>
VMWARE_PACKAGES_DEB == <<"open-vm-tools", "open-vm-tools-desktop", "open-vm-tools-dkms">>
VMWARE_SERVICES     == <<"vmtoolsd.service", "vmware-tools.service",
                         "vmware-tools-thinprint.service", "open-vm-tools.service">>
VMWARE_PATHS        == <<"/etc/vmware-tools", "/usr/lib/vmware-tools",
                         "/usr/lib64/open-vm-tools", "/var/log/vmware-*">>

Packages == ToSet(VMWARE_PACKAGES_RPM) \cup ToSet(VMWARE_PACKAGES_DEB)
              \cup {"vmware-tools-core",            \* one that "vmware-tools-*" is meant for
                    "open-vm-tools-salt-minion"}   \* one that the lists leave out
Services == ToSet(VMWARE_SERVICES)
Paths    == ToSet(VMWARE_PATHS)
Items    == Packages \cup Services \cup Paths \cup {"modules"}

GuestType == [manager  : {"rpm", "deb"},
              marked   : BOOLEAN,  \* has a release file that is looked for
              packages : SUBSET Packages,
              needs    : SUBSET (Packages \X Packages),   \* <<q, p>>: q depends on p
              services : SUBSET Services,   \* enabled
              paths    : SUBSET Paths,
              modules  : BOOLEAN]  \* VMware's kernel modules may load

ASSUME GuestsAssumption == Guests \subseteq GuestType

\* Of the packages of the Debian list, those that need another one of it are
\* not themselves needed by one of it.
ASSUME NeedsAssumption ==
  \A g \in Guests : \A a, b, c \in ToSet(VMWARE_PACKAGES_DEB) :
    ~(<<a, b>> \in g.needs /\ <<b, c>> \in g.needs)

VARIABLES
  stage,    \* the kind of thing being removed
  queue,    \* what is still to be removed of it
  absent,   \* virt-customize is not on PATH
  guest,    \* the guest's disk
  success,  \* result.success
  refused,  \* ghost: what no command of this call has had its effect on
  clean,    \* ghost: no command of this call has failed, but for a dependency
  runs      \* ghost: how many calls have ended with clean, up to MaxRuns

ghosts == <<refused, clean, runs>>
vars   == <<stage, queue, absent, guest, success, ghosts>>

MaxRuns == 2
Ended   == {"idle", "done"}

Init == /\ guest \in Guests
        /\ stage = "idle"
        /\ queue = <<>>
        /\ absent = FALSE
        /\ success = TRUE
        /\ refused = {}
        /\ clean = TRUE
        /\ runs = 0

\* What of VMware's is on the disk.
Present == guest.packages \cup guest.services \cup guest.paths
             \cup IF guest.modules THEN {"modules"} ELSE {}

\* The packages listed for the guest's package manager.
Listed == IF guest.manager = "rpm" THEN ToSet(VMWARE_PACKAGES_RPM) ELSE ToSet(VMWARE_PACKAGES_DEB)

RemoveVmwareTools == /\ stage \in Ended
                     /\ stage' = "detect"
                     /\ absent' \in BOOLEAN
                     /\ success' = TRUE
                     /\ refused' = {}
                     /\ clean' = TRUE
                     /\ UNCHANGED <<queue, guest, runs>>

\* "Disk image not found"
NoDiskImage == /\ stage \in Ended
               /\ stage' = "done"
               /\ success' = FALSE
               /\ refused' = Items
               /\ clean' = FALSE
               /\ UNCHANGED <<queue, absent, guest, runs>>

\* Mutant: only the first package of the list is removed.
DetectPackageManager_FirstOnly ==
  /\ stage = "detect"
  /\ \/ /\ guest.marked
        /\ stage' = "packages"
        /\ queue' = <<Head(VMWARE_PACKAGES_RPM)>>
        /\ UNCHANGED <<refused, clean>>
     \/ /\ stage' = "modules"
        /\ refused' = refused \cup Packages
        /\ clean' = FALSE
        /\ UNCHANGED queue
  /\ UNCHANGED <<absent, guest, success, runs>>

\* Mutant: an unknown package manager ends the call.
DetectPackageManager_Returns ==
  /\ stage = "detect"
  /\ \/ /\ guest.marked
        /\ stage' = "packages"
        /\ queue' = IF guest.manager = "rpm" THEN VMWARE_PACKAGES_RPM ELSE VMWARE_PACKAGES_DEB
        /\ UNCHANGED <<refused, clean>>
     \/ /\ stage' = "done"
        /\ refused' = refused \cup Packages
        /\ clean' = FALSE
        /\ UNCHANGED queue
  /\ UNCHANGED <<absent, guest, success, runs>>

\* A marker file is found; or virt-cat finds none, fails, or is not there, and
\* the packages are left alone.
DetectPackageManager ==
  /\ stage = "detect"
  /\ \/ /\ guest.marked
        /\ stage' = "packages"
        /\ queue' = IF guest.manager = "rpm" THEN VMWARE_PACKAGES_RPM ELSE VMWARE_PACKAGES_DEB
        /\ UNCHANGED <<refused, clean>>
     \/ /\ stage' = "modules"
        /\ refused' = refused \cup Packages
        /\ clean' = FALSE
        /\ UNCHANGED queue
  /\ UNCHANGED <<absent, guest, success, runs>>

\* dpkg keeps a package that an installed one depends on; rpm -e --nodeps does
\* not.
Needed(item) == /\ stage = "packages" /\ guest.manager = "deb"
                /\ \E p \in guest.packages : <<p, item>> \in guest.needs

\* The disk after "rpm -e", "dpkg --purge", "systemctl disable" or "rm -rf" has
\* done its work.
Without(item) ==
  CASE stage = "packages" -> [guest EXCEPT !.packages = @ \ {item}]
    [] stage = "services" -> [guest EXCEPT !.services = @ \ {item}]
    [] stage = "paths"    -> [guest EXCEPT !.paths = @ \ {item}]

\* What a command did to the disk.  "2>/dev/null || true" hides it: the exit
\* status is virt-customize's own, and tells nothing of it.
Removed(item) == ~Needed(item) /\ guest' = Without(item) /\ UNCHANGED <<refused, clean>>
Kept(item)    == Needed(item) /\ refused' = refused \cup {item} /\ UNCHANGED <<guest, clean>>
Failed(item)  == refused' = refused \cup {item} /\ clean' = FALSE /\ UNCHANGED guest

\* Mutant: an item whose command failed is tried again after the others.
RemoveItem_Retries ==
  /\ stage \in {"packages", "services", "paths"}
  /\ queue # <<>>
  /\ ~absent
  /\ \/ Removed(Head(queue)) /\ queue' = Tail(queue)
     \/ Kept(Head(queue)) /\ queue' = Tail(queue)
     \/ Failed(Head(queue)) /\ queue' = Append(Tail(queue), Head(queue))
  /\ UNCHANGED <<stage, absent, success, runs>>

\* _remove_rpm_packages, _remove_deb_packages, _disable_services and
\* _cleanup_paths: one command for one item, and the next.
RemoveItem ==
  /\ stage \in {"packages", "services", "paths"}
  /\ queue # <<>>
  /\ ~absent
  /\ Removed(Head(queue)) \/ Kept(Head(queue)) \/ Failed(Head(queue))
  /\ queue' = Tail(queue)
  /\ UNCHANGED <<stage, absent, success, runs>>

\* "virt-customize not found" ends the loop, not the removal.
RemoveAbsent == /\ stage \in {"packages", "services", "paths"}
                /\ queue # <<>>
                /\ absent
                /\ queue' = <<>>
                /\ success' = FALSE
                /\ refused' = refused \cup ToSet(queue)
                /\ clean' = FALSE
                /\ UNCHANGED <<stage, absent, guest, runs>>

PackagesDone == /\ stage = "packages"
                /\ queue = <<>>
                /\ stage' = "modules"
                /\ UNCHANGED <<queue, absent, guest, success, ghosts>>

\* virt-customize --write hides nothing: it returns 0 when the file is written.
RemoveModuleConfigs ==
  /\ stage = "modules"
  /\ \/ /\ ~absent
        /\ guest' = [guest EXCEPT !.modules = FALSE]
        /\ UNCHANGED <<success, refused, clean>>
     \/ /\ refused' = refused \cup {"modules"}
        /\ clean' = FALSE
        /\ success' = (success /\ ~absent)
        /\ UNCHANGED <<guest>>
  /\ stage' = "services"
  /\ queue' = VMWARE_SERVICES
  /\ UNCHANGED <<absent, runs>>

\* Mutant: the last service of the list is left out.
ServicesDone_Early == /\ stage = "services"
                      /\ Len(queue) <= 1
                      /\ stage' = "paths"
                      /\ queue' = VMWARE_PATHS
                      /\ UNCHANGED <<absent, guest, success, ghosts>>

ServicesDone == /\ stage = "services"
                /\ queue = <<>>
                /\ stage' = "paths"
                /\ queue' = VMWARE_PATHS
                /\ UNCHANGED <<absent, guest, success, ghosts>>

PathsDone == /\ stage = "paths"
             /\ queue = <<>>
             /\ stage' = "done"
             /\ runs' = IF clean /\ runs < MaxRuns THEN runs + 1 ELSE runs
             /\ UNCHANGED <<queue, absent, guest, success, refused, clean>>

\* The program is killed; the disk keeps the edits made so far.
Killed == /\ stage \notin Ended
          /\ stage' = "idle"
          /\ queue' = <<>>
          /\ UNCHANGED <<absent, guest, success, ghosts>>

Steps == \/ DetectPackageManager \/ RemoveItem \/ RemoveAbsent \/ PackagesDone
         \/ RemoveModuleConfigs \/ ServicesDone \/ PathsDone

Next == RemoveVmwareTools \/ NoDiskImage \/ Steps \/ Killed

Spec == Init /\ [][Next]_vars

\* Loops over fixed lists of child processes, each of which ends.
FairSpec == Spec /\ WF_vars(Steps)

-----------------------------------------------------------------------------
TypeOK == /\ guest \in GuestType
          /\ stage \in Ended \cup {"detect", "packages", "modules", "services", "paths"}
          /\ queue \in Seq(Items)
          /\ stage \in Ended \cup {"detect", "modules"} => queue = <<>>
          /\ absent \in BOOLEAN
          /\ success \in BOOLEAN
          /\ refused \subseteq Items
          /\ clean \in BOOLEAN
          /\ runs \in 0..MaxRuns

(***************************************************************************)
(* One failure hides no other item: whatever of the packages, services,    *)
(* directories and modules is left at the end of a call, this call has had *)
(* a command of its own for it, and that command did not do its work; what *)
(* earlier calls that were killed or failed had done does not matter.      *)
(***************************************************************************)
LeftIsRefused == stage = "done" => Present \cap (Listed \cup (Items \ Packages)) \subseteq refused

(***************************************************************************)
(* Running it again is safe and enough: after two calls in which nothing   *)
(* but dependencies kept a package, a listed package is left only where an *)
(* installed one still needs it.                                           *)
(***************************************************************************)
SecondRunRemoves ==
  runs = MaxRuns =>
    \A p \in guest.packages \cap Listed : \E q \in guest.packages : <<q, p>> \in guest.needs

(* Without virt-customize no call ends in success.                         *)
NoToolsNoSuccess == stage = "done" /\ absent => ~success

(* remove_vmware_tools_linux returns, whatever its commands do.            *)
EveryRemovalEnds == stage \notin Ended ~> stage \in Ended
=============================================================================
