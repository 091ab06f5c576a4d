----------------------------- MODULE Bootloader -----------------------------
(***************************************************************************)
(* fixup/bootloader.py: rebuild_initramfs, update_grub,                    *)
(* fix_fstab_disk_references, and full_bootloader_fixup, which runs the    *)
(* three on one guest disk.  Each edits the disk by runs of virt-customize *)
(* and looks at it by runs of virt-cat; any of them may fail.              *)
(***************************************************************************)
EXTENDS Naturals, Sequences

CONSTANTS Kernels,  \* kernels installed in the guest
          Guests    \* the guest disks a fixup may start on: see GuestType

InitramfsTools == {"dracut", "update-initramfs"}
Programs       == {"virt-cat", "virt-customize"}

GuestType == [tool     : InitramfsTools \cup {""}, \* "": neither is installed
              listed   : BOOLEAN,          \* its configuration lists virtio
              virtio   : SUBSET Kernels,   \* initramfs images with virtio in
              grub     : {"none", "stale", "current"},     \* grub.cfg
              fstab    : {"uuid", "sd"},   \* how /etc/fstab names the disks
              backup   : BOOLEAN]          \* /etc/fstab.vmfree-backup

ASSUME GuestsAssumption == Guests \subseteq GuestType

VARIABLES
  stage,    \* the command the fixup is at
  todo,     \* the steps of this call that have not ended
  host,     \* [disk: the image exists, programs: what is on PATH]
  guest,    \* the guest's disk
  tool,     \* initramfs_tool, "" when none was detected
  success,  \* success of the combined result
  clean     \* ghost: what this call ran has worked, inside the guest too

vars == <<stage, todo, host, guest, tool, success, clean>>

Ended == {"idle", "done"}

\* What a caller may ask for: full_bootloader_fixup, or one step of it.
FullFixup == <<"initramfs", "grub", "fstab">>
Calls     == {FullFixup, <<"initramfs">>, <<"grub">>, <<"fstab">>}

Init == /\ guest \in Guests
        /\ stage = "idle"
        /\ todo = <<>>
        /\ host = [disk |-> TRUE, programs |-> Programs]
        /\ tool = ""
        /\ success = TRUE
        /\ clean = TRUE

Start(call) ==
  /\ stage \in Ended
  /\ host' \in [disk : BOOLEAN, programs : SUBSET Programs]
  /\ todo' = call
  /\ stage' = Head(call)
  /\ tool' = ""
  /\ success' = TRUE
  /\ clean' = TRUE
  /\ UNCHANGED guest

\* Mutant: off by one at the end of the steps.
StepEnds_OffByOne == /\ todo' = Tail(todo)
                     /\ stage' = IF todo = <<>> THEN "done" ELSE Head(todo)

\* Mutant: the loop does not advance.
StepEnds_Repeats == /\ UNCHANGED todo
                    /\ stage' = IF Tail(todo) = <<>> THEN "done" ELSE Head(Tail(todo))

\* The step returns; full_bootloader_fixup goes on whatever its result is.
StepEnds == /\ todo' = Tail(todo)
            /\ stage' = IF Tail(todo) = <<>> THEN "done" ELSE Head(Tail(todo))

\* "Disk image not found": the first thing every step checks.
NoDiskImage == /\ stage \in {"initramfs", "grub", "fstab"}
               /\ ~host.disk
               /\ success' = FALSE
               /\ clean' = FALSE
               /\ StepEnds
               /\ UNCHANGED <<host, guest, tool>>

\* A virt-customize run that returned 0, returned nonzero, or is not on PATH.
Ran     == "virt-customize" \in host.programs
Worked  == Ran /\ UNCHANGED <<success, clean>>
NonZero == Ran /\ clean' = FALSE
Absent  == ~Ran /\ success' = FALSE /\ clean' = FALSE /\ UNCHANGED guest

-----------------------------------------------------------------------------
(* rebuild_initramfs                                                       *)

DetectInitramfsTool ==
  /\ stage = "initramfs" /\ host.disk
  /\ \/ "virt-cat" \in host.programs /\ tool' = guest.tool /\ UNCHANGED clean
     \/ tool' = "" /\ clean' = FALSE     \* virt-cat failed, or is not there
  /\ IF tool' = "" THEN StepEnds ELSE stage' = "config" /\ UNCHANGED todo
  /\ UNCHANGED <<host, guest, success>>

\* Mutant: only dracut is configured.
AddVirtioModuleConfig_DracutOnly ==
  /\ stage = "config"
  /\ \/ Worked /\ guest' = [guest EXCEPT !.listed = @ \/ tool = "dracut"]
     \/ NonZero /\ UNCHANGED <<guest, success>>
     \/ Absent
  /\ stage' = "rebuild"
  /\ UNCHANGED <<todo, host, tool>>

AddVirtioModuleConfig ==
  /\ stage = "config"
  /\ \/ Worked /\ guest' = [guest EXCEPT !.listed = TRUE]
     \/ NonZero /\ UNCHANGED <<guest, success>>
     \/ Absent
  /\ stage' = "rebuild"
  /\ UNCHANGED <<todo, host, tool>>

\* The images of the kernels in ks are built anew: with virtio where it is
\* listed, as the tool sees fit where it is not.
Builds(ks) == {[guest EXCEPT !.virtio = (@ \ ks) \cup with] :
                 with \in IF guest.listed THEN {ks} ELSE SUBSET ks}

\* Unlike the other commands, this one fails the step when it returns nonzero.
Rebuild ==
  /\ stage = "rebuild"
  /\ \/ Worked /\ guest' \in Builds(Kernels)
     \/ NonZero /\ success' = FALSE /\ \E ks \in SUBSET Kernels : guest' \in Builds(ks)
     \/ Absent
  /\ StepEnds
  /\ UNCHANGED <<host, tool>>

-----------------------------------------------------------------------------
(* update_grub                                                             *)

CheckGrubInstalled ==
  /\ stage = "grub" /\ host.disk
  /\ \/ /\ "virt-cat" \in host.programs /\ guest.grub # "none"
        /\ stage' = "mkconfig"
        /\ UNCHANGED <<todo, clean>>
     \/ /\ StepEnds                      \* "GRUB not detected, skipping"
        /\ clean' = (clean /\ guest.grub = "none")
  /\ UNCHANGED <<host, guest, tool, success>>

\* "... || true": the command returns 0 when neither mkconfig has worked, too.
RegenerateGrub ==
  /\ stage = "mkconfig"
  /\ \/ Worked /\ guest' = [guest EXCEPT !.grub = "current"]
     \/ NonZero /\ UNCHANGED <<guest, success>>
     \/ Absent
  /\ StepEnds
  /\ UNCHANGED <<host, tool>>

-----------------------------------------------------------------------------
(* fix_fstab_disk_references                                               *)

\* Mutant: combined.success is the last step's.
CheckFstab_Overwrites ==
  /\ stage = "fstab" /\ host.disk
  /\ \/ Ran /\ success' = TRUE /\ guest' = [guest EXCEPT !.backup = @ \/ guest.fstab = "sd"]
            /\ UNCHANGED clean
     \/ NonZero /\ success' = TRUE /\ UNCHANGED guest
     \/ Absent
  /\ StepEnds
  /\ UNCHANGED <<host, tool>>

\* Mutant: a missing virt-customize is passed over, as a missing virt-cat is.
CheckFstab_Tolerant ==
  /\ stage = "fstab" /\ host.disk
  /\ \/ Worked /\ guest' = [guest EXCEPT !.backup = @ \/ guest.fstab = "sd"]
     \/ clean' = FALSE /\ UNCHANGED <<guest, success>>
  /\ StepEnds
  /\ UNCHANGED <<host, tool>>

CheckFstab ==
  /\ stage = "fstab" /\ host.disk
  /\ \/ Worked /\ guest' = [guest EXCEPT !.backup = @ \/ guest.fstab = "sd"]
     \/ NonZero /\ UNCHANGED <<guest, success>>
     \/ Absent
  /\ StepEnds
  /\ UNCHANGED <<host, tool>>

\* The program is killed, between two commands or while the initramfs images
\* are rebuilt; the disk keeps the edits made so far.
Killed == /\ stage \notin Ended
          /\ stage' = "idle"
          /\ \/ UNCHANGED guest
             \/ stage = "rebuild" /\ Ran /\ \E ks \in SUBSET Kernels : guest' \in Builds(ks)
          /\ UNCHANGED <<todo, host, tool, success, clean>>

Steps == \/ NoDiskImage
         \/ DetectInitramfsTool \/ AddVirtioModuleConfig \/ Rebuild
         \/ CheckGrubInstalled \/ RegenerateGrub
         \/ CheckFstab

Next == (\E call \in Calls : Start(call)) \/ Steps \/ Killed

Spec == Init /\ [][Next]_vars

\* A sequence of child processes, each of which ends.
FairSpec == Spec /\ WF_vars(Steps)

-----------------------------------------------------------------------------
TypeOK == /\ guest \in GuestType
          /\ stage \in Ended \cup {"initramfs", "config", "rebuild", "grub", "mkconfig", "fstab"}
          /\ todo \in Calls \cup {<<"grub", "fstab">>, <<>>}
          /\ stage \notin Ended => todo # <<>>
          /\ host \in [disk : BOOLEAN, programs : SUBSET Programs]
          /\ tool \in InitramfsTools \cup {""}
          /\ success \in BOOLEAN
          /\ clean \in BOOLEAN

Boots == guest.virtio = Kernels

(***************************************************************************)
(* A run that worked, on a guest whose tool was detected, leaves virtio in *)
(* the initramfs of every kernel: after earlier runs that failed or were   *)
(* killed between the configuration and the rebuild, too.                  *)
(***************************************************************************)
CleanRunBoots == stage = "done" /\ clean /\ tool # "" => Boots

(***************************************************************************)
(* A rebuild that failed for some kernel is never hidden by what the steps *)
(* after it return: with virtio configured and success reported, every     *)
(* initramfs has it.                                                       *)
(***************************************************************************)
RebuildFailureShows == stage = "done" /\ success /\ tool # "" /\ guest.listed => Boots

(***************************************************************************)
(* full_bootloader_fixup never reports success on a host without           *)
(* virt-customize, whatever the guest: the two steps that skip the guest   *)
(* they cannot look into are followed by one that does not.                *)
(***************************************************************************)
NoToolsNoSuccess ==
  [][stage = "fstab" /\ stage' = "done" /\ "virt-customize" \notin host.programs
       => ~success']_vars

(* A fixup, of one step or of three, returns whatever its commands do.     *)
EveryFixupEnds == stage \notin Ended ~> stage \in Ended
=============================================================================
