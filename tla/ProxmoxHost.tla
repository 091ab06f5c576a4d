---------------------------- MODULE ProxmoxHost ----------------------------
(***************************************************************************)
(* External: what a Proxmox node does with the commands of Generators, as  *)
(* far as the code of generators/proxmox.py relies on it.  The host is     *)
(* seen through one VM id:                                                 *)
(*   exists   a VM has this id, as `qm create` made it (made)              *)
(*   vols     the volumes vm-<vmid>-disk-<n> of the storage: n |-> content *)
(*   owned    those the VM's configuration lists (attached or unused),     *)
(*   slots    the drives: slot |-> volume number,                          *)
(*   boot     the boot slot, or NoSlot                                     *)
(*   efi      the volume of efidisk0, or NoVolume.                         *)
(* `qm importdisk` and `--efidisk0 <storage>:1` allocate the first volume  *)
(* number that is free; the attach commands name volumes by number.        *)
(***************************************************************************)
EXTENDS Integers, Sequences

CONSTANT MaxVolume    \* bound: volume numbers are 0..MaxVolume

ASSUME MaxVolumeAssumption == MaxVolume \in Nat

NoSlot   == <<"none", 0>>
NoVolume == -1
NoVM     == [name |-> "", scsihw |-> ""]

\* The drives Proxmox has: ide0..ide3, scsi0..scsi30, virtio0..virtio15.
SlotExists(slot) == CASE slot[1] = "ide"  -> slot[2] \in 0..3
                      [] slot[1] = "scsi" -> slot[2] \in 0..30
                      [] OTHER            -> slot[2] \in 0..15

\* A storage on which volumes with these numbers are already there.
HostWith(strays) == [exists |-> FALSE, vols |-> strays, owned |-> {}, slots |-> <<>>,
                     boot |-> NoSlot, efi |-> NoVolume, made |-> NoVM]

FreeVolumes(h) == 0..MaxVolume \ DOMAIN h.vols
NextVolume(h)  == CHOOSE n \in FreeVolumes(h) : \A m \in FreeVolumes(h) : n <= m

With(f, key, value) == [k \in DOMAIN f \cup {key} |-> IF k = key THEN value ELSE f[k]]

(* What a file or a volume holds: all or a part of a source disk, the EFI  *)
(* variables, or nothing since it is not there.                            *)
Whole(d)   == <<d, "whole">>
Partial(d) == <<d, "partial">>
EfiVars    == <<"", "efivars">>
Missing    == <<"", "missing">>

\* When the command can succeed; content is what the file it imports holds now.
CanRun(h, cmd, content) ==
  CASE cmd.op = "create"     -> ~h.exists
    [] cmd.op = "importdisk" -> h.exists /\ FreeVolumes(h) # {} /\ content # Missing
    [] cmd.op = "attach"     -> h.exists /\ SlotExists(cmd.slot) /\ cmd.volume \in DOMAIN h.vols
    [] cmd.op = "boot"       -> h.exists
    [] OTHER                 -> h.exists /\ FreeVolumes(h) # {}

After(h, cmd, content) ==
  CASE cmd.op = "create" ->
         [h EXCEPT !.exists = TRUE, !.owned = {}, !.slots = <<>>, !.boot = NoSlot,
                   !.efi = NoVolume, !.made = cmd]
    [] cmd.op = "importdisk" ->
         [h EXCEPT !.vols = With(@, NextVolume(h), content), !.owned = @ \cup {NextVolume(h)}]
    [] cmd.op = "attach" ->
         [h EXCEPT !.slots = With(@, cmd.slot, cmd.volume), !.owned = @ \cup {cmd.volume}]
    [] cmd.op = "boot" ->
         [h EXCEPT !.boot = cmd.slot]
    [] OTHER ->
         [h EXCEPT !.vols = With(@, NextVolume(h), EfiVars),
                   !.owned = @ \cup {NextVolume(h)}, !.efi = NextVolume(h)]

\* `qm destroy`: the VM goes, with the volumes its configuration lists.
Destroyed(h) == HostWith([n \in DOMAIN h.vols \ h.owned |-> h.vols[n]])
=============================================================================
