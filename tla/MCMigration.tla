---------------------------- MODULE MCMigration ----------------------------
(***************************************************************************)
(* Small instances of Migration: the exports and the command lines of the  *)
(* runs.                                                                   *)
(***************************************************************************)
EXTENDS Migration

Nic(dev, n) == [virtual_dev |-> dev, mac_address |-> "00:50:56:00:00:0" \o ToString(n)]

Vm(name, disks) ==
  [name |-> name, dir |-> "exports", disks |-> disks, nics |-> <<Nic("vmxnet3", 1)>>,
   memory_mb |-> 1024, vcpus |-> 1, scsi_controller |-> "pvscsi", firmware |-> "bios", windows |-> FALSE, ova |-> FALSE]

Run(x, target) ==
  [source |-> x, target |-> target, output |-> "images", format |-> "qcow2",
   net |-> [bridge |-> "br0", preserve_mac |-> TRUE],
   windows_safe |-> FALSE, dry_run |-> FALSE, execute |-> FALSE]

OwnStems == [d \in Disk |-> d]
NoStrays == <<>>

\* once: a Linux guest with two disks and EFI, a Windows guest with one disk.
\* DevLetters is 1 here, so the domain of the first cannot be generated.
Linux      == [Vm("linux", <<"d1", "d2">>) EXCEPT !.firmware = "efi"]
Windows    == [Vm("windows", <<"d3">>) EXCEPT !.windows = TRUE, !.nics = <<Nic("e1000e", 2), Nic("vmxnet3", 3)>>]
OnceExports == {Linux, Windows}

OnceRuns == {[Run(x, t) EXCEPT !.execute = e, !.dry_run = dry] :
               x \in OnceExports, t \in Targets, e \in BOOLEAN, dry \in BOOLEAN}

\* again: an OVA and a VM without disks as well, both formats, both directories.
Appliance   == [Vm("appliance", <<"d3">>) EXCEPT !.ova = TRUE, !.nics = <<>>]
Diskless    == Vm("diskless", <<>>)
MoreExports == {Linux, Appliance, Diskless}

AgainRuns == {[Run(Linux, "kvm") EXCEPT !.format = f] : f \in Formats}
               \cup {[Run(Appliance, "proxmox") EXCEPT !.output = NoOutput]}
               \cup {Run(Diskless, "proxmox")}

\* Two disks called web.vmdk, in the VM's directory and on a second datastore.
Web        == Vm("web", <<"web.vmdk on datastore1", "web.vmdk on datastore2">>)
JustWeb    == {Web}
WebDisks   == {Web.disks[1], Web.disks[2]}
SameStem   == [d \in WebDisks |-> "web"]
WebRuns    == {Run(Web, "kvm")}

\* A volume that an earlier VM with this id left on the storage.
JustLinux   == {Linux}
LinuxOnHost == {[Run(Linux, "proxmox") EXCEPT !.execute = TRUE]}
OldVolume   == (0 :> <<"of another VM", "whole">>)
=============================================================================
