----------------------------- MODULE Generators -----------------------------
(***************************************************************************)
(* What generators/libvirt.py and generators/proxmox.py produce, as data:  *)
(* a libvirt domain is a record of its elements, and a list of `qm`        *)
(* commands is a sequence of records.  The layout of XML and shell text,   *)
(* and what is the same for every VM (CPU model, machine type, features,   *)
(* graphics, guest agent channel), are left out.                           *)
(*                                                                         *)
(* A VM is a record with at least name, memory_mb, vcpus, disks (a         *)
(* sequence) and nics (a sequence of [virtual_dev, mac_address]); hw is    *)
(* what map_hardware returns; paths is converted_paths, one file for each  *)
(* disk converted; net is [bridge, preserve_mac].                          *)
(***************************************************************************)
EXTENDS Integers, Sequences, HardwareMap

CONSTANT DevLetters  \* len(dev_letters), 16 in the code

ASSUME DevLettersAssumption == DevLetters \in Nat \ {0}

\* enumerate(zip(vm.disks, disk_paths, strict=False)) stops at the shorter one.
Zipped(vm, paths) ==
  IF Len(vm.disks) < Len(paths) THEN Len(vm.disks) ELSE Len(paths)

\* dev_letters[i] raises IndexError past the last letter.
LibvirtIndexError(vm, paths) == Zipped(vm, paths) > DevLetters

LibvirtBus(hw) == CASE hw.controller = "ide"         -> "ide"
                    [] hw.controller = "virtio-scsi" -> "scsi"
                    [] OTHER                         -> "virtio"

\* mac.replace("-", ":"), for the MAC addresses with dashes.
COLONS == "00-50-56-00-00-01" :> "00:50:56:00:00:01" @@ "00-50-56-00-00-02" :> "00:50:56:00:00:02"

\* The MAC address of an interface, or "" when it gets a new one.
KeptMac(nic, net) == IF net.preserve_mac THEN Get(COLONS, nic.mac_address, nic.mac_address) ELSE ""

\* Every interface gets the one model hw.nic.
_build_nics(vm, hw, net) ==
  [i \in 1..Len(vm.nics) |-> [model |-> hw.nic, bridge |-> net.bridge, mac |-> KeptMac(vm.nics[i], net)]]

\* Disk i is device i of the bus; the guest boots from the first hard disk.
generate_libvirt_xml(vm, hw, paths, net) ==
  [name     |-> vm.name,
   memory   |-> vm.memory_mb,
   vcpus    |-> vm.vcpus,
   firmware |-> hw.firmware,
   files    |-> SubSeq(paths, 1, Zipped(vm, paths)),
   slots    |-> [i \in 1..Zipped(vm, paths) |-> <<LibvirtBus(hw), i - 1>>],
   nics     |-> _build_nics(vm, hw, net)]

ProxmoxPrefix(hw) == CASE hw.controller = "ide"                     -> "ide"
                       [] hw.controller \in {"virtio-scsi", "nvme"} -> "scsi"
                       [] OTHER                                     -> "virtio"

_map_scsihw(hw) == IF hw.controller = "ide" THEN "lsi" ELSE "virtio-scsi-single"

_map_nic_model(hw) == CASE hw.nic = "virtio-net"          -> "virtio"
                        [] hw.nic \in {"e1000", "e1000e"} -> "e1000"
                        [] OTHER                          -> "virtio"

-----------------------------------------------------------------------------
(* The qm commands.  A volume is named by its number: vm-<vmid>-disk-<n>.  *)

\* One NIC, with the address of the VM's first.
_build_nic_string(vm, hw, net) ==
  [model  |-> _map_nic_model(hw),
   bridge |-> net.bridge,
   mac    |-> IF vm.nics = <<>> THEN "" ELSE KeptMac(vm.nics[1], net)]

CreateCommand(vm, hw, net) == [op       |-> "create",
                               name     |-> vm.name,
                               memory   |-> vm.memory_mb,
                               cores    |-> vm.vcpus,
                               scsihw   |-> _map_scsihw(hw),
                               firmware |-> hw.firmware,
                               net0     |-> _build_nic_string(vm, hw, net)]

ImportCommands(paths) ==
  [i \in 1..Len(paths) |-> [op |-> "importdisk", file |-> paths[i]]]

\* One attach per disk of the VM, not per path: disk i is taken to be volume i.
AttachCommands(vm, hw) ==
  [i \in 1..Len(vm.disks) |->
     [op |-> "attach", slot |-> <<ProxmoxPrefix(hw), i - 1>>, volume |-> i - 1]]

BootCommands(vm, hw) ==
  IF vm.disks = <<>> THEN <<>>
                     ELSE << [op |-> "boot", slot |-> <<ProxmoxPrefix(hw), 0>>] >>

EfidiskCommands(hw) ==
  IF hw.firmware = NoFirmware THEN <<>> ELSE << [op |-> "efidisk"] >>

\* Mutant: the EFI disk is made first, and takes the first volume number.
generate_proxmox_commands_EfiFirst(vm, hw, paths, net) ==
  << CreateCommand(vm, hw, net) >> \o EfidiskCommands(hw) \o ImportCommands(paths)
     \o AttachCommands(vm, hw) \o BootCommands(vm, hw)

generate_proxmox_commands(vm, hw, paths, net) ==
  << CreateCommand(vm, hw, net) >> \o ImportCommands(paths)
     \o AttachCommands(vm, hw) \o BootCommands(vm, hw)
     \o EfidiskCommands(hw)
=============================================================================
