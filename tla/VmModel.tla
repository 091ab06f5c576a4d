------------------------------ MODULE VmModel ------------------------------
(***************************************************************************)
(* VMDefinition (models.py): what a parser returns and the later stages    *)
(* read, as a record                                                       *)
(*   [name, guest_os, memory_mb, vcpus, firmware, scsi_controller,         *)
(*    disks : sequence of [path, controller, unit, size_bytes, disk_type,  *)
(*                         is_boot],                                       *)
(*    nics  : sequence of [virtual_dev, mac_address]].                     *)
(* A file name, and the text of a value, is <<stem, suffix>>.              *)
(***************************************************************************)
EXTENDS Text

\* path="": an OVF disk whose reference leads to no file.
NoPath == <<"", "">>

DiskDefinition(path, controller, unit, size_bytes, disk_type, is_boot) ==
  [path |-> path, controller |-> controller, unit |-> unit, size_bytes |-> size_bytes,
   disk_type |-> disk_type, is_boot |-> is_boot]

\* The guest identifiers of exports (guestOS of a VMX; osType or id of an OVF)
\* that hold one of windows_hints, with the hint found.
windows_hints ==
     "windows9-64"         :> "windows"  @@ "windows9_64guest" :> "windows"
  @@ "windows2019srv-64"   :> "windows"  @@ "winxppro"         :> "winxp"
  @@ "longhorn-64"         :> "longhorn" @@ "winnt"            :> "winnt"

is_windows(vm) == Lower(vm.guest_os) \in DOMAIN windows_hints

is_efi(vm) == vm.firmware = "efi"

\* The first disk that is marked; the first disk if none is.  vm has disks.
boot_disk(vm) ==
  LET marked == Only(vm.disks, {d \in Elements(vm.disks) : d.is_boot})
  IN  IF marked = <<>> THEN vm.disks[1] ELSE marked[1]
=============================================================================
