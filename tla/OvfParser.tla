----------------------------- MODULE OvfParser -----------------------------
(***************************************************************************)
(* parse_ovf_or_ova (parsers/ovf.py).  An envelope is a record             *)
(*   ns      "v1", "v2", or "other" for a namespace the parser has not     *)
(*           heard of: elements are still found by their local tags, but   *)
(*           attributes are asked for in namespace v1 and are not found;   *)
(*   files   References: sequence of [id, href];                           *)
(*   disks   DiskSection: sequence of [id, file_ref, capacity, units];     *)
(*   systems the VirtualSystems in the order _find_virtual_system looks:   *)
(*           [id, name, os : [id, osType, description], hardware, system,  *)
(*           firmware, items], where hardware tells whether there is a     *)
(*           hardware section, system whether it has a System element, and *)
(*           firmware is its vmw:Config, or "".                            *)
(* An item has a tag and the RASD fields, "" when absent (AnItem); its     *)
(* host resource is the sequence of its path segments.  File names are     *)
(* <<stem, suffix>>.                                                       *)
(***************************************************************************)
EXTENDS VmModel, Numerals

RESOURCE_CPU             == "3"
RESOURCE_MEMORY          == "4"
RESOURCE_SCSI_CONTROLLER == "6"
RESOURCE_ETHERNET        == "10"
RESOURCE_DISK_DRIVE      == "17"

AnItem == [tag |-> "Item", resource_type |-> "", text |-> "", instance_id |-> "", sub_type |-> "",
           quantity |-> "", units |-> "", host_resource |-> <<>>, parent |-> "", address |-> "",
           mac_config |-> "", mac_address |-> ""]

NotAnOvf == [error |-> "ValueError"]

\* elem.get("{ns}attribute", "")
Attribute(envelope, value) == IF envelope.ns = "other" THEN "" ELSE value

-----------------------------------------------------------------------------
(* Units.  capacity is taken for bytes, memory for megabytes, when the     *)
(* units are not recognised; "byte*2^30" is a unit of memory only.         *)

Kilo == 1024

_parse_capacity(capacity, units) ==
  IF ~IsInt(capacity) THEN 0
  ELSE NUMERALS[capacity] *
         (CASE Lower(units) \in {"gigabytes", "gb", "byte * 2^30"} -> Kilo * Kilo * Kilo
            [] Lower(units) \in {"megabytes", "mb", "byte * 2^20"} -> Kilo * Kilo
            [] Lower(units) \in {"kilobytes", "kb", "byte * 2^10"} -> Kilo
            [] OTHER                                               -> 1)

\* Mutant: a unit of memory has blanks in it or is not recognised.
_parse_memory_Blanks(value, units) ==
  CASE Lower(units) \in {"gigabytes", "gb", "byte * 2^30"} -> value * Kilo
    [] Lower(units) \in {"kilobytes", "kb", "byte * 2^10"} -> (IF value < Kilo THEN 1 ELSE value \div Kilo)
    [] OTHER                                               -> value

_parse_memory(value, units) ==
  CASE Lower(units) \in {"gigabytes", "gb", "byte * 2^30", "byte*2^30"} -> value * Kilo
    [] Lower(units) \in {"kilobytes", "kb", "byte * 2^10", "byte*2^10"} ->
         (IF value < Kilo THEN 1 ELSE value \div Kilo)
    [] OTHER                                                            -> value

-----------------------------------------------------------------------------
(* References.                                                             *)

\* {id: href}
_extract_file_references(envelope) ==
  LET files == envelope.files
  IN  Dict([i \in {j \in 1..Len(files) : Attribute(envelope, files[j].id) # "" /\ files[j].href # NoPath} |->
              [key |-> files[i].id, value |-> files[i].href]])

\* {diskId: (fileRef, capacity in bytes)}
_extract_disk_references(envelope) ==
  LET disks == envelope.disks
  IN  Dict([i \in {j \in 1..Len(disks) : Attribute(envelope, disks[j].id) # ""} |->
              [key   |-> disks[i].id,
               value |-> [file_ref   |-> disks[i].file_ref,
                          size_bytes |-> _parse_capacity(disks[i].capacity, disks[i].units)]]])

\* "ovf:/disk/vmdisk1" or "vmdisk1"; every controller becomes scsi0.
_resolve_disk(drive, disk_refs, file_refs, i) ==
  LET name == drive.host_resource[Len(drive.host_resource)]
      ref  == Get(disk_refs, name, [file_ref |-> "", size_bytes |-> 0])
  IN  DiskDefinition(Get(file_refs, ref.file_ref, NoPath), <<"scsi", 0>>, drive.unit, ref.size_bytes,
                     "streamoptimized", i = 1)

_resolve_disks(drives, envelope) ==
  [i \in 1..Len(drives) |-> _resolve_disk(drives[i], _extract_disk_references(envelope),
                                          _extract_file_references(envelope), i)]

-----------------------------------------------------------------------------
(* The virtual system.                                                     *)

\* Descriptions and element names with "efi" in them, in any case.
EfiTexts == {"EFI firmware", "User-defined device"}

\* BIOS when there is no System element, whatever else says EFI.
_extract_firmware(vs) ==
  IF /\ vs.system
     /\ \/ \E i \in 1..Len(vs.items) : vs.items[i].tag = "Item" /\ vs.items[i].text \in EfiTexts
        \/ Lower(vs.firmware) = "efi"
    THEN "efi" ELSE "bios"

\* Mutant: the number of the operating system comes before VMware's name for it.
GuestOs_IdFirst(envelope, vs) == IF vs.os.id # "" THEN vs.os.id ELSE vs.os.osType

\* osType, else the number of CIM, else the description.
GuestOs(envelope, vs) ==
  IF vs.os.osType # "" THEN vs.os.osType
  ELSE IF Attribute(envelope, vs.os.id) # "" THEN vs.os.id ELSE vs.os.description

\* The Name element; the id attribute when it is missing or empty.
VmName(envelope, vs) == IF vs.name # "" THEN vs.name ELSE Attribute(envelope, vs.id)

dev_map == "vmxnet 3" :> "vmxnet3" @@ "pcnet32" :> "vlance"

_parse_nic_item(item) ==
  LET sub_type == IF item.sub_type = "" THEN "e1000" ELSE Lower(item.sub_type)
  IN  [virtual_dev |-> Get(dev_map, sub_type, sub_type),
       mac_address |-> IF item.mac_config # "" THEN item.mac_config ELSE item.mac_address]

\* What the loop over the hardware section has collected.
Collected == [vcpus |-> 1, memory_mb |-> 1024, scsi_controller |-> "", nics |-> <<>>, drives |-> <<>>,
              error |-> ""]

Raise(vm) == [vm EXCEPT !.error = "ValueError"]

WithCpu(vm, item) == CASE item.quantity = ""    -> vm
                       [] IsInt(item.quantity)  -> [vm EXCEPT !.vcpus = NUMERALS[item.quantity]]
                       [] OTHER                 -> Raise(vm)

WithMemory(vm, item) ==
  CASE item.quantity = ""   -> vm
    [] IsInt(item.quantity) -> [vm EXCEPT !.memory_mb = _parse_memory(NUMERALS[item.quantity], item.units)]
    [] OTHER                -> Raise(vm)

\* The first SCSI controller with an instance id and a subtype.
WithController(vm, item) ==
  IF item.instance_id # "" /\ vm.scsi_controller = ""
    THEN [vm EXCEPT !.scsi_controller = Lower(item.sub_type)] ELSE vm

\* A drive without a host resource is no disk.
WithDrive(vm, item) ==
  LET address == IF item.address = "" THEN "0" ELSE item.address
  IN  IF item.host_resource = <<>> THEN vm
      ELSE IF ~IsInt(address) THEN Raise(vm)
      ELSE [vm EXCEPT !.drives = Append(@, [host_resource |-> item.host_resource, unit |-> NUMERALS[address]])]

WithNic(vm, item) == [vm EXCEPT !.nics = Append(@, _parse_nic_item(item))]

\* By the type of the resource.
WithResource(vm, item) ==
  CASE item.resource_type = RESOURCE_CPU             -> WithCpu(vm, item)
    [] item.resource_type = RESOURCE_MEMORY          -> WithMemory(vm, item)
    [] item.resource_type = RESOURCE_SCSI_CONTROLLER -> WithController(vm, item)
    [] item.resource_type = RESOURCE_ETHERNET        -> WithNic(vm, item)
    [] item.resource_type = RESOURCE_DISK_DRIVE      -> WithDrive(vm, item)
    [] OTHER                                         -> vm

\* Mutant: OVF v2's elements for NICs are not known.
WithItem_V1(vm, item) == IF item.tag = "Item" THEN WithResource(vm, item) ELSE vm

\* Of OVF v2's elements, the ones for NICs are known.
WithItem(vm, item) ==
  IF item.tag = "EthernetPortItem" THEN WithNic(vm, item)
  ELSE IF item.tag = "Item" THEN WithResource(vm, item) ELSE vm

\* The loop over the hardware section.
_parse_hardware(items) ==
  LET vm[n \in 0..Len(items)] == IF n = 0 THEN Collected ELSE WithItem(vm[n - 1], items[n])
  IN  vm[Len(items)]

\* Only the first virtual system is looked at.
parse_ovf_file(envelope) ==
  LET vs == envelope.systems[1]
      vm == _parse_hardware(vs.items)
  IN  IF envelope.systems = <<>> \/ ~vs.hardware \/ vm.error # "" THEN NotAnOvf
      ELSE [name            |-> VmName(envelope, vs),
            guest_os        |-> GuestOs(envelope, vs),
            memory_mb       |-> vm.memory_mb,
            vcpus           |-> vm.vcpus,
            firmware        |-> _extract_firmware(vs),
            scsi_controller |-> vm.scsi_controller,
            disks           |-> _resolve_disks(vm.drives, envelope),
            nics            |-> vm.nics,
            error           |-> ""]

-----------------------------------------------------------------------------
(* An OVA is a sequence of members [name, safe]; safe means that its name  *)
(* is relative and has no "..".  ovf is what its descriptor holds.         *)

IsOvf(member) == Lower(member.name[2]) = ".ovf"

\* The members that end up in the temporary directory.
Extracted(members) ==
  IF \E i \in 1..Len(members) : IsOvf(members[i])
    THEN {members[i].name : i \in {j \in 1..Len(members) : members[j].safe}} ELSE {}

_extract_and_parse_ova(members, ovf) ==
  LET found == Only(members, {m \in Elements(members) : IsOvf(m)})
  IN  IF found = <<>> \/ ~found[1].safe THEN NotAnOvf ELSE parse_ovf_file(ovf)
=============================================================================
