----------------------------- MODULE VmxParser -----------------------------
(***************************************************************************)
(* parse_vmx_file (parsers/vmx.py).  A VMX file is a sequence of lines:    *)
(*   [kind |-> "pair", key |-> <<bus, number, unit, attribute>>, value]    *)
(*                                for  scsi0:1.fileName = "disk.vmdk",     *)
(*   [kind |-> "comment"]         for what the parser skips.               *)
(* Top-level keys have bus Top, keys of a controller or of a NIC have unit *)
(* NoUnit.  A value is <<stem, suffix>>, so that file names show theirs.   *)
(***************************************************************************)
EXTENDS VmdkDescriptor, VmModel

Top    == ""
NoUnit == -1
NoNumber == -1

NotAVmx == [error |-> "ValueError"]

LowerKey(key) == <<key[1], key[2], key[3], Lower(key[4])>>

\* Mutant: keys are kept as they are written.
parse_vmx_keyvalues_AsWritten(lines) ==
  Dict([i \in {j \in 1..Len(lines) : lines[j].kind = "pair"} |-> [key |-> lines[i].key, value |-> lines[i].value]])

\* A dict with keys in lower case; a later line replaces an earlier one.
parse_vmx_keyvalues(lines) ==
  Dict([i \in {j \in 1..Len(lines) : lines[j].kind = "pair"} |->
          [key |-> LowerKey(lines[i].key), value |-> lines[i].value]])

\* entries.get("<bus><number>:<unit>.<attribute>", default)
Value(entries, bus, number, unit, attribute, default) ==
  Get(entries, <<bus, number, unit, attribute>>, <<default, "">>)

Word(entries, bus, number, unit, attribute, default) ==
  Value(entries, bus, number, unit, attribute, default)[1]

Setting(entries, attribute, default) == Word(entries, Top, NoNumber, NoUnit, attribute, default)

IsPresent(entries, bus, number, unit) == Lower(Word(entries, bus, number, unit, "present", "")) = "true"

_extract_scsi_controller(entries) == Word(entries, "scsi", 0, NoUnit, "virtualdev", "")

-----------------------------------------------------------------------------
(* Disks: every unit of every controller, in this order.                   *)

Buses == <<"scsi", "ide", "sata">>

Slots == [n \in 1..(3 * 4 * 16) |->
            [bus |-> Buses[((n - 1) \div 64) + 1], number |-> ((n - 1) \div 16) % 4, unit |-> (n - 1) % 16]]

\* Values of deviceType with "cdrom" or "atapi" in them.
CdromTypes == {"cdrom-image", "cdrom-raw", "atapi-cdrom"}

\* Mutant: devices the file says are not present are taken.
IsDisk_Absent(entries, slot) ==
  LET file == Value(entries, slot.bus, slot.number, slot.unit, "filename", "")
  IN  /\ file # NoPath
      /\ Lower(Word(entries, slot.bus, slot.number, slot.unit, "devicetype", "")) \notin CdromTypes
      /\ Lower(file[2]) # ".iso"
      /\ Lower(file[1]) # "auto detect"

\* Present, with a file, and no CD-ROM or image of one.
IsDisk(entries, slot) ==
  LET file == Value(entries, slot.bus, slot.number, slot.unit, "filename", "")
  IN  /\ IsPresent(entries, slot.bus, slot.number, slot.unit)
      /\ file # NoPath
      /\ Lower(Word(entries, slot.bus, slot.number, slot.unit, "devicetype", "")) \notin CdromTypes
      /\ Lower(file[2]) # ".iso"
      /\ Lower(file[1]) # "auto detect"

\* Size 0 and type unknown unless the file is there and is a descriptor.
InspectedDisk(files, file) ==
  IF file \in DOMAIN files /\ Lower(file[2]) = ".vmdk" /\ inspect_vmdk(files[file]).error = ""
    THEN inspect_vmdk(files[file])
    ELSE [size_bytes |-> 0, disk_type |-> "unknown", error |-> ""]

_extract_disks(entries, files) ==
  LET slots == Only(Slots, {s \in Elements(Slots) : IsDisk(entries, s)})
      Disk(i) ==
        LET file == Value(entries, slots[i].bus, slots[i].number, slots[i].unit, "filename", "")
            info == InspectedDisk(files, file)
        IN  DiskDefinition(file, <<slots[i].bus, slots[i].number>>, slots[i].unit,
                           info.size_bytes, info.disk_type, i = 1)
  IN  [i \in 1..Len(slots) |-> Disk(i)]

-----------------------------------------------------------------------------
(* NICs: ethernet0 .. ethernet9.                                           *)

MacAddress(entries, n) ==
  IF Word(entries, "ethernet", n, NoUnit, "addresstype", "") = "static"
    THEN Word(entries, "ethernet", n, NoUnit, "address", "")
    ELSE Word(entries, "ethernet", n, NoUnit, "generatedaddress", "")

_extract_nics(entries) ==
  LET present == Only([n \in 1..10 |-> n - 1], {n \in 0..9 : IsPresent(entries, "ethernet", n, NoUnit)})
  IN  [i \in 1..Len(present) |->
         [virtual_dev |-> Word(entries, "ethernet", present[i], NoUnit, "virtualdev", "e1000"),
          mac_address |-> MacAddress(entries, present[i])]]

-----------------------------------------------------------------------------
\* lines is the VMX file, files the directory it is in: file name |-> VMDK file.
parse_vmx_file(lines, files) ==
  LET entries  == parse_vmx_keyvalues(lines)
      memsize  == Setting(entries, "memsize", "1024")
      numvcpus == Setting(entries, "numvcpus", "1")
  IN  IF \/ Setting(entries, "displayname", "") = ""
         \/ \E n \in {memsize, numvcpus, Setting(entries, "virtualhw.version", "0")} : ~IsInt(n)
      THEN NotAVmx
      ELSE [name            |-> Setting(entries, "displayname", ""),
            guest_os        |-> Setting(entries, "guestos", ""),
            memory_mb       |-> NUMERALS[memsize],
            vcpus           |-> NUMERALS[numvcpus],
            firmware        |-> IF Lower(Setting(entries, "firmware", "bios")) = "efi" THEN "efi" ELSE "bios",
            scsi_controller |-> _extract_scsi_controller(entries),
            disks           |-> _extract_disks(entries, files),
            nics            |-> _extract_nics(entries),
            error           |-> ""]
=============================================================================
