---------------------------- MODULE VmwareExport ----------------------------
(***************************************************************************)
(* External: how VMware writes a machine down, as far as the parsers rely  *)
(* on it.  A machine is                                                    *)
(*   [name, windows, guest : [vmx, osType, id], memory (MB), vcpus, efi,   *)
(*    controller : [vmx, ovf],                                             *)
(*    drives : sequence of [bus, number, unit, kind, file, sectors],       *)
(*    nics   : sequence of [dev : [vmx, ovf], mac, static]],               *)
(* with its drives in the order of the controllers, at most one at each    *)
(* place: a controller of SATA has 30 units, one of NVMe or a paravirtual  *)
(* one of SCSI up to 64.  kind is "disk", "cdrom" (an image or a physical  *)
(* drive), or "removed": a disk that was taken out, which a VMX file       *)
(* remembers with present = "FALSE".  Every disk has a file of its own.    *)
(***************************************************************************)
EXTENDS VmxParser, OvfParser

DisksOf(machine) == Only(machine.drives, {d \in Elements(machine.drives) : d.kind = "disk"})

\* The hard disks where the parser of VMX files looks for them: no NVMe, and units 0 to 15.
IsScanned(d) == d.bus # "nvme" /\ d.unit < 16

ScannedDisks(machine) ==
  Only(machine.drives, {d \in Elements(machine.drives) : d.kind = "disk" /\ IsScanned(d)})

DriveType == [bus : {"scsi", "ide", "sata", "nvme"}, number : 0..3, unit : 0..63,
              kind : {"disk", "cdrom", "removed"}, file : STRING \X STRING, sectors : Nat]

NicType == [dev : [vmx : STRING, ovf : STRING], mac : STRING, static : BOOLEAN]

MachineType ==
  [name : STRING, windows : BOOLEAN, guest : [vmx : STRING, osType : STRING, id : STRING],
   memory : Nat, vcpus : Nat, efi : BOOLEAN, controller : [vmx : STRING, ovf : STRING],
   drives : Seq(DriveType), nics : Seq(NicType)]

Place(d) == 256 * (CASE d.bus = "scsi" -> 0 [] d.bus = "ide" -> 1 [] d.bus = "sata" -> 2 [] OTHER -> 3)
              + 64 * d.number + d.unit

IsMachine(m) ==
  /\ m \in MachineType
  /\ \A i, j \in 1..Len(m.drives) : i < j => Place(m.drives[i]) < Place(m.drives[j])
  /\ \A i \in 1..Len(m.drives) :
       m.drives[i].kind = "disk" => /\ m.drives[i].file[1] # "" /\ Lower(m.drives[i].file[1]) # "auto detect"
                                    /\ m.drives[i].file[2] = ".vmdk"
  /\ \A i, j \in 1..Len(m.drives) :
       m.drives[i].kind = "disk" /\ m.drives[j].kind = "disk" /\ m.drives[i].file = m.drives[j].file => i = j
  /\ Len(m.nics) <= 10

-----------------------------------------------------------------------------
(* VMX: style tells the case of the words, and whether the lines come in   *)
(* reverse (their order means nothing).                                    *)

VmxStyles == [camel : BOOLEAN, reversed : BOOLEAN]

Pair(bus, number, unit, attribute, value) ==
  [kind |-> "pair", key |-> <<bus, number, unit, attribute>>, value |-> value]

Global(attribute, word) == Pair(Top, NoNumber, NoUnit, attribute, <<word, "">>)

DriveLines(d) ==
  << Pair(d.bus, d.number, d.unit, "fileName", d.file),
     Pair(d.bus, d.number, d.unit, "present", <<IF d.kind = "removed" THEN "FALSE" ELSE "TRUE", "">>),
     Pair(d.bus, d.number, d.unit, "deviceType",
          <<IF d.kind # "cdrom" THEN "disk" ELSE IF d.file[2] = ".ISO" THEN "cdrom-image" ELSE "atapi-cdrom",
            "">>) >>

NicLines(nic, n) ==
  << Pair("ethernet", n, NoUnit, "present", <<"TRUE", "">>),
     Pair("ethernet", n, NoUnit, "virtualDev", <<nic.dev.vmx, "">>),
     Pair("ethernet", n, NoUnit, "addressType", <<IF nic.static THEN "static" ELSE "generated", "">>),
     Pair("ethernet", n, NoUnit, IF nic.static THEN "address" ELSE "generatedAddress", <<nic.mac, "">>) >>

Lines(machine) ==
  << Global("displayName", machine.name), Global("guestOS", machine.guest.vmx),
     Global("memSize", ToString(machine.memory)), Global("numvCPUs", ToString(machine.vcpus)),
     Global("firmware", IF machine.efi THEN "EFI" ELSE "bios"),
     Pair("scsi", 0, NoUnit, "virtualDev", <<machine.controller.vmx, "">>),
     [kind |-> "comment"] >>
  \o [k \in 1..(3 * Len(machine.drives)) |->
        DriveLines(machine.drives[((k - 1) \div 3) + 1])[((k - 1) % 3) + 1]]
  \o [k \in 1..(4 * Len(machine.nics)) |->
        NicLines(machine.nics[((k - 1) \div 4) + 1], (k - 1) \div 4)[((k - 1) % 4) + 1]]

LowerLine(line) ==
  IF line.kind = "comment" THEN line
  ELSE [kind |-> "pair", key |-> LowerKey(line.key),
        value |-> IF line.key[4] = "present" THEN << Lower(line.value[1]), "" >> ELSE line.value]

VmxOf(machine, style) ==
  LET lines == Lines(machine)
  IN  [i \in 1..Len(lines) |->
         LET line == lines[IF style.reversed THEN Len(lines) + 1 - i ELSE i]
         IN  IF style.camel THEN line ELSE LowerLine(line)]

(* The descriptors beside it: one extent or two, or no descriptor but a    *)
(* sparse file that begins with its binary header.                         *)
Extent(sectors) == [kind |-> "extent", access |-> "RW", sectors |-> ToString(sectors), words |-> 4]

DescriptorOf(disk, split) ==
  [binary |-> split = "binary",
   lines  |-> << [kind |-> "comment"],
                 [kind |-> "entry", key |-> "version", value |-> "1"],
                 [kind |-> "entry", key |-> "createType",
                  value |-> IF split = "two" THEN "twoGbMaxExtentFlat" ELSE "monolithicSparse"] >>
              \o (IF split = "two" THEN << Extent(disk.sectors \div 2), Extent(disk.sectors \div 2) >>
                                   ELSE << Extent(disk.sectors) >>)
              \o << [kind |-> "entry", key |-> "ddb.adapterType", value |-> "lsilogic"] >>]

Beside(machine, split) ==
  [file \in {DisksOf(machine)[i].file : i \in 1..Len(DisksOf(machine))} |->
     DescriptorOf(CHOOSE d \in {DisksOf(machine)[i] : i \in 1..Len(DisksOf(machine))} : d.file = file, split)]

\* The numbers in these files.
VmxNumbers(machine, split) ==
  {machine.memory, machine.vcpus}
    \cup {IF split = "two" THEN d.sectors \div 2 ELSE d.sectors : d \in Elements(DisksOf(machine))}

\* A disk in two halves has an even number of sectors.
VmxIsExact(machine, split) == split = "two" => \A d \in Elements(DisksOf(machine)) : d.sectors % 2 = 0

-----------------------------------------------------------------------------
(* OVF: version 1 or 2, units with a power of two or by name, with VMware's*)
(* osType or (from other tools) the CIM number alone, the references in    *)
(* full or short.                                                          *)

OvfStyles == [ns : {"v1", "v2"}, giga : BOOLEAN, osType : BOOLEAN, short : BOOLEAN]

GigaSectors == 2097152

\* Capacities are given in the largest unit that fits.
InGigabytes(d, style) == style.giga /\ d.sectors % GigaSectors = 0

CapacityOf(d, style) == IF InGigabytes(d, style) THEN d.sectors \div GigaSectors ELSE d.sectors * SECTOR_SIZE

MemoryOf(machine, style) == IF style.giga THEN machine.memory \div Kilo ELSE machine.memory

DriveItem(i, d, style) ==
  [AnItem EXCEPT !.resource_type = "17", !.text = "Hard disk", !.parent = "3", !.address = ToString(d.unit),
                 !.host_resource = IF style.short THEN <<ToString(i)>> ELSE <<"ovf:", "disk", ToString(i)>>]

NicItem(nic, style) ==
  [AnItem EXCEPT !.tag = IF style.ns = "v2" THEN "EthernetPortItem" ELSE "Item", !.resource_type = "10",
                 !.text = "adapter", !.sub_type = nic.dev.ovf, !.mac_address = nic.mac]

Items(machine, style) ==
  LET disks == DisksOf(machine)
  IN  << [AnItem EXCEPT !.resource_type = "3", !.quantity = ToString(machine.vcpus)],
         [AnItem EXCEPT !.resource_type = "4",
            !.quantity = ToString(MemoryOf(machine, style)),
            !.units = IF ~style.giga THEN "MegaBytes" ELSE IF style.ns = "v2" THEN "byte*2^30" ELSE "GigaBytes"],
         [AnItem EXCEPT !.resource_type = "6", !.instance_id = "3", !.sub_type = machine.controller.ovf] >>
      \o [i \in 1..Len(disks) |-> DriveItem(i, disks[i], style)]
      \o [i \in 1..Len(machine.nics) |-> NicItem(machine.nics[i], style)]
      \o << [AnItem EXCEPT !.resource_type = "15", !.text = "cdrom"] >>

OvfOf(machine, style) ==
  LET disks == DisksOf(machine)
  IN  [ns      |-> style.ns,
       files   |-> [i \in 1..Len(disks) |-> [id |-> ToString(i), href |-> disks[i].file]],
       disks   |-> [i \in 1..Len(disks) |->
                      [id |-> ToString(i), file_ref |-> ToString(i),
                       capacity |-> ToString(CapacityOf(disks[i], style)),
                       units |-> IF InGigabytes(disks[i], style) THEN "byte * 2^30" ELSE "byte"]],
       systems |-> << [id |-> machine.name, name |-> IF style.ns = "v2" THEN machine.name ELSE "",
                       os |-> [id |-> machine.guest.id, osType |-> IF style.osType THEN machine.guest.osType ELSE "",
                               description |-> "an operating system"],
                       hardware |-> TRUE, system |-> TRUE, firmware |-> IF machine.efi THEN "EFI" ELSE "",
                       items |-> Items(machine, style)] >>]

\* The numbers in the descriptor: the ids of files and disks among them, and where the disks are.
OvfNumbers(machine, style) ==
  {machine.vcpus, MemoryOf(machine, style)} \cup 1..Len(DisksOf(machine))
    \cup UNION {{d.unit, CapacityOf(d, style)} : d \in Elements(DisksOf(machine))}

\* Only whole gigabytes of memory are written as gigabytes.
OvfIsExact(machine, style) == style.giga => machine.memory % Kilo = 0

\* OVA: the descriptor first, as the standard asks, then the disks.
OvaOf(machine) ==
  << [name |-> <<machine.name, ".ovf">>, safe |-> TRUE] >>
  \o [i \in 1..Len(DisksOf(machine)) |-> [name |-> DisksOf(machine)[i].file, safe |-> TRUE]]
=============================================================================
