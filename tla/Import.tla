------------------------------- MODULE Import -------------------------------
(***************************************************************************)
(* What becomes of one VM on its way from an export to a domain: stages 1  *)
(* to 3 of _run_migration (cli.py) and the generators, on the contents of  *)
(* the export.  Migration has the same stages, with their failures and     *)
(* their effects, for exports whose contents are given.  The disks are     *)
(* generated for as _show_dry_run does, with the paths they will have.     *)
(***************************************************************************)
EXTENDS VmwareExport, Generators

CONSTANTS
  Invocations,  \* command lines: see InvocationType
  HostNames,    \* interface names a host may have, in sorted order
  MaxRoutes     \* bound: lines of its routing table

NoBridge == "--bridge not given"

(* The machine that was exported, and how: source is the name of the file, *)
(* and split tells what is in the VMDK files beside a VMX file.            *)
InvocationType ==
  [machine : {i.machine : i \in Invocations}, source : STRING \X STRING,
   style : VmxStyles \cup OvfStyles, split : {"one", "two", "binary"},
   target : {"kvm", "proxmox"}, bridge : STRING, preserve_mac : BOOLEAN, windows_safe : BOOLEAN]

ASSUME InvocationsAreTyped == Invocations \subseteq InvocationType

\* What is given to the program, if it is an export at all, is one that VMware has written.
ASSUME InvocationsAreExports ==
  \A r \in Invocations :
    /\ IsMachine(r.machine)
    /\ Lower(r.source[2]) = ".vmx" =>
         /\ r.style \in VmxStyles
         /\ VmxNumbers(r.machine, r.split) \subseteq NUMBERS /\ VmxIsExact(r.machine, r.split)
    /\ Lower(r.source[2]) \in {".ovf", ".ova"} =>
         /\ r.style \in OvfStyles
         /\ OvfNumbers(r.machine, r.style) \subseteq NUMBERS /\ OvfIsExact(r.machine, r.style)

ASSUME HostNamesAssumption == HostNames \in Seq(STRING)

VARIABLES
  invocation,
  stage,      \* the stage that comes next, or "done", "failed"
  vm,         \* what the parser has returned
  extracted,  \* files of an OVA in its temporary directory
  hw,         \* what map_hardware has returned
  sysfs,      \* the host's bridges
  routes,     \* and its routing table
  bridge,     \* --bridge, or what detect_bridge has returned
  result      \* the domain, or the commands

vars == <<invocation, stage, vm, extracted, hw, sysfs, routes, bridge, result>>

Net == INSTANCE BridgeDetect
         WITH SortedNames <- HostNames, target <- invocation.target, answer <- bridge

NotYet == [error |-> "not yet"]

machine == invocation.machine
kind    == Lower(invocation.source[2])

-----------------------------------------------------------------------------
\* Dispatch on the suffix.  A file of any other kind is refused.
_parse_source ==
  CASE kind = ".vmx" -> parse_vmx_file(VmxOf(machine, invocation.style), Beside(machine, invocation.split))
    [] kind = ".ovf" -> parse_ovf_file(OvfOf(machine, invocation.style))
    [] kind = ".ova" -> _extract_and_parse_ova(OvaOf(machine), OvfOf(machine, invocation.style))
    [] OTHER         -> [error |-> "ClickException"]

Init == /\ invocation \in Invocations
        /\ stage = "parse"
        /\ IF invocation.bridge = NoBridge
             THEN Net!Init
             ELSE sysfs = {} /\ routes = <<>> /\ bridge = invocation.bridge
        /\ vm = NotYet /\ hw = NotYet /\ result = NotYet
        /\ extracted = {}

\* Stage 1.
Parse == /\ stage = "parse"
         /\ _parse_source.error = ""
         /\ vm' = _parse_source
         /\ extracted' = IF kind = ".ova" THEN Extracted(OvaOf(machine)) ELSE {}
         /\ stage' = "map"
         /\ UNCHANGED <<invocation, hw, sysfs, routes, bridge, result>>

\* ValueError and ClickException: exit 1.
ParseFails == /\ stage = "parse"
              /\ _parse_source.error # ""
              /\ extracted' = IF kind = ".ova" THEN Extracted(OvaOf(machine)) ELSE {}
              /\ stage' = "failed"
              /\ UNCHANGED <<invocation, vm, hw, sysfs, routes, bridge, result>>

\* Stage 2: safe mode for Windows, the first NIC's type for all.
MapHardware ==
  /\ stage = "map"
  /\ hw' = map_hardware(vm.scsi_controller,
                        IF vm.nics = <<>> THEN "e1000" ELSE vm.nics[1].virtual_dev,
                        vm.firmware,
                        invocation.windows_safe \/ is_windows(vm))
  /\ stage' = "bridge"
  /\ UNCHANGED <<invocation, vm, extracted, sysfs, routes, bridge, result>>

\* Stage 3: only when --bridge is not given.
DetectBridge == /\ stage = "bridge"
                /\ UNCHANGED <<invocation, vm, extracted, hw, result>>
                /\ IF invocation.bridge = NoBridge THEN Net!Detect ELSE UNCHANGED <<sysfs, routes, bridge>>
                /\ stage' = "generate"

\* The image of a disk is named after its stem.
Paths == [i \in 1..Len(vm.disks) |-> <<vm.disks[i].path[1], ".qcow2">>]

net == [bridge |-> bridge, preserve_mac |-> invocation.preserve_mac]

Generate ==
  /\ stage = "generate"
  /\ IF invocation.target = "kvm" /\ LibvirtIndexError(vm, Paths)
       THEN stage' = "failed" /\ UNCHANGED result
       ELSE /\ stage' = "done"
            /\ result' = IF invocation.target = "kvm" THEN generate_libvirt_xml(vm, hw, Paths, net)
                                                      ELSE generate_proxmox_commands(vm, hw, Paths, net)
  /\ UNCHANGED <<invocation, vm, extracted, hw, sysfs, routes, bridge>>

Next == Parse \/ ParseFails \/ MapHardware \/ DetectBridge \/ Generate

Spec == Init /\ [][Next]_vars

-----------------------------------------------------------------------------
(* The result, whichever target it is for.                                 *)

Done == stage = "done"

\* The hard disks that the program looks for: all that an OVF descriptor has, not all that a VMX file has.
SoughtDisks == IF kind = ".vmx" THEN ScannedDisks(machine) ELSE DisksOf(machine)

Kvm  == invocation.target = "kvm"

Commands(op) == Only(result, {c \in Elements(result) : c.op = op})

Images == IF Kvm THEN result.files
                ELSE [i \in 1..Len(Commands("importdisk")) |-> Commands("importdisk")[i].file]
Drives == IF Kvm THEN result.slots
                ELSE [i \in 1..Len(Commands("attach")) |-> Commands("attach")[i].slot]
Made   == IF Kvm THEN [name |-> result.name, memory |-> result.memory, vcpus |-> result.vcpus,
                      firmware |-> result.firmware]
                ELSE [name |-> result[1].name, memory |-> result[1].memory, vcpus |-> result[1].cores,
                      firmware |-> result[1].firmware]
Nics   == IF Kvm THEN result.nics ELSE << result[1].net0 >>

(***************************************************************************)
(* The guest gets every hard disk that an OVF descriptor has, or that a    *)
(* VMX file has in units 0 to 15 of its SCSI, IDE and SATA controllers,    *)
(* each once and in order, and nothing else: no CD-ROM, no disk that was   *)
(* taken out; the first is marked to boot from.  An OVA's disks are in the *)
(* directory it was unpacked to.                                           *)
(***************************************************************************)
EveryDiskIsFound ==
  Done => LET disks == SoughtDisks
          IN  /\ Images = [i \in 1..Len(disks) |-> <<disks[i].file[1], ".qcow2">>]
              /\ Len(Drives) = Len(disks)
              /\ disks # <<>> => boot_disk(vm).path = disks[1].file
              /\ kind = ".ova" => \A i \in 1..Len(disks) : vm.disks[i].path \in extracted

(***************************************************************************)
(* Name, memory, processors and firmware come through every format, in all *)
(* its spellings and units.                                                *)
(***************************************************************************)
HardwareSurvives ==
  Done => Made = [name |-> machine.name, memory |-> machine.memory, vcpus |-> machine.vcpus,
                  firmware |-> IF machine.efi THEN "ovmf" ELSE NoFirmware]

(***************************************************************************)
(* With --preserve-mac every interface of a domain keeps its address, and  *)
(* so does the one interface of a Proxmox VM; all are on the one bridge.   *)
(***************************************************************************)
AddressesSurvive ==
  Done /\ invocation.preserve_mac =>
    /\ Kvm => Len(Nics) = Len(machine.nics)
    /\ \A i \in 1..Len(Nics) :
         /\ Nics[i].bridge = bridge
         /\ i <= Len(machine.nics) => Nics[i].mac = Get(COLONS, machine.nics[i].mac, machine.nics[i].mac)

(***************************************************************************)
(* A size that is known is the capacity of the disk; it is known unless a  *)
(* VMX file's disk begins with a binary header.  The check of the free     *)
(* space relies on it.                                                     *)
(***************************************************************************)
KnownSizeIsCapacity ==
  vm.error = "" =>
    \A i \in 1..Len(vm.disks) :
      vm.disks[i].size_bytes = IF kind = ".vmx" /\ invocation.split = "binary" THEN 0
                               ELSE SoughtDisks[i].sectors * SECTOR_SIZE

(***************************************************************************)
(* What VMware has written is understood: no item of a descriptor, no      *)
(* number and no spelling stops the program, only a file of another kind,  *)
(* a VMX file that gives the machine no name ("VMX file missing            *)
(* displayName"), or more disks than libvirt has letters for.              *)
(***************************************************************************)
EveryExportIsRead ==
  stage = "failed" => \/ kind \notin {".vmx", ".ovf", ".ova"}
                      \/ kind = ".vmx" /\ machine.name = ""
                      \/ Kvm /\ Len(SoughtDisks) > DevLetters

(* What tells the program that a guest runs Windows: VMware's name for the *)
(* system, which an OVF descriptor may lack.                               *)
WindowsIsKnown(runs) ==
  \A r \in runs : r.machine.windows =>
    /\ Lower(r.source[2]) = ".vmx" => Lower(r.machine.guest.vmx) \in DOMAIN windows_hints
    /\ Lower(r.source[2]) \in {".ovf", ".ova"} =>
         r.style.osType /\ r.machine.guest.osType # "" /\ Lower(r.machine.guest.osType) \in DOMAIN windows_hints

(***************************************************************************)
(* "Detect if this is a Windows guest", so that it only gets hardware that *)
(* it can boot from, whichever way it was exported.                        *)
(***************************************************************************)
WindowsIsSafe ==
  Done /\ machine.windows =>
    /\ \A i \in 1..Len(Drives) : Drives[i][1] = "ide"
    /\ \A i \in 1..Len(Nics) : Nics[i].model = "e1000"

(* The VM is attached to a bridge the host has: see BridgeDetect.          *)
AnswerIsABridge == invocation.bridge = NoBridge => Net!AnswerIsABridge

(* The first default route decides among bridges: see BridgeDetect.        *)
FirstRouteDecides == invocation.bridge = NoBridge => Net!FirstRouteDecides
=============================================================================
