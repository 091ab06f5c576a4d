# VMFree in TLA+

VMFree migrates VMware virtual machines to KVM: it parses a VMX, OVF or OVA
export, converts the disks with `qemu-img`, writes a libvirt domain or a script
of Proxmox `qm` commands (which it can also run), and has a library of fixups
that edit the guest's disk offline with libguestfs. It is a sequential Python
program. What makes it hard to get right is not concurrency but everything that
happens around a sequential program that drives other programs: they fail half
way, it is killed half way, it is run again on what it left, the files and
volumes it refers to are shared with other runs, and a result of "success" is
assembled from the results of many steps.

## The system

| Part | Source | State it keeps or changes | Operations |
|---|---|---|---|
| Migration pipeline | `cli.py` 349-595 | position in the pipeline, the output directory, images, artefacts, the Proxmox node | `migrate`: parse, map, detect bridge, preflight, dry run, convert each disk, generate, write, execute |
| Disk conversion | `converter/disk.py` 47-129 | one output image per disk | `convert_disk` |
| Snapshot merging | `converter/disk.py` 132-188 | the files of a snapshot chain | `merge_snapshot_chain` |
| Hardware mapper | `mapper/hardware.py` | none | `map_hardware` and its tables |
| Generators | `generators/libvirt.py`, `generators/proxmox.py` | none | a domain; a list of commands |
| Bridge detection | `network/detect.py` | none; reads sysfs and the routing table | `detect_bridge` |
| Guest network fixup | `fixup/network.py` | configuration files on the guest's disk | `fix_guest_network`, `set_dhcp_fallback` |
| Bootloader fixup | `fixup/bootloader.py` | initramfs, its configuration, grub.cfg, fstab backup | three steps and `full_bootloader_fixup` |
| VMware Tools removal | `fixup/vmware_tools.py` | packages, services, directories, module blacklist | `remove_vmware_tools_linux` |
| Parsers | `parsers/` | an OVA's extraction directory; otherwise none | `parse_vmx_file`, `parse_ovf_or_ova`, `inspect_vmdk` |
| VM model | `models.py` | none | `is_windows`, `is_efi`, `boot_disk` |
| Validation | `converter/validate.py`, `cli.py` 239-322 | none; reads the file system | `validate`, and checks it calls; `run_preflight` is called by nothing |
| Display | `cli.py` | none | tables, previews, summaries |

How they interact: the pipeline calls a parser, the mapper, bridge detection,
`convert_disk` once per disk and one of the generators, each once and in that
order, and passes values between them. They share the file system (sources,
images, artefacts) and, through `qm`, a Proxmox node; both outlive a run and are
shared by all runs and by the user. The generators refer to images by path and
to Proxmox volumes by the number they are expected to get. The fixups share the
guest's disk image with one another. Every external program is a child process
that is waited for; a missing program is an exception, a failed one an exit
status, and the code treats the two differently almost everywhere.

What is hard, per part, and the property that has to hold:

- *merging*: a commit rewrites the parent cluster by cluster. Whatever fails or
  is killed, the guest's disk must stay readable through the leaf, a retry must
  start over safely, and success must mean that the returned file shows it all;
- *pipeline*: a failure at any step of any run must not leave an artefact that
  refers to images that are not whole, nor damage another VM's; dry runs change
  nothing; Windows guests get hardware they can boot from; the volumes a script
  attaches are the ones it imported;
- *fixups*: dozens of independent edits, each of which may fail silently; edits
  must lose no settings, be repeatable, be in the right order, and report a
  failure that matters;
- *bridge detection*: the answer is a bridge the host has, and the documented
  preference decides;
- *parsers*: two formats, one of them in two versions and in an archive, each
  with several spellings of everything; what is not understood is skipped in
  silence, so a disk, a unit or an address can be lost and nothing fails;
- *validation*: it looks at the world once, and `migrate` goes on in the world
  of later: a pass must mean something as long as nothing is taken away, a
  failure must be no false alarm as long as nothing is supplied.

The complete list of hazards, each at its line, with the properties that cover
it, is in `PROJECT.json`.

## Modules

| Module | Models | Uses |
|---|---|---|
| `SnapshotMerge` | `merge_snapshot_chain` and `qemu-img commit` | |
| `MergePromise` | what a merge promises (abstract) | |
| `SnapshotMergeProofs` | theorems about `SnapshotMerge` | |
| `Text` | folding case (a table of the words of exports), dicts, and lists filtered by a loop | |
| `Numerals` | `int()` of the numbers in an export | `Text` |
| `VmModel` | `VMDefinition` and its properties | `Text` |
| `VmdkDescriptor` | `inspect_vmdk` | `Numerals` |
| `VmxParser` | `parse_vmx_file` | `VmdkDescriptor`, `VmModel` |
| `OvfParser` | `parse_ovf_or_ova` | `VmModel`, `Numerals` |
| `VmwareExport` | how VMware writes a machine down (external) | both parsers |
| `HardwareMap` | the mapper's tables and functions | `Text` |
| `Generators` | both generators, as data | `HardwareMap` |
| `Import`, `MCImport` | stages 1 to 3 and the generators, on the contents of an export | `VmwareExport`, `Generators`, `BridgeDetect` |
| `ProxmoxHost` | a Proxmox node under `qm` commands (external) | |
| `Migration` | the pipeline with `convert_disk` and `--execute` | `Generators`, `ProxmoxHost` |
| `Delivery` | what `migrate` promises an owner of VMs (abstract) | |
| `MCMigration` | exports and command lines for TLC | `Migration` |
| `MigrationProofs` | theorems about `Migration`: the files | |
| `MigrationHostProofs` | theorems about `Migration`: the Proxmox node | `MigrationProofs` |
| `Validate`, `MCValidate` | `validate`, and `migrate` in the same changing world | `Migration`, `VmModel` |
| `ValidateProofs` | theorems about `Validate` | `MigrationProofs` |
| `BridgeDetect` | `detect_bridge` | |
| `ImportProofs` | theorems about `Import`: what a guest has of its machine, and its bridge | |
| `GuestNetwork`, `MCGuestNetwork` | the network fixup | |
| `GuestNetworkProofs` | theorems about `GuestNetwork` | |
| `Bootloader`, `MCBootloader` | the bootloader fixup | |
| `BootloaderProofs` | theorems about `Bootloader` | |
| `VmwareTools`, `MCVmwareTools` | the removal of VMware Tools | |
| `VmwareToolsProofs` | theorems about `VmwareTools` | |

Definitions called `<name>_<change>` with a comment that begins "Mutant" are
plausible bugs of the definition that follows them. No specification uses them;
each is there to show that one property of one run would notice it
(`PROJECT.json`, "mutants").

### SnapshotMerge

`img[i][c]` is what image `i` of the chain stores for cluster `c`; image 1 is
the leaf, `N` the base, and `Hole` means "read the image below". `Reads` is what
opening an image shows. `phase`, `len` and `pos` are the loop of
`merge_snapshot_chain`: `CallEmpty`, `CallSingle` and `CallChain(n)` are its
three entries (a caller may list a part of the chain), `StartCommit` starts an
iteration, `NoQemuImg` and `CommitFails` are the two error returns, `Finish` the
last return. `CopyCluster` and `CommitDone` are qemu's. `Crash` may happen at
any time. `view` is a history variable: what the disk held at the beginning.

### Migration

One behaviour is the whole history of a set of VMs: invocations follow each
other (`Invoke`), each walks through `Parse`, `MakeOutDir`, then for each disk
`ConvertDisk` (the output is truncated: `Partial`) and `ConvertDone` (`Whole`),
then `WriteDomain` or `WriteScript` (which open the file), `WriteDone` (its last
byte), then `ExecuteCommand`s with `--execute`, and `ShowSummary`, which alone
makes it a success: killed before it, a run has failed and may leave a complete
artefact. An artefact that was opened and not finished is `Torn`: an empty or
broken domain, or a script that ends after some of its commands. Every early
exit of the code is an action (`ParseFails`, `ShowDryRun`, `ConvertRefused`,
`ConvertFails`, `GenerateRaises`, `WriteFails`, `ExecuteFails`), and `Killed`
stops a run anywhere, which also stands for an exception that nobody catches.
Between and during runs the user removes sources (`RemoveSource`), runs a
written script (`RunScript`) and destroys the VM (`DestroyVM`). `image` and
`config` are indexed by output paths, computed as the code does, so that two
disks or two VMs can meet on one path. A VM is a record of what the pipeline
reads of a `VMDefinition`; device names are the code's strings.

`ProxmoxHost` is external: `qm importdisk` takes the first free volume number of
`vm-<vmid>-disk-<n>`, `--efidisk0` likewise, `qm set` attaches by number, and
`qm destroy` removes the volumes its configuration lists.

### Import and the parsers

`Import` follows one export through `Parse`, `MapHardware`, `DetectBridge` and
`Generate`; its states are the values that `_run_migration` passes on. The
parsers are operators that keep the code's names. A VMX file is a sequence of
lines, an envelope a record of elements, an OVA a sequence of members; words are
strings as written. `Text` holds what `lower()` makes of them and what the loops
that fill a dict or filter a list return, `Numerals` what `int()` makes of the
numerals of `NUMBERS`. Searching a word for a part ("cdrom", "efi", "windows")
is membership in the set of words that have it. An element that the code finds
by its namespace or else by its local tag is a field of the envelope; an
attribute is not found in a namespace the parser does not know (`Attribute`).

What the parsers should return cannot be taken from the parsers. `VmwareExport`
says how a machine is written down: `VmxOf` in any order and case of the lines,
`OvfOf` in version 1 or 2, with the units, references and identifiers that
VMware and other tools use, `OvaOf` as an archive. `IsMachine` says what a
machine is (any number of drives, each in a place and with a file of its own, up
to ten NICs; NVMe drives and high units included, which the VMX parser does not
look for: `IsScanned`), and `InvocationsAreExports` that what is given to the
program is the export of one, whose numbers are in `NUMBERS`, or a file that is
no export at all; so the machines of a run are machines in the sense of the
theorems. The properties compare the domain or the commands that come out with
the machine that went in.

### BridgeDetect

The function over every host: its bridges, a set of names with the order they
are sorted in, and the lines of the routing table. `Import` includes it as its
third stage.

### Validate

`Validation` is `_run_validate`, one action per check; a check that does not
apply adds no result. `Migrate` is a step of `Migration`'s pipeline that meets
this world: a conversion needs `qemu-img`, a source and a directory, and takes
room on the file system (`Space`); `Refused` lists the reasons the world gives
it to fail. A step that fails without one has met an error that no check looks
for, and counts as something taken away. `OthersAct` supplies or takes away one
thing at any moment, also between two checks. `taken`, `given` and `after` are
history variables for the two properties that relate a validation to the
migration that follows it.

### GuestNetwork, Bootloader, VmwareTools

Each is a loop over virt-customize runs. A run has returned 0 or not, or could
not be started, and each outcome does to `success` what the code does. Where the
command ends in `|| true` or is a `find -exec`, the status tells nothing: it is
left out of the model, and whether the command did its work, none or a part of
it is a choice of its own. The history variables `missed` (GuestNetwork) and
`refused` (VmwareTools) hold what no command of this call has had its full
effect on; `clean` says that no command has failed, in VmwareTools other than
for a dependency. A guest's disk is a record of what the edits and the
properties are about: configuration stanzas, initramfs images with virtio,
packages with their dependencies. A call may follow another on the same disk,
finished, failed or killed. In GuestNetwork any single command may turn out to
be missing, a superset of what a host does; where a run refutes a statement, its
trace has been checked not to depend on that.

In GuestNetwork a stanza has the text that names its interface, the NIC whose
settings it holds, and in an ifcfg file the name in the file's name. A name is a
text in three parts, [lead, stem, rest], as in br-ens192 or ens192.100: `Matches`
says which of them the unanchored sed expressions find, `Edited` what they leave
around the match. `SedFiles` edits any of the files of a directory. The script
for an ifcfg file is two actions, `MoveIfcfg` and `EditIfcfg`, so that a kill can
come between its commands. In VmwareTools, `Removed`, `Kept` (dpkg refuses for
the sake of an installed package, listed by the code or not) and `Failed` are
what a command can do to the disk behind one exit status.

## Runs

`PROJECT.json` names each run's module, properties and meaning. The passing ones:

| Run | Instance | Why it is enough |
|---|---|---|
| `snapshot_merge` | 3 images, 2 clusters, 2 values | three images have a delta that is both a child and a parent; two clusters can be torn apart; every initial content. The theorems lift the bound |
| `migration_once` | two VMs: two disks with EFI; one disk, Windows with two NICs. Both targets, `--execute`, `--dry-run`. `Remigrate = FALSE` | two disks make a first and a last; EFI makes a second volume allocation; with `DevLetters = 1` (16 in the code) two disks exhaust the device letters, so the libvirt generator raises; a VM is only invoked again until an artefact of it is written |
| `migration_again` | three exports (two disks; an OVA without NICs; no disks), two formats, two directories, `Remigrate = TRUE` | everything that can be overwritten is |
| `import` | five machines (two SCSI disks around one that was taken out, with EFI; Windows on SATA; two disks on one IDE bus; no disks; four disks of which the VMX parser looks for one) in 4 VMX and 16 OVF styles, 3 kinds of VMDK, `.vmx`, `.VMX`, `.ovf`, `.ova`, both targets; hosts with 5 interface names and up to 2 routes | every spelling that `VmwareExport` knows meets every machine; two routes can disagree. OVFs of the Windows machine have an `osType`: without it see "Observations" |
| `validate` | an EFI VM with two disks, and an OVA of unknown size; 3 command lines, 1 change, 3 blocks of room, 1 of qcow2 metadata | the EFI VM fills the file system exactly; a migration before the validation takes room or leaves files to truncate; `qemu-img` and OVMF are there or not from the beginning, and one change can come between any two steps |
| `guest_network` | 26 guests: each store; VMware's names, others, and a VLAN or bridge whose name holds one; one NIC or two | two NICs make edits meet on one name; one command may edit any of the files |
| `bootloader` | every fresh guest with 2 kernels, every set of installed tools, every call | two kernels allow a partial rebuild |
| `vmware_tools` | RPM and DEB with a package that another one needs, one that the list has or has not; one unrecognised guest; `MaxRuns = 2` counts clean runs | two packages have a dependency; two runs show that a second one finishes what the first could not |

Bounds: `DevLetters` (device letters, where a run gives it less than 16),
`MaxVolume` (volume numbers, one more than the volumes of an instance
at the least), `Removable` (sources the user may remove), `MaxRoutes`,
`MaxRuns`, `MaxRoom` (blocks on a file system), `MaxCommands` and `MaxChanges`
(command lines and changes of the world in `validate`); in `Space` an image that
is being written takes nothing or all it can. The table `LOWER` in `Text` and
`COLONS` in `Generators` list the words that change when they are folded or
their dashes replaced (any other stays as it is), and `NUMBERS` the numbers of
the exports. The two `import` runs switch
the deadlock check off, since their program ends; every other run keeps it on.

Fairness: weak fairness of the program's own steps (`Pipeline`, `Steps`,
`Progress`, `Validation`), and of nothing else. The
code is a sequence of child processes that are waited for, and they are assumed
to end (in whichever way). Calls, kills, and what the user does are never
forced. A step that may fail is fair as a whole: it is not assumed to succeed.

The violating runs each check one statement of a document or docstring that the
code does not keep; "findings" in `PROJECT.json` quotes it and says what the
trace shows:

- two disks whose VMDKs have the same file name are converted into one image
  (`migration_same_stem`);
- a volume left on the storage becomes the new VM's boot drive
  (`migration_old_volume`);
- two ifcfg files are moved onto one (`guest_network_ifcfg`);

- a Windows Server 2003 is not told as Windows and gets virtio hardware
  (`import_windows`).

## Observations

Met while modelling, and stated here without a run of their own. The models do
what the code does in each case.

- `generators/libvirt.py:125` indexes 16 device letters: a VM with 17 disks
  raises `IndexError`, after all of them have been converted (`GenerateRaises`).
- `cli.py:521` says of a dry run that "no changes will be made", but an OVA has
  been unpacked into a new temporary directory by then (`parsers/ovf.py:531`),
  which stays (`Unpack`). `DryRunChangesNothing` holds for exports that are no
  OVA, and is checked for those.
- `fixup/vmware_tools.py:213`, `:239`, `:295` and `:319` end in `|| true`: the
  removal records what it asked for as done, whatever the command did.
  `LeftIsRefused` says what can be said: a failure hides nothing but itself.
  `SecondRunRemoves` says that a second call makes good what the order of the
  list spoilt, unless a package that is not listed needs a listed one.
- `fixup/vmware_tools.py:236` purges open-vm-tools before open-vm-tools-desktop,
  which depends on it: dpkg refuses, and the package is left with success
  reported (`Kept`).
- `fixup/network.py:274-275`: killed between the mv and the sed of an ifcfg file,
  the fixup leaves ifcfg-ens18 with DEVICE=ens192, and no later run looks for
  it, as ifcfg-ens192 is gone (`MoveIfcfg`, `EditIfcfg`). So `LeftIsMissed` is
  about the names of ifcfg files, not about what is in them.
- `fixup/network.py:184`, `:240`, `:312`, `:342` and `:377` hide failures in the
  same way (`RemoveRules`, `SedFiles`).
- `fixup/network.py:241`, `:313` and `:343` replace a name wherever it stands:
  ens192.100 becomes ens18.100, and ens1920 would become ens180 (`Matches`).
  `OthersUntouched` is about stanzas that hold no such part.
- `cli.py:453-473`: a run that is killed, or whose `print` fails, after the last
  byte of its artefact has failed and leaves a complete artefact with whole
  images. `FailureLeavesNoDomain` ends where the last byte is written.
- `cli.py:451` and `:463` name the artefact after the VM's display name: two VMs
  with one name replace each other's. `OthersStayBacked` assumes names apart.
- `cli.py:452`: a script that broke off in writing ends after some of its
  commands, with `set -e` and no sign of it. Run by a careless user it imports
  what images there are (`Torn`, `RunScript`).
- `generators/proxmox.py:103` writes `--net0` only: a second NIC is left behind.
- `generators/proxmox.py:133` numbers IDE drives without end, and safe mode puts
  every disk of a Windows guest on IDE, which `docs/HARDWARE_MAP.md:161` calls
  "limited to 4 devices".
- `cli.py:388` maps the first NIC's type and gives it to all NICs, although
  `docs/HARDWARE_MAP.md:33-34` maps each type by itself.
- `converter/disk.py:94` lets `qemu-img` truncate the output: migrating a VM
  again and being interrupted leaves the artefact of the first migration with a
  partial image. `OnlyOwnRerunUnbacks` says that nothing else does this.
- `parsers/vmx.py:127-129` scans units 0 to 15 of scsi, ide and sata: a disk at
  sata1:29 or scsi0:16, and any NVMe disk (`docs/HARDWARE_MAP.md:14` has a row
  for NVMe), is left behind without a word. `ScannedDisks` are the others.
- a guest without a SCSI controller gets virtio-scsi like all the others
  (`mapper/hardware.py:83`), although `docs/HARDWARE_MAP.md:15` maps IDE to IDE.
- `parsers/vmdk.py:192` wants four words in an extent line: a ZERO extent, which
  has no file name, is not counted into the size (`_parse_extent_line`).
- `parsers/ovf.py:358` knows "byte * 2^30" only with its blanks, where memory is
  read without them (`:376`): a capacity in "byte*2^30" is taken for bytes.
- an OVF guest is told as Windows by VMware's `osType`, or by the description
  when there is neither `osType` nor id (`parsers/ovf.py:192-207`); an envelope
  of another tool has the CIM number alone, which never says Windows (`GuestOs`).
- in a namespace that the parser does not know, elements are found by local tag
  but attributes are not (`Attribute`): disks get the path "", which is the
  working directory, and so "exists" for `validate`.
- only the first VirtualSystem of a collection is imported, a drive without a
  HostResource is dropped (`WithDrive`), any item with "efi" in its description
  makes the guest EFI ("User-defined" has it: `EfiTexts`), and without a System
  element nothing does (`_extract_firmware`).
- malformed XML raises `ET.ParseError`, which `cli.py:58` does not catch.
- `validate` looks at "." when `--output` is not given (`cli.py:232`), `migrate`
  writes beside the export (`cli.py:370`). It fails a missing directory that
  `migrate` would make, skips the space check when no size is known and counts
  an unknown one as 0, and does not count qcow2's metadata: the premises of
  `PassedIsKept` name each of these.
- `network/detect.py:115` returns the first default route; with a second one
  through a bridge, the preference of `network/detect.py:35` ("prefer the one
  with a default route") does not find that bridge.
- `fixup/network.py:216` takes the first directory with any file for the guest's
  kind: a readme under network-scripts hides NetworkManager's keyfiles
  (`StoresWithFiles`).
- when virt-customize returns nonzero, `fixup/network.py:245` records nothing
  and `fixup/bootloader.py:312` an action; both leave `success` as it is.
- `fixup/bootloader.py:180` makes a copy of fstab; nothing rewrites the device
  names that `fixup/bootloader.py:157-158` is about.
- `fixup/vmware_tools.py:213` passes the listed pattern `vmware-tools-*` to
  `rpm -e`, which takes names (`Without`).
- `--no-fixup` is accepted and never read, and the pipeline ends after stage 6
  although the repository's README lists "Fix Guest" and "Launch".
- `verify_conversion` is never called, although `converter/disk.py:7` announces
  "Post-conversion integrity verification"; `merge_snapshot_chain` is never
  called either, so a VM with snapshots is converted from its leaf descriptor.

## Proofs

`SnapshotMergeProofs` has no assumption but those of `SnapshotMerge`
(`N` a positive number, `Hole` no datum): it covers chains of every length, and
every set of clusters and of data. The inductive invariant `IInv` adds to the
two properties the reason they hold: while the loop runs, the chain read from
the current delta shows the disk (`MergedDownTo`), and what the running commit
has copied is the same in the parent (`CopiedIsInParent`). Copying a visible
cluster one image down changes no view from above (`CopyKeepsReads`), emptying a
delta whose clusters are all in its parent does not either (`EmptyKeepsReads`),
and then the chain can be read from the parent (`CommittedReads`).
`SourceAlwaysSurvives` and `SuccessAlwaysMerged` follow, and `Implements` maps
every step to a step or a stutter of `MergePromise`, with `Seen` (what the
refinement mapping shows is `view`) and `ViewNeverChanges`.

`MigrationProofs` is for any exports, directories, command lines and stray
volumes. `TypeCorrect` has no further assumption. `Invariance` and
`SuccessAlwaysBacked` assume `DistinctStems`: within one export no two disk
descriptors have the same stem. That is what the output file names rely on;
without it the property is false, and the run `migration_same_stem` shows it.
The invariant says that the disks before `next` are whole (`ConvertedSoFar`)
and that past the loop the artefact is being written or written
(`PastTheLoop`); a conversion in progress truncates only its own image since
stems differ. `OthersStayBacked` assumes `StemsApart`, the same over all
exports, and `NamesApart`, that no two of them have one display name; it shows
that only migrating the export itself again can damage its artefact or take
away the artefact's images. It needs `InPlace` of the invariant: a complete
artefact is found under its own VM's name, so that opening a file for writing
truncates none of another VM's. `DryRunsChangeNothing` assumes `NoOva`, that no
export is an OVA: from `NotDry` of the invariant a dry run is never past the
preflight table, and before it only an OVA leaves anything.

Three more statements take a *careful owner* (`CarefulOwner`): one who does not
migrate again what has been migrated, and whose VMs have names of their own.
`FailuresLeaveNoDomain` needs no more: a migration that ends before the last
byte of its artefact leaves nothing complete in its place. Its invariant
`OnceInv` says that what is being migrated is not migrated yet, and that only
`WriteDone` makes an artefact whole. With `StemsApart`, `Delivers` maps every
step of `Spec` to a step or a stutter of `Delivery` (`AllBacked`: what is
complete is backed by whole images).

`MigrationHostProofs` follows the commands to the node. `CommandsAre` says which
command is where in the list that the generator makes of any number of disks,
and one lemma per command what it makes of the node. The invariant `HostInv`
says that whatever VM is there, the first `k` commands of some migration have
made it (`HostAt`), and while commands run, the rest of them is still to do
(`Progress`); a script that broke off in writing ends early. Where nobody else
makes volumes (`Undisturbed`: a careful owner, stems apart, no stray volumes) it
also says which numbers the volumes have and what is in them, so that the
guesses of the script are right. From it follow `SuccessesAreOnHost`, without a
hypothesis (what is on the storage does not matter to it),
`WindowsIsSafelyMapped` for names apart, and `BootablesAreWhole` for an
undisturbed node; the run `migration_old_volume` shows what a stray volume does.
`qm` takes the first free number: that there is a least one (`LeastNumber`) is
proved from the library's theorem that < is well-founded on Nat, and the same
lemma stands for induction wherever one is needed.

`ValidateProofs` has two invariants. `KeptInv` says that as long as all reports
are good and nothing was taken away, what the checks have looked at is there
(`StillThere`), and that there is room for all disks, or during the migration
for those that are left (`RoomLeft`, with `Sums`, the sum over the first disks
of an export: it exists, is what `TotalDiskBytes` computes, and grows). So
`PassesAreKept` is for any number and sizes of disks, any exports and worlds,
with no hypothesis. `RefusedInv` says that what was reported missing is still
missing, and where this has the migration stopped (`Blocked`); `AlarmsAreTrue`
takes `OvaDisksApart`: no disk of an export is in someone's OVA, which the code
ensures by unpacking an OVA into a new directory (`parsers/ovf.py:531`).

`ImportProofs` is for every machine and every way to export it: any drives on
any controllers (of a VMX file, `EveryDiskIsAlwaysFound` speaks of
`ScannedDisks`), any file names and sizes, any spelling. Its argument has three
parts. The first is about loops. Filtering a list, filling a dict, reading a
descriptor line by line and a hardware section item by item are recursive
functions over a sequence. `Loops` gives each of them a run, that is, a function
that does at every position what the loop does; and a `LeastNumber` at which a
claim about a run failed would have a predecessor at which it held. So `OnlyIs`
says that a filtered list keeps what is wanted, in its order, and `DictHolds`
what a key is looked up as. The second part says that the parsers read back what
`VmwareExport` writes. `VmxExportIsRead`: each key of a VMX file is on one line,
in whichever order and case, so that the slots that hold disks, in the order of
`Slots`, are the machine's disks in the order of their places, the sum of the
extents is the capacity, and NICs are numbered as they are; drives that are not
scanned may be anywhere among them (`ScannedAre`, `ScannedHavePlaces`).
`OvfIsRead` follows the hardware section item by item, resolves drive, disk and
file by their identifiers, and takes the units apart; `OvaIsRead` adds the
members. `ParsedIs` puts them together. The third part is the inductive
invariant `ImportInv`: what the parser has returned is what `ParsedIs` says, the
hardware is what `map_hardware` makes of that, the result what the generator
makes of both (`Generated`, `DomainIs`; `CommandsAre` and `KindsAre` say which
`qm` commands are where in a script), and the program has failed only where it
may (`MayFail`: by `NoneIsRefused` the parsers take every export but a VMX file
without a name). `EveryExportIsAlwaysRead`, `EveryDiskIsAlwaysFound`,
`HardwareAlwaysSurvives`, `AddressesAlwaysSurvive` and `KnownSizesAreCapacities`
follow without a hypothesis beyond the assumptions of `Import`.
`WindowsIsAlwaysSafe` takes `WindowsIsKnown`: VMware's name for the system is in
the export, and is one that `is_windows` knows. `MCImport` has TLC evaluate that
it holds of the command lines of `import`; the run `import_windows` and the
observation on `osType` show what happens where it does not.

For the bridge, `BridgeInv` says that it is what `detect_bridge` makes of the
host, or not chosen yet. `BridgesAreReal` and `FirstRoutesDecide` are for any
interfaces and any routing table.

`GuestNetworkProofs`: `WhatIsLeftWasMissed` has no hypothesis: a VMware name
that is left in the store is still in the queue, or its command has missed it
(`ToRename`, and `ToEdit` between the two commands on an ifcfg file).
`SettingsAreKept` and `OthersAreUntouched` take `ApartGuests`: of the ifcfg
files of one guest at most one is for a name that is moved or moved to. Moving
replaces the file that is there, and the run `guest_network_ifcfg` shows the
loss. The second also takes callers that pass VMware names only.
`BootloaderProofs` has no hypothesis: the invariant knows the order of the steps
(`InOrder`), and that nothing after the rebuild touches the initramfs or makes a
failure good (`RebuiltIfClean`, `RebuiltIfSuccess`). `VmwareToolsProofs` has
none either: what is left is still in the queue or refused (`Tried`), and after
clean calls a listed package is left only where another one that is left needs
it (`PackagesRemoved`).

The assumptions on constants are those the modules declare: the types of exports
and command lines (`ExportsAssumption`, `InvocationsAssumption`,
`RequestsAssumption`, `InvocationsAreTyped`), numbers that are numbers
(`MaxVolumeAssumption`, `StraysAssumption`, `SizesAssumption`, `RoomAssumption`),
`NicsAssumption`, `NamesAssumption`, `OldIfacesAssumption` (a caller's name is no
part of another), `NeedsAssumption` (no chains of dependencies among the listed
packages of Debian), `HostNamesAssumption`, `NumbersAssumption` (decimal numerals of
different numbers differ, and none is empty), `InvocationsAreExports`, and
`NotExecuted`, which says what `Validate` models. TLC evaluates each of them in
the runs.

The types of the removal of VMware Tools (`TypeCorrect`) are proved and have no
run of their own. Every safety invariant and action property that a passing run
checks is the statement of a theorem. Model-checked only is liveness
(`EveryCallEnds`, `EveryRunEnds`, `EveryFixEnds`, `EveryFixupEnds`,
`EveryRemovalEnds`, `EveryValidationEnds`), which the proof system cannot treat
under fairness. The words that tell Windows are a table built with `:>` and
`@@`, of which the provers know nothing: that a name of Windows is among them is
the hypothesis `WindowsIsKnown`, which TLC evaluates.

## Not modelled

Everything that only prints: `inspect`, the preflight table, the summary. The
text of XML and commands, and what is the same in every domain (CPU model,
machine type, features, controllers, graphics, agent channel). Of an export: the
display adapter, network names, hardware version, and a VMDK's geometry, adapter
type and parent, which no later stage reads; OVF StorageItems, which the parser
skips; broken XML and archives. Kills during a validation, which changes
nothing, and `--execute` after one. `check_disk_exists`, `check_flat_file`,
`check_output_integrity`, `run_preflight` and `verify_conversion`, which nothing
but tests calls. The progress callback of `convert_disk`, which the pipeline
does not pass, and `convert`, which is not implemented.

## Plan

1. done: `SnapshotMerge` with its abstract specification and proofs; the
   pipeline with generators, mapper and Proxmox node, and its first proofs;
   bridge detection; the three fixups.
2. done: the parsers (`VmxParser`, `OvfParser`, `VmdkDescriptor`, `VmModel`) and
   their way to a domain (`Import`).
3. done: validation composed with `Migration` (`Validate`).
4. done: the write of an artefact in two steps, with the proofs it changes.
5. done: proofs of every safety property of the pipeline, of `Delivery`, of
   validation, of the bridge and of the three fixups.
6. done: proofs about the parsers, and about what the generators make of what
   they return.

Worth adding when the code grows: `run_preflight` and `verify_conversion` once
something calls them, the fixups as stages of the pipeline once `--no-fixup` is
read, and a snapshot chain as a source of `convert_disk`.
