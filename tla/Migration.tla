----------------------------- MODULE Migration -----------------------------
(***************************************************************************)
(* vmfree migrate (cli.py, _run_migration): parse the export, map its      *)
(* hardware, convert its disks one by one, write the libvirt domain or the *)
(* Proxmox script, and with --execute run the qm commands.  Invocations    *)
(* follow one another on the same file system and the same Proxmox node;   *)
(* each may fail or be killed at any step, and leaves behind what it had   *)
(* done.  Between them the user removes source disks, runs a script that   *)
(* was written earlier, or destroys the VM and tries again.                *)
(***************************************************************************)
EXTENDS Generators, ProxmoxHost, FiniteSets

CONSTANTS
  Exports,    \* the VMware exports the user has: records, see ExportType
  Dir,        \* the directories images may be written to
  Disk,       \* the virtual disks (their VMDK descriptors)
  Stem,       \* Stem[d]: file name of d's descriptor, without extension
  Invocations,\* the command lines the user may type: see InvocationType
  Strays,     \* volumes vm-<vmid>-disk-<n> already there: number |-> content
  Remigrate,  \* is the user careless: may migrate again what has been migrated?
  Removable   \* bound: the source descriptors the user may remove

Names    == {x.name : x \in Exports}
Stems    == {Stem[d] : d \in Disk}
Formats  == {"qcow2", "raw"}
Targets  == {"kvm", "proxmox"}
NoOutput == "--output not given"

ExportType ==
  [name : STRING, dir : Dir, disks : Seq(Disk), nics : Seq([virtual_dev : STRING, mac_address : STRING]),
   memory_mb : Nat, vcpus : Nat, scsi_controller : STRING, firmware : {"efi", "bios"},
   windows : BOOLEAN, ova : BOOLEAN]

InvocationType ==
  [source : Exports, target : Targets, output : Dir \cup {NoOutput}, format : Formats,
   net : [bridge : STRING, preserve_mac : BOOLEAN],
   windows_safe : BOOLEAN, dry_run : BOOLEAN, execute : BOOLEAN]

ASSUME ExportsAssumption     == Exports \subseteq ExportType
ASSUME InvocationsAssumption == Invocations \subseteq InvocationType
ASSUME RemigrateAssumption   == Remigrate \in BOOLEAN
ASSUME StraysAssumption      == DOMAIN Strays \subseteq Nat

VARIABLES
  stage,     \* where the running invocation is, or how the last one ended
  run,       \* that invocation
  next,      \* the loop over vm.disks is at disk number next
  todo,      \* the qm commands not run yet
  sources,   \* the source descriptors that exist
  dirs,      \* the directories that exist
  image,     \* image[path]: what a converted image file holds
  config,    \* config[path]: the domain or script written there
  unpacked,  \* exports with an extraction directory left under /tmp
  host       \* the Proxmox node, see ProxmoxHost

vars == <<stage, run, next, todo, sources, dirs, image, config, unpacked, host>>

ImagePaths  == Dir \X Stems \X Formats
ConfigPaths == Dir \X Names \X Targets

NoConfig  == [target |-> "none", whole |-> FALSE]
NoRun     == [target |-> "none"]

Ended     == {"idle", "ok", "failed"}
Migrating == {"parse", "preflight", "convert", "qemu", "write", "execute", "summary"}
Running   == Migrating \cup {"script"}

vm == run.source

-----------------------------------------------------------------------------
(* The computations of _run_migration that change nothing.                 *)

\* Mutant: safe mode is up to the flag alone.
SafeMode_FlagOnly(r) == r.windows_safe

\* Windows guests are put in safe mode without the flag.
SafeMode(r) == r.windows_safe \/ r.source.windows

\* The NIC model comes from the first NIC, "e1000" when there is none.
NicType(x) == IF x.nics = <<>> THEN "e1000" ELSE x.nics[1].virtual_dev

Hardware(r) == map_hardware(r.source.scsi_controller, NicType(r.source), r.source.firmware, SafeMode(r))

\* No --output: the directory of the source file.
OutDir(r) == IF r.output = NoOutput THEN r.source.dir ELSE r.output

\* outdir / f"{source.stem}.{ext}"
ImagePath(r, d) == <<OutDir(r), Stem[d], r.format>>

\* converted_paths once n disks are done
ConvertedPaths(r, n) == [i \in 1..n |-> ImagePath(r, r.source.disks[i])]

ConfigPath(r) == <<OutDir(r), r.source.name, r.target>>

\* generate_libvirt_xml raises.
GenerateFails == LibvirtIndexError(vm, ConvertedPaths(run, Len(vm.disks)))

Commands(r) ==
  generate_proxmox_commands(r.source, Hardware(r), ConvertedPaths(r, Len(r.source.disks)), r.net)

\* What is written: the domain, or the script with the commands.  files and
\* slots say which image stands for which disk, and in which drive.
Artefact(r) ==
  LET paths == ConvertedPaths(r, Len(r.source.disks))
      xml   == generate_libvirt_xml(r.source, Hardware(r), paths, r.net)
  IN  IF r.target = "kvm"
        THEN [target |-> "kvm", source |-> r.source, whole |-> TRUE, files |-> xml.files,
              slots |-> xml.slots, nics |-> xml.nics, commands |-> <<>>]
        ELSE [target |-> "proxmox", source |-> r.source, whole |-> TRUE, files |-> paths,
              slots |-> [i \in 1..Len(r.source.disks) |-> AttachCommands(r.source, Hardware(r))[i].slot],
              nics |-> <<CreateCommand(r.source, Hardware(r), r.net).net0>>, commands |-> Commands(r)]

\* A domain that breaks off, or a script that does, after n of its commands.
Torn(r, n) ==
  [target |-> r.target, source |-> r.source, whole |-> FALSE, files |-> <<>>, slots |-> <<>>, nics |-> <<>>,
   commands |-> IF r.target = "kvm" THEN <<>> ELSE SubSeq(Commands(r), 1, n)]

-----------------------------------------------------------------------------
Init == /\ stage = "idle"
        /\ run = NoRun
        /\ next = 1
        /\ todo = <<>>
        /\ sources = Disk \ UNION {{x.disks[i] : i \in 1..Len(x.disks)} : x \in {y \in Exports : y.ova}}
        /\ dirs = {x.dir : x \in Exports}
        /\ image = [p \in ImagePaths |-> Missing]
        /\ config = [p \in ConfigPaths |-> NoConfig]
        /\ unpacked = {}
        /\ host = HostWith(Strays)

Migrated(x) == \E p \in ConfigPaths : config[p].whole /\ config[p].source = x

Invoke(r) == /\ stage \in Ended
             /\ Remigrate \/ r.dry_run \/ ~Migrated(r.source)
             /\ run' = r
             /\ stage' = "parse"
             /\ next' = 1
             /\ UNCHANGED <<todo, sources, dirs, image, config, unpacked, host>>

\* parse_ovf_or_ova unpacks an OVA into a fresh temporary directory, and its
\* disks are the files found there.
Unpack(x) == IF x.ova THEN /\ unpacked' = unpacked \cup {x}
                           /\ sources' = sources \cup {x.disks[i] : i \in 1..Len(x.disks)}
                      ELSE UNCHANGED <<unpacked, sources>>

\* Stages 1 to 4 read the export, map the hardware, look for the bridge and
\* print the preflight table.
Parse == /\ stage = "parse"
         /\ Unpack(vm)
         /\ stage' = "preflight"
         /\ UNCHANGED <<run, next, todo, dirs, image, config, host>>

\* A parser raises, before or after an OVA is unpacked: exit 1.
ParseFails == /\ stage = "parse"
              /\ Unpack(vm) \/ UNCHANGED <<unpacked, sources>>
              /\ stage' = "failed"
              /\ UNCHANGED <<run, next, todo, dirs, image, config, host>>

\* --dry-run shows the plan, for which it generates the domain or the
\* commands, and returns.
ShowDryRun == /\ stage = "preflight"
              /\ run.dry_run
              /\ stage' = IF run.target = "kvm" /\ GenerateFails THEN "failed" ELSE "ok"
              /\ UNCHANGED <<run, next, todo, sources, dirs, image, config, unpacked, host>>

\* Mutant: the directory is made before --dry-run is looked at.
MakeOutDir_DryToo == /\ stage = "preflight"
                     /\ dirs' = dirs \cup {OutDir(run)}
                     /\ stage' = IF run.dry_run THEN "ok" ELSE "convert"
                     /\ UNCHANGED <<run, next, todo, sources, image, config, unpacked, host>>

\* outdir.mkdir(parents=True, exist_ok=True)
MakeOutDir == /\ stage = "preflight"
              /\ ~run.dry_run
              /\ \/ /\ dirs' = dirs \cup {OutDir(run)}
                    /\ stage' = "convert"
                 \/ /\ stage' = "failed"
                    /\ OutDir(run) \notin dirs
                    /\ UNCHANGED dirs
              /\ UNCHANGED <<run, next, todo, sources, image, config, unpacked, host>>

-----------------------------------------------------------------------------
(* Stage 5: convert_disk for each disk, in order.                          *)

CurrentDisk == vm.disks[next]

\* qemu-img convert has opened the source and created (truncated) the output.
ConvertDisk == /\ stage = "convert"
               /\ next <= Len(vm.disks)
               /\ CurrentDisk \in sources
               /\ OutDir(run) \in dirs
               /\ image' = [image EXCEPT ![ImagePath(run, CurrentDisk)] = Partial(CurrentDisk)]
               /\ stage' = "qemu"
               /\ UNCHANGED <<run, next, todo, sources, dirs, config, unpacked, host>>

\* The source or the directory is not there, qemu-img is not on PATH, or it
\* exits with an error before it touches the output: the pipeline exits 1.
ConvertRefused == /\ stage = "convert"
                  /\ next <= Len(vm.disks)
                  /\ stage' = "failed"
                  /\ UNCHANGED <<run, next, todo, sources, dirs, image, config, unpacked, host>>

\* Mutant: the loop does not advance.
ConvertDone_SameDisk == /\ stage = "qemu"
                        /\ image' = [image EXCEPT ![ImagePath(run, CurrentDisk)] = Whole(CurrentDisk)]
                        /\ stage' = "convert"
                        /\ UNCHANGED <<run, next, todo, sources, dirs, config, unpacked, host>>

\* Exit status 0: the path joins converted_paths, the loop goes on.
ConvertDone == /\ stage = "qemu"
               /\ image' = [image EXCEPT ![ImagePath(run, CurrentDisk)] = Whole(CurrentDisk)]
               /\ next' = next + 1
               /\ stage' = "convert"
               /\ UNCHANGED <<run, todo, sources, dirs, config, unpacked, host>>

\* Mutant: the output directory is emptied after a failure.
ConvertFails_Cleans ==
  /\ stage = "qemu"
  /\ stage' = "failed"
  /\ image' = [p \in ImagePaths |-> IF p[1] = OutDir(run) THEN Missing ELSE image[p]]
  /\ UNCHANGED <<run, next, todo, sources, dirs, config, unpacked, host>>

\* Mutant: the domain is written before the exit.
ConvertFails_Writes ==
  /\ stage = "qemu"
  /\ stage' = "failed"
  /\ config' = [config EXCEPT ![ConfigPath(run)] = Artefact(run)]
  /\ UNCHANGED <<run, next, todo, sources, dirs, image, unpacked, host>>

\* Mutant: the error is shown and the loop goes on.
ConvertFails_GoesOn == /\ stage = "qemu"
                       /\ stage' = "convert"
                       /\ next' = next + 1
                       /\ UNCHANGED <<run, todo, sources, dirs, image, config, unpacked, host>>

\* Nonzero exit status: exit 1, the output stays as far as it got.
ConvertFails == /\ stage = "qemu"
                /\ stage' = "failed"
                /\ UNCHANGED <<run, next, todo, sources, dirs, image, config, unpacked, host>>

-----------------------------------------------------------------------------
(* Stage 6: generate, write, and with --execute run.                       *)

\* Mutant: off by one at the end of the disks.
AllConverted_Early == stage = "convert" /\ next >= Len(vm.disks)

AllConverted == stage = "convert" /\ next > Len(vm.disks)

\* write_text has opened the file, which is empty now.
WriteDomain == /\ AllConverted
               /\ run.target = "kvm"
               /\ ~GenerateFails
               /\ config' = [config EXCEPT ![ConfigPath(run)] = Torn(run, 0)]
               /\ stage' = "write"
               /\ UNCHANGED <<run, next, todo, sources, dirs, image, unpacked, host>>

\* dev_letters[i] raises: a traceback, and no domain.
GenerateRaises == /\ AllConverted
                  /\ run.target = "kvm"
                  /\ GenerateFails
                  /\ stage' = "failed"
                  /\ UNCHANGED <<run, next, todo, sources, dirs, image, config, unpacked, host>>

WriteScript == /\ AllConverted
               /\ run.target = "proxmox"
               /\ config' = [config EXCEPT ![ConfigPath(run)] = Torn(run, 0)]
               /\ stage' = "write"
               /\ UNCHANGED <<run, next, todo, sources, dirs, image, unpacked, host>>

Executes(r) == r.execute /\ r.target = "proxmox"

\* write_text has written its last byte; the generator's commands follow if they
\* are to be run.
WriteDone == /\ stage = "write"
             /\ config' = [config EXCEPT ![ConfigPath(run)] = Artefact(run)]
             /\ IF Executes(run)
                  THEN stage' = "execute" /\ todo' = Commands(run)
                  ELSE stage' = "summary" /\ UNCHANGED todo
             /\ UNCHANGED <<run, next, sources, dirs, image, unpacked, host>>

\* Mutant: the summary is shown whether the text is in the file or not.
WriteFails_GoesOn == /\ stage = "write"
                     /\ stage' = "summary"
                     /\ UNCHANGED <<run, next, todo, sources, dirs, image, config, unpacked, host>>

\* The file system is full, or the kill comes before the last byte: nobody
\* catches OSError, and the file stays as far as it got.
WriteFails == /\ stage = "write"
              /\ \E n \in 0..(Len(Commands(run)) - 1) :
                   config' = [config EXCEPT ![ConfigPath(run)] = Torn(run, n)]
              /\ stage' = "failed"
              /\ UNCHANGED <<run, next, todo, sources, dirs, image, unpacked, host>>

FileOf(cmd) == IF cmd.op = "importdisk" THEN image[cmd.file] ELSE Missing

\* _execute_proxmox_commands runs the next command; so does a script, with set -e.
ExecuteCommand == /\ stage \in {"execute", "script"}
                  /\ todo # <<>>
                  /\ CanRun(host, Head(todo), FileOf(Head(todo)))
                  /\ host' = After(host, Head(todo), FileOf(Head(todo)))
                  /\ todo' = Tail(todo)
                  /\ UNCHANGED <<stage, run, next, sources, dirs, image, config, unpacked>>

\* Mutant: return codes are not looked at.
ExecuteFails_GoesOn == /\ stage \in {"execute", "script"}
                       /\ todo # <<>>
                       /\ todo' = Tail(todo)
                       /\ UNCHANGED <<stage, run, next, sources, dirs, image, config, unpacked, host>>

\* A command fails, because it cannot succeed or for a reason of its own:
\* exit 1, and what the earlier commands did stays.
ExecuteFails == /\ stage \in {"execute", "script"}
                /\ todo # <<>>
                /\ stage' = "failed"
                /\ todo' = <<>>
                /\ UNCHANGED <<run, next, sources, dirs, image, config, unpacked, host>>

ExecuteDone == /\ stage \in {"execute", "script"}
               /\ todo = <<>>
               /\ stage' = IF stage = "execute" THEN "summary" ELSE "idle"
               /\ UNCHANGED <<run, next, todo, sources, dirs, image, config, unpacked, host>>

\* _show_summary, and exit status 0.
ShowSummary == /\ stage = "summary"
               /\ stage' = "ok"
               /\ UNCHANGED <<run, next, todo, sources, dirs, image, config, unpacked, host>>

-----------------------------------------------------------------------------
(* The world around it.                                                    *)

\* Ctrl-C, SIGKILL or power, or an exception nobody catches, as from a print to
\* a closed pipe: the invocation is over, its effects stay.
Killed == /\ stage \in Running
          /\ stage' = "failed"
          /\ todo' = <<>>
          /\ UNCHANGED <<run, next, sources, dirs, image, config, unpacked, host>>

\* The user moves or deletes a source descriptor.
RemoveSource(d) == /\ d \in sources \cap Removable
                   /\ sources' = sources \ {d}
                   /\ UNCHANGED <<stage, run, next, todo, dirs, image, config, unpacked, host>>

\* The user runs a script a migration has written; a careless one also runs
\* what a failed migration has left of a script.
RunScript(p) == /\ stage \in Ended
                /\ config[p].target = "proxmox"
                /\ config[p].whole \/ Remigrate
                /\ stage' = "script"
                /\ todo' = config[p].commands
                /\ run' = NoRun
                /\ UNCHANGED <<next, sources, dirs, image, config, unpacked, host>>

\* The user destroys the VM, whole or half made.
DestroyVM == /\ stage \in Ended
             /\ host.exists
             /\ host' = Destroyed(host)
             /\ UNCHANGED <<stage, run, next, todo, sources, dirs, image, config, unpacked>>

Pipeline == \/ Parse \/ ParseFails \/ ShowDryRun \/ MakeOutDir
            \/ ConvertDisk \/ ConvertRefused \/ ConvertDone \/ ConvertFails
            \/ WriteDomain \/ GenerateRaises \/ WriteScript \/ WriteDone \/ WriteFails
            \/ ExecuteCommand \/ ExecuteFails \/ ExecuteDone \/ ShowSummary

User == \/ \E r \in Invocations : Invoke(r)
        \/ \E d \in Disk : RemoveSource(d)
        \/ \E p \in ConfigPaths : RunScript(p)
        \/ DestroyVM
        \/ Killed

Next == Pipeline \/ User

Spec == Init /\ [][Next]_vars

\* The pipeline is a sequential program whose children (qemu-img, qm) end.
FairSpec == Spec /\ WF_vars(Pipeline)

-----------------------------------------------------------------------------
Content == {Missing} \cup {Whole(d) : d \in Disk} \cup {Partial(d) : d \in Disk}

TornArtefacts == UNION {{Torn(r, n) : n \in 0..(Len(Commands(r)) - 1)} : r \in Invocations}

(* The types of the variables.                                             *)
TypeOK == /\ stage \in Ended \cup Running
          /\ run \in Invocations \cup {NoRun}
          /\ stage \in Migrating \cup {"ok"} => run \in Invocations
          /\ next \in Nat \ {0}
          /\ stage = "qemu" => next <= Len(vm.disks)
          /\ todo # <<>> => stage \in {"execute", "script"}
          /\ sources \subseteq Disk
          /\ dirs \subseteq Dir
          /\ image \in [ImagePaths -> Content]
          /\ config \in [ConfigPaths -> {NoConfig} \cup {Artefact(r) : r \in Invocations} \cup TornArtefacts]
          /\ unpacked \subseteq Exports

\* The artefacts that are complete.
Written == {c \in {config[p] : p \in ConfigPaths} : c.whole}

\* Every disk of the VM is there, whole, in the file the artefact names for it.
Backed(c) == \A i \in 1..Len(c.source.disks) :
               i \in DOMAIN c.files /\ image[c.files[i]] = Whole(c.source.disks[i])

(***************************************************************************)
(* Descriptors that are named apart: what the output file names rely on.   *)
(* Within one VM, and over all the VMs of the user, who also gave each VM  *)
(* a name of its own: what the names of the artefacts rely on.             *)
(***************************************************************************)
DistinctStems ==
  \A x \in Exports : \A i, j \in 1..Len(x.disks) :
    Stem[x.disks[i]] = Stem[x.disks[j]] => i = j

StemsApart ==
  \A x, y \in Exports : \A i \in 1..Len(x.disks), j \in 1..Len(y.disks) :
    Stem[x.disks[i]] = Stem[y.disks[j]] => x = y /\ i = j

NamesApart == \A x, y \in Exports : x.name = y.name => x = y

(***************************************************************************)
(* What the loop of stage 5 has achieved, and what is left when it is over.*)
(***************************************************************************)
ConvertedSoFar ==
  stage \in {"convert", "qemu", "write", "execute", "summary", "ok"} /\ ~run.dry_run =>
    \A i \in 1..Len(vm.disks) : i < next => image[ImagePath(run, vm.disks[i])] = Whole(vm.disks[i])

PastTheLoop ==
  /\ stage \in {"write", "execute", "summary", "ok"} /\ ~run.dry_run => next > Len(vm.disks)
  /\ stage = "write" => config[ConfigPath(run)] = Torn(run, 0)
  /\ stage \in {"execute", "summary", "ok"} /\ ~run.dry_run => config[ConfigPath(run)] = Artefact(run)

BeforeTheLoop == stage \in {"parse", "preflight"} => next = 1

NotDry == stage \in {"convert", "qemu", "write", "execute", "summary"} => ~run.dry_run

\* An artefact is found under its VM's name.
InPlace == \A p \in ConfigPaths : config[p].whole => config[p].source.name = p[2]

IInv == TypeOK /\ BeforeTheLoop /\ ConvertedSoFar /\ PastTheLoop /\ NotDry /\ InPlace

(***************************************************************************)
(* When a migration reports success, its domain or script is written, and  *)
(* the file it names for disk i of the VM holds all of disk i.             *)
(***************************************************************************)
SuccessIsBacked ==
  stage = "ok" /\ ~run.dry_run =>
    config[ConfigPath(run)] = Artefact(run) /\ Backed(config[ConfigPath(run)])

(***************************************************************************)
(* A migration that ends before its last byte is written, in a conversion, *)
(* the generator, the write or by a kill, leaves nothing complete under    *)
(* its VM's name: nothing that can be defined refers to its images.        *)
(***************************************************************************)
FailureLeavesNoDomain ==
  [][(stage \in {"parse", "preflight", "convert", "qemu", "write"} /\ stage' = "failed" /\ ~run.dry_run) =>
         ~config'[ConfigPath(run)].whole]_vars

(***************************************************************************)
(* Migrating one VM never damages another VM's artefact or the images it   *)
(* refers to, whether the migration succeeds, fails or is killed.          *)
(***************************************************************************)
OnlyOwnRerunUnbacks ==
  [][\A p \in ConfigPaths :
       config[p].whole /\ Backed(config[p]) =>
         \/ config'[p].whole /\ config'[p].source = config[p].source /\ Backed(config[p])'
         \/ stage = "convert" /\ run.source = config[p].source]_vars

(***************************************************************************)
(* "DRY RUN -- no changes will be made": neither on the file system, the   *)
(* extraction directories of parse_ovf_or_ova included, nor on the host.   *)
(* An OVA is unpacked all the same, so this takes exports that are none.   *)
(***************************************************************************)
DryRunChangesNothing ==
  [][(stage \in Migrating /\ run.dry_run) =>
         (UNCHANGED <<image, config, dirs, unpacked, host>>)]_vars

(***************************************************************************)
(* A Windows guest only ever gets IDE drives and e1000 NICs, in whichever  *)
(* target's vocabulary, with or without --windows-safe.                    *)
(***************************************************************************)
WindowsGetsSafeHardware ==
  /\ \A c \in Written : c.source.windows =>
       /\ \A i \in DOMAIN c.slots : c.slots[i][1] = "ide"
       /\ \A i \in DOMAIN c.nics : c.nics[i].model = "e1000"
  /\ \A x \in Exports : x.windows /\ host.exists /\ host.made.name = x.name =>
       host.made.scsihw = "lsi" /\ host.made.net0.model = "e1000"

\* Drive i-1 of the VM on the host holds all of disk i of x.
HostHasDisk(x, i) ==
  LET slot == <<host.boot[1], i - 1>>
  IN  /\ slot \in DOMAIN host.slots
      /\ host.vols[host.slots[slot]] = Whole(x.disks[i])

(***************************************************************************)
(* As soon as the VM on the host has a boot drive -- from there on it can  *)
(* be started -- each of its drives holds the disk the export had there,   *)
(* and it boots from the first: volumes are attached by guessed numbers,   *)
(* and the guesses are right.                                              *)
(***************************************************************************)
BootableIsWhole ==
  \A x \in Exports : host.exists /\ host.made.name = x.name /\ host.boot # NoSlot =>
    /\ host.boot[2] = 0
    /\ \A i \in 1..Len(x.disks) : HostHasDisk(x, i)

(***************************************************************************)
(* --execute reports success only when the VM is on the host, can boot,    *)
(* and has its EFI disk if it needs one.                                   *)
(***************************************************************************)
SuccessIsOnHost ==
  [][(stage = "summary" /\ stage' = "ok" /\ Executes(run)) =>
       /\ host.exists /\ host.made.name = vm.name
       /\ vm.disks # <<>> => host.boot # NoSlot
       /\ vm.firmware = "efi" <=> host.efi \in DOMAIN host.vols]_vars

(***************************************************************************)
(* For an owner who migrates each VM until its domain or script is written *)
(* and no further, a migration is atomic: see Delivery.                    *)
(***************************************************************************)
Usable(x) == \A c \in Written : c.source = x => Backed(c)

Promise == INSTANCE Delivery
             WITH Goods     <- Exports,
                  delivered <- {x \in Exports : Migrated(x)},
                  usable    <- {x \in Exports : Migrated(x) /\ Usable(x)}

DeliversAtomically == Promise!Spec

(* Every invocation and every script run comes to an end.                  *)
EveryRunEnds == stage \in Running ~> stage \in Ended
=============================================================================
