-------------------------- MODULE MigrationProofs --------------------------
(***************************************************************************)
(* Theorems about Migration for any exports, command lines and             *)
(* directories: what a success means, that migrating one VM leaves the     *)
(* delivery of the others alone, that a dry run changes nothing, what a    *)
(* failure leaves, and that the pipeline implements Delivery.  They rest   *)
(* on descriptors whose names differ; the run MigrationSameStem shows what *)
(* happens otherwise.  MigrationHostProofs goes on to the Proxmox node.    *)
(***************************************************************************)
EXTENDS Migration, TLAPS, WellFoundedInduction

(* Of some numbers, one is the least: it stands for induction.             *)
Below == {p \in Nat \X Nat : p[1] < p[2]}

LEMMA LeastNumber ==
  ASSUME NEW T \in SUBSET Nat, T # {}
  PROVE  \E x \in T : \A y \in T : x <= y
<1>1. IsWellFoundedOn(Below, Nat)
  BY NatLessThanWellFounded DEF Below, OpToRel
<1>2. PICK x \in T : \A y \in T : <<y, x>> \notin Below
  BY <1>1, WFMin
<1>3. ASSUME NEW y \in T PROVE x <= y
  <2>1. y \in Nat /\ x \in Nat
    OBVIOUS
  <2>2. ~(y < x)
    BY <1>2, <2>1 DEF Below
  <2> QED BY <2>1, <2>2
<1> QED BY <1>3

(* The fields of a command line, and of the export it names.               *)
LEMMA InvocationFields ==
  ASSUME NEW r \in Invocations
  PROVE  /\ r.source \in Exports /\ r.target \in Targets /\ r.format \in Formats
         /\ r.dry_run \in BOOLEAN /\ r.execute \in BOOLEAN
         /\ OutDir(r) \in Dir
         /\ r.source.disks \in Seq(Disk)
         /\ Len(r.source.disks) \in Nat
         /\ r.source.name \in Names
<1>1. r \in InvocationType
  BY InvocationsAssumption
<1>2. /\ r.source \in Exports /\ r.target \in Targets /\ r.format \in Formats
      /\ r.dry_run \in BOOLEAN /\ r.execute \in BOOLEAN
      /\ r.output \in Dir \cup {NoOutput}
  BY <1>1 DEF InvocationType
<1>3. r.source \in ExportType
  BY <1>2, ExportsAssumption
<1>4. r.source.dir \in Dir /\ r.source.disks \in Seq(Disk)
  BY <1>3 DEF ExportType
<1> QED BY <1>2, <1>4 DEF OutDir, Names

(* Where the image of a disk and the artefact of a run are put.            *)
LEMMA PathsAreTyped ==
  ASSUME NEW r \in Invocations
  PROVE  /\ ConfigPath(r) \in ConfigPaths
         /\ \A d \in Disk : ImagePath(r, d) \in ImagePaths
  BY InvocationFields DEF ConfigPath, ConfigPaths, ImagePath, ImagePaths, Stems

(* An artefact names the image of each disk, in the order of the disks.    *)
LEMMA ArtefactFiles ==
  ASSUME NEW r \in Invocations
  PROVE  /\ Artefact(r).whole
         /\ Artefact(r).source = r.source
         /\ \A i \in 1..Len(r.source.disks) :
              /\ i \in DOMAIN Artefact(r).files
              /\ Artefact(r).files[i] = ImagePath(r, r.source.disks[i])
<1> DEFINE n == Len(r.source.disks)
           paths == ConvertedPaths(r, n)
<1>1. n \in Nat
  BY InvocationFields
<1>2. /\ DOMAIN paths = 1..n /\ Len(paths) = n
      /\ \A i \in 1..n : paths[i] = ImagePath(r, r.source.disks[i])
  BY <1>1 DEF ConvertedPaths
<1>3. Zipped(r.source, paths) = n
  BY <1>1, <1>2 DEF Zipped
<1>4. /\ DOMAIN SubSeq(paths, 1, n) = 1..n
      /\ \A i \in 1..n : SubSeq(paths, 1, n)[i] = paths[i]
  BY <1>1, <1>2
<1>5. CASE r.target = "kvm"
  BY <1>2, <1>3, <1>4, <1>5 DEF Artefact, generate_libvirt_xml
<1>6. CASE r.target # "kvm"
  BY <1>2, <1>6 DEF Artefact
<1> QED BY <1>5, <1>6

(* Sequences of members of a set, for those that are given by their case.  *)
LEMMA NoneOrOne ==
  ASSUME NEW S, NEW e \in S, NEW s, s = <<>> \/ s = << e >> PROVE s \in Seq(S)
<1>1. <<>> \in Seq(S)
  OBVIOUS
<1>2. << e >> \in Seq(S)
  OBVIOUS
<1> QED BY <1>1, <1>2

(* There is a first command: `qm create`.                                  *)
LEMMA SomeCommands == ASSUME NEW r \in Invocations PROVE Len(Commands(r)) \in Nat \ {0}
<1> DEFINE hw     == Hardware(r)
           paths  == ConvertedPaths(r, Len(r.source.disks))
           create == CreateCommand(r.source, hw, r.net)
           attach == AttachCommands(r.source, hw)
           boot   == BootCommands(r.source, hw)
           efi    == EfidiskCommands(hw)
           Cmds   == {create} \cup {[op |-> "importdisk", file |-> paths[i]] : i \in 1..Len(paths)}
                       \cup {attach[i] : i \in 1..Len(r.source.disks)} \cup {boot[1], efi[1]}
<1>1. Len(r.source.disks) \in Nat /\ Len(paths) \in Nat
  BY InvocationFields DEF ConvertedPaths
<1>2. << create >> \in Seq(Cmds) /\ Len(<< create >>) = 1
  OBVIOUS
<1>3. ImportCommands(paths) \in Seq(Cmds)
  BY <1>1 DEF ImportCommands
<1>4. attach \in Seq(Cmds)
  <2>1. attach = [i \in 1..Len(r.source.disks) |-> attach[i]]
    BY DEF AttachCommands
  <2>2. \A i \in 1..Len(r.source.disks) : attach[i] \in Cmds
    OBVIOUS
  <2> HIDE DEF attach, Cmds
  <2> QED BY <1>1, <2>1, <2>2
<1>5. boot \in Seq(Cmds)
  <2>1. boot = <<>> \/ boot = << boot[1] >>
    BY DEF BootCommands
  <2>2. boot[1] \in Cmds
    OBVIOUS
  <2> HIDE DEF boot, Cmds
  <2> QED BY <2>1, <2>2, NoneOrOne
<1>6. efi \in Seq(Cmds)
  <2>1. efi = <<>> \/ efi = << efi[1] >>
    BY DEF EfidiskCommands
  <2>2. efi[1] \in Cmds
    OBVIOUS
  <2> HIDE DEF efi, Cmds
  <2> QED BY <2>1, <2>2, NoneOrOne
<1>7. Commands(r) = << create >> \o ImportCommands(paths) \o attach \o boot \o efi
  BY DEF Commands, generate_proxmox_commands
<1> HIDE DEF Cmds, create, paths, attach, boot, efi
<1>8. /\ << create >> \o ImportCommands(paths) \in Seq(Cmds)
      /\ Len(<< create >> \o ImportCommands(paths)) \in Nat \ {0}
  BY <1>2, <1>3
<1>9. /\ << create >> \o ImportCommands(paths) \o attach \in Seq(Cmds)
      /\ Len(<< create >> \o ImportCommands(paths) \o attach) \in Nat \ {0}
  BY <1>4, <1>8
<1>10. /\ << create >> \o ImportCommands(paths) \o attach \o boot \in Seq(Cmds)
       /\ Len(<< create >> \o ImportCommands(paths) \o attach \o boot) \in Nat \ {0}
  BY <1>5, <1>9
<1> QED BY <1>6, <1>7, <1>10

(* What is left of an artefact is never taken for it.                      *)
LEMMA TornIsNotWhole == ASSUME NEW r \in Invocations, NEW n PROVE ~Torn(r, n).whole
  BY DEF Torn

-----------------------------------------------------------------------------
(* The inductive invariant, for exports whose own disks are named apart.   *)

LEMMA InitIInv == Init => IInv
<1> SUFFICES ASSUME Init PROVE IInv
  OBVIOUS
<1>1. \A x \in Exports : x.dir \in Dir
  BY ExportsAssumption DEF ExportType
<1>2. TypeOK
  BY <1>1 DEF Init, TypeOK, Ended, Running, Migrating, Content
<1>3. InPlace
  BY DEF Init, InPlace, NoConfig
<1> QED BY <1>2, <1>3 DEF Init, IInv, BeforeTheLoop, ConvertedSoFar, PastTheLoop, NotDry

(* A running migration has been typed in.                                  *)
LEMMA RunIsTyped ==
  ASSUME TypeOK, stage \in Migrating \cup {"ok"}
  PROVE  run \in Invocations /\ Len(vm.disks) \in Nat /\ vm \in Exports /\ vm.disks \in Seq(Disk)
  BY InvocationFields DEF TypeOK, vm

LEMMA StepTypeOK == TypeOK /\ [Next]_vars => TypeOK'
<1> SUFFICES ASSUME TypeOK, [Next]_vars PROVE TypeOK'
  OBVIOUS
<1> USE DEF TypeOK, Ended, Running, Migrating
<1>1. ASSUME NEW r \in Invocations, Invoke(r) PROVE TypeOK'
  BY <1>1 DEF Invoke
<1>2. CASE Parse \/ ParseFails
  <2>1. stage = "parse" /\ run \in Invocations /\ vm \in Exports /\ vm.disks \in Seq(Disk)
    BY <1>2, RunIsTyped DEF Migrating, Parse, ParseFails
  <2>2. sources' \subseteq Disk /\ unpacked' \subseteq Exports
    BY <1>2, <2>1 DEF Parse, ParseFails, Unpack
  <2> QED BY <1>2, <2>1, <2>2 DEF Parse, ParseFails
<1>3. CASE ShowDryRun
  BY <1>3 DEF ShowDryRun
<1>4. CASE MakeOutDir
  BY <1>4, InvocationFields DEF MakeOutDir
<1>5. CASE ConvertDisk
  <2>1. /\ run \in Invocations /\ CurrentDisk \in Disk
    BY <1>5, RunIsTyped DEF Migrating, ConvertDisk, CurrentDisk
  <2>2. image' \in [ImagePaths -> Content]
    BY <1>5, <2>1 DEF ConvertDisk, Content
  <2> QED BY <1>5, <2>1, <2>2 DEF ConvertDisk, vm
<1>6. CASE ConvertRefused
  BY <1>6 DEF ConvertRefused
<1>7. CASE ConvertDone
  <2>1. /\ run \in Invocations /\ CurrentDisk \in Disk
    BY <1>7, RunIsTyped DEF Migrating, ConvertDone, CurrentDisk
  <2>2. image' \in [ImagePaths -> Content]
    BY <1>7, <2>1 DEF ConvertDone, Content
  <2> QED BY <1>7, <2>1, <2>2 DEF ConvertDone
<1>8. CASE ConvertFails
  BY <1>8 DEF ConvertFails
<1>9. CASE WriteDomain \/ WriteScript
  <2>1. run \in Invocations /\ stage' = "write"
    BY <1>9, RunIsTyped DEF Migrating, WriteDomain, WriteScript, AllConverted
  <2>2. Torn(run, 0) \in TornArtefacts
    BY <2>1, SomeCommands DEF TornArtefacts
  <2> HIDE DEF Ended, Running, Migrating
  <2>3. config' \in [ConfigPaths -> {NoConfig} \cup {Artefact(r) : r \in Invocations} \cup TornArtefacts]
    BY <1>9, <2>2 DEF WriteDomain, WriteScript
  <2> QED BY <1>9, <2>1, <2>3 DEF WriteDomain, WriteScript, AllConverted, Running, Migrating
<1>10. CASE GenerateRaises
  BY <1>10 DEF GenerateRaises, AllConverted
<1>11. CASE WriteDone \/ WriteFails
  <2>1. run \in Invocations /\ stage = "write"
    BY <1>11, RunIsTyped DEF Migrating, WriteDone, WriteFails
  <2>2. \A n \in 0..(Len(Commands(run)) - 1) : Torn(run, n) \in TornArtefacts
    BY <2>1 DEF TornArtefacts
  <2>3. config' \in [ConfigPaths -> {NoConfig} \cup {Artefact(r) : r \in Invocations} \cup TornArtefacts]
    BY <1>11, <2>1, <2>2 DEF WriteDone, WriteFails
  <2> QED BY <1>11, <2>1, <2>3 DEF WriteDone, WriteFails
<1>12. CASE ExecuteCommand \/ ExecuteFails \/ ExecuteDone \/ ShowSummary
  BY <1>12 DEF ExecuteCommand, ExecuteFails, ExecuteDone, ShowSummary
<1>13. CASE (\E d \in Disk : RemoveSource(d)) \/ DestroyVM \/ Killed
  BY <1>13 DEF RemoveSource, DestroyVM, Killed, vm
<1>14. ASSUME NEW p \in ConfigPaths, RunScript(p) PROVE TypeOK'
  BY <1>14 DEF RunScript
<1>15. CASE UNCHANGED vars
  BY <1>15 DEF vars, vm
<1> QED BY <1>1, <1>2, <1>3, <1>4, <1>5, <1>6, <1>7, <1>8, <1>9, <1>10, <1>11, <1>12, <1>13,
           <1>14, <1>15 DEF Next, Pipeline, User

LEMMA StepInPlace == TypeOK /\ InPlace /\ [Next]_vars => InPlace'
<1> SUFFICES ASSUME TypeOK, InPlace, [Next]_vars PROVE InPlace'
  OBVIOUS
<1>1. CASE UNCHANGED config
  BY <1>1 DEF InPlace
<1>2. CASE WriteDomain \/ WriteScript \/ WriteDone \/ WriteFails
  <2>1. run \in Invocations
    BY <1>2, RunIsTyped DEF Migrating, WriteDomain, WriteScript, WriteDone, WriteFails, AllConverted
  <2>2. PICK c : /\ config' = [config EXCEPT ![ConfigPath(run)] = c]
                 /\ c.whole => c.source = run.source
    BY <1>2, <2>1, ArtefactFiles, TornIsNotWhole DEF WriteDomain, WriteScript, WriteDone, WriteFails
  <2>3. SUFFICES ASSUME NEW p \in ConfigPaths, config'[p].whole PROVE config'[p].source.name = p[2]
    BY DEF InPlace
  <2>4. CASE p = ConfigPath(run)
    <3>1. config'[p] = c
      BY <2>2, <2>4 DEF TypeOK
    <3> QED BY <2>2, <2>3, <2>4, <3>1 DEF ConfigPath
  <2>5. CASE p # ConfigPath(run)
    <3>1. config'[p] = config[p]
      BY <2>2, <2>5 DEF TypeOK
    <3> QED BY <2>3, <3>1 DEF InPlace
  <2> QED BY <2>4, <2>5
<1> QED BY <1>1, <1>2
      DEF Next, vars, Pipeline, User, Invoke, Parse, ParseFails, ShowDryRun, MakeOutDir, ConvertDisk,
          ConvertRefused, ConvertDone, ConvertFails, GenerateRaises, ExecuteCommand, ExecuteFails,
          ExecuteDone, ShowSummary, RemoveSource, RunScript, DestroyVM, Killed

LEMMA StepIInv == DistinctStems /\ IInv /\ [Next]_vars => IInv'
<1> SUFFICES ASSUME DistinctStems, IInv, [Next]_vars PROVE IInv'
  OBVIOUS
<1>t. TypeOK /\ TypeOK' /\ InPlace'
  BY StepTypeOK, StepInPlace DEF IInv
<1> USE DEF IInv, BeforeTheLoop, ConvertedSoFar, PastTheLoop, NotDry
<1>1. ASSUME NEW r \in Invocations, Invoke(r) PROVE IInv'
  BY <1>t, <1>1 DEF Invoke
<1>2. CASE Parse \/ ParseFails
  BY <1>t, <1>2 DEF Parse, ParseFails
<1>3. CASE ShowDryRun
  BY <1>t, <1>3 DEF ShowDryRun
<1>4. CASE MakeOutDir
  BY <1>t, <1>4 DEF MakeOutDir
<1>5. CASE ConvertDisk
  <2>0. /\ run \in Invocations /\ vm \in Exports /\ Len(vm.disks) \in Nat /\ vm.disks \in Seq(Disk)
    BY <1>t, <1>5, RunIsTyped DEF Migrating, ConvertDisk
  <2>1. ASSUME NEW i \in 1..Len(vm.disks), i < next
        PROVE  image'[ImagePath(run, vm.disks[i])] = image[ImagePath(run, vm.disks[i])]
    <3>1. next \in 1..Len(vm.disks) /\ i # next
      BY <1>t, <1>5, <2>0, <2>1 DEF ConvertDisk, TypeOK
    <3>2. Stem[vm.disks[i]] # Stem[CurrentDisk]
      BY <2>0, <3>1 DEF DistinctStems, CurrentDisk
    <3>3. ImagePath(run, vm.disks[i]) # ImagePath(run, CurrentDisk)
      BY <3>2 DEF ImagePath
    <3>4. vm.disks[i] \in Disk /\ ImagePath(run, vm.disks[i]) \in ImagePaths
      BY <2>0, PathsAreTyped
    <3> QED BY <1>t, <1>5, <3>3, <3>4 DEF ConvertDisk, TypeOK
  <2> QED BY <1>t, <1>5, <2>1 DEF ConvertDisk, vm
<1>6. CASE ConvertRefused
  BY <1>t, <1>6 DEF ConvertRefused
<1>7. CASE ConvertDone
  <2>0. /\ run \in Invocations /\ vm \in Exports /\ Len(vm.disks) \in Nat /\ vm.disks \in Seq(Disk)
        /\ next \in 1..Len(vm.disks)
    BY <1>t, <1>7, RunIsTyped DEF Migrating, ConvertDone, TypeOK
  <2>1. ASSUME NEW i \in 1..Len(vm.disks), i < next + 1
        PROVE  image'[ImagePath(run, vm.disks[i])] = Whole(vm.disks[i])
    <3>1. vm.disks[i] \in Disk /\ ImagePath(run, vm.disks[i]) \in ImagePaths
      BY <2>0, PathsAreTyped
    <3>2. CASE i = next
      BY <1>t, <1>7, <3>1, <3>2 DEF ConvertDone, TypeOK, CurrentDisk
    <3>3. CASE i # next
      <4>1. Stem[vm.disks[i]] # Stem[CurrentDisk]
        BY <2>0, <3>3 DEF DistinctStems, CurrentDisk
      <4>2. ImagePath(run, vm.disks[i]) # ImagePath(run, CurrentDisk)
        BY <4>1 DEF ImagePath
      <4>3. i < next
        BY <2>0, <2>1, <3>3
      <4> QED BY <1>t, <1>7, <3>1, <4>2, <4>3 DEF ConvertDone, TypeOK
    <3> QED BY <3>2, <3>3
  <2> QED BY <1>t, <1>7, <2>1 DEF ConvertDone, vm
<1>8. CASE ConvertFails
  BY <1>t, <1>8 DEF ConvertFails
<1>9. CASE WriteDomain \/ WriteScript
  <2>1. /\ run \in Invocations /\ stage = "convert" /\ next > Len(vm.disks) /\ stage' = "write"
        /\ UNCHANGED <<run, next, image>>
    BY <1>t, <1>9, RunIsTyped DEF Migrating, WriteDomain, WriteScript, AllConverted
  <2>2. config'[ConfigPath(run)] = Torn(run, 0)
    BY <1>t, <1>9, <2>1, PathsAreTyped DEF WriteDomain, WriteScript, TypeOK
  <2> QED BY <1>t, <2>1, <2>2 DEF vm
<1>15. CASE WriteDone
  <2>1. run \in Invocations /\ stage = "write" /\ stage' \in {"summary", "execute"} /\ UNCHANGED <<run, next, image>>
    BY <1>t, <1>15, RunIsTyped DEF Migrating, WriteDone
  <2>2. config'[ConfigPath(run)] = Artefact(run)
    BY <1>t, <1>15, <2>1, PathsAreTyped DEF WriteDone, TypeOK
  <2> QED BY <1>t, <2>1, <2>2 DEF vm
<1>16. CASE WriteFails
  BY <1>t, <1>16 DEF WriteFails
<1>10. CASE GenerateRaises
  BY <1>t, <1>10 DEF GenerateRaises
<1>11. CASE ExecuteCommand \/ ExecuteFails \/ ExecuteDone \/ ShowSummary
  BY <1>t, <1>11 DEF ExecuteCommand, ExecuteFails, ExecuteDone, ShowSummary, vm
<1>12. CASE (\E d \in Disk : RemoveSource(d)) \/ DestroyVM \/ Killed
  BY <1>t, <1>12 DEF RemoveSource, DestroyVM, Killed, vm
<1>13. ASSUME NEW p \in ConfigPaths, RunScript(p) PROVE IInv'
  BY <1>t, <1>13 DEF RunScript
<1>14. CASE UNCHANGED vars
  BY <1>t, <1>14 DEF vars, vm
<1> QED BY <1>1, <1>2, <1>3, <1>4, <1>5, <1>6, <1>7, <1>8, <1>9, <1>10, <1>11, <1>12, <1>13,
           <1>14, <1>15, <1>16 DEF Next, Pipeline, User

(* Every variable keeps its type, whatever the exports and command lines.  *)
THEOREM TypeCorrect == Spec => []TypeOK
<1>1. Init => TypeOK
  BY InitIInv DEF IInv
<1> QED BY <1>1, StepTypeOK, PTL DEF Spec

(* With disks named apart in each VM, IInv holds in every reachable state. *)
THEOREM Invariance == DistinctStems /\ Spec => []IInv
<1>1. DistinctStems => DistinctStems'
  BY DEF DistinctStems
<1> QED BY <1>1, InitIInv, StepIInv, PTL DEF Spec

(* ... and a migration that reports success has written an artefact whose  *)
(* every file holds the whole of its disk.                                 *)
THEOREM SuccessAlwaysBacked == DistinctStems /\ Spec => []SuccessIsBacked
<1>1. IInv => SuccessIsBacked
  <2> SUFFICES ASSUME IInv, stage = "ok", ~run.dry_run
               PROVE  config[ConfigPath(run)] = Artefact(run) /\ Backed(config[ConfigPath(run)])
    BY DEF SuccessIsBacked
  <2>1. run \in Invocations /\ Len(vm.disks) \in Nat
    BY RunIsTyped DEF Migrating, IInv
  <2>2. next > Len(vm.disks) /\ config[ConfigPath(run)] = Artefact(run) /\ next \in Nat
    BY DEF IInv, PastTheLoop, TypeOK
  <2>3. \A i \in 1..Len(vm.disks) : image[ImagePath(run, vm.disks[i])] = Whole(vm.disks[i])
    BY <2>1, <2>2 DEF IInv, ConvertedSoFar
  <2> QED BY <2>1, <2>2, <2>3, ArtefactFiles DEF Backed, vm
<1> QED BY <1>1, Invariance, PTL

-----------------------------------------------------------------------------
(* Migrating one VM leaves the others alone, for descriptors named apart   *)
(* over all the user's VMs.                                                *)

(* Two artefacts never share an image, unless they are of one VM, and then *)
(* for the same disk.                                                      *)
LEMMA FilesApart ==
  ASSUME StemsApart, NEW r \in Invocations, NEW q \in Invocations,
         NEW i \in 1..Len(r.source.disks), NEW j \in 1..Len(q.source.disks),
         ImagePath(r, r.source.disks[i]) = ImagePath(q, q.source.disks[j])
  PROVE  r.source = q.source /\ i = j
<1>1. r.source \in Exports /\ q.source \in Exports
  BY InvocationFields
<1>2. Stem[r.source.disks[i]] = Stem[q.source.disks[j]]
  BY DEF ImagePath
<1> QED BY <1>1, <1>2 DEF StemsApart

LEMMA ApartIsDistinct == StemsApart => DistinctStems
  BY DEF StemsApart, DistinctStems

(* Under one path there is always the artefact of one VM.                  *)
LEMMA SamePathSameSource ==
  ASSUME NamesApart, InPlace, NEW r \in Invocations, NEW q \in Invocations,
         config[ConfigPath(r)].whole, config[ConfigPath(r)].source = q.source
  PROVE  r.source = q.source
  BY InvocationFields, PathsAreTyped DEF NamesApart, InPlace, ConfigPath

\* The property's action, for one artefact.
StaysBacked(p) ==
  config[p].whole /\ Backed(config[p]) =>
    \/ config'[p].whole /\ config'[p].source = config[p].source /\ Backed(config[p])'
    \/ stage = "convert" /\ run.source = config[p].source

LEMMA StepStaysBacked ==
  StemsApart /\ NamesApart /\ IInv /\ [Next]_vars => \A p \in ConfigPaths : StaysBacked(p)
<1> SUFFICES ASSUME StemsApart, NamesApart, IInv, [Next]_vars, NEW p \in ConfigPaths,
                    config[p].whole, Backed(config[p]),
                    ~(stage = "convert" /\ run.source = config[p].source)
             PROVE  config'[p].whole /\ config'[p].source = config[p].source /\ Backed(config[p])'
  BY DEF StaysBacked
<1>t. TypeOK
  BY DEF IInv
<1>1. PICK q \in Invocations : config[p] = Artefact(q)
  BY <1>t, TornIsNotWhole DEF TypeOK, TornArtefacts, NoConfig
<1>2. /\ \A i \in 1..Len(q.source.disks) :
           /\ i \in DOMAIN config[p].files
           /\ config[p].files[i] = ImagePath(q, q.source.disks[i])
           /\ image[ImagePath(q, q.source.disks[i])] = Whole(q.source.disks[i])
           /\ ImagePath(q, q.source.disks[i]) \in ImagePaths
      /\ config[p].source = q.source
      /\ q.source.disks \in Seq(Disk)
  BY <1>1, ArtefactFiles, InvocationFields, PathsAreTyped DEF Backed
<1>3. CASE UNCHANGED <<image, config>>
  BY <1>3 DEF Backed
<1>4. CASE ConvertDisk
  <2>1. /\ run \in Invocations /\ next \in 1..Len(vm.disks) /\ UNCHANGED config
        /\ run.source # q.source
    BY <1>t, <1>2, <1>4, RunIsTyped DEF Migrating, ConvertDisk, TypeOK
  <2>2. \A i \in 1..Len(q.source.disks) : ImagePath(q, q.source.disks[i]) # ImagePath(run, CurrentDisk)
    BY <2>1, FilesApart DEF CurrentDisk, vm
  <2>3. \A i \in 1..Len(q.source.disks) :
          image'[ImagePath(q, q.source.disks[i])] = image[ImagePath(q, q.source.disks[i])]
    BY <1>t, <1>2, <1>4, <2>2 DEF ConvertDisk, TypeOK
  <2> QED BY <1>2, <2>1, <2>3 DEF Backed
<1>5. CASE ConvertDone
  <2>1. /\ run \in Invocations /\ next \in 1..Len(vm.disks) /\ UNCHANGED config
    BY <1>t, <1>5, RunIsTyped DEF Migrating, ConvertDone, TypeOK
  <2>2. \A i \in 1..Len(q.source.disks) :
          ImagePath(q, q.source.disks[i]) = ImagePath(run, CurrentDisk) => q.source.disks[i] = CurrentDisk
    BY <2>1, FilesApart DEF CurrentDisk, vm
  <2>3. \A i \in 1..Len(q.source.disks) :
          image'[ImagePath(q, q.source.disks[i])] = Whole(q.source.disks[i])
    BY <1>t, <1>2, <1>5, <2>2 DEF ConvertDone, TypeOK
  <2> QED BY <1>2, <2>1, <2>3 DEF Backed
<1>6. CASE WriteDomain \/ WriteScript
  <2>1. /\ run \in Invocations /\ stage = "convert"
        /\ UNCHANGED image /\ config' = [config EXCEPT ![ConfigPath(run)] = Torn(run, 0)]
    BY <1>t, <1>6, RunIsTyped DEF Migrating, WriteDomain, WriteScript, AllConverted
  <2>2. p # ConfigPath(run)
    BY <1>2, <2>1, SamePathSameSource DEF IInv
  <2>3. config'[p] = config[p]
    BY <1>t, <2>1, <2>2 DEF TypeOK
  <2> QED BY <2>1, <2>3 DEF Backed
<1>7. CASE WriteDone
  <2>1. /\ run \in Invocations /\ Len(vm.disks) \in Nat /\ next \in Nat /\ next > Len(vm.disks)
        /\ stage = "write" /\ ~run.dry_run
        /\ UNCHANGED image /\ config' = [config EXCEPT ![ConfigPath(run)] = Artefact(run)]
    BY <1>t, <1>7, RunIsTyped DEF Migrating, WriteDone, TypeOK, IInv, NotDry, PastTheLoop
  <2>2. CASE p # ConfigPath(run)
    <3>1. config'[p] = config[p]
      BY <1>t, <2>1, <2>2 DEF TypeOK
    <3> QED BY <2>1, <3>1 DEF Backed
  <2>3. CASE p = ConfigPath(run)
    <3>1. config'[p] = Artefact(run)
      BY <1>t, <2>1, <2>3 DEF TypeOK
    <3>2. \A i \in 1..Len(vm.disks) : image'[ImagePath(run, vm.disks[i])] = Whole(vm.disks[i])
      BY <2>1 DEF IInv, ConvertedSoFar
    <3> QED BY <1>1, <1>2, <2>1, <2>3, <3>1, <3>2, ArtefactFiles, SamePathSameSource DEF Backed, vm, IInv
  <2> QED BY <2>2, <2>3
<1>8. CASE WriteFails
  <2>1. /\ run \in Invocations /\ UNCHANGED image
        /\ config[ConfigPath(run)] = Torn(run, 0)
    BY <1>t, <1>8, RunIsTyped DEF Migrating, WriteFails, IInv, PastTheLoop
  <2>2. p # ConfigPath(run)
    BY <2>1, TornIsNotWhole
  <2>3. config'[p] = config[p]
    BY <1>t, <1>8, <2>2 DEF TypeOK, WriteFails
  <2> QED BY <2>1, <2>3 DEF Backed
<1> QED BY <1>3, <1>4, <1>5, <1>6, <1>7, <1>8
      DEF Next, vars, Pipeline, User, Invoke, Parse, ParseFails, ShowDryRun, MakeOutDir, ConvertRefused,
          ConvertFails, GenerateRaises, ExecuteCommand, ExecuteFails, ExecuteDone, ShowSummary, RemoveSource,
          RunScript, DestroyVM, Killed

(* With descriptors and VMs named apart, an artefact and the images it     *)
(* refers to stay whole, except while a later migration of the same VM     *)
(* converts it again.                                                      *)
THEOREM OthersStayBacked == StemsApart /\ NamesApart /\ Spec => OnlyOwnRerunUnbacks
<1>1. StemsApart /\ NamesApart => (StemsApart /\ NamesApart)'
  BY DEF StemsApart, NamesApart
<1>2. StemsApart /\ Spec => []IInv
  BY ApartIsDistinct, Invariance, PTL
<1>3. StemsApart /\ NamesApart /\ IInv /\ [Next]_vars =>
        [\A p \in ConfigPaths :
           config[p].whole /\ Backed(config[p]) =>
             \/ config'[p].whole /\ config'[p].source = config[p].source /\ Backed(config[p])'
             \/ stage = "convert" /\ run.source = config[p].source]_vars
  BY StepStaysBacked DEF StaysBacked
<1> QED BY <1>1, <1>2, <1>3, PTL DEF Spec, OnlyOwnRerunUnbacks

-----------------------------------------------------------------------------
NoOva == \A x \in Exports : ~x.ova

(* One step of a dry run: it is still at the parser or at the preflight     *)
(* table, where only an OVA would leave something behind.                   *)
LEMMA StepDryRun ==
  NoOva /\ TypeOK /\ NotDry /\ [Next]_vars =>
    ((stage \in Migrating /\ run.dry_run) =>
       UNCHANGED <<image, config, dirs, unpacked, host>>)
<1> SUFFICES ASSUME NoOva, TypeOK, NotDry, [Next]_vars, run.dry_run,
                    stage \in Migrating
             PROVE  UNCHANGED <<image, config, dirs, unpacked, host>>
  OBVIOUS
<1>1. stage \in {"parse", "preflight"}
  BY DEF NotDry, Migrating
<1>2. ~vm.ova
  BY <1>1, RunIsTyped DEF Migrating, NoOva, vm
<1>3. CASE Parse \/ ParseFails
  BY <1>2, <1>3 DEF Parse, ParseFails, Unpack
<1>4. CASE ShowDryRun \/ MakeOutDir
  BY <1>4 DEF ShowDryRun, MakeOutDir
<1>5. CASE ConvertDisk \/ ConvertRefused \/ ConvertDone \/ ConvertFails
  BY <1>1, <1>5 DEF ConvertDisk, ConvertRefused, ConvertDone, ConvertFails
<1>6. CASE WriteDomain \/ GenerateRaises \/ WriteScript \/ WriteDone \/ WriteFails
  BY <1>1, <1>6 DEF WriteDomain, GenerateRaises, WriteScript, WriteDone, WriteFails, AllConverted
<1>7. CASE ExecuteCommand \/ ExecuteFails \/ ExecuteDone \/ ShowSummary
  BY <1>1, <1>7 DEF ExecuteCommand, ExecuteFails, ExecuteDone, ShowSummary
<1>8. CASE User
  BY <1>1, <1>8 DEF User, Invoke, RemoveSource, RunScript, DestroyVM, Killed, Ended
<1>9. CASE UNCHANGED vars
  BY <1>9 DEF vars
<1> QED BY <1>3, <1>4, <1>5, <1>6, <1>7, <1>8, <1>9 DEF Next, Pipeline

(* A dry run of an export that is no OVA changes nothing that outlives it. *)
THEOREM DryRunsChangeNothing == NoOva /\ DistinctStems /\ Spec => DryRunChangesNothing
<1>1. NoOva => NoOva'
  BY DEF NoOva
<1>2. DistinctStems /\ Spec => [](TypeOK /\ NotDry)
  <2>1. IInv => TypeOK /\ NotDry
    BY DEF IInv
  <2> QED BY <2>1, Invariance, PTL
<1>3. NoOva /\ TypeOK /\ NotDry /\ [Next]_vars =>
        [(stage \in Migrating /\ run.dry_run) =>
           (UNCHANGED <<image, config, dirs, unpacked, host>>)]_vars
  BY StepDryRun
<1> QED BY <1>1, <1>2, <1>3, PTL DEF Spec, DryRunChangesNothing

-----------------------------------------------------------------------------
(* The careful owner, who migrates a VM until it is migrated and no        *)
(* further, and gave each VM a name of its own.                            *)
CarefulOwner == ~Remigrate /\ NamesApart

\* Until its artefact is written, what is being migrated is not migrated.
NotMigratedYet ==
  stage \in {"parse", "preflight", "convert", "qemu", "write"} /\ ~run.dry_run => ~Migrated(vm)

OnceInv == TypeOK /\ InPlace /\ NotDry /\ NotMigratedYet

(* The one step that makes an artefact whole is the end of the writing.    *)
LEMMA WholeOnlyByWriteDone ==
  ASSUME TypeOK, [Next]_vars, NEW p \in ConfigPaths, config'[p].whole
  PROVE  \/ config'[p] = config[p]
         \/ /\ WriteDone /\ run \in Invocations /\ stage = "write"
            /\ p = ConfigPath(run) /\ config'[p] = Artefact(run)
<1>1. CASE UNCHANGED config
  BY <1>1
<1>2. CASE WriteDomain \/ WriteScript \/ WriteFails
  <2>1. run \in Invocations
    BY <1>2, RunIsTyped DEF Migrating, WriteDomain, WriteScript, WriteFails, AllConverted
  <2>2. PICK n : config' = [config EXCEPT ![ConfigPath(run)] = Torn(run, n)]
    BY <1>2 DEF WriteDomain, WriteScript, WriteFails
  <2>3. p # ConfigPath(run)
    BY <2>1, <2>2, TornIsNotWhole DEF TypeOK
  <2> QED BY <2>2, <2>3 DEF TypeOK
<1>3. CASE WriteDone
  <2>1. run \in Invocations /\ stage = "write"
    BY <1>3, RunIsTyped DEF Migrating, WriteDone
  <2> QED BY <1>3, <2>1 DEF WriteDone, TypeOK
<1> QED BY <1>1, <1>2, <1>3
      DEF Next, vars, Pipeline, User, Invoke, Parse, ParseFails, ShowDryRun, MakeOutDir, ConvertDisk,
          ConvertRefused, ConvertDone, ConvertFails, GenerateRaises, ExecuteCommand, ExecuteFails,
          ExecuteDone, ShowSummary, RemoveSource, RunScript, DestroyVM, Killed

(* A VM that is not migrated has nothing whole under its path.             *)
LEMMA NothingAtPath ==
  ASSUME NamesApart, TypeOK, InPlace, NEW r \in Invocations, ~Migrated(r.source)
  PROVE  ~config[ConfigPath(r)].whole
<1> SUFFICES ASSUME config[ConfigPath(r)].whole PROVE FALSE
  OBVIOUS
<1>1. ConfigPath(r) \in ConfigPaths
  BY PathsAreTyped
<1>2. PICK q \in Invocations : config[ConfigPath(r)] = Artefact(q)
  BY <1>1, TornIsNotWhole DEF TypeOK, TornArtefacts, NoConfig
<1>3. r.source = q.source
  BY <1>2, ArtefactFiles, SamePathSameSource
<1> QED BY <1>1, <1>2, <1>3, ArtefactFiles DEF Migrated

LEMMA InitOnceInv == Init => OnceInv
  BY InitIInv DEF IInv, OnceInv, Init, NotMigratedYet

(* Steps that are neither an invocation nor the end of the writing migrate *)
(* nothing.                                                                *)
LEMMA NotMigratedStays ==
  ASSUME TypeOK, [Next]_vars, ~WriteDone
  PROVE  \A x : Migrated(x)' => Migrated(x)
<1> SUFFICES ASSUME NEW x, NEW p \in ConfigPaths, config'[p].whole /\ config'[p].source = x
             PROVE  config[p].whole /\ config[p].source = x
  BY DEF Migrated
<1> QED BY WholeOnlyByWriteDone

LEMMA StepOnceInv == CarefulOwner /\ OnceInv /\ [Next]_vars => OnceInv'
<1> SUFFICES ASSUME ~Remigrate, NamesApart, OnceInv, [Next]_vars PROVE OnceInv'
  BY DEF CarefulOwner
<1>t. TypeOK /\ InPlace /\ TypeOK' /\ InPlace'
  BY StepTypeOK, StepInPlace DEF OnceInv
<1> USE DEF NotMigratedYet, NotDry
<1>1. ASSUME NEW r \in Invocations, Invoke(r) PROVE OnceInv'
  <2>1. ~r.dry_run => ~Migrated(r.source)
    BY <1>1 DEF Invoke
  <2>2. stage' = "parse" /\ run' = r /\ config' = config
    BY <1>1 DEF Invoke
  <2>3. ~r.dry_run => ~Migrated(r.source)'
    BY <2>1, <2>2 DEF Migrated
  <2> QED BY <1>t, <2>2, <2>3 DEF OnceInv, vm
<1>2. CASE WriteDone
  BY <1>t, <1>2 DEF WriteDone, OnceInv
<1>3. CASE /\ ~WriteDone
           /\ stage \in {"parse", "preflight", "convert", "qemu", "write"} /\ run' = run
           /\ \/ stage' \in {"failed", "ok"}
              \/ stage' \in {"preflight", "convert", "qemu", "write"} /\ NotDry'
  <2>1. ~run.dry_run => ~Migrated(run.source)'
    <3>1. ~run.dry_run => ~Migrated(run.source)
      BY <1>3 DEF OnceInv, vm
    <3> QED BY <1>3, <1>t, <3>1, NotMigratedStays DEF Migrated
  <2> QED BY <1>t, <1>3, <2>1 DEF OnceInv, vm
<1>4. CASE ExecuteCommand \/ ExecuteFails \/ ExecuteDone \/ ShowSummary \/ Killed
  BY <1>t, <1>4 DEF OnceInv, ExecuteCommand, ExecuteFails, ExecuteDone, ShowSummary, Killed
<1>5. CASE (\E d \in Disk : RemoveSource(d)) \/ DestroyVM
  BY <1>t, <1>5 DEF OnceInv, RemoveSource, DestroyVM, vm, Migrated
<1>6. ASSUME NEW p \in ConfigPaths, RunScript(p) PROVE OnceInv'
  BY <1>t, <1>6 DEF OnceInv, RunScript
<1>7. CASE UNCHANGED vars
  BY <1>t, <1>7 DEF OnceInv, vars, vm, Migrated
<1>8. ASSUME \/ Parse \/ ParseFails \/ ShowDryRun \/ MakeOutDir
             \/ ConvertDisk \/ ConvertRefused \/ ConvertDone \/ ConvertFails
             \/ WriteDomain \/ GenerateRaises \/ WriteScript \/ WriteFails,
             ~WriteDone
      PROVE  OnceInv'
  <2>1. /\ stage \in {"parse", "preflight", "convert", "qemu", "write"} /\ run' = run
        /\ stage' \in {"failed", "ok", "preflight", "convert", "qemu", "write"}
    BY <1>8 DEF Parse, ParseFails, ShowDryRun, MakeOutDir, ConvertDisk, ConvertRefused, ConvertDone,
                ConvertFails, WriteDomain, GenerateRaises, WriteScript, WriteFails, AllConverted
  <2>2. NotDry'
    BY <1>8, <2>1 DEF OnceInv, Parse, ParseFails, ShowDryRun, MakeOutDir, ConvertDisk, ConvertRefused,
                ConvertDone, ConvertFails, WriteDomain, GenerateRaises, WriteScript, WriteFails,
                AllConverted
  <2> QED BY <1>3, <1>8, <2>1, <2>2
<1> QED BY <1>1, <1>2, <1>4, <1>5, <1>6, <1>7, <1>8 DEF Next, Pipeline, User

(* A careful owner's running migration is of a VM that is not migrated.     *)
THEOREM OnceInvariance == CarefulOwner /\ Spec => []OnceInv
<1>1. CarefulOwner => CarefulOwner'
  BY DEF CarefulOwner, NamesApart
<1> QED BY <1>1, InitOnceInv, StepOnceInv, PTL DEF Spec

(* The step in which a migration fails makes nothing whole.                *)
LEMMA StepFailure ==
  ASSUME CarefulOwner, OnceInv, [Next]_vars,
         stage \in {"parse", "preflight", "convert", "qemu", "write"}, stage' = "failed", ~run.dry_run
  PROVE  ~config'[ConfigPath(run)].whole
<1>1. run \in Invocations /\ ConfigPath(run) \in ConfigPaths
  BY RunIsTyped, PathsAreTyped DEF OnceInv, Migrating
<1>2. ~config[ConfigPath(run)].whole
  BY <1>1, NothingAtPath DEF CarefulOwner, OnceInv, NotMigratedYet, vm
<1>3. ~WriteDone
  BY DEF WriteDone
<1> QED BY <1>1, <1>2, <1>3, WholeOnlyByWriteDone DEF OnceInv

(* A migration that ends before its last byte is written leaves nothing    *)
(* under the VM's path that can be defined or run.                         *)
THEOREM FailuresLeaveNoDomain == CarefulOwner /\ Spec => FailureLeavesNoDomain
<1>1. CarefulOwner => CarefulOwner'
  BY DEF CarefulOwner, NamesApart
<1>2. CarefulOwner /\ OnceInv /\ [Next]_vars =>
        [(stage \in {"parse", "preflight", "convert", "qemu", "write"} /\ stage' = "failed" /\ ~run.dry_run) =>
           ~config'[ConfigPath(run)].whole]_vars
  BY StepFailure
<1> QED BY <1>1, <1>2, OnceInvariance, PTL DEF Spec, FailureLeavesNoDomain

-----------------------------------------------------------------------------
(* Every complete artefact has whole images behind it.                     *)
AllBacked == \A p \in ConfigPaths : config[p].whole => Backed(config[p])

DeliveryInv == IInv /\ OnceInv /\ AllBacked

LEMMA InitDelivery == Init => DeliveryInv
  BY InitIInv, InitOnceInv DEF DeliveryInv, AllBacked, Init, NoConfig

LEMMA StepDelivery == CarefulOwner /\ StemsApart /\ DeliveryInv /\ [Next]_vars => DeliveryInv'
<1> SUFFICES ASSUME CarefulOwner, StemsApart, DeliveryInv, [Next]_vars PROVE DeliveryInv'
  OBVIOUS
<1>1. IInv' /\ OnceInv'
  BY ApartIsDistinct, StepIInv, StepOnceInv DEF DeliveryInv
<1>2. ASSUME NEW p \in ConfigPaths, config'[p].whole PROVE Backed(config[p])'
  <2>1. CASE config'[p] = config[p]
    <3>1. Backed(config[p]) /\ StaysBacked(p)
      BY <1>2, <2>1, StepStaysBacked DEF DeliveryInv, AllBacked, CarefulOwner
    <3>2. ~(stage = "convert" /\ run.source = config[p].source)
      BY <1>2, <2>1 DEF DeliveryInv, OnceInv, NotDry, NotMigratedYet, Migrated, vm
    <3> QED BY <1>2, <2>1, <3>1, <3>2 DEF StaysBacked
  <2>2. CASE /\ WriteDone /\ run \in Invocations /\ stage = "write"
             /\ p = ConfigPath(run) /\ config'[p] = Artefact(run)
    <3>1. /\ Len(vm.disks) \in Nat /\ next \in Nat /\ next > Len(vm.disks) /\ ~run.dry_run
          /\ UNCHANGED image
      BY <2>2, RunIsTyped DEF Migrating, DeliveryInv, WriteDone, TypeOK, IInv, NotDry, PastTheLoop
    <3>2. \A i \in 1..Len(vm.disks) : image'[ImagePath(run, vm.disks[i])] = Whole(vm.disks[i])
      BY <2>2, <3>1 DEF DeliveryInv, IInv, ConvertedSoFar
    <3> QED BY <2>2, <3>1, <3>2, ArtefactFiles DEF Backed, vm
  <2> QED BY <1>2, <2>1, <2>2, WholeOnlyByWriteDone DEF DeliveryInv, IInv
<1> QED BY <1>1, <1>2 DEF DeliveryInv, AllBacked

\* What Delivery sees of a state.
Delivered == {x \in Exports : Migrated(x)}
UsableNow == {x \in Exports : Migrated(x) /\ Usable(x)}

LEMMA AllUsable == DeliveryInv => UsableNow = Delivered
<1> SUFFICES ASSUME AllBacked, NEW x PROVE Usable(x)
  BY DEF DeliveryInv, UsableNow, Delivered
<1> QED BY DEF AllBacked, Usable, Written

LEMMA StepDelivers ==
  ASSUME CarefulOwner, StemsApart, DeliveryInv, [Next]_vars
  PROVE  [Promise!Next]_<<Delivered, UsableNow>>
<1>t. TypeOK /\ DeliveryInv'
  BY StepDelivery DEF DeliveryInv, IInv
<1>1. UsableNow = Delivered /\ UsableNow' = Delivered'
  <2>1. ASSUME NEW x PROVE Usable(x)'
    BY <1>t DEF DeliveryInv, AllBacked, Usable, Written
  <2> QED BY <1>t, <2>1, AllUsable DEF UsableNow, Delivered
<1>2. ASSUME NEW x, Migrated(x) PROVE Migrated(x)'
  <2>1. PICK p \in ConfigPaths : config[p].whole /\ config[p].source = x
    BY <1>2 DEF Migrated
  <2>2. ~(stage = "convert" /\ run.source = config[p].source)
    BY <2>1 DEF DeliveryInv, OnceInv, NotDry, NotMigratedYet, Migrated, vm
  <2>3. Backed(config[p]) /\ StaysBacked(p)
    BY <2>1, StepStaysBacked DEF DeliveryInv, AllBacked, CarefulOwner
  <2> QED BY <2>1, <2>2, <2>3 DEF StaysBacked, Migrated
<1>3. CASE WriteDone
  <2>1. run \in Invocations /\ stage = "write" /\ vm \in Exports
    BY <1>t, <1>3, RunIsTyped DEF Migrating, WriteDone
  <2>2. ~Migrated(vm)
    BY <2>1 DEF DeliveryInv, OnceInv, NotDry, NotMigratedYet
  <2>3. ASSUME NEW x PROVE Migrated(x)' <=> (Migrated(x) \/ x = run.source)
    <3>1. config'[ConfigPath(run)] = Artefact(run) /\ ConfigPath(run) \in ConfigPaths
      BY <1>t, <1>3, <2>1, PathsAreTyped DEF WriteDone, TypeOK
    <3>2. x = run.source => Migrated(x)'
      BY <2>1, <3>1, ArtefactFiles DEF Migrated
    <3>3. Migrated(x)' => Migrated(x) \/ x = run.source
      <4> SUFFICES ASSUME NEW p \in ConfigPaths, config'[p].whole, config'[p].source = x, x # run.source
                   PROVE  config[p].whole /\ config[p].source = x
        BY DEF Migrated
      <4> QED BY <1>t, <2>1, WholeOnlyByWriteDone, ArtefactFiles
    <3> QED BY <1>2, <3>2, <3>3
  <2>4. Delivered' = Delivered \cup {vm} /\ vm \notin Delivered
    BY <2>1, <2>2, <2>3 DEF Delivered, vm
  <2> QED BY <1>1, <2>1, <2>4 DEF Promise!Next, Promise!Deliver, Delivered, UsableNow
<1>4. CASE ~WriteDone
  <2>1. Delivered' = Delivered
    BY <1>t, <1>2, <1>4, NotMigratedStays DEF Delivered
  <2> QED BY <1>1, <2>1
<1> QED BY <1>3, <1>4

(* For the careful owner of descriptors named apart, a migration happens   *)
(* in one step or not at all, and what it delivered stays usable.          *)
THEOREM Delivers == CarefulOwner /\ StemsApart /\ Spec => DeliversAtomically
<1>1. CarefulOwner /\ StemsApart => (CarefulOwner /\ StemsApart)'
  BY DEF CarefulOwner, NamesApart, StemsApart
<1>2. Init => Promise!Init
  BY DEF Init, NoConfig, Promise!Init, Migrated
<1>3. CarefulOwner /\ StemsApart /\ DeliveryInv /\ [Next]_vars =>
        [Promise!Next]_<<{x \in Exports : Migrated(x)}, {x \in Exports : Migrated(x) /\ Usable(x)}>>
  BY StepDelivers DEF Delivered, UsableNow
<1> QED BY <1>1, <1>2, <1>3, InitDelivery, StepDelivery, PTL
        DEF Spec, DeliversAtomically, Promise!Spec
=============================================================================
