--------------------------- MODULE ValidateProofs ---------------------------
(***************************************************************************)
(* Theorems about Validate, for any exports, command lines and worlds:     *)
(* what a report of `vmfree validate` is worth to the migration after it,  *)
(* whatever others supply or take away in between.                         *)
(***************************************************************************)
EXTENDS Validate, MigrationProofs

-----------------------------------------------------------------------------
(* The inductive invariant.                                                *)

CheckNames == {"source", "guest", "ovmf", "disk", "qemu-img", "outdir", "space"}
Reports    == [check : CheckNames, ok : BOOLEAN]

VTypeOK == /\ TypeOK
           /\ at \in {"idle", "parse", "ovmf", "disks", "outdir", "space", "done"}
           /\ at # "idle" => request \in Requests
           /\ nth \in Nat \ {0}
           /\ results \in Seq(Reports)
           /\ qemu_img \in BOOLEAN /\ ovmf \in BOOLEAN
           /\ readable \subseteq Exports
           /\ room \in [Dir -> Nat]
           /\ used \in [ImagePaths -> Nat]
           /\ taken \in BOOLEAN /\ given \in BOOLEAN /\ after \in BOOLEAN

\* Nobody migrates during a validation, whose loop begins with the first disk.
OneAtATime == /\ at \notin {"idle", "done"} => stage \in Ended
              /\ at = "done" /\ ~after => stage \in Ended
              /\ after => at = "done"
              /\ at \in {"parse", "ovmf"} => nth = 1

Sound == \A i \in 1..Len(results) : results[i].ok

\* What the checks have found is still so, unless something was taken away.
StillThere ==
  Sound /\ ~taken /\ at \notin {"idle", "parse"} =>
    /\ request.source \in readable
    /\ at # "ovmf" /\ is_efi(request.source) => ovmf
    /\ \A i \in 1..Len(request.source.disks) : i < nth => request.source.disks[i] \in sources
    /\ at \in {"outdir", "space", "done"} => nth > Len(request.source.disks) /\ qemu_img
    /\ at \in {"space", "done"} => CheckedDir \in dirs

\* Sums(x)[n]: what the first n disks of x take, as far as it is known.
IsSums(x, s) == /\ s \in [0..Len(x.disks) -> Nat]
                /\ s[0] = 0
                /\ \A n \in 1..Len(x.disks) : s[n] = s[n - 1] + Known[x.disks[n]]
                /\ TotalDiskBytes(x) = s[Len(x.disks)]

Sums(x) == CHOOSE s : IsSums(x, s)

\* The premises of PassedIsKept that only look at the command lines.
Covered == /\ SameExport
           /\ OutDir(run) = CheckedDir /\ run.format = "raw" /\ ~GenerateFails
           /\ \A i \in 1..Len(vm.disks) : Known[vm.disks[i]] = Capacity[vm.disks[i]]

\* There is room for all the disks, then for those that are not converted yet.
RoomLeft ==
  Sound /\ ~taken /\ at = "done" =>
    /\ ~after => room[CheckedDir] >= TotalDiskBytes(request.source)
    /\ Covered /\ stage \in {"parse", "preflight", "convert", "qemu"} =>
         room[CheckedDir] + Sums(vm)[next - 1] >= TotalDiskBytes(vm)

NoFailure == Covered /\ Sound /\ ~taken => stage # "failed"

\* A report of what is missing, which nobody has supplied.
Reproached == /\ at # "idle" /\ ~given /\ ~request.source.ova /\ request.source.disks # <<>>
              /\ Failed({"source", "disk", "qemu-img"})

StillMissing ==
  Reproached => \/ request.source \notin readable
                \/ \E i \in 1..Len(request.source.disks) : request.source.disks[i] \notin sources
                \/ ~qemu_img

\* How it stops the migration.
Blocked ==
  Reproached /\ SameExport =>
    \/ request.source \notin readable /\ stage \in {"parse", "failed"}
    \/ \E i \in 1..Len(vm.disks) :
         /\ vm.disks[i] \notin sources
         /\ \/ stage \in {"parse", "preflight", "failed"}
            \/ stage = "convert" /\ next <= i
            \/ stage = "qemu" /\ next < i
    \/ ~qemu_img /\ (stage \in {"parse", "preflight", "failed"} \/ (stage = "convert" /\ next = 1))

\* An OVA is unpacked into a directory of its own: its disks are in no other export.
OvaDisksApart ==
  \A x, y \in Exports : \A i \in 1..Len(x.disks), j \in 1..Len(y.disks) :
    x.disks[i] = y.disks[j] /\ y.ova => x.ova

KeptInv    == VTypeOK /\ BeforeTheLoop /\ OneAtATime /\ StillThere /\ RoomLeft /\ NoFailure
RefusedInv == VTypeOK /\ BeforeTheLoop /\ OneAtATime /\ StillMissing /\ Blocked

-----------------------------------------------------------------------------
(* The steps of a migration, as far as a validation can tell.              *)

LEMMA RequestFields ==
  ASSUME NEW r \in Requests
  PROVE  /\ r.source \in Exports
         /\ r.source.disks \in Seq(Disk) /\ Len(r.source.disks) \in Nat
         /\ r.output \in Dir \cup {NoOutput} /\ Cwd \in Dir
<1>1. r.source \in Exports /\ r.output \in Dir \cup {NoOutput} /\ Cwd \in Dir
  BY RequestsAssumption
<1>2. r.source \in ExportType
  BY <1>1, ExportsAssumption
<1> QED BY <1>1, <1>2 DEF ExportType

LEMMA PipelineSteps ==
  ASSUME TypeOK, Pipeline
  PROVE  /\ run' = run
         /\ dirs \subseteq dirs'
         /\ stage \in Running
         /\ \/ /\ stage = "parse" /\ stage' \in {"preflight", "failed"}
               /\ next' = next
               /\ \/ sources' = sources
                  \/ vm.ova /\ sources' = sources \cup {vm.disks[i] : i \in 1..Len(vm.disks)}
            \/ /\ stage = "preflight" /\ stage' \in {"ok", "convert", "failed"}
               /\ stage' = "convert" => ~run.dry_run
               /\ stage' = "ok" => run.dry_run
               /\ next' = next /\ sources' = sources
            \/ /\ stage = "convert" /\ next <= Len(vm.disks) /\ stage' \in {"qemu", "failed"}
               /\ stage' = "qemu" => CurrentDisk \in sources
               /\ next' = next /\ sources' = sources
            \/ /\ stage = "convert" /\ next > Len(vm.disks) /\ stage' \in {"write", "failed"}
               /\ next' = next /\ sources' = sources
            \/ /\ stage = "qemu" /\ stage' = "convert" /\ next' = next + 1 /\ sources' = sources
            \/ /\ stage = "qemu" /\ stage' = "failed" /\ next' = next /\ sources' = sources
            \/ /\ stage \in {"write", "execute", "summary", "script"}
               /\ stage' \notin {"parse", "preflight", "convert", "qemu"}
               /\ next' = next /\ sources' = sources
<1>1. CASE Parse \/ ParseFails
  BY <1>1 DEF Parse, ParseFails, Unpack, Running, Migrating
<1>2. CASE ShowDryRun \/ MakeOutDir
  BY <1>2 DEF ShowDryRun, MakeOutDir, Running, Migrating
<1>3. CASE ConvertDisk \/ ConvertRefused
  BY <1>3 DEF ConvertDisk, ConvertRefused, Running, Migrating
<1>4. CASE ConvertDone \/ ConvertFails
  BY <1>4 DEF ConvertDone, ConvertFails, Running, Migrating
<1>5. CASE WriteDomain \/ GenerateRaises \/ WriteScript
  BY <1>5 DEF WriteDomain, GenerateRaises, WriteScript, AllConverted, Running, Migrating
<1>6. CASE WriteDone \/ WriteFails
  BY <1>6 DEF WriteDone, WriteFails, Running, Migrating
<1>7. CASE ExecuteCommand \/ ExecuteFails \/ ExecuteDone \/ ShowSummary
  BY <1>7 DEF ExecuteCommand, ExecuteFails, ExecuteDone, ShowSummary, Running, Migrating
<1> QED BY <1>1, <1>2, <1>3, <1>4, <1>5, <1>6, <1>7 DEF Pipeline

(* What a migration does to the room: a truncated image gives some back, a *)
(* written one takes at most its Need, and never more than there is.       *)
LEMMA RoomChanges ==
  ASSUME VTypeOK, Migrate
  PROVE  /\ room' \in [Dir -> Nat] /\ used' \in [ImagePaths -> Nat]
         /\ stage # "qemu" => \A d \in Dir : room'[d] >= room[d]
         /\ stage = "qemu" => /\ run \in Invocations /\ OutDir(run) \in Dir
                              /\ \E n \in Nat : /\ n <= room[OutDir(run)]
                                                /\ Need <= room[OutDir(run)] => n <= Need
                                                /\ room' = [room EXCEPT ![OutDir(run)] = @ - n]
<1> DEFINE dir == OutDir(run)
           path == ImagePath(run, CurrentDisk)
<1>0. TypeOK /\ Pipeline /\ Space /\ room \in [Dir -> Nat] /\ used \in [ImagePaths -> Nat]
  BY DEF VTypeOK, Migrate
<1>1. ASSUME stage \in {"convert", "qemu"}, stage = "convert" => stage' = "qemu"
      PROVE  /\ run \in Invocations /\ dir \in Dir /\ path \in ImagePaths
             /\ CurrentDisk \in Disk
  <2>1. run \in Invocations /\ Len(vm.disks) \in Nat /\ vm.disks \in Seq(Disk)
    BY <1>0, <1>1, RunIsTyped DEF Migrating
  <2>2. next \in 1..Len(vm.disks)
    BY <1>0, <1>1, <2>1, PipelineSteps DEF TypeOK
  <2> QED BY <2>1, <2>2, InvocationFields, PathsAreTyped DEF CurrentDisk
<1>2. CASE stage = "convert" /\ stage' = "qemu"
  <2>1. room' = [room EXCEPT ![dir] = @ + used[path]] /\ used' = [used EXCEPT ![path] = 0]
    BY <1>0, <1>2 DEF Space
  <2> QED BY <1>0, <1>1, <1>2, <2>1
<1>3. CASE stage = "qemu"
  <2>1. PICK n \in {0, IF Need <= room[dir] THEN Need ELSE room[dir]} :
          room' = [room EXCEPT ![dir] = @ - n] /\ used' = [used EXCEPT ![path] = n]
    BY <1>0, <1>3 DEF Space
  <2>2. Need \in Nat
    BY <1>1, <1>3, SizesAssumption, RoomAssumption DEF Need
  <2>3. room[dir] \in Nat
    BY <1>0, <1>1, <1>3
  <2>4. n \in Nat /\ n <= room[dir] /\ (Need <= room[dir] => n <= Need)
    BY <2>2, <2>3
  <2>5. room[dir] - n \in Nat
    BY <2>3, <2>4
  <2>6. room' \in [Dir -> Nat] /\ used' \in [ImagePaths -> Nat]
    BY <1>0, <2>1, <2>4, <2>5
  <2> QED BY <1>1, <1>3, <2>1, <2>4, <2>6
<1>4. CASE ~(stage = "convert" /\ stage' = "qemu") /\ stage # "qemu"
  <2>1. UNCHANGED <<room, used>>
    BY <1>0, <1>4 DEF Space
  <2> QED BY <1>0, <1>4, <2>1
<1> QED BY <1>2, <1>3, <1>4

-----------------------------------------------------------------------------
(* Types.                                                                  *)

\* A check of _run_validate reports, or has nothing to report.
OneReport == \/ results' = results
             \/ \E e \in Reports : results' = Append(results, e)

LEMMA ValidationSteps ==
  ASSUME VTypeOK, Validation
  PROVE  /\ UNCHANGED <<request, world, history, stage, run, next, todo, dirs, image, config>>
         /\ unpacked' \subseteq Exports
         /\ \/ sources' = sources
            \/ /\ at = "parse" /\ request.source.ova
               /\ sources' = sources \cup {request.source.disks[i] : i \in 1..Len(request.source.disks)}
         /\ at \notin {"idle", "done"} /\ at' \notin {"idle", "parse"}
         /\ at = "parse" \/ OneReport
         /\ nth' \in {nth, nth + 1} /\ (at \in {"parse", "ovmf"} => nth' = nth)
         /\ at' \in {"ovmf"} => at = "parse"
<1>0. /\ qemu_img \in BOOLEAN /\ ovmf \in BOOLEAN /\ unpacked \subseteq Exports
      /\ \A c \in CheckNames, b \in BOOLEAN : [check |-> c, ok |-> b] \in Reports
  BY DEF VTypeOK, TypeOK, Reports
<1>1. CASE CheckSource \/ CheckSourceFails
  <2>1. request.source \in Exports
    BY <1>1, RequestFields DEF CheckSource, CheckSourceFails, Check, VTypeOK
  <2> QED BY <1>0, <1>1, <2>1 DEF CheckSource, CheckSourceFails, Check, Unpack
<1>2. CASE CheckOvmf
  BY <1>0, <1>2 DEF CheckOvmf, Check, Reported, CheckNames, OneReport, vars
<1>3. CASE CheckDisk
  <2>1. (request.source.disks[nth] \in sources) \in BOOLEAN
    OBVIOUS
  <2>2. [check |-> "disk", ok |-> request.source.disks[nth] \in sources] \in Reports
    BY <2>1 DEF CheckNames, Reports
  <2> QED BY <1>0, <1>3, <2>2 DEF CheckDisk, Check, Reported, OneReport, vars
<1>4. CASE CheckQemuImg
  BY <1>0, <1>4 DEF CheckQemuImg, Check, Reported, CheckNames, OneReport, vars
<1>5. CASE CheckOutDir
  <2>1. (CheckedDir \in dirs) \in BOOLEAN
    OBVIOUS
  <2>2. [check |-> "outdir", ok |-> CheckedDir \in dirs] \in Reports
    BY <2>1 DEF CheckNames, Reports
  <2> QED BY <1>0, <1>5, <2>2 DEF CheckOutDir, Check, Reported, OneReport, vars
<1>6. CASE CheckFreeSpace
  <2>1. (room[CheckedDir] >= TotalDiskBytes(request.source)) \in BOOLEAN
    OBVIOUS
  <2>2. [check |-> "space", ok |-> room[CheckedDir] >= TotalDiskBytes(request.source)] \in Reports
    BY <2>1 DEF CheckNames, Reports
  <2> QED BY <1>0, <1>6, <2>2 DEF CheckFreeSpace, Check, Reported, OneReport, vars
<1> QED BY <1>1, <1>2, <1>3, <1>4, <1>5, <1>6 DEF Validation

LEMMA InitVTypeOK == VInit => VTypeOK /\ BeforeTheLoop /\ OneAtATime
<1> SUFFICES ASSUME VInit PROVE VTypeOK /\ BeforeTheLoop /\ OneAtATime
  OBVIOUS
<1>1. TypeOK /\ BeforeTheLoop
  BY InitIInv DEF VInit, IInv
<1>2. results \in Seq(Reports)
  BY DEF VInit
<1>3. room \in [Dir -> Nat] /\ used \in [ImagePaths -> Nat]
  BY RoomAssumption DEF VInit
<1>4. /\ taken \in BOOLEAN /\ given \in BOOLEAN /\ after \in BOOLEAN /\ ~after
      /\ qemu_img \in BOOLEAN /\ ovmf \in BOOLEAN
  BY Zenon DEF VInit
<1>5. at = "idle" /\ nth = 1 /\ readable = Exports
  BY DEF VInit
<1>6. OneAtATime
  BY <1>4, <1>5 DEF OneAtATime
<1> QED BY <1>1, <1>2, <1>3, <1>4, <1>5, <1>6 DEF VTypeOK

LEMMA StepVTypeOK == VTypeOK /\ [VNext]_allvars => VTypeOK'
<1> SUFFICES ASSUME VTypeOK, [VNext]_allvars PROVE VTypeOK'
  OBVIOUS
<1>1. ASSUME NEW r \in Requests, Begin(r) PROVE VTypeOK'
  <2>1. TypeOK'
    BY <1>1 DEF Begin, VTypeOK, TypeOK, vars, vm
  <2>2. results' \in Seq(Reports)
    BY <1>1 DEF Begin
  <2>3. taken' \in BOOLEAN /\ given' \in BOOLEAN /\ after' \in BOOLEAN
    BY <1>1, Zenon DEF Begin
  <2>4. at' = "parse" /\ request' = r /\ nth' = 1 /\ UNCHANGED <<qemu_img, ovmf, readable, room, used>>
    BY <1>1 DEF Begin, world
  <2> QED BY <2>1, <2>2, <2>3, <2>4 DEF VTypeOK
<1>2. CASE Validation
  <2>1. /\ UNCHANGED <<request, world, history, stage, run, next, todo, dirs, image, config>>
        /\ unpacked' \subseteq Exports /\ nth' \in {nth, nth + 1}
        /\ at' \in {"idle", "parse", "ovmf", "disks", "outdir", "space", "done"}
        /\ at' # "idle" /\ at # "idle"
    <3>1. at' \in {"idle", "parse", "ovmf", "disks", "outdir", "space", "done"}
      BY <1>2 DEF Validation, CheckSource, CheckSourceFails, CheckOvmf, CheckDisk, CheckQemuImg, CheckOutDir,
                  CheckFreeSpace, Check
    <3> QED BY <1>2, <3>1, ValidationSteps
  <2>2. request.source \in Exports /\ request.source.disks \in Seq(Disk)
    BY <2>1, RequestFields DEF VTypeOK
  <2>3. sources' \subseteq Disk
    <3>1. \A i \in 1..Len(request.source.disks) : request.source.disks[i] \in Disk
      BY <2>2
    <3>2. sources \subseteq Disk
      BY DEF VTypeOK, TypeOK
    <3> QED BY <1>2, <3>1, <3>2, ValidationSteps
  <2>4. results' \in Seq(Reports)
    <3>1. CASE CheckSource
      <4>1. (request.source \notin Unidentified) \in BOOLEAN
        OBVIOUS
      <4>2. [check |-> "guest", ok |-> request.source \notin Unidentified] \in Reports
        BY <4>1 DEF CheckNames, Reports
      <4>3. [check |-> "source", ok |-> TRUE] \in Reports
        BY DEF CheckNames, Reports
      <4> QED BY <3>1, <4>2, <4>3 DEF CheckSource
    <3>2. CASE CheckSourceFails
      <4>1. [check |-> "source", ok |-> FALSE] \in Reports
        BY DEF CheckNames, Reports
      <4> QED BY <3>2, <4>1 DEF CheckSourceFails, Reported, VTypeOK
    <3>3. CASE at # "parse"
      <4>1. results \in Seq(Reports)
        BY DEF VTypeOK
      <4>2. \A e \in Reports : Append(results, e) \in Seq(Reports)
        BY <4>1
      <4> QED BY <1>2, <3>3, <4>1, <4>2, ValidationSteps DEF OneReport
    <3> QED BY <1>2, <3>1, <3>2, <3>3
          DEF Validation, CheckOvmf, CheckDisk, CheckQemuImg, CheckOutDir, CheckFreeSpace, Check
  <2>5. TypeOK'
    BY <2>1, <2>3 DEF VTypeOK, TypeOK, vm
  <2> QED BY <2>1, <2>4, <2>5 DEF VTypeOK, world, history
<1>3. ASSUME NEW r \in Invocations, StartMigration(r) PROVE VTypeOK'
  <2>1. TypeOK'
    BY <1>3, StepTypeOK DEF StartMigration, VTypeOK, Next, User
  <2>2. (at = "done") \in BOOLEAN
    OBVIOUS
  <2> QED BY <1>3, <2>1, <2>2 DEF StartMigration, VTypeOK, checking, world
<1>4. CASE Migrate
  <2>1. TypeOK'
    BY <1>4, StepTypeOK DEF Migrate, VTypeOK, Next
  <2>2. room' \in [Dir -> Nat] /\ used' \in [ImagePaths -> Nat]
    BY <1>4, RoomChanges
  <2>3. taken' \in BOOLEAN
    BY <1>4 DEF Migrate, VTypeOK
  <2> QED BY <1>4, <2>1, <2>2, <2>3 DEF Migrate, VTypeOK, checking
<1>5. CASE OthersAct
  <2>1. /\ sources' \subseteq Disk /\ dirs' \subseteq Dir /\ readable' \subseteq Exports
        /\ qemu_img' \in BOOLEAN /\ ovmf' \in BOOLEAN /\ taken' \in BOOLEAN /\ given' \in BOOLEAN
    BY <1>5 DEF OthersAct, Supplied, TakenAway, VTypeOK, TypeOK
  <2>2. room' \in [Dir -> Nat]
    <3>1. CASE room' = room
      BY <3>1 DEF VTypeOK
    <3>2. ASSUME NEW dir \in Dir, room[dir] > 0, room' = [room EXCEPT ![dir] = @ - 1]
          PROVE  room' \in [Dir -> Nat]
      <4>1. room[dir] \in Nat /\ room[dir] - 1 \in Nat
        BY <3>2 DEF VTypeOK
      <4> QED BY <3>2, <4>1 DEF VTypeOK
    <3> QED BY <1>5, <3>1, <3>2 DEF OthersAct, Supplied, TakenAway
  <2>3. TypeOK'
    BY <1>5, <2>1 DEF OthersAct, VTypeOK, TypeOK, vm
  <2> QED BY <1>5, <2>1, <2>2, <2>3 DEF OthersAct, VTypeOK, checking
<1>6. CASE UNCHANGED allvars
  <2>1. TypeOK'
    BY <1>6 DEF allvars, vars, VTypeOK, TypeOK, vm
  <2> QED BY <1>6, <2>1 DEF allvars, VTypeOK, checking, world, history
<1> QED BY <1>1, <1>2, <1>3, <1>4, <1>5, <1>6 DEF VNext, Rest

LEMMA StepOrder ==
  VTypeOK /\ BeforeTheLoop /\ OneAtATime /\ [VNext]_allvars => BeforeTheLoop' /\ OneAtATime'
<1> SUFFICES ASSUME VTypeOK, BeforeTheLoop, OneAtATime, [VNext]_allvars
             PROVE  BeforeTheLoop' /\ OneAtATime'
  OBVIOUS
<1> USE DEF BeforeTheLoop, OneAtATime
<1>1. ASSUME NEW r \in Requests, Begin(r) PROVE BeforeTheLoop' /\ OneAtATime'
  BY <1>1 DEF Begin, vars
<1>2. CASE Validation
  BY <1>2, ValidationSteps DEF history
<1>3. ASSUME NEW r \in Invocations, StartMigration(r) PROVE BeforeTheLoop' /\ OneAtATime'
  BY <1>3 DEF StartMigration, Invoke, checking, VTypeOK
<1>4. CASE Migrate
  <2>1. UNCHANGED <<at, after>> /\ stage \in Running /\ Pipeline /\ TypeOK
    BY <1>4, PipelineSteps DEF Migrate, checking, VTypeOK
  <2>2. at \in {"idle", "done"} /\ (at = "done" => after)
    BY <2>1 DEF Running, Migrating, Ended
  <2>3. BeforeTheLoop'
    BY <2>1, PipelineSteps
  <2> QED BY <2>1, <2>2, <2>3
<1>5. CASE OthersAct
  BY <1>5 DEF OthersAct, checking
<1>6. CASE UNCHANGED allvars
  BY <1>6 DEF allvars, vars, checking, history
<1> QED BY <1>1, <1>2, <1>3, <1>4, <1>5, <1>6 DEF VNext, Rest

-----------------------------------------------------------------------------
(* The sum over the disks of an export, as a function of how many.         *)

PartialSums(x, n, s) == /\ s \in [0..n -> Nat]
                        /\ s[0] = 0
                        /\ \A k \in 1..n : s[k] = s[k - 1] + Known[x.disks[k]]

LEMMA PartialSumsExist ==
  ASSUME NEW x \in Exports
  PROVE  \A n \in 0..Len(x.disks) : \E s : PartialSums(x, n, s)
<1> DEFINE L   == Len(x.disks)
           Bad == {n \in 0..L : ~\E s : PartialSums(x, n, s)}
<1>1. L \in Nat /\ \A k \in 1..L : Known[x.disks[k]] \in Nat
  <2>1. x.disks \in Seq(Disk)
    BY ExportsAssumption DEF ExportType
  <2>2. \A d \in Disk : Known[d] \in Nat
    BY SizesAssumption
  <2> QED BY <2>1, <2>2
<1>2. SUFFICES ASSUME Bad # {} PROVE FALSE
  OBVIOUS
<1>3. Bad \in SUBSET Nat
  BY <1>1
<1>4. PICK n \in Bad : \A m \in Bad : n <= m
  <2> HIDE DEF Bad
  <2> QED BY <1>2, <1>3, LeastNumber
<1>5. n # 0
  <2>1. PartialSums(x, 0, [k \in 0..0 |-> 0])
    BY DEF PartialSums
  <2> QED BY <1>4, <2>1
<1>6. n \in 1..L /\ n - 1 \in 0..L /\ n - 1 \notin Bad
  <2>1. n \in 0..L
    BY <1>4
  <2>2. ~(n <= n - 1)
    BY <1>1, <2>1
  <2> QED BY <1>1, <1>4, <1>5, <2>1, <2>2
<1>7. PICK s : PartialSums(x, n - 1, s)
  BY <1>6
<1> DEFINE t == [k \in 0..n |-> IF k = n THEN s[n - 1] + Known[x.disks[n]] ELSE s[k]]
<1>8. PartialSums(x, n, t)
  <2>1. /\ s \in [0..(n - 1) -> Nat] /\ s[0] = 0 /\ n \in Nat \ {0} /\ Known[x.disks[n]] \in Nat
        /\ \A k \in 1..(n - 1) : s[k] = s[k - 1] + Known[x.disks[k]]
    BY <1>1, <1>6, <1>7 DEF PartialSums
  <2>2. t \in [0..n -> Nat]
    BY <2>1
  <2>3. t[0] = 0
    BY <2>1
  <2>4. ASSUME NEW k \in 1..n PROVE t[k] = t[k - 1] + Known[x.disks[k]]
    BY <2>1, <2>4
  <2> QED BY <2>2, <2>3, <2>4 DEF PartialSums
<1> QED BY <1>4, <1>8

LEMMA SumsAre ==
  ASSUME NEW x \in Exports
  PROVE  IsSums(x, Sums(x))
<1> DEFINE L == Len(x.disks)
           f == CHOOSE f : f = [n \in 0..L |-> IF n = 0 THEN 0 ELSE f[n - 1] + Known[x.disks[n]]]
<1>1. PICK s : PartialSums(x, L, s)
  <2>1. L \in Nat
    BY ExportsAssumption DEF ExportType
  <2> QED BY <2>1, PartialSumsExist
<1>2. s = [n \in 0..L |-> IF n = 0 THEN 0 ELSE s[n - 1] + Known[x.disks[n]]]
  <2>1. L \in Nat
    BY ExportsAssumption DEF ExportType
  <2> QED BY <1>1, <2>1 DEF PartialSums
<1>3. f = [n \in 0..L |-> IF n = 0 THEN 0 ELSE f[n - 1] + Known[x.disks[n]]]
  BY <1>2
<1>4. TotalDiskBytes(x) = f[L]
  BY DEF TotalDiskBytes
<1>5. s = f
  <2> DEFINE Apart == {n \in 0..L : s[n] # f[n]}
  <2>0. L \in Nat
    BY ExportsAssumption DEF ExportType
  <2>1. /\ s \in [0..L -> Nat] /\ s[0] = 0
        /\ \A k \in 1..L : s[k] = s[k - 1] + Known[x.disks[k]]
    BY <1>1 DEF PartialSums
  <2> HIDE DEF f
  <2>2. f[0] = 0 /\ \A k \in 1..L : f[k] = f[k - 1] + Known[x.disks[k]]
    BY <1>3, <2>0
  <2>3. SUFFICES ASSUME Apart # {} PROVE FALSE
    <3>1. DOMAIN s = 0..L /\ DOMAIN f = 0..L
      BY <1>2, <1>3
    <3> QED BY <1>2, <1>3, <3>1
  <2>4. PICK n \in Apart : \A m \in Apart : n <= m
    <3>1. Apart \in SUBSET Nat
      BY <2>0
    <3> HIDE DEF Apart
    <3> QED BY <2>3, <3>1, LeastNumber
  <2>5. n # 0
    BY <2>1, <2>2, <2>4
  <2>6. n \in 1..L /\ n - 1 \in 0..L /\ ~(n <= n - 1)
    BY <2>0, <2>4, <2>5
  <2>7. s[n - 1] = f[n - 1]
    BY <2>4, <2>6
  <2> QED BY <2>1, <2>2, <2>4, <2>6, <2>7
<1>6. IsSums(x, s)
  BY <1>1, <1>4, <1>5 DEF PartialSums, IsSums
<1> QED BY <1>6 DEF Sums

LEMMA SumsGrow ==
  ASSUME NEW x \in Exports, NEW n \in 0..Len(x.disks)
  PROVE  Sums(x)[n] <= TotalDiskBytes(x)
<1> DEFINE L   == Len(x.disks)
           s   == Sums(x)
           Bad == {k \in 0..L : n <= k /\ ~(s[n] <= s[k])}
<1>1. L \in Nat /\ \A k \in 1..L : Known[x.disks[k]] \in Nat
  <2>1. x.disks \in Seq(Disk)
    BY ExportsAssumption DEF ExportType
  <2>2. \A d \in Disk : Known[d] \in Nat
    BY SizesAssumption
  <2> QED BY <2>1, <2>2
<1>2. /\ s \in [0..L -> Nat] /\ TotalDiskBytes(x) = s[L]
      /\ \A k \in 1..L : s[k] = s[k - 1] + Known[x.disks[k]]
  BY SumsAre DEF IsSums
<1> HIDE DEF s
<1>3. ASSUME Bad # {} PROVE FALSE
  <2>1. PICK k \in Bad : \A m \in Bad : k <= m
    <3>1. Bad \in SUBSET Nat
      BY <1>1
    <3> HIDE DEF Bad
    <3> QED BY <1>3, <3>1, LeastNumber
  <2>2. k # n
    BY <1>2, <2>1
  <2>3. k \in 1..L /\ k - 1 \in 0..L /\ n <= k - 1 /\ ~(k <= k - 1)
    BY <1>1, <2>1, <2>2
  <2>4. s[n] <= s[k - 1]
    BY <2>1, <2>3
  <2>5. s[n] \in Nat /\ s[k - 1] \in Nat /\ s[k] = s[k - 1] + Known[x.disks[k]] /\ Known[x.disks[k]] \in Nat
    BY <1>1, <1>2, <2>3
  <2>6. s[n] <= s[k]
    BY ONLY <2>4, <2>5
  <2> QED BY <2>1, <2>6
<1>4. L \notin Bad /\ L \in 0..L /\ n <= L
  BY <1>1, <1>3
<1>5. s[n] <= s[L]
  BY <1>4
<1> QED BY <1>2, <1>5 DEF s

LEMMA SumsFields ==
  ASSUME NEW x \in Exports, NEW n \in 1..Len(x.disks)
  PROVE  /\ Sums(x)[n] = Sums(x)[n - 1] + Known[x.disks[n]]
         /\ Sums(x)[n] \in Nat /\ Sums(x)[n - 1] \in Nat
         /\ Sums(x)[n] <= TotalDiskBytes(x)
<1> DEFINE L == Len(x.disks)
           S == 0..L
           s == Sums(x)
           k == Known[x.disks[n]]
<1>1. L \in Nat
  BY ExportsAssumption DEF ExportType
<1>2. n \in S /\ n - 1 \in S
  BY <1>1
<1>3. IsSums(x, s)
  BY SumsAre
<1>4. s \in [S -> Nat] /\ s[n] = s[n - 1] + k
  BY ONLY <1>3, n \in 1..L, Zenon DEF IsSums
<1>5. s[n] <= TotalDiskBytes(x)
  BY <1>2, SumsGrow
<1> HIDE DEF L, S, s, k
<1>6. s[n] \in Nat /\ s[n - 1] \in Nat
  BY ONLY <1>2, <1>4
<1> QED BY <1>4, <1>5, <1>6 DEF s, k

LEMMA TotalIsNat == \A x \in Exports : TotalDiskBytes(x) \in Nat
<1> SUFFICES ASSUME NEW x \in Exports PROVE TotalDiskBytes(x) \in Nat
  OBVIOUS
<1> DEFINE L == Len(x.disks)
           S == 0..L
           s == Sums(x)
<1>1. L \in S
  BY ExportsAssumption DEF ExportType
<1>2. s \in [S -> Nat] /\ TotalDiskBytes(x) = s[L]
  BY SumsAre, Zenon DEF IsSums
<1> HIDE DEF L, S, s
<1> QED BY ONLY <1>1, <1>2

-----------------------------------------------------------------------------
(* What was found stays so.                                                *)

LEMMA AppendedIsSound ==
  ASSUME VTypeOK, NEW c, NEW found, results' = Append(results, [check |-> c, ok |-> found]), Sound'
  PROVE  Sound /\ found
<1> DEFINE e == [check |-> c, ok |-> found]
<1>0. e.ok <=> found
  OBVIOUS
<1> HIDE DEF e
<1>1. results \in Seq(Reports) /\ Len(results) \in Nat
  BY DEF VTypeOK
<1>2. /\ Len(results') = Len(results) + 1
      /\ \A i \in 1..Len(results) : results'[i] = results[i]
      /\ results'[Len(results) + 1] = e
  BY <1>1 DEF e
<1>3. Sound /\ e.ok
  BY <1>1, <1>2 DEF Sound
<1> QED BY <1>0, <1>3

\* What the checks have looked at is there after the step, if it was before.
NothingLost == /\ UNCHANGED checking /\ ~taken
               /\ sources \subseteq sources' /\ dirs \subseteq dirs'
               /\ (qemu_img => qemu_img') /\ (ovmf => ovmf') /\ readable \subseteq readable'

LEMMA OthersLoseNothing ==
  ASSUME VTypeOK, (\E r \in Invocations : StartMigration(r)) \/ Migrate \/ OthersAct, ~taken'
  PROVE  NothingLost
<1>1. ASSUME NEW r \in Invocations, StartMigration(r) PROVE NothingLost
  BY <1>1 DEF StartMigration, Invoke, world, NothingLost
<1>2. CASE Migrate
  BY <1>2, PipelineSteps DEF Migrate, VTypeOK, NothingLost
<1>3. CASE OthersAct
  BY <1>3 DEF OthersAct, Supplied, TakenAway, NothingLost
<1> QED BY <1>1, <1>2, <1>3

LEMMA StepStillThere ==
  VTypeOK /\ OneAtATime /\ StillThere /\ [VNext]_allvars => StillThere'
<1> SUFFICES ASSUME VTypeOK, OneAtATime, StillThere, [VNext]_allvars, Sound', ~taken',
                    at' \notin {"idle", "parse"}
             PROVE  /\ request'.source \in readable'
                    /\ at' # "ovmf" /\ is_efi(request'.source) => ovmf'
                    /\ \A i \in 1..Len(request'.source.disks) : i < nth' => request'.source.disks[i] \in sources'
                    /\ at' \in {"outdir", "space", "done"} => nth' > Len(request'.source.disks) /\ qemu_img'
                    /\ at' \in {"space", "done"} => CheckedDir' \in dirs'
  BY DEF StillThere
<1>t. nth \in Nat \ {0} /\ (at # "idle" => request \in Requests)
  BY DEF VTypeOK
<1>1. ASSUME NEW r \in Requests, Begin(r) PROVE FALSE
  BY <1>1 DEF Begin
<1>2. CASE CheckSource
  <2>1. nth' = 1 /\ request' = request /\ request.source \in readable /\ readable' = readable /\ at' = "ovmf"
        /\ at = "parse"
    BY <1>2 DEF CheckSource, Check, OneAtATime, world
  <2> QED BY <2>1
<1>3. CASE CheckSourceFails
  BY <1>3, AppendedIsSound DEF CheckSourceFails, Reported
<1>4. CASE CheckOvmf
  <2>1. /\ at = "ovmf" /\ at' = "disks" /\ nth' = 1 /\ UNCHANGED <<request, readable, ovmf>> /\ taken' = taken
    BY <1>4 DEF CheckOvmf, Check, OneAtATime, world, history
  <2>2. Sound /\ (is_efi(request.source) => ovmf)
    <3>1. CASE is_efi(request.source)
      <4>1. results' = Append(results, [check |-> "ovmf", ok |-> ovmf])
        BY <1>4, <3>1 DEF CheckOvmf, Reported
      <4> QED BY <4>1, AppendedIsSound
    <3>2. CASE ~is_efi(request.source)
      <4>1. results' = results
        BY <1>4, <3>2 DEF CheckOvmf
      <4> QED BY <3>2, <4>1 DEF Sound
    <3> QED BY <3>1, <3>2
  <2> QED BY <2>1, <2>2 DEF StillThere
<1>5. CASE CheckDisk
  <2>1. /\ at = "disks" /\ at' = "disks" /\ nth' = nth + 1 /\ UNCHANGED <<request, readable, ovmf, sources>>
        /\ taken' = taken
        /\ results' = Append(results, [check |-> "disk", ok |-> request.source.disks[nth] \in sources])
    BY <1>5 DEF CheckDisk, Check, Reported, world, history, vars
  <2>2. Sound /\ request.source.disks[nth] \in sources
    <3> DEFINE there == request.source.disks[nth] \in sources
    <3>1. results' = Append(results, [check |-> "disk", ok |-> there])
      BY <2>1
    <3> HIDE DEF there
    <3>2. Sound /\ there
      BY <3>1, AppendedIsSound
    <3> QED BY <3>2 DEF there
  <2>3. /\ request.source \in readable
        /\ is_efi(request.source) => ovmf
        /\ \A i \in 1..Len(request.source.disks) : i < nth => request.source.disks[i] \in sources
    BY <2>1, <2>2 DEF StillThere
  <2>4. \A i \in 1..Len(request.source.disks) : i < nth + 1 => i < nth \/ i = nth
    BY <1>t, <2>1, RequestFields
  <2> QED BY <2>1, <2>2, <2>3, <2>4
<1>6. CASE CheckQemuImg
  <2>1. /\ at = "disks" /\ at' = "outdir" /\ nth' = nth /\ nth > Len(request.source.disks)
        /\ UNCHANGED <<request, readable, ovmf, sources, qemu_img>> /\ taken' = taken
        /\ results' = Append(results, [check |-> "qemu-img", ok |-> qemu_img])
    BY <1>6 DEF CheckQemuImg, Check, Reported, world, history, vars
  <2>2. Sound /\ qemu_img
    BY <2>1, AppendedIsSound
  <2> QED BY <2>1, <2>2 DEF StillThere
<1>7. CASE CheckOutDir
  <2>1. /\ at = "outdir" /\ at' = "space" /\ nth' = nth
        /\ UNCHANGED <<request, readable, ovmf, sources, qemu_img, dirs>> /\ taken' = taken
        /\ results' = Append(results, [check |-> "outdir", ok |-> CheckedDir \in dirs])
    BY <1>7 DEF CheckOutDir, Check, Reported, world, history, vars
  <2>2. Sound /\ CheckedDir \in dirs /\ CheckedDir' = CheckedDir
    <3> DEFINE there == CheckedDir \in dirs
    <3>1. results' = Append(results, [check |-> "outdir", ok |-> there])
      BY <2>1
    <3> HIDE DEF there
    <3>2. Sound /\ there
      BY <3>1, AppendedIsSound
    <3> QED BY <2>1, <3>2 DEF there, CheckedDir
  <2> QED BY <2>1, <2>2 DEF StillThere
<1>8. CASE CheckFreeSpace
  <2>1. /\ at = "space" /\ at' = "done" /\ nth' = nth
        /\ UNCHANGED <<request, readable, ovmf, sources, qemu_img, dirs>> /\ taken' = taken
        /\ OneReport /\ CheckedDir' = CheckedDir
    <3>1. at = "space" /\ at' = "done"
      BY <1>8 DEF CheckFreeSpace, Check
    <3> QED BY <1>8, <3>1, ValidationSteps DEF Validation, CheckFreeSpace, Check, world, history, vars, CheckedDir
  <2>2. Sound
    BY <2>1, AppendedIsSound DEF OneReport, Sound
  <2> QED BY <2>1, <2>2 DEF StillThere
<1>9. CASE (\E r \in Invocations : StartMigration(r)) \/ Migrate \/ OthersAct
  <2>1. /\ UNCHANGED <<at, request, nth, results>> /\ ~taken
        /\ sources \subseteq sources' /\ dirs \subseteq dirs'
        /\ (qemu_img => qemu_img') /\ (ovmf => ovmf') /\ readable \subseteq readable'
    BY <1>9, OthersLoseNothing DEF NothingLost, checking
  <2>2. Sound /\ CheckedDir' = CheckedDir
    BY <2>1 DEF Sound, CheckedDir
  <2>3. /\ request.source \in readable
        /\ at # "ovmf" /\ is_efi(request.source) => ovmf
        /\ \A i \in 1..Len(request.source.disks) : i < nth => request.source.disks[i] \in sources
        /\ at \in {"outdir", "space", "done"} => nth > Len(request.source.disks) /\ qemu_img
        /\ at \in {"space", "done"} => CheckedDir \in dirs
    BY <2>1, <2>2 DEF StillThere
  <2> QED BY <2>1, <2>2, <2>3
<1>10. CASE UNCHANGED allvars
  BY <1>10 DEF allvars, vars, checking, world, history, StillThere, Sound, CheckedDir
<1> QED BY <1>1, <1>2, <1>3, <1>4, <1>5, <1>6, <1>7, <1>8, <1>9, <1>10 DEF VNext, Rest, Validation

-----------------------------------------------------------------------------
(* There is room for what is left to convert.                              *)

LEMMA CoveredStays ==
  ASSUME UNCHANGED <<request, run, after>>
  PROVE  /\ Covered' <=> Covered
         /\ CheckedDir' = CheckedDir /\ vm' = vm
  BY DEF Covered, SameExport, CheckedDir, GenerateFails, vm

LEMMA CoveredFields ==
  ASSUME VTypeOK, OneAtATime, Covered
  PROVE  /\ at = "done" /\ after /\ run.source = request.source /\ OutDir(run) = CheckedDir
         /\ vm \in Exports /\ vm = request.source /\ CheckedDir \in Dir
         /\ Len(vm.disks) \in Nat /\ vm.disks \in Seq(Disk)
<1>1. at = "done" /\ after /\ run.source = request.source /\ OutDir(run) = CheckedDir
  BY DEF Covered, SameExport, OneAtATime
<1>2. request \in Requests
  BY <1>1 DEF VTypeOK
<1> QED BY <1>1, <1>2, RequestFields DEF vm, CheckedDir

LEMMA StepRoomLeft ==
  VTypeOK /\ BeforeTheLoop /\ OneAtATime /\ StillThere /\ StillThere' /\ RoomLeft /\ [VNext]_allvars
    => RoomLeft'
<1> SUFFICES ASSUME VTypeOK, BeforeTheLoop, OneAtATime, StillThere, StillThere', RoomLeft, [VNext]_allvars,
                    Sound', ~taken', at' = "done"
             PROVE  /\ ~after' => room'[CheckedDir'] >= TotalDiskBytes(request'.source)
                    /\ Covered' /\ stage' \in {"parse", "preflight", "convert", "qemu"} =>
                         room'[CheckedDir'] + Sums(vm')[next' - 1] >= TotalDiskBytes(vm')
  BY DEF RoomLeft
<1>1. ASSUME NEW r \in Requests, Begin(r) PROVE FALSE
  BY <1>1 DEF Begin
<1>2. CASE Validation
  <2>1. /\ UNCHANGED <<request, room, dirs, after>> /\ CheckedDir' = CheckedDir
        /\ ~after /\ request \in Requests
    BY <1>2, ValidationSteps DEF world, history, OneAtATime, CheckedDir, VTypeOK
  <2>2. ~Covered'
    BY <2>1 DEF Covered, SameExport
  <2>3. CheckFreeSpace
    <3>1. CASE CheckSourceFails
      BY <3>1, AppendedIsSound DEF CheckSourceFails, Reported
    <3> QED BY <1>2, <3>1 DEF Validation, CheckSource, CheckOvmf, CheckDisk, CheckQemuImg, CheckOutDir, Check
  <2>4. CheckedDir \in dirs /\ room[CheckedDir] \in Nat
    <3>1. CheckedDir \in Dir
      BY <2>1, RequestFields DEF CheckedDir
    <3>2. CheckedDir' \in dirs'
      BY DEF StillThere
    <3> QED BY <2>1, <3>1, <3>2 DEF VTypeOK
  <2>5. TotalDiskBytes(request.source) \in Nat
    BY <2>1, RequestFields, TotalIsNat
  <2>6. CASE TotalDiskBytes(request.source) > 0
    <3> DEFINE enough == room[CheckedDir] >= TotalDiskBytes(request.source)
    <3>1. results' = Append(results, [check |-> "space", ok |-> enough])
      BY <2>3, <2>4, <2>6 DEF CheckFreeSpace, Reported
    <3> HIDE DEF enough
    <3>2. enough
      BY <3>1, AppendedIsSound
    <3> QED BY <2>1, <2>2, <3>2 DEF enough
  <2>7. CASE ~(TotalDiskBytes(request.source) > 0)
    <3>1. room[CheckedDir] >= TotalDiskBytes(request.source)
      BY <2>4, <2>5, <2>7
    <3> QED BY <2>1, <2>2, <3>1
  <2> QED BY <2>6, <2>7
<1>3. ASSUME NEW r \in Invocations, StartMigration(r)
      PROVE  /\ after'
             /\ Covered' => room'[CheckedDir'] + Sums(vm')[next' - 1] >= TotalDiskBytes(vm')
  <2>1. /\ UNCHANGED <<at, request, nth, results, room>> /\ next' = 1 /\ run' = r
        /\ ~taken /\ ~after /\ at = "done" /\ CheckedDir' = CheckedDir
    BY <1>3 DEF StartMigration, Invoke, checking, world, CheckedDir
  <2>2. after'
    BY <1>3, <2>1 DEF StartMigration
  <2>3. Sound
    BY <2>1 DEF Sound
  <2>4. room[CheckedDir] >= TotalDiskBytes(request.source)
    BY <2>1, <2>3 DEF RoomLeft
  <2>5. request.source \in Exports /\ CheckedDir \in Dir
    BY <2>1, RequestFields DEF VTypeOK, CheckedDir
  <2>6. room[CheckedDir] \in Nat /\ Sums(request.source)[0] = 0
    BY <2>5, SumsAre DEF VTypeOK, IsSums
  <2>7. ASSUME Covered' PROVE vm' = request.source
    BY <2>1, <2>7 DEF Covered, SameExport, vm
  <2> QED BY <2>1, <2>2, <2>4, <2>6, <2>7
<1>4. CASE Migrate
  <2>1. /\ TypeOK /\ Pipeline /\ UNCHANGED <<at, request, nth, results, after>> /\ ~taken
    BY <1>4 DEF Migrate, checking, VTypeOK
  <2>2. stage \in Running /\ after /\ run' = run
    BY <2>1, PipelineSteps DEF OneAtATime, Running, Migrating, Ended
  <2>3. SUFFICES ASSUME Covered', stage' \in {"parse", "preflight", "convert", "qemu"}
                 PROVE  room'[CheckedDir'] + Sums(vm')[next' - 1] >= TotalDiskBytes(vm')
    BY <2>1, <2>2
  <2>4. Covered /\ CheckedDir' = CheckedDir /\ vm' = vm
    BY <2>1, <2>2, <2>3, CoveredStays
  <2>5. /\ OutDir(run) = CheckedDir /\ CheckedDir \in Dir /\ Sound
        /\ vm \in Exports /\ Len(vm.disks) \in Nat /\ vm.disks \in Seq(Disk)
    BY <2>1, <2>4, CoveredFields DEF Sound
  <2>6. stage \in {"parse", "preflight", "convert", "qemu"}
    BY <2>1, <2>3, PipelineSteps
  <2>7. room[CheckedDir] + Sums(vm)[next - 1] >= TotalDiskBytes(vm)
    BY <2>1, <2>4, <2>5, <2>6 DEF RoomLeft
  <2>8. room[CheckedDir] \in Nat /\ TotalDiskBytes(vm) \in Nat
    <3>1. room \in [Dir -> Nat]
      BY DEF VTypeOK
    <3> QED BY <2>5, <3>1, TotalIsNat
  <2>9. CASE stage # "qemu"
    <3>1. next' = next /\ next - 1 \in 0..Len(vm.disks)
      <4>1. next' = next /\ next \in Nat \ {0}
        BY <2>1, <2>3, <2>9, PipelineSteps DEF TypeOK
      <4>2. next = 1 \/ next <= Len(vm.disks)
        BY <2>1, <2>3, <2>6, <2>9, PipelineSteps DEF BeforeTheLoop
      <4> QED BY <2>5, <4>1, <4>2
    <3>2. room'[CheckedDir] >= room[CheckedDir] /\ room'[CheckedDir] \in Nat
      BY <1>4, <2>5, <2>9, RoomChanges
    <3>3. Sums(vm)[next - 1] \in Nat
      <4> DEFINE s == Sums(vm)
                 S == 0..Len(vm.disks)
      <4>1. IsSums(vm, s)
        BY <2>5, SumsAre
      <4>2. s \in [S -> Nat] /\ next - 1 \in S
        BY ONLY <3>1, <4>1, Zenon DEF IsSums
      <4> HIDE DEF s
      <4>3. s[next - 1] \in Nat
        BY ONLY <4>2
      <4> QED BY <4>3 DEF s
    <3> QED BY <2>4, <2>7, <2>8, <3>1, <3>2, <3>3
  <2>10. CASE stage = "qemu"
    <3>1. next \in 1..Len(vm.disks) /\ next' = next + 1
      <4>1. next' = next + 1 /\ next \in Nat \ {0} /\ next <= Len(vm.disks)
        BY <2>1, <2>3, <2>10, PipelineSteps DEF TypeOK
      <4> QED BY <2>5, <4>1
    <3>2. PICK n \in Nat : /\ n <= room[CheckedDir]
                           /\ Need <= room[CheckedDir] => n <= Need
                           /\ room' = [room EXCEPT ![CheckedDir] = @ - n]
      BY <1>4, <2>5, <2>10, RoomChanges
    <3>3. room'[CheckedDir] = room[CheckedDir] - n
      BY <2>5, <3>2 DEF VTypeOK
    <3>4. Need = Known[vm.disks[next]] /\ Need \in Nat
      <4>1. run.format = "raw" /\ Known[vm.disks[next]] = Capacity[vm.disks[next]]
        BY <2>4, <3>1 DEF Covered
      <4>2. vm.disks[next] \in Disk
        BY <2>5, <3>1
      <4>3. Capacity[vm.disks[next]] \in Nat
        BY <4>2, SizesAssumption
      <4> QED BY <4>1, <4>3 DEF Need, CurrentDisk
    <3>5. /\ Sums(vm)[next] = Sums(vm)[next - 1] + Known[vm.disks[next]]
          /\ Sums(vm)[next] \in Nat /\ Sums(vm)[next - 1] \in Nat /\ next' - 1 = next
      <4>1. next' - 1 = next
        BY <3>1
      <4> QED BY <2>5, <3>1, <4>1, SumsFields
    <3>6. n <= Need
      BY <2>8, <3>2, <3>4
    <3>7. room[CheckedDir] \in Nat /\ TotalDiskBytes(vm) \in Nat
      BY <2>8
    <3>8. room'[CheckedDir] + Sums(vm)[next] >= TotalDiskBytes(vm)
      BY ONLY <2>7, <3>2, <3>3, <3>4, <3>5, <3>6, <3>7
    <3> QED BY <2>4, <3>5, <3>8
  <2> QED BY <2>9, <2>10
<1>5. CASE OthersAct
  <2>1. /\ UNCHANGED <<at, request, nth, results, after, run, stage, next>> /\ ~taken /\ room' = room
    BY <1>5 DEF OthersAct, Supplied, TakenAway, checking
  <2>2. Sound
    BY <2>1 DEF Sound
  <2> QED BY <2>1, <2>2, CoveredStays DEF RoomLeft
<1>6. CASE UNCHANGED allvars
  <2>1. UNCHANGED <<at, request, nth, results, after, run, stage, next, taken, room>>
    BY <1>6 DEF allvars, vars, checking, world, history
  <2>2. Sound
    BY <2>1 DEF Sound
  <2> QED BY <2>1, <2>2, CoveredStays DEF RoomLeft
<1> QED BY <1>1, <1>2, <1>3, <1>4, <1>5, <1>6 DEF VNext, Rest

LEMMA StepNoFailure ==
  VTypeOK /\ OneAtATime /\ StillThere /\ RoomLeft /\ NoFailure /\ [VNext]_allvars => NoFailure'
<1> SUFFICES ASSUME VTypeOK, OneAtATime, StillThere, RoomLeft, NoFailure, [VNext]_allvars,
                    Covered', Sound', ~taken', stage' = "failed"
             PROVE  FALSE
  BY DEF NoFailure
<1>0. after'
  BY DEF Covered, SameExport
<1>1. ASSUME NEW r \in Requests, Begin(r) PROVE FALSE
  BY <1>0, <1>1 DEF Begin
<1>2. CASE Validation
  BY <1>0, <1>2, ValidationSteps DEF history, OneAtATime
<1>3. ASSUME NEW r \in Invocations, StartMigration(r) PROVE FALSE
  BY <1>3 DEF StartMigration, Invoke
<1>4. CASE Migrate
  <2>1. /\ TypeOK /\ Pipeline /\ UNCHANGED <<at, request, nth, results, after>> /\ ~taken /\ Refused
    BY <1>4 DEF Migrate, checking, VTypeOK
  <2>2. run' = run /\ Sound
    BY <2>1, PipelineSteps DEF Sound
  <2>3. Covered
    BY <2>1, <2>2, CoveredStays
  <2>4. /\ at = "done" /\ vm = request.source /\ OutDir(run) = CheckedDir /\ CheckedDir \in Dir
        /\ vm \in Exports /\ Len(vm.disks) \in Nat /\ vm.disks \in Seq(Disk)
    BY <2>3, CoveredFields
  <2>5. /\ vm \in readable /\ qemu_img /\ CheckedDir \in dirs
        /\ \A i \in 1..Len(vm.disks) : vm.disks[i] \in sources
    <3>1. nth > Len(vm.disks) /\ nth \in Nat
      BY <2>1, <2>2, <2>4 DEF StillThere, VTypeOK
    <3>2. \A i \in 1..Len(vm.disks) : i < nth
      BY <2>4, <3>1
    <3> QED BY <2>1, <2>2, <2>4, <3>2 DEF StillThere
  <2>6. ~(stage = "convert" /\ next <= Len(vm.disks) /\ ~CanConvert)
    <3>1. next \in Nat \ {0}
      BY <2>1 DEF TypeOK
    <3> QED BY <2>4, <2>5, <3>1 DEF CanConvert, CurrentDisk
  <2>7. ~GenerateFails
    BY <2>3 DEF Covered
  <2>8. stage = "qemu" /\ Need > room[CheckedDir]
    BY <2>1, <2>4, <2>5, <2>6, <2>7 DEF Refused
  <2>9. next \in 1..Len(vm.disks) /\ next - 1 \in 0..Len(vm.disks) /\ next \in 0..Len(vm.disks)
    <3>1. next \in Nat \ {0} /\ next <= Len(vm.disks)
      BY <2>1, <2>8 DEF TypeOK
    <3> QED BY <2>4, <3>1
  <2>10. Need = Known[vm.disks[next]] /\ Need \in Nat
    <3>1. run.format = "raw" /\ Known[vm.disks[next]] = Capacity[vm.disks[next]]
      BY <2>3, <2>9 DEF Covered
    <3>2. vm.disks[next] \in Disk
      BY <2>4, <2>9
    <3>3. Capacity[vm.disks[next]] \in Nat
      BY <3>2, SizesAssumption
    <3> QED BY <3>1, <3>3 DEF Need, CurrentDisk
  <2>11. /\ Sums(vm)[next] = Sums(vm)[next - 1] + Known[vm.disks[next]]
         /\ Sums(vm)[next] \in Nat /\ Sums(vm)[next - 1] \in Nat
         /\ Sums(vm)[next] <= TotalDiskBytes(vm) /\ TotalDiskBytes(vm) \in Nat
    BY <2>4, <2>9, SumsFields, TotalIsNat
  <2>12. room[CheckedDir] + Sums(vm)[next - 1] >= TotalDiskBytes(vm)
    BY <2>1, <2>2, <2>3, <2>4, <2>8 DEF RoomLeft
  <2>13. room[CheckedDir] \in Nat
    BY <2>4 DEF VTypeOK
  <2> QED BY <2>8, <2>10, <2>11, <2>12, <2>13
<1>5. CASE OthersAct \/ UNCHANGED allvars
  <2>1. UNCHANGED <<request, results, after, run, stage>> /\ ~taken
    BY <1>5 DEF OthersAct, Supplied, TakenAway, checking, allvars, vars, history
  <2>2. Sound
    BY <2>1 DEF Sound
  <2> QED BY <2>1, <2>2, CoveredStays DEF NoFailure
<1> QED BY <1>1, <1>2, <1>3, <1>4, <1>5 DEF VNext, Rest

-----------------------------------------------------------------------------
(* What was missing stays missing, and stops the migration.                *)

LEMMA AppendedIsReproached ==
  ASSUME VTypeOK, NEW c, NEW found, results' = Append(results, [check |-> c, ok |-> found]),
         Failed({"source", "disk", "qemu-img"})'
  PROVE  Failed({"source", "disk", "qemu-img"}) \/ (c \in {"source", "disk", "qemu-img"} /\ ~found)
<1> DEFINE e == [check |-> c, ok |-> found]
<1>0. e.check = c /\ (e.ok <=> found)
  OBVIOUS
<1> HIDE DEF e
<1>1. results \in Seq(Reports) /\ Len(results) \in Nat
  BY DEF VTypeOK
<1>2. /\ Len(results') = Len(results) + 1
      /\ \A i \in 1..Len(results) : results'[i] = results[i]
      /\ results'[Len(results) + 1] = e
  BY <1>1 DEF e
<1>3. PICK i \in 1..Len(results') : results'[i].check \in {"source", "disk", "qemu-img"} /\ ~results'[i].ok
  BY DEF Failed
<1>4. i \in 1..Len(results) \/ i = Len(results) + 1
  BY <1>1, <1>2
<1> QED BY <1>0, <1>2, <1>3, <1>4 DEF Failed

\* What the checks have not found is not there after the step either.
NothingFound == /\ UNCHANGED checking /\ ~given
                /\ readable' \subseteq readable /\ (qemu_img' => qemu_img)
                /\ \A i \in 1..Len(request.source.disks) :
                     request.source.disks[i] \in sources' => request.source.disks[i] \in sources

LEMMA OthersFindNothing ==
  ASSUME OvaDisksApart, VTypeOK, (\E r \in Invocations : StartMigration(r)) \/ Migrate \/ OthersAct,
         Reproached'
  PROVE  NothingFound /\ Reproached
<1>0. ~given' /\ UNCHANGED checking
  BY DEF Reproached, StartMigration, Migrate, OthersAct
<1>1. ASSUME NEW r \in Invocations, StartMigration(r) PROVE NothingFound
  BY <1>0, <1>1 DEF StartMigration, Invoke, world, NothingFound
<1>2. ASSUME Migrate PROVE NothingFound
  <2>1. /\ TypeOK /\ Pipeline /\ UNCHANGED <<at, request, given, readable, qemu_img>>
    BY <1>2 DEF Migrate, checking, VTypeOK
  <2>2. request.source \in Exports /\ ~request.source.ova
    BY <2>1, RequestFields DEF VTypeOK, Reproached
  <2>3. ASSUME NEW i \in 1..Len(request.source.disks), request.source.disks[i] \in sources'
        PROVE  request.source.disks[i] \in sources
    <3>1. CASE sources' = sources
      BY <2>3, <3>1
    <3>2. CASE vm.ova /\ sources' = sources \cup {vm.disks[j] : j \in 1..Len(vm.disks)} /\ stage = "parse"
      <4>1. vm \in Exports
        BY <2>1, <3>2, RunIsTyped DEF Migrating
      <4>2. \A j \in 1..Len(vm.disks) : request.source.disks[i] # vm.disks[j]
        BY <2>2, <3>2, <4>1 DEF OvaDisksApart
      <4> QED BY <2>3, <3>2, <4>2
    <3> QED BY <2>1, <3>1, <3>2, PipelineSteps
  <2> QED BY <1>0, <2>1, <2>3 DEF NothingFound
<1>3. ASSUME OthersAct PROVE NothingFound
  <2>1. ~Supplied
    BY <1>0, Zenon DEF Supplied
  <2>2. TakenAway
    BY <1>3, <2>1 DEF OthersAct
  <2>3. given' = given
    BY <2>2 DEF TakenAway
  <2>4. readable' \subseteq readable /\ (qemu_img' => qemu_img) /\ sources' \subseteq sources
    BY <2>2 DEF TakenAway
  <2> QED BY <1>0, <2>3, <2>4 DEF NothingFound
<1>4. NothingFound
  BY <1>1, <1>2, <1>3
<1>5. UNCHANGED <<at, request, results>> /\ ~given
  BY <1>4 DEF NothingFound, checking
<1> QED BY <1>4, <1>5 DEF Reproached, Failed

LEMMA StepStillMissing ==
  OvaDisksApart /\ VTypeOK /\ OneAtATime /\ StillMissing /\ [VNext]_allvars => StillMissing'
<1> SUFFICES ASSUME OvaDisksApart, VTypeOK, OneAtATime, StillMissing, [VNext]_allvars, Reproached'
             PROVE  \/ request'.source \notin readable'
                    \/ \E i \in 1..Len(request'.source.disks) : request'.source.disks[i] \notin sources'
                    \/ ~qemu_img'
  BY DEF StillMissing
<1>1. ASSUME NEW r \in Requests, Begin(r) PROVE FALSE
  <2>1. results' = <<>>
    BY <1>1 DEF Begin
  <2> QED BY <2>1 DEF Reproached, Failed
<1>2. CASE Validation
  <2>1. /\ UNCHANGED <<request, readable, qemu_img, given>> /\ sources' = sources /\ at # "idle"
        /\ ~given /\ ~request.source.ova /\ request.source.disks # <<>>
    BY <1>2, ValidationSteps DEF world, history, Reproached
  <2>2. Failed({"source", "disk", "qemu-img"})'
    BY DEF Reproached
  <2>3. CASE Failed({"source", "disk", "qemu-img"})
    BY <2>1, <2>3 DEF StillMissing, Reproached
  <2>4. CASE ~Failed({"source", "disk", "qemu-img"})
    <3>1. CASE CheckSource
      <4> DEFINE identified == request.source \notin Unidentified
                 first  == [check |-> "source", ok |-> TRUE]
                 second == [check |-> "guest", ok |-> identified]
      <4>1. first.ok /\ second.check = "guest"
        OBVIOUS
      <4>2. results' = << first, second >>
        BY <3>1 DEF CheckSource
      <4> HIDE DEF first, second
      <4>3. \A i \in 1..Len(results') : results'[i] = first \/ results'[i] = second
        BY <4>2
      <4>4. "guest" \notin {"source", "disk", "qemu-img"}
        OBVIOUS
      <4> QED BY <2>2, <4>1, <4>3, <4>4 DEF Failed
    <3>2. CASE CheckSourceFails
      BY <2>1, <3>2 DEF CheckSourceFails
    <3>3. CASE CheckOvmf
      <4>1. results' = results \/ results' = Append(results, [check |-> "ovmf", ok |-> ovmf])
        BY <3>3 DEF CheckOvmf, Reported
      <4>2. results' # results
        BY <2>2, <2>4 DEF Failed
      <4> QED BY <2>2, <2>4, <4>1, <4>2, AppendedIsReproached
    <3>4. CASE CheckDisk
      <4> DEFINE there == request.source.disks[nth] \in sources
      <4>1. results' = Append(results, [check |-> "disk", ok |-> there])
        BY <3>4 DEF CheckDisk, Reported
      <4> HIDE DEF there
      <4>2. ~there
        BY <2>2, <2>4, <4>1, AppendedIsReproached
      <4>3. nth \in 1..Len(request.source.disks)
        <5>1. nth \in Nat \ {0} /\ request \in Requests /\ nth <= Len(request.source.disks)
          BY <2>1, <3>4 DEF VTypeOK, CheckDisk
        <5> QED BY <5>1, RequestFields
      <4> QED BY <2>1, <4>2, <4>3 DEF there
    <3>5. CASE CheckQemuImg
      <4>1. results' = Append(results, [check |-> "qemu-img", ok |-> qemu_img])
        BY <3>5 DEF CheckQemuImg, Reported
      <4> QED BY <2>1, <2>2, <2>4, <4>1, AppendedIsReproached
    <3>6. CASE CheckOutDir
      <4> DEFINE there == CheckedDir \in dirs
      <4>1. results' = Append(results, [check |-> "outdir", ok |-> there])
        BY <3>6 DEF CheckOutDir, Reported
      <4> HIDE DEF there
      <4> QED BY <2>2, <2>4, <4>1, AppendedIsReproached
    <3>7. CASE CheckFreeSpace
      <4> DEFINE enough == room[CheckedDir] >= TotalDiskBytes(request.source)
      <4>1. results' = results \/ results' = Append(results, [check |-> "space", ok |-> enough])
        BY <3>7 DEF CheckFreeSpace, Reported
      <4> HIDE DEF enough
      <4>2. results' # results
        BY <2>2, <2>4 DEF Failed
      <4> QED BY <2>2, <2>4, <4>1, <4>2, AppendedIsReproached
    <3> QED BY <1>2, <3>1, <3>2, <3>3, <3>4, <3>5, <3>6, <3>7 DEF Validation
  <2> QED BY <2>3, <2>4
<1>3. CASE (\E r \in Invocations : StartMigration(r)) \/ Migrate \/ OthersAct
  <2>1. NothingFound /\ Reproached
    BY <1>3, OthersFindNothing
  <2> QED BY <2>1 DEF NothingFound, StillMissing, checking
<1>4. CASE UNCHANGED allvars
  BY <1>4 DEF allvars, vars, checking, world, history, StillMissing, Reproached, Failed
<1> QED BY <1>1, <1>2, <1>3, <1>4 DEF VNext, Rest

LEMMA StepBlocked ==
  /\ OvaDisksApart /\ VTypeOK /\ BeforeTheLoop /\ OneAtATime /\ StillMissing /\ Blocked
  /\ [VNext]_allvars
  => Blocked'
<1> SUFFICES ASSUME OvaDisksApart, VTypeOK, BeforeTheLoop, OneAtATime, StillMissing, Blocked,
                    [VNext]_allvars, Reproached', SameExport'
             PROVE  Blocked'
  BY DEF Blocked
<1>0. after'
  BY DEF SameExport
<1>1. ASSUME NEW r \in Requests, Begin(r) PROVE FALSE
  BY <1>0, <1>1 DEF Begin
<1>2. CASE Validation
  BY <1>0, <1>2, ValidationSteps DEF history, OneAtATime
<1>3. ASSUME NEW r \in Invocations, StartMigration(r) PROVE Blocked'
  <2>1. NothingFound /\ Reproached
    BY <1>3, OthersFindNothing
  <2>2. UNCHANGED <<request, readable, sources, qemu_img>> /\ stage' = "parse" /\ vm' = request.source
    BY <1>3 DEF StartMigration, Invoke, checking, world, SameExport, vm
  <2> QED BY <2>1, <2>2 DEF StillMissing, Blocked
<1>4. CASE Migrate
  <2>1. NothingFound /\ Reproached
    BY <1>4, OthersFindNothing
  <2>2. /\ TypeOK /\ Pipeline /\ UNCHANGED <<request, after, readable, qemu_img>>
        /\ (stage = "parse" /\ vm \notin readable) => stage' = "failed"
        /\ stage' = "qemu" => qemu_img
    BY <1>4 DEF Migrate, checking, VTypeOK
  <2>3. run' = run /\ SameExport /\ vm' = vm /\ vm = request.source /\ ~run.dry_run
    BY <2>2, PipelineSteps DEF SameExport, vm
  <2>4. next \in Nat \ {0} /\ stage \in Running
    BY <2>2, PipelineSteps DEF TypeOK
  <2>5. vm.disks # <<>> /\ vm.disks \in Seq(Disk) /\ Len(vm.disks) \in Nat \ {0}
    <3>1. request.source.disks # <<>> /\ request \in Requests
      BY <2>1 DEF Reproached, VTypeOK
    <3>2. request.source.disks \in Seq(Disk)
      BY <3>1, RequestFields
    <3> QED BY <2>3, <3>1, <3>2
  <2>6. CASE request.source \notin readable /\ stage \in {"parse", "failed"}
    BY <2>2, <2>3, <2>4, <2>6 DEF Blocked, Running, Migrating
  <2>7. ASSUME NEW i \in 1..Len(vm.disks), vm.disks[i] \notin sources,
               \/ stage \in {"parse", "preflight", "failed"}
               \/ stage = "convert" /\ next <= i
               \/ stage = "qemu" /\ next < i
        PROVE  Blocked'
    <3>1. vm'.disks[i] \notin sources' /\ i \in 1..Len(vm'.disks)
      BY <2>1, <2>3, <2>7 DEF NothingFound
    <3>2. stage # "convert" \/ (next <= Len(vm.disks) /\ (stage' = "qemu" => next < i))
      <4>1. ASSUME stage = "convert" PROVE next <= Len(vm.disks) /\ (stage' = "qemu" => next < i)
        <5>1. next <= i /\ next <= Len(vm.disks)
          BY <2>4, <2>5, <2>7, <4>1
        <5>2. stage' = "qemu" => next # i
          BY <2>2, <2>7, <4>1, PipelineSteps DEF CurrentDisk
        <5> QED BY <2>4, <5>1, <5>2
      <4> QED BY <4>1
    <3>3. \/ stage' \in {"parse", "preflight", "failed"}
          \/ stage' = "convert" /\ next' <= i
          \/ stage' = "qemu" /\ next' < i
      <4>1. CASE stage = "parse"
        BY <2>2, <4>1, PipelineSteps
      <4>2. CASE stage = "preflight"
        <5>1. next' = 1 /\ stage' \in {"convert", "failed"}
          BY <2>2, <2>3, <4>2, PipelineSteps DEF BeforeTheLoop
        <5> QED BY <2>5, <5>1
      <4>3. CASE stage = "convert"
        <5>1. next' = next /\ stage' \in {"qemu", "failed"}
          BY <2>2, <2>4, <2>5, <3>2, <4>3, PipelineSteps
        <5> QED BY <3>2, <4>3, <5>1
      <4>4. CASE stage = "qemu"
        <5>1. next < i
          BY <2>7, <4>4
        <5>2. (stage' = "convert" /\ next' = next + 1) \/ stage' = "failed"
          BY <2>2, <4>4, PipelineSteps
        <5> QED BY <2>4, <2>5, <5>1, <5>2
      <4> QED BY <2>4, <2>7, <4>1, <4>2, <4>3, <4>4 DEF Running, Migrating
    <3> QED BY <3>1, <3>3 DEF Blocked
  <2>8. CASE ~qemu_img /\ (stage \in {"parse", "preflight", "failed"} \/ (stage = "convert" /\ next = 1))
    <3>1. stage' \in {"parse", "preflight", "failed"} \/ (stage' = "convert" /\ next' = 1)
      <4>1. CASE stage = "parse"
        BY <2>2, <4>1, PipelineSteps
      <4>2. CASE stage = "preflight"
        BY <2>2, <2>3, <4>2, PipelineSteps DEF BeforeTheLoop
      <4>3. CASE stage = "convert"
        <5>1. ~(next > Len(vm.disks))
          BY <2>5, <2>8, <4>3
        <5> QED BY <2>2, <2>8, <4>3, <5>1, PipelineSteps
      <4> QED BY <2>4, <2>8, <4>1, <4>2, <4>3 DEF Running, Migrating
    <3> QED BY <2>2, <2>8, <3>1 DEF Blocked
  <2> QED BY <2>1, <2>3, <2>6, <2>7, <2>8 DEF Blocked
<1>5. CASE OthersAct
  <2>1. NothingFound /\ Reproached
    BY <1>5, OthersFindNothing
  <2>2. UNCHANGED <<request, run, after, stage, next>> /\ vm' = vm
    BY <1>5 DEF OthersAct, checking, vm
  <2>3. SameExport /\ vm = request.source
    BY <2>2 DEF SameExport, vm
  <2> QED BY <2>1, <2>2, <2>3 DEF NothingFound, Blocked
<1>6. CASE UNCHANGED allvars
  BY <1>6 DEF allvars, vars, checking, world, history, Blocked, Reproached, Failed, SameExport, vm
<1> QED BY <1>1, <1>2, <1>3, <1>4, <1>5, <1>6 DEF VNext, Rest

-----------------------------------------------------------------------------
(* The theorems.                                                           *)

(* The types of the variables, the migration's and the world's, for every  *)
(* set of command lines.                                                   *)
THEOREM WorldTypeCorrect == VSpec => [](VTypeOK /\ BeforeTheLoop /\ OneAtATime)
  BY InitVTypeOK, StepVTypeOK, StepOrder, PTL DEF VSpec

(* A validation that has passed is kept: unless something is taken away,   *)
(* the migration it was run for finds the export, its disks, qemu-img, the *)
(* directory, the firmware, and room for every disk until it has written   *)
(* the last one.                                                           *)
THEOREM PassesAreKept == VSpec => []PassedIsKept
<1>1. VInit => KeptInv
  <2>1. VInit => StillThere /\ RoomLeft
    BY DEF VInit, StillThere, RoomLeft
  <2>2. VInit => NoFailure
    BY DEF VInit, Init, NoFailure
  <2> QED BY <2>1, <2>2, InitVTypeOK DEF KeptInv
<1>2. KeptInv /\ [VNext]_allvars => KeptInv'
  BY StepVTypeOK, StepOrder, StepStillThere, StepRoomLeft, StepNoFailure DEF KeptInv
<1>3. KeptInv => PassedIsKept
  <2> SUFFICES ASSUME KeptInv, Covered, Passed, ~taken
               PROVE  stage # "failed" /\ (is_efi(vm) => ovmf)
    BY DEF PassedIsKept, Covered
  <2>1. Sound /\ at = "done" /\ vm = request.source
    BY DEF Passed, Sound, Covered, SameExport, vm
  <2> QED BY <2>1 DEF KeptInv, NoFailure, StillThere
<1> QED BY <1>1, <1>2, <1>3, PTL DEF VSpec

(* A report that the source, a disk or qemu-img is missing is no false     *)
(* alarm: unless something is supplied, the migration does not succeed.    *)
(* That a disk of the export is not part of someone's OVA holds because an *)
(* OVA is unpacked into a new directory.                                   *)
THEOREM AlarmsAreTrue == OvaDisksApart /\ VSpec => []FailedIsRefused
<1>1. VInit => RefusedInv
  <2>1. VInit => StillMissing /\ Blocked
    BY DEF VInit, StillMissing, Blocked, Reproached, SameExport
  <2> QED BY <2>1, InitVTypeOK DEF RefusedInv
<1>2. OvaDisksApart /\ RefusedInv /\ [VNext]_allvars => RefusedInv'
  BY StepVTypeOK, StepOrder, StepStillMissing, StepBlocked DEF RefusedInv
<1>3. RefusedInv => FailedIsRefused
  <2> SUFFICES ASSUME RefusedInv, SameExport, ~given, ~vm.ova, vm.disks # <<>>,
                      Failed({"source", "disk", "qemu-img"})
               PROVE  stage # "ok"
    BY DEF FailedIsRefused
  <2>1. after /\ vm = request.source
    BY DEF SameExport, vm
  <2>2. Reproached
    BY <2>1 DEF Reproached, RefusedInv, OneAtATime
  <2> QED BY <2>2 DEF RefusedInv, Blocked
<1>4. OvaDisksApart => OvaDisksApart'
  BY DEF OvaDisksApart
<1> QED BY <1>1, <1>2, <1>3, <1>4, PTL DEF VSpec
=============================================================================
