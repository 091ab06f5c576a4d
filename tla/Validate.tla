------------------------------ MODULE Validate ------------------------------
(***************************************************************************)
(* vmfree validate (cli.py, _run_validate) before vmfree migrate.  The     *)
(* checks look at the world one after the other, and Migration goes on in  *)
(* the same world, whose users supply and take away what both need: disks, *)
(* qemu-img, the OVMF firmware, directories and room on the file systems.  *)
(* Migrations are without --execute.                                       *)
(***************************************************************************)
EXTENDS Migration, VmModel

CONSTANTS
  Requests,     \* command lines of validate: [source, output]
  Cwd,          \* the working directory: validate's default for --output
  Unidentified, \* exports without a guest identifier
  Capacity,     \* Capacity[d]: the size of disk d, in blocks
  Known,        \* Known[d]: what the parser says of it, 0 for "unknown"
  Metadata,     \* what a qcow2 file may take beyond the capacity of its disk
  MaxRoom,      \* bound: free blocks of a directory's file system
  MaxChanges,   \* bound: how often the world changes
  MaxCommands   \* bound: how many command lines are typed

ASSUME SizesAssumption    == \A d \in Disk : Capacity[d] \in Nat /\ Known[d] \in {0, Capacity[d]}
ASSUME RequestsAssumption == Requests \subseteq [source : Exports, output : Dir \cup {NoOutput}] /\ Cwd \in Dir
ASSUME RoomAssumption     == MaxRoom \in Nat /\ Metadata \in Nat
ASSUME NotExecuted        == \A r \in Invocations : ~r.execute

VARIABLES
  at,        \* the check that comes next, or "done"
  request,
  nth,       \* the loop over vm.disks
  results,   \* [check, ok] for each check done
  qemu_img,  \* is it on PATH?
  ovmf,      \* is the firmware installed?
  readable,  \* the exports whose file can be parsed
  room,      \* room[dir]: free blocks there
  used,      \* used[path]: blocks an image takes
  changes,
  commands,
  taken,     \* since the last validation began: has something been taken away,
  given,     \* has something been supplied,
  after      \* and is run the first migration since it ended?

checking == <<at, request, nth, results>>
world    == <<qemu_img, ovmf, readable, room, used>>
history  == <<changes, commands, taken, given, after>>
allvars  == <<vars, checking, world, history>>

NoRequest == [source |-> "none"]

CheckedDir == IF request.output = NoOutput THEN Cwd ELSE request.output

VInit == /\ Init
         /\ at = "idle" /\ request = NoRequest /\ nth = 1 /\ results = <<>>
         /\ qemu_img \in BOOLEAN /\ ovmf \in BOOLEAN
         /\ readable = Exports
         /\ room = [dir \in Dir |-> MaxRoom]
         /\ used = [p \in ImagePaths |-> 0]
         /\ changes = 0 /\ commands = 0 /\ taken = FALSE /\ given = FALSE /\ after = FALSE

-----------------------------------------------------------------------------
(* _run_validate.                                                          *)

Begin(r) == /\ stage \in Ended /\ at \in {"idle", "done"}
            /\ at' = "parse" /\ request' = r /\ nth' = 1 /\ results' = <<>>
            /\ taken' = FALSE /\ given' = FALSE /\ after' = FALSE
            /\ commands < MaxCommands /\ commands' = commands + 1
            /\ UNCHANGED <<vars, world, changes>>

Reported(check, ok) == results' = Append(results, [check |-> check, ok |-> ok])

Check(here, there) == /\ at = here /\ at' = there
                      /\ UNCHANGED <<request, world, history>>

\* Checks 1 and 2.
CheckSource == /\ Check("parse", "ovmf")
               /\ request.source \in readable
               /\ results' = << [check |-> "source", ok |-> TRUE],
                                [check |-> "guest", ok |-> request.source \notin Unidentified] >>
               /\ Unpack(request.source)
               /\ UNCHANGED <<nth, stage, run, next, todo, dirs, image, config, host>>

\* The parser raises, before or after an OVA is unpacked: nothing more is checked.
CheckSourceFails == /\ Check("parse", "done")
                    /\ request.source \notin readable
                    /\ Reported("source", FALSE)
                    /\ Unpack(request.source) \/ UNCHANGED <<unpacked, sources>>
                    /\ UNCHANGED <<nth, stage, run, next, todo, dirs, image, config, host>>

\* Check 5; 3 and 4 only tell what will be done.
CheckOvmf == /\ Check("ovmf", "disks")
             /\ IF is_efi(request.source) THEN Reported("ovmf", ovmf) ELSE UNCHANGED results
             /\ UNCHANGED <<vars, nth>>

\* Mutant: looked for under its bare name, in the working directory.
CheckDisk_ByName == /\ Check("disks", "disks")
                    /\ nth <= Len(request.source.disks)
                    /\ Reported("disk", request.source.disks[nth] \in sources /\ request.source.dir = Cwd)
                    /\ nth' = nth + 1
                    /\ UNCHANGED vars

\* Mutant: the loop does not advance.
CheckDisk_Stays == /\ Check("disks", "disks")
                   /\ nth <= Len(request.source.disks)
                   /\ UNCHANGED <<vars, nth, results>>

\* Check 6, for each disk.
CheckDisk == /\ Check("disks", "disks")
             /\ nth <= Len(request.source.disks)
             /\ Reported("disk", request.source.disks[nth] \in sources)
             /\ nth' = nth + 1
             /\ UNCHANGED vars

\* Check 7.
CheckQemuImg == /\ Check("disks", "outdir")
                /\ nth > Len(request.source.disks)
                /\ Reported("qemu-img", qemu_img)
                /\ UNCHANGED <<vars, nth>>

\* Check 8.
CheckOutDir == /\ Check("outdir", "space")
               /\ Reported("outdir", CheckedDir \in dirs)
               /\ UNCHANGED <<vars, nth>>

\* Mutant: room for the largest disk is enough.
TotalDiskBytes_Largest(x) ==
  IF x.disks = <<>> THEN 0
  ELSE CHOOSE n \in {Known[x.disks[i]] : i \in 1..Len(x.disks)} : \A i \in 1..Len(x.disks) : Known[x.disks[i]] <= n

TotalDiskBytes(x) ==
  LET sum[n \in 0..Len(x.disks)] == IF n = 0 THEN 0 ELSE sum[n - 1] + Known[x.disks[n]]
  IN  sum[Len(x.disks)]

\* Check 9, if there is a directory and a size; 10 always passes.
CheckFreeSpace == /\ Check("space", "done")
                  /\ IF CheckedDir \in dirs /\ TotalDiskBytes(request.source) > 0
                       THEN Reported("space", room[CheckedDir] >= TotalDiskBytes(request.source))
                       ELSE UNCHANGED results
                  /\ UNCHANGED <<vars, nth>>

Validation == \/ CheckSource \/ CheckSourceFails \/ CheckOvmf \/ CheckDisk \/ CheckQemuImg
              \/ CheckOutDir \/ CheckFreeSpace

-----------------------------------------------------------------------------
(* Migration in this world.                                                *)

CanConvert == CurrentDisk \in sources /\ OutDir(run) \in dirs /\ qemu_img

\* What qemu-img may need for the current disk.
Need == Capacity[CurrentDisk] + (IF run.format = "qcow2" THEN Metadata ELSE 0)

\* The reasons this world gives a migration to end.
Refused == \/ stage = "parse" /\ vm \notin readable
           \/ stage = "convert" /\ next <= Len(vm.disks) /\ ~CanConvert
           \/ stage = "qemu" /\ Need > room[OutDir(run)]
           \/ stage \in {"preflight", "convert"} /\ GenerateFails

\* Room is given back by a file that is truncated and taken by one that is
\* written: nothing (all holes) or all it can, and nothing in between (bound).
Space ==
  LET dir  == OutDir(run)
      path == ImagePath(run, CurrentDisk)
  IN  CASE stage = "convert" /\ stage' = "qemu" ->
             room' = [room EXCEPT ![dir] = @ + used[path]] /\ used' = [used EXCEPT ![path] = 0]
        [] stage = "qemu" ->
             \E n \in {0, IF Need <= room[dir] THEN Need ELSE room[dir]} :
               /\ room' = [room EXCEPT ![dir] = @ - n] /\ used' = [used EXCEPT ![path] = n]
        [] OTHER -> UNCHANGED <<room, used>>

\* A step of the program.  One that fails without a reason has met what
\* nobody checks (an I/O error): that counts as something taken away.
Migrate == /\ Pipeline
           /\ (stage = "parse" /\ vm \notin readable) => stage' = "failed"
           /\ stage' = "qemu" => qemu_img
           /\ Space
           /\ taken' = (taken \/ (stage' = "failed" /\ ~Refused))
           /\ UNCHANGED <<checking, qemu_img, ovmf, readable, changes, commands, given, after>>

\* One migration after another: the earlier one has taken room.
StartMigration(r) == /\ Invoke(r)
                     /\ at \in {"idle", "done"}
                     /\ commands < MaxCommands
                     /\ commands' = commands + 1
                     /\ after' = (at = "done")
                     /\ taken' = (taken \/ after)
                     /\ UNCHANGED <<checking, world, changes, given>>

-----------------------------------------------------------------------------
(* The world: others supply or take away what a command line needs.        *)

Supplied == /\ given' = TRUE
            /\ UNCHANGED taken
            /\ \/ /\ ~qemu_img /\ qemu_img' = TRUE
                  /\ UNCHANGED <<ovmf, readable, room, sources, dirs>>
               \/ /\ ~ovmf /\ ovmf' = TRUE
                  /\ UNCHANGED <<qemu_img, readable, room, sources, dirs>>
               \/ /\ \E d \in Disk \ sources : sources' = sources \cup {d}
                  /\ UNCHANGED <<qemu_img, ovmf, readable, room, dirs>>
               \/ /\ \E dir \in Dir \ dirs : dirs' = dirs \cup {dir}
                  /\ UNCHANGED <<qemu_img, ovmf, readable, room, sources>>

TakenAway == /\ taken' = TRUE
             /\ UNCHANGED given
             /\ \/ /\ qemu_img /\ qemu_img' = FALSE
                   /\ UNCHANGED <<ovmf, readable, room, sources>>
                \/ /\ ovmf /\ ovmf' = FALSE
                   /\ UNCHANGED <<qemu_img, readable, room, sources>>
                \/ /\ \E x \in readable : readable' = readable \ {x}
                   /\ UNCHANGED <<qemu_img, ovmf, room, sources>>
                \/ /\ \E d \in sources : sources' = sources \ {d}
                   /\ UNCHANGED <<qemu_img, ovmf, readable, room>>
                \/ /\ \E dir \in Dir : room[dir] > 0 /\ room' = [room EXCEPT ![dir] = @ - 1]
                   /\ UNCHANGED <<qemu_img, ovmf, readable, sources>>
             /\ UNCHANGED dirs

OthersAct == /\ changes < MaxChanges
             /\ changes' = changes + 1
             /\ Supplied \/ TakenAway
             /\ UNCHANGED <<stage, run, next, todo, image, config, unpacked, host, checking, used, commands, after>>

\* The user leaves it at that: the only states without another step.
Rest == stage \in Ended /\ at \in {"idle", "done"} /\ UNCHANGED allvars

VNext == \/ \E r \in Requests : Begin(r)
         \/ Validation
         \/ \E r \in Invocations : StartMigration(r)
         \/ Migrate
         \/ OthersAct
         \/ Rest

VSpec == VInit /\ [][VNext]_allvars /\ WF_allvars(Validation) /\ WF_allvars(Migrate)

-----------------------------------------------------------------------------
Passed == at = "done" /\ \A i \in 1..Len(results) : results[i].ok

Failed(checks) == \E i \in 1..Len(results) : results[i].check \in checks /\ ~results[i].ok

SameExport == after /\ run.source = request.source /\ ~run.dry_run

(***************************************************************************)
(* When validate has passed and nothing was taken away since it began, a   *)
(* migration of the same export to the directory that was checked does not *)
(* fail, and a guest that needs OVMF finds it.  This takes sizes that are  *)
(* known, raw images (a qcow2 file may take more than its disk), and no    *)
(* more disks than the generator has letters for: validate checks neither. *)
(***************************************************************************)
PassedIsKept ==
  /\ SameExport /\ Passed /\ ~taken
  /\ OutDir(run) = CheckedDir /\ run.format = "raw" /\ ~GenerateFails
  /\ \A i \in 1..Len(vm.disks) : Known[vm.disks[i]] = Capacity[vm.disks[i]]
  => stage # "failed" /\ (is_efi(vm) => ovmf)

(***************************************************************************)
(* When validate has reported that the source, a disk or qemu-img is       *)
(* missing, and nothing was supplied since it began, a migration of the    *)
(* same export does not succeed: these reports are never false alarms.  An *)
(* OVA brings its disks along each time.                                   *)
(***************************************************************************)
FailedIsRefused ==
  /\ SameExport /\ ~given /\ ~vm.ova /\ vm.disks # <<>>
  /\ Failed({"source", "disk", "qemu-img"})
  => stage # "ok"

(* Every validation comes to its end, whatever happens around it.          *)
EveryValidationEnds == at \notin {"idle", "done"} ~> at = "done"
=============================================================================
