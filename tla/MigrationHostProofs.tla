------------------------- MODULE MigrationHostProofs -------------------------
(***************************************************************************)
(* Theorems about Migration that reach as far as the Proxmox node: what    *)
(* the commands of a script, run to the end or cut off anywhere, have made *)
(* of the VM there.  For any exports, command lines and directories.       *)
(***************************************************************************)
EXTENDS MigrationProofs, SequenceTheorems

-----------------------------------------------------------------------------
(* The commands of a migration, one by one.                                *)
Size(r)     == Len(r.source.disks)
Slot(r, i)  == <<ProxmoxPrefix(Hardware(r)), i - 1>>
NeedsEfi(r) == Hardware(r).firmware # NoFirmware

Create(r)    == CreateCommand(r.source, Hardware(r), r.net)
Import(r, i) == [op |-> "importdisk", file |-> ImagePath(r, r.source.disks[i])]
Attach(r, i) == [op |-> "attach", slot |-> Slot(r, i), volume |-> i - 1]
Boot(r)      == [op |-> "boot", slot |-> Slot(r, 1)]
Efidisk      == [op |-> "efidisk"]

AllCommands == {Create(r) : r \in Invocations} \cup {Efidisk} \cup {Boot(r) : r \in Invocations}
                 \cup (UNION {{Import(r, i) : i \in 1..Size(r)} : r \in Invocations})
                 \cup (UNION {{Attach(r, i) : i \in 1..Size(r)} : r \in Invocations})

LEMMA CommandsAre ==
  ASSUME NEW r \in Invocations
  PROVE  LET c == Commands(r)
             n == Size(r)
         IN  /\ c \in Seq(AllCommands) /\ n \in Nat
             /\ Len(c) = 1 + 2 * n + (IF n = 0 THEN 0 ELSE 1) + (IF NeedsEfi(r) THEN 1 ELSE 0)
             /\ c[1] = Create(r)
             /\ \A i \in 1..n : c[1 + i] = Import(r, i)
             /\ \A i \in 1..n : c[1 + n + i] = Attach(r, i)
             /\ n # 0 => c[2 * n + 2] = Boot(r)
             /\ NeedsEfi(r) => c[Len(c)] = Efidisk
<1> DEFINE n       == Size(r)
           imports == [i \in 1..n |-> Import(r, i)]
           attach  == [i \in 1..n |-> Attach(r, i)]
           boot    == IF n = 0 THEN <<>> ELSE << Boot(r) >>
           efi     == IF NeedsEfi(r) THEN << Efidisk >> ELSE <<>>
           s1      == << Create(r) >>
           s2      == s1 \o imports
           s3      == s2 \o attach
           s4      == s3 \o boot
           s5      == s4 \o efi
<1>1. n \in Nat /\ r.source.disks \in Seq(Disk)
  BY InvocationFields DEF Size
<1>2. ImportCommands(ConvertedPaths(r, Len(r.source.disks))) = imports
  <2>1. Len(ConvertedPaths(r, n)) = n
    BY <1>1 DEF ConvertedPaths
  <2>2. \A i \in 1..n : ConvertedPaths(r, n)[i] = ImagePath(r, r.source.disks[i])
    BY <1>1 DEF ConvertedPaths
  <2> QED BY <2>1, <2>2 DEF ImportCommands, Import, Size
<1>3. AttachCommands(r.source, Hardware(r)) = attach
  BY DEF AttachCommands, Attach, Slot, Size
<1>4. BootCommands(r.source, Hardware(r)) = boot
  <2>1. r.source.disks = <<>> <=> n = 0
    BY <1>1 DEF Size
  <2>2. Boot(r) = [op |-> "boot", slot |-> <<ProxmoxPrefix(Hardware(r)), 0>>]
    BY DEF Boot, Slot
  <2> QED BY <2>1, <2>2, Zenon DEF BootCommands
<1>5. EfidiskCommands(Hardware(r)) = efi
  BY Zenon DEF EfidiskCommands, NeedsEfi, Efidisk
<1>6. Commands(r) = s5
  BY <1>2, <1>3, <1>4, <1>5, Zenon DEF Commands, generate_proxmox_commands, Create
<1>7. /\ Create(r) \in AllCommands /\ Boot(r) \in AllCommands /\ Efidisk \in AllCommands
      /\ \A i \in 1..n : Import(r, i) \in AllCommands
      /\ \A i \in 1..n : Attach(r, i) \in AllCommands
  <2>1. Create(r) \in AllCommands /\ Boot(r) \in AllCommands /\ Efidisk \in AllCommands
    BY Zenon DEF AllCommands
  <2>2. ASSUME NEW i \in 1..n PROVE Import(r, i) \in AllCommands
    <3>1. Import(r, i) \in {Import(r, j) : j \in 1..Size(r)}
      BY Zenon
    <3>2. Import(r, i) \in UNION {{Import(q, j) : j \in 1..Size(q)} : q \in Invocations}
      BY <3>1, Zenon
    <3> QED BY <3>2, Zenon DEF AllCommands
  <2>3. ASSUME NEW i \in 1..n PROVE Attach(r, i) \in AllCommands
    <3>1. Attach(r, i) \in {Attach(r, j) : j \in 1..Size(r)}
      BY Zenon
    <3>2. Attach(r, i) \in UNION {{Attach(q, j) : j \in 1..Size(q)} : q \in Invocations}
      BY <3>1, Zenon
    <3> QED BY <3>2, Zenon DEF AllCommands
  <2> QED BY <2>1, <2>2, <2>3
<1> HIDE DEF n
<1>8. /\ s1 \in Seq(AllCommands) /\ Len(s1) = 1 /\ s1[1] = Create(r)
      /\ imports \in Seq(AllCommands) /\ Len(imports) = n
      /\ attach \in Seq(AllCommands) /\ Len(attach) = n
  BY <1>1, <1>7
<1>9. /\ boot \in Seq(AllCommands) /\ Len(boot) = (IF n = 0 THEN 0 ELSE 1)
      /\ n # 0 => boot[1] = Boot(r)
  BY <1>7
<1>10. /\ efi \in Seq(AllCommands) /\ Len(efi) = (IF NeedsEfi(r) THEN 1 ELSE 0)
       /\ NeedsEfi(r) => efi[1] = Efidisk
  BY <1>7
<1>11. \A i \in 1..n : imports[i] = Import(r, i) /\ attach[i] = Attach(r, i)
  OBVIOUS
<1> HIDE DEF imports, attach, boot, efi, s1, s2, s3, s4, s5
<1>s. s2 = s1 \o imports /\ s3 = s2 \o attach /\ s4 = s3 \o boot /\ s5 = s4 \o efi
  BY Zenon DEF s2, s3, s4, s5
<1>12. /\ s2 \in Seq(AllCommands) /\ Len(s2) = 1 + n
       /\ s2[1] = Create(r) /\ \A i \in 1..n : s2[1 + i] = Import(r, i)
  <2>1. /\ s2 \in Seq(AllCommands) /\ Len(s2) = Len(s1) + Len(imports)
        /\ \A i \in 1..Len(s1) : s2[i] = s1[i]
        /\ \A i \in 1..Len(imports) : s2[Len(s1) + i] = imports[i]
    <3>1. s1 \in Seq(AllCommands) /\ imports \in Seq(AllCommands) /\ s2 = s1 \o imports
      BY <1>8, <1>s
    <3> QED BY ONLY <3>1
  <2>2. 1 \in 1..Len(s1)
    BY <1>8
  <2> QED BY <1>8, <1>11, <2>1, <2>2
<1>13. /\ s3 \in Seq(AllCommands) /\ Len(s3) = 1 + 2 * n
       /\ s3[1] = Create(r) /\ \A i \in 1..n : s3[1 + i] = Import(r, i)
       /\ \A i \in 1..n : s3[1 + n + i] = Attach(r, i)
  <2>1. /\ s3 \in Seq(AllCommands) /\ Len(s3) = Len(s2) + Len(attach)
        /\ \A i \in 1..Len(s2) : s3[i] = s2[i]
        /\ \A i \in 1..Len(attach) : s3[Len(s2) + i] = attach[i]
    <3>1. s2 \in Seq(AllCommands) /\ attach \in Seq(AllCommands) /\ s3 = s2 \o attach
      BY <1>8, <1>12, <1>s
    <3> QED BY ONLY <3>1
  <2>2. 1 \in 1..Len(s2) /\ \A i \in 1..n : 1 + i \in 1..Len(s2)
    BY <1>1, <1>12
  <2>3. Len(s3) = 1 + 2 * n
    BY <1>1, <1>8, <1>12, <2>1
  <2>4. \A i \in 1..n : s3[1 + n + i] = Attach(r, i)
    BY <1>8, <1>11, <1>12, <2>1
  <2> QED BY <1>12, <2>1, <2>2, <2>3, <2>4
<1>14. /\ s4 \in Seq(AllCommands) /\ Len(s4) = 1 + 2 * n + (IF n = 0 THEN 0 ELSE 1)
       /\ s4[1] = Create(r)
       /\ \A i \in 1..n : s4[1 + i] = Import(r, i)
       /\ \A i \in 1..n : s4[1 + n + i] = Attach(r, i)
       /\ n # 0 => s4[2 * n + 2] = Boot(r)
  <2>1. /\ s4 \in Seq(AllCommands) /\ Len(s4) = Len(s3) + Len(boot)
        /\ \A i \in 1..Len(s3) : s4[i] = s3[i]
        /\ \A i \in 1..Len(boot) : s4[Len(s3) + i] = boot[i]
    <3>1. s3 \in Seq(AllCommands) /\ boot \in Seq(AllCommands) /\ s4 = s3 \o boot
      BY <1>9, <1>13, <1>s
    <3> QED BY ONLY <3>1
  <2>2. 1 \in 1..Len(s3) /\ \A i \in 1..n : 1 + i \in 1..Len(s3) /\ 1 + n + i \in 1..Len(s3)
    BY <1>1, <1>13
  <2>3. n # 0 => 1 \in 1..Len(boot) /\ Len(s3) + 1 = 2 * n + 2
    BY <1>1, <1>9, <1>13
  <2>4. n # 0 => s4[Len(s3) + 1] = Boot(r)
    BY <1>9, <2>1, <2>3
  <2>5. s4[1] = Create(r)
    BY <1>13, <2>1, <2>2
  <2>6. \A i \in 1..n : s4[1 + i] = Import(r, i)
    BY <1>13, <2>1, <2>2
  <2>7. \A i \in 1..n : s4[1 + n + i] = Attach(r, i)
    BY <1>13, <2>1, <2>2
  <2>8. Len(s4) = 1 + 2 * n + (IF n = 0 THEN 0 ELSE 1)
    BY <1>9, <1>13, <2>1
  <2> QED BY <2>1, <2>3, <2>4, <2>5, <2>6, <2>7, <2>8
<1>15. /\ s5 \in Seq(AllCommands) /\ Len(s5) = Len(s4) + Len(efi)
       /\ \A i \in 1..Len(s4) : s5[i] = s4[i]
       /\ \A i \in 1..Len(efi) : s5[Len(s4) + i] = efi[i]
  <2>1. s4 \in Seq(AllCommands) /\ efi \in Seq(AllCommands) /\ s5 = s4 \o efi
    BY <1>10, <1>14, <1>s
  <2> QED BY ONLY <2>1
<1>16. /\ s5[1] = Create(r)
       /\ \A i \in 1..n : s5[1 + i] = Import(r, i)
       /\ \A i \in 1..n : s5[1 + n + i] = Attach(r, i)
       /\ n # 0 => s5[2 * n + 2] = Boot(r)
  <2>1. 1 \in 1..Len(s4) /\ \A i \in 1..n : 1 + i \in 1..Len(s4) /\ 1 + n + i \in 1..Len(s4)
    BY <1>1, <1>14
  <2>2. n # 0 => 2 * n + 2 \in 1..Len(s4)
    BY <1>1, <1>14
  <2> QED BY <1>14, <1>15, <2>1, <2>2
<1>17. NeedsEfi(r) => s5[Len(s5)] = Efidisk
  BY <1>10, <1>15
<1>18. Len(s5) = 1 + 2 * n + (IF n = 0 THEN 0 ELSE 1) + (IF NeedsEfi(r) THEN 1 ELSE 0)
  BY <1>10, <1>14, <1>15
<1> QED BY <1>1, <1>6, <1>15, <1>16, <1>17, <1>18 DEF n

(* Each of them is one of these five.                                      *)
LEMMA CommandKinds ==
  ASSUME NEW r \in Invocations, NEW k \in 1..Len(Commands(r))
  PROVE  \/ k = 1 /\ Commands(r)[k] = Create(r)
         \/ k - 1 \in 1..Size(r) /\ Commands(r)[k] = Import(r, k - 1)
         \/ k - 1 - Size(r) \in 1..Size(r) /\ Commands(r)[k] = Attach(r, k - 1 - Size(r))
         \/ k = 2 * Size(r) + 2 /\ Size(r) # 0 /\ Commands(r)[k] = Boot(r)
         \/ k = Len(Commands(r)) /\ NeedsEfi(r) /\ Commands(r)[k] = Efidisk
            /\ k > 2 * Size(r) + (IF Size(r) = 0 THEN 1 ELSE 2)
<1> DEFINE n == Size(r)
<1>1. /\ n \in Nat /\ k \in Nat /\ k >= 1
      /\ k <= 1 + 2 * n + (IF n = 0 THEN 0 ELSE 1) + (IF NeedsEfi(r) THEN 1 ELSE 0)
  BY CommandsAre
<1>2. CASE k = 1
  BY <1>2, CommandsAre
<1>3. CASE k - 1 \in 1..n
  <2>1. Commands(r)[1 + (k - 1)] = Import(r, k - 1) /\ 1 + (k - 1) = k
    BY <1>1, <1>3, CommandsAre
  <2> QED BY <1>3, <2>1
<1>4. CASE k - 1 - n \in 1..n
  <2>1. Commands(r)[1 + n + (k - 1 - n)] = Attach(r, k - 1 - n) /\ 1 + n + (k - 1 - n) = k
    BY <1>1, <1>4, CommandsAre
  <2> QED BY <1>4, <2>1
<1>5. CASE k = 2 * n + 2 /\ n # 0
  BY <1>5, CommandsAre
<1>6. CASE k > 2 * n + (IF n = 0 THEN 1 ELSE 2)
  BY <1>1, <1>6, CommandsAre
<1> QED BY <1>1, <1>2, <1>3, <1>4, <1>5, <1>6

-----------------------------------------------------------------------------
LEMMA NextVolumeIsFree ==
  ASSUME NEW h, FreeVolumes(h) # {}
  PROVE  NextVolume(h) \in FreeVolumes(h) /\ NextVolume(h) \in Nat
<1>1. FreeVolumes(h) \in SUBSET Nat
  BY MaxVolumeAssumption DEF FreeVolumes
<1>2. \E n \in FreeVolumes(h) : \A m \in FreeVolumes(h) : n <= m
  BY <1>1, LeastNumber
<1> QED BY <1>1, <1>2 DEF NextVolume

\* Where the volumes there are have the numbers up to n, the next one is n.
LEMMA NextVolumeInOrder ==
  ASSUME NEW h, FreeVolumes(h) # {}, NEW n \in Nat, DOMAIN h.vols = 0..(n - 1)
  PROVE  NextVolume(h) = n
<1>1. FreeVolumes(h) = n..MaxVolume
  BY MaxVolumeAssumption DEF FreeVolumes
<1>2. n \in FreeVolumes(h) /\ \A m \in FreeVolumes(h) : n <= m
  BY <1>1, MaxVolumeAssumption
<1>3. /\ NextVolume(h) \in FreeVolumes(h)
      /\ \A m \in FreeVolumes(h) : NextVolume(h) <= m
  BY <1>2 DEF NextVolume
<1> QED BY <1>1, <1>2, <1>3, MaxVolumeAssumption

-----------------------------------------------------------------------------
(* The node after a command, written out.                                  *)
HostShape(h) == /\ h = [exists |-> h.exists, vols |-> h.vols, owned |-> h.owned, slots |-> h.slots,
                         boot |-> h.boot, efi |-> h.efi, made |-> h.made]
                /\ h.exists \in BOOLEAN
                /\ DOMAIN h.vols \subseteq Nat

LEMMA AfterCreate ==
  ASSUME NEW r, NEW h, NEW c, HostShape(h), CanRun(h, Create(r), c)
  PROVE  LET g == After(h, Create(r), c)
         IN  /\ HostShape(g) /\ ~h.exists /\ g.exists
             /\ g.vols = h.vols /\ g.owned = {} /\ g.slots = <<>>
             /\ g.boot = NoSlot /\ g.efi = NoVolume /\ g.made = Create(r)
<1>1. Create(r).op = "create"
  BY DEF Create, CreateCommand
<1> HIDE DEF Create
<1>2. After(h, Create(r), c) =
        [exists |-> TRUE, vols |-> h.vols, owned |-> {}, slots |-> <<>>,
         boot |-> NoSlot, efi |-> NoVolume, made |-> Create(r)]
  BY <1>1 DEF HostShape, After
<1>3. ~h.exists
  BY <1>1 DEF HostShape, CanRun
<1> QED BY <1>2, <1>3 DEF HostShape

LEMMA AfterImport ==
  ASSUME NEW r, NEW i, NEW h, NEW c, HostShape(h), CanRun(h, Import(r, i), c)
  PROVE  LET g == After(h, Import(r, i), c)
         IN  /\ HostShape(g) /\ h.exists /\ FreeVolumes(h) # {} /\ g.exists
             /\ DOMAIN g.vols = DOMAIN h.vols \cup {NextVolume(h)}
             /\ g.vols[NextVolume(h)] = c
             /\ \A n \in DOMAIN h.vols : n # NextVolume(h) => g.vols[n] = h.vols[n]
             /\ g.owned = h.owned \cup {NextVolume(h)} /\ g.slots = h.slots
             /\ g.boot = h.boot /\ g.efi = h.efi /\ g.made = h.made
<1> DEFINE new == NextVolume(h)
<1>1. Import(r, i).op = "importdisk"
  BY DEF Import
<1>2. h.exists /\ FreeVolumes(h) # {}
  BY <1>1 DEF HostShape, CanRun
<1>3. After(h, Import(r, i), c) =
        [exists |-> h.exists, vols |-> With(h.vols, new, c), owned |-> h.owned \cup {new},
         slots |-> h.slots, boot |-> h.boot, efi |-> h.efi, made |-> h.made]
  BY <1>1 DEF HostShape, After
<1>4. new \in Nat
  BY <1>2, NextVolumeIsFree
<1> HIDE DEF new
<1> QED BY <1>2, <1>3, <1>4 DEF HostShape, With, new

LEMMA AfterAttach ==
  ASSUME NEW r, NEW i, NEW h, NEW c, HostShape(h), CanRun(h, Attach(r, i), c)
  PROVE  LET g == After(h, Attach(r, i), c)
         IN  /\ HostShape(g) /\ h.exists /\ i - 1 \in DOMAIN h.vols /\ g.exists
             /\ g.vols = h.vols /\ g.owned = h.owned \cup {i - 1}
             /\ DOMAIN g.slots = DOMAIN h.slots \cup {Slot(r, i)}
             /\ g.slots[Slot(r, i)] = i - 1
             /\ \A s \in DOMAIN h.slots : s # Slot(r, i) => g.slots[s] = h.slots[s]
             /\ g.boot = h.boot /\ g.efi = h.efi /\ g.made = h.made
<1>1. Attach(r, i).op = "attach" /\ Attach(r, i).slot = Slot(r, i) /\ Attach(r, i).volume = i - 1
  BY DEF Attach
<1>2. h.exists /\ i - 1 \in DOMAIN h.vols
  BY <1>1 DEF HostShape, CanRun
<1>3. After(h, Attach(r, i), c) =
        [exists |-> h.exists, vols |-> h.vols, owned |-> h.owned \cup {i - 1},
         slots |-> With(h.slots, Slot(r, i), i - 1), boot |-> h.boot, efi |-> h.efi, made |-> h.made]
  BY <1>1 DEF HostShape, After
<1> QED BY <1>2, <1>3 DEF HostShape, With

LEMMA AfterBoot ==
  ASSUME NEW r, NEW h, NEW c, HostShape(h), CanRun(h, Boot(r), c)
  PROVE  LET g == After(h, Boot(r), c)
         IN  /\ HostShape(g) /\ h.exists /\ g.exists
             /\ g.vols = h.vols /\ g.owned = h.owned /\ g.slots = h.slots
             /\ g.boot = Slot(r, 1) /\ g.efi = h.efi /\ g.made = h.made
<1>1. Boot(r).op = "boot" /\ Boot(r).slot = Slot(r, 1)
  BY DEF Boot
<1>2. h.exists
  BY <1>1 DEF HostShape, CanRun
<1>3. After(h, Boot(r), c) =
        [exists |-> h.exists, vols |-> h.vols, owned |-> h.owned, slots |-> h.slots,
         boot |-> Slot(r, 1), efi |-> h.efi, made |-> h.made]
  BY <1>1 DEF HostShape, After
<1> QED BY <1>2, <1>3 DEF HostShape

LEMMA AfterEfidisk ==
  ASSUME NEW h, NEW c, HostShape(h), CanRun(h, Efidisk, c)
  PROVE  LET g == After(h, Efidisk, c)
         IN  /\ HostShape(g) /\ h.exists /\ FreeVolumes(h) # {} /\ g.exists
             /\ DOMAIN g.vols = DOMAIN h.vols \cup {NextVolume(h)}
             /\ \A n \in DOMAIN h.vols : n # NextVolume(h) => g.vols[n] = h.vols[n]
             /\ g.owned = h.owned \cup {NextVolume(h)} /\ g.slots = h.slots
             /\ g.boot = h.boot /\ g.efi = NextVolume(h) /\ g.made = h.made
<1> DEFINE new == NextVolume(h)
<1>1. Efidisk.op = "efidisk"
  BY DEF Efidisk
<1>2. h.exists /\ FreeVolumes(h) # {}
  BY <1>1 DEF HostShape, CanRun
<1>3. After(h, Efidisk, c) =
        [exists |-> h.exists, vols |-> With(h.vols, new, EfiVars), owned |-> h.owned \cup {new},
         slots |-> h.slots, boot |-> h.boot, efi |-> new, made |-> h.made]
  BY <1>1 DEF HostShape, After
<1>4. new \in Nat
  BY <1>2, NextVolumeIsFree
<1> HIDE DEF new
<1> QED BY <1>2, <1>3, <1>4 DEF HostShape, With, new

-----------------------------------------------------------------------------
(* What the first k commands of r, k >= 1, have made of the node h.  The   *)
(* volumes can be told when nothing else has made any: for the careful     *)
(* owner of descriptors named apart, on a storage that was empty.          *)
Undisturbed == CarefulOwner /\ StemsApart /\ DOMAIN Strays = {}

Booted(r, k)  == Size(r) # 0 /\ k >= 2 * Size(r) + 2
EfiMade(r, k) == NeedsEfi(r) /\ k = Len(Commands(r))
Volumes(r, k) == IF k <= Size(r) THEN k - 1 ELSE IF EfiMade(r, k) THEN Size(r) + 1 ELSE Size(r)

Drives(h, r, k) == \A i \in 1..Size(r) : k >= Size(r) + 1 + i =>
                     Slot(r, i) \in DOMAIN h.slots /\ h.slots[Slot(r, i)] = i - 1

VmAfter(h, r, k) ==
  /\ h.exists
  /\ h.made = Create(r)
  /\ h.boot = IF Booted(r, k) THEN Slot(r, 1) ELSE NoSlot
  /\ IF EfiMade(r, k) THEN h.efi \in DOMAIN h.vols ELSE h.efi = NoVolume
  /\ Drives(h, r, k)

VolumesAfter(h, r, k) ==
  /\ DOMAIN h.vols = 0..(Volumes(r, k) - 1)
  /\ h.owned = DOMAIN h.vols
  /\ \A i \in 1..Size(r) : k >= 1 + i => h.vols[i - 1] = Whole(r.source.disks[i])

HostAt(h, r, k) == VmAfter(h, r, k) /\ (Undisturbed => VolumesAfter(h, r, k))

(* How many commands there are, and which of them are past the disks.      *)
LEMMA CommandCount ==
  ASSUME NEW r \in Invocations
  PROVE  /\ Size(r) \in Nat /\ Len(Commands(r)) \in Nat
         /\ Len(Commands(r)) >= 1 + 2 * Size(r)
         /\ Size(r) # 0 => Len(Commands(r)) >= 2 + 2 * Size(r)
         /\ NeedsEfi(r) => Len(Commands(r)) >= 2 + 2 * Size(r)
         /\ NeedsEfi(r) /\ Size(r) # 0 => Len(Commands(r)) = 3 + 2 * Size(r)
  BY CommandsAre

LEMMA CreateStep ==
  ASSUME NEW r \in Invocations, NEW h, NEW c, HostShape(h), CanRun(h, Create(r), c),
         ~h.exists /\ Undisturbed => DOMAIN h.vols = {}
  PROVE  HostAt(After(h, Create(r), c), r, 1)
<1> DEFINE g == After(h, Create(r), c)
<1>1. /\ ~h.exists /\ g.exists
      /\ g.vols = h.vols /\ g.owned = {} /\ g.slots = <<>>
      /\ g.boot = NoSlot /\ g.efi = NoVolume /\ g.made = Create(r)
  BY AfterCreate
<1> HIDE DEF g
<1>n. Size(r) \in Nat
  BY CommandCount
<1>2. ~Booted(r, 1) /\ ~EfiMade(r, 1) /\ Volumes(r, 1) = 0
  <2>1. ~EfiMade(r, 1)
    <3> SUFFICES ASSUME NeedsEfi(r) PROVE Len(Commands(r)) # 1
      BY DEF EfiMade
    <3>1. Len(Commands(r)) >= 2 + 2 * Size(r) /\ Len(Commands(r)) \in Nat
      BY CommandCount
    <3>2. Len(Commands(r)) > 1
      BY ONLY <1>n, <3>1
    <3>3. \A m \in Nat : m > 1 => m # 1
      OBVIOUS
    <3> QED BY <3>1, <3>2, <3>3, Zenon
  <2>2. ~Booted(r, 1)
    BY <1>n DEF Booted
  <2> QED BY <1>n, <2>1, <2>2 DEF Volumes
<1>3. Drives(g, r, 1)
  BY <1>n DEF Drives
<1>4. VmAfter(g, r, 1)
  BY <1>1, <1>2, <1>3 DEF VmAfter
<1>5. ASSUME Undisturbed PROVE VolumesAfter(g, r, 1)
  <2>1. DOMAIN g.vols = {} /\ g.owned = {}
    BY <1>1, <1>5
  <2>2. 0..(Volumes(r, 1) - 1) = {}
    BY <1>2
  <2>3. \A i \in 1..Size(r) : ~(1 >= 1 + i)
    BY <1>n
  <2> QED BY <2>1, <2>2, <2>3 DEF VolumesAfter
<1> QED BY <1>4, <1>5 DEF HostAt, g

LEMMA ImportStep ==
  ASSUME NEW r \in Invocations, NEW i \in 1..Size(r), NEW h, NEW c, HostShape(h),
         HostAt(h, r, i), CanRun(h, Import(r, i), c), Undisturbed => c = Whole(r.source.disks[i])
  PROVE  HostAt(After(h, Import(r, i), c), r, i + 1)
<1> DEFINE g == After(h, Import(r, i), c)
<1>1. /\ FreeVolumes(h) # {} /\ g.exists
      /\ DOMAIN g.vols = DOMAIN h.vols \cup {NextVolume(h)}
      /\ g.vols[NextVolume(h)] = c
      /\ \A n \in DOMAIN h.vols : n # NextVolume(h) => g.vols[n] = h.vols[n]
      /\ g.owned = h.owned \cup {NextVolume(h)} /\ g.slots = h.slots
      /\ g.boot = h.boot /\ g.efi = h.efi /\ g.made = h.made
  BY AfterImport
<1> HIDE DEF g
<1>n. Size(r) \in Nat /\ i \in Nat /\ 1 <= i /\ i <= Size(r)
  BY CommandCount
<1>3. /\ ~Booted(r, i) /\ ~Booted(r, i + 1) /\ ~EfiMade(r, i) /\ ~EfiMade(r, i + 1)
      /\ Volumes(r, i) = i - 1 /\ Volumes(r, i + 1) = i
  <2>1. ~EfiMade(r, i) /\ ~EfiMade(r, i + 1)
    <3> SUFFICES ASSUME NeedsEfi(r) PROVE Len(Commands(r)) # i /\ Len(Commands(r)) # i + 1
      BY DEF EfiMade
    <3>1. Len(Commands(r)) >= 2 + 2 * Size(r) /\ Len(Commands(r)) \in Nat
      BY CommandCount
    <3> QED BY ONLY <1>n, <3>1
  <2>2. ~Booted(r, i) /\ ~Booted(r, i + 1)
    BY <1>n DEF Booted
  <2> QED BY <1>n, <2>1, <2>2 DEF Volumes
<1>4. Drives(g, r, i + 1)
  BY <1>n DEF Drives
<1>5. VmAfter(g, r, i + 1)
  BY <1>1, <1>3, <1>4 DEF HostAt, VmAfter
<1>6. ASSUME Undisturbed PROVE VolumesAfter(g, r, i + 1)
  <2>1. /\ DOMAIN h.vols = 0..(i - 1 - 1) /\ h.owned = DOMAIN h.vols
        /\ \A j \in 1..Size(r) : i >= 1 + j => h.vols[j - 1] = Whole(r.source.disks[j])
    BY <1>3, <1>6 DEF HostAt, VolumesAfter
  <2>2. NextVolume(h) = i - 1
    BY <1>1, <1>n, <2>1, NextVolumeInOrder
  <2>3. DOMAIN g.vols = 0..(i - 1)
    BY <1>1, <1>n, <2>1, <2>2
  <2>4. ASSUME NEW j \in 1..Size(r), i + 1 >= 1 + j PROVE g.vols[j - 1] = Whole(r.source.disks[j])
    <3>1. CASE j = i
      BY <1>1, <1>6, <2>2, <3>1
    <3>2. CASE j # i
      <4>1. j - 1 \in DOMAIN h.vols /\ i >= 1 + j /\ j - 1 # i - 1
        BY <1>n, <2>1, <2>4, <3>2
      <4> QED BY <1>1, <2>1, <2>2, <4>1
    <3> QED BY <3>1, <3>2
  <2> QED BY <1>1, <1>3, <2>1, <2>2, <2>3, <2>4 DEF VolumesAfter
<1> QED BY <1>5, <1>6 DEF HostAt, g

LEMMA AttachStep ==
  ASSUME NEW r \in Invocations, NEW i \in 1..Size(r), NEW h, NEW c, HostShape(h),
         HostAt(h, r, Size(r) + i), CanRun(h, Attach(r, i), c)
  PROVE  HostAt(After(h, Attach(r, i), c), r, Size(r) + i + 1)
<1> DEFINE g == After(h, Attach(r, i), c)
           k == Size(r) + i
<1>1. /\ i - 1 \in DOMAIN h.vols /\ g.exists
      /\ g.vols = h.vols /\ g.owned = h.owned \cup {i - 1}
      /\ DOMAIN g.slots = DOMAIN h.slots \cup {Slot(r, i)}
      /\ g.slots[Slot(r, i)] = i - 1
      /\ \A s \in DOMAIN h.slots : s # Slot(r, i) => g.slots[s] = h.slots[s]
      /\ g.boot = h.boot /\ g.efi = h.efi /\ g.made = h.made
  BY AfterAttach
<1> HIDE DEF g
<1>n. Size(r) \in Nat /\ i \in Nat /\ 1 <= i /\ i <= Size(r)
  BY CommandCount
<1>3. /\ ~Booted(r, k) /\ ~Booted(r, k + 1) /\ ~EfiMade(r, k) /\ ~EfiMade(r, k + 1)
      /\ Volumes(r, k) = Size(r) /\ Volumes(r, k + 1) = Size(r)
  <2>1. ~EfiMade(r, k) /\ ~EfiMade(r, k + 1)
    <3> SUFFICES ASSUME NeedsEfi(r) PROVE Len(Commands(r)) # k /\ Len(Commands(r)) # k + 1
      BY DEF EfiMade
    <3>1. Len(Commands(r)) >= 2 + 2 * Size(r) /\ Len(Commands(r)) \in Nat
      BY CommandCount
    <3> QED BY ONLY <1>n, <3>1
  <2>2. ~Booted(r, k) /\ ~Booted(r, k + 1)
    BY <1>n DEF Booted
  <2>3. ~(k <= Size(r)) /\ ~(k + 1 <= Size(r))
    BY <1>n
  <2> QED BY <2>1, <2>2, <2>3 DEF Volumes
<1>4. Drives(g, r, k + 1)
  <2> SUFFICES ASSUME NEW j \in 1..Size(r), k + 1 >= Size(r) + 1 + j
               PROVE  Slot(r, j) \in DOMAIN g.slots /\ g.slots[Slot(r, j)] = j - 1
    BY DEF Drives
  <2>1. CASE j = i
    BY <1>1, <2>1
  <2>2. CASE j # i
    <3>1. k >= Size(r) + 1 + j /\ j - 1 # i - 1
      BY <1>n, <2>2
    <3>2. Slot(r, j) \in DOMAIN h.slots /\ h.slots[Slot(r, j)] = j - 1
      BY <3>1 DEF HostAt, VmAfter, Drives
    <3>3. Slot(r, j) # Slot(r, i)
      BY <3>1 DEF Slot
    <3> QED BY <1>1, <3>2, <3>3
  <2> QED BY <2>1, <2>2
<1>5. VmAfter(g, r, k + 1)
  BY <1>1, <1>3, <1>4 DEF HostAt, VmAfter
<1>6. ASSUME Undisturbed PROVE VolumesAfter(g, r, k + 1)
  <2>1. /\ DOMAIN h.vols = 0..(Size(r) - 1) /\ h.owned = DOMAIN h.vols
        /\ \A j \in 1..Size(r) : k >= 1 + j => h.vols[j - 1] = Whole(r.source.disks[j])
    BY <1>3, <1>6 DEF HostAt, VolumesAfter
  <2>2. \A j \in 1..Size(r) : k >= 1 + j
    BY <1>n
  <2>3. g.owned = DOMAIN g.vols
    BY <1>1, <2>1
  <2> QED BY <1>1, <1>3, <2>1, <2>2, <2>3 DEF VolumesAfter
<1> QED BY <1>5, <1>6 DEF HostAt, g

LEMMA BootStep ==
  ASSUME NEW r \in Invocations, Size(r) # 0, NEW h, NEW c, HostShape(h),
         HostAt(h, r, 2 * Size(r) + 1), CanRun(h, Boot(r), c)
  PROVE  HostAt(After(h, Boot(r), c), r, 2 * Size(r) + 2)
<1> DEFINE g == After(h, Boot(r), c)
           n == Size(r)
<1>1. /\ g.exists /\ g.vols = h.vols /\ g.owned = h.owned /\ g.slots = h.slots
      /\ g.boot = Slot(r, 1) /\ g.efi = h.efi /\ g.made = h.made
  BY AfterBoot
<1>n. n \in Nat /\ n >= 1
  BY CommandCount
<1> HIDE DEF g
<1>3. /\ Booted(r, 2 * n + 2) /\ ~EfiMade(r, 2 * n + 1) /\ ~EfiMade(r, 2 * n + 2)
      /\ Volumes(r, 2 * n + 1) = n /\ Volumes(r, 2 * n + 2) = n
  <2>1. ~EfiMade(r, 2 * n + 1) /\ ~EfiMade(r, 2 * n + 2)
    <3> SUFFICES ASSUME NeedsEfi(r) PROVE Len(Commands(r)) # 2 * n + 1 /\ Len(Commands(r)) # 2 * n + 2
      BY DEF EfiMade
    <3>1. Len(Commands(r)) = 3 + 2 * n /\ Len(Commands(r)) \in Nat
      BY CommandCount
    <3> QED BY ONLY <1>n, <3>1
  <2>2. Booted(r, 2 * n + 2)
    BY <1>n DEF Booted
  <2>3. ~(2 * n + 1 <= n) /\ ~(2 * n + 2 <= n)
    BY <1>n
  <2> QED BY <2>1, <2>2, <2>3 DEF Volumes
<1>4. Drives(g, r, 2 * n + 2)
  <2>1. \A j \in 1..n : 2 * n + 1 >= n + 1 + j
    BY <1>n
  <2> QED BY <1>1, <2>1 DEF HostAt, VmAfter, Drives
<1>5. VmAfter(g, r, 2 * n + 2)
  BY <1>1, <1>3, <1>4 DEF HostAt, VmAfter
<1>6. ASSUME Undisturbed PROVE VolumesAfter(g, r, 2 * n + 2)
  <2>1. \A j \in 1..n : 2 * n + 1 >= 1 + j
    BY <1>n
  <2> QED BY <1>1, <1>3, <1>6, <2>1 DEF HostAt, VolumesAfter
<1> QED BY <1>5, <1>6 DEF HostAt, g

LEMMA EfidiskStep ==
  ASSUME NEW r \in Invocations, NeedsEfi(r), NEW k \in Nat, k + 1 = Len(Commands(r)),
         NEW h, NEW c, HostShape(h), HostAt(h, r, k), CanRun(h, Efidisk, c)
  PROVE  HostAt(After(h, Efidisk, c), r, k + 1)
<1> DEFINE g == After(h, Efidisk, c)
           n == Size(r)
<1>1. /\ FreeVolumes(h) # {} /\ g.exists
      /\ DOMAIN g.vols = DOMAIN h.vols \cup {NextVolume(h)}
      /\ \A m \in DOMAIN h.vols : m # NextVolume(h) => g.vols[m] = h.vols[m]
      /\ g.owned = h.owned \cup {NextVolume(h)} /\ g.slots = h.slots
      /\ g.boot = h.boot /\ g.efi = NextVolume(h) /\ g.made = h.made
  BY AfterEfidisk
<1> HIDE DEF g
<1>n. n \in Nat /\ k >= 1 + n /\ (n # 0 => k = 2 + 2 * n)
  <2>1. /\ n \in Nat /\ Len(Commands(r)) >= 2 + 2 * n
        /\ n # 0 => Len(Commands(r)) = 3 + 2 * n
    BY CommandCount
  <2> QED BY ONLY <2>1, k \in Nat, k + 1 = Len(Commands(r))
<1>3. /\ Booted(r, k) <=> Booted(r, k + 1)
      /\ ~EfiMade(r, k) /\ EfiMade(r, k + 1)
      /\ Volumes(r, k) = n /\ Volumes(r, k + 1) = n + 1
  <2>1. ~EfiMade(r, k) /\ EfiMade(r, k + 1)
    <3>1. k # k + 1
      OBVIOUS
    <3> QED BY <3>1, Zenon DEF EfiMade
  <2>2. Booted(r, k) <=> Booted(r, k + 1)
    BY <1>n DEF Booted
  <2>3. ~(k <= n) /\ ~(k + 1 <= n)
    BY <1>n
  <2> QED BY <2>1, <2>2, <2>3 DEF Volumes
<1>4. Drives(g, r, k + 1)
  <2>1. \A j \in 1..n : k >= n + 1 + j
    BY <1>n
  <2> QED BY <1>1, <2>1 DEF HostAt, VmAfter, Drives
<1>5. VmAfter(g, r, k + 1)
  BY <1>1, <1>3, <1>4 DEF HostAt, VmAfter
<1>6. ASSUME Undisturbed PROVE VolumesAfter(g, r, k + 1)
  <2>1. /\ DOMAIN h.vols = 0..(n - 1) /\ h.owned = DOMAIN h.vols
        /\ \A j \in 1..n : k >= 1 + j => h.vols[j - 1] = Whole(r.source.disks[j])
    BY <1>3, <1>6 DEF HostAt, VolumesAfter
  <2>2. NextVolume(h) = n
    BY <1>1, <1>n, <2>1, NextVolumeInOrder
  <2>3. DOMAIN g.vols = 0..n /\ g.owned = DOMAIN g.vols
    BY <1>1, <1>n, <2>1, <2>2
  <2>4. \A j \in 1..n : k >= 1 + j /\ j - 1 \in DOMAIN h.vols /\ j - 1 # n
    BY <1>n, <2>1
  <2>5. \A j \in 1..n : g.vols[j - 1] = Whole(r.source.disks[j])
    BY <1>1, <2>1, <2>2, <2>4
  <2> QED BY <1>3, <1>n, <2>3, <2>5 DEF VolumesAfter
<1> QED BY <1>5, <1>6 DEF HostAt, g

(* One more command of r.                                                  *)
LEMMA CommandStep ==
  ASSUME NEW r \in Invocations, NEW k \in 0..(Len(Commands(r)) - 1), NEW h, NEW c, HostShape(h),
         k >= 1 => HostAt(h, r, k),
         ~h.exists /\ Undisturbed => DOMAIN h.vols = {},
         CanRun(h, Commands(r)[k + 1], c),
         Undisturbed => \A i \in 1..Size(r) : k = i => c = Whole(r.source.disks[i])
  PROVE  HostShape(After(h, Commands(r)[k + 1], c)) /\ HostAt(After(h, Commands(r)[k + 1], c), r, k + 1)
<1> DEFINE cmd == Commands(r)[k + 1]
           n   == Size(r)
<1>1. k \in Nat /\ n \in Nat /\ Len(Commands(r)) \in Nat /\ k + 1 \in 1..Len(Commands(r))
  BY CommandCount
<1>2. \/ k + 1 = 1 /\ cmd = Create(r)
      \/ k + 1 - 1 \in 1..n /\ cmd = Import(r, k + 1 - 1)
      \/ k + 1 - 1 - n \in 1..n /\ cmd = Attach(r, k + 1 - 1 - n)
      \/ k + 1 = 2 * n + 2 /\ n # 0 /\ cmd = Boot(r)
      \/ k + 1 = Len(Commands(r)) /\ NeedsEfi(r) /\ cmd = Efidisk
         /\ k + 1 > 2 * n + (IF n = 0 THEN 1 ELSE 2)
  BY <1>1, CommandKinds
<1>3. k + 1 - 1 = k /\ k + 1 - 1 - n = k - n
  BY <1>1
<1> HIDE DEF cmd
<1>4. CASE k + 1 = 1 /\ cmd = Create(r)
  BY <1>4, AfterCreate, CreateStep DEF cmd
<1>5. CASE k \in 1..n /\ cmd = Import(r, k)
  <2>1. k >= 1
    BY <1>1, <1>5
  <2> QED BY <1>5, <2>1, AfterImport, ImportStep DEF cmd
<1>6. CASE k - n \in 1..n /\ cmd = Attach(r, k - n)
  <2>1. k >= 1 /\ n + (k - n) = k
    BY <1>1, <1>6
  <2> QED BY <1>6, <2>1, AfterAttach, AttachStep DEF cmd
<1>7. CASE k + 1 = 2 * n + 2 /\ n # 0 /\ cmd = Boot(r)
  <2>1. k >= 1 /\ k = 2 * n + 1
    BY <1>1, <1>7
  <2> QED BY <1>7, <2>1, AfterBoot, BootStep DEF cmd
<1>8. CASE /\ k + 1 = Len(Commands(r)) /\ NeedsEfi(r) /\ cmd = Efidisk
           /\ k + 1 > 2 * n + (IF n = 0 THEN 1 ELSE 2)
  <2>1. k >= 1
    BY <1>1, <1>8
  <2> QED BY <1>1, <1>8, <2>1, AfterEfidisk, EfidiskStep DEF cmd
<1> QED BY <1>2, <1>3, <1>4, <1>5, <1>6, <1>7, <1>8

-----------------------------------------------------------------------------
(* The part of a list that is left: empty at its end, or an element and    *)
(* the part after it.                                                      *)
LEMMA RestOf ==
  ASSUME NEW S, NEW C \in Seq(S), NEW m \in 0..Len(C), NEW k \in 0..m
  PROVE  /\ SubSeq(C, k + 1, m) = <<>> => k = m
         /\ SubSeq(C, k + 1, m) # <<>> =>
              /\ k < m
              /\ Head(SubSeq(C, k + 1, m)) = C[k + 1]
              /\ Tail(SubSeq(C, k + 1, m)) = SubSeq(C, k + 2, m)
<1>1. Len(SubSeq(C, k + 1, m)) = m - k
  OBVIOUS
<1>2. SubSeq(C, k + 1, m) \in Seq(S)
  OBVIOUS
<1>3. \A i \in 1..(m - k) : SubSeq(C, k + 1, m)[i] = C[k + i]
  OBVIOUS
<1>4. CASE k = m
  <2>1. SubSeq(C, k + 1, m) = <<>>
    BY <1>1, <1>2, <1>4
  <2> QED BY <2>1, <1>4
<1>5. CASE k < m
  <2> DEFINE s == SubSeq(C, k + 1, m)
  <2>1. s # <<>> /\ Len(s) > 0
    BY <1>1, <1>5
  <2>2. Head(s) = C[k + 1]
    BY <1>1, <1>2, <1>3, <1>5, <2>1
  <2>3. Tail(s) = SubSeq(C, k + 2, m)
    <3>1. Tail(s) \in Seq(S) /\ Len(Tail(s)) = m - k - 1
      BY <1>1, <1>2, <2>1
    <3>2. SubSeq(C, k + 2, m) \in Seq(S) /\ Len(SubSeq(C, k + 2, m)) = m - k - 1
      BY <1>5
    <3>3. \A i \in 1..(m - k - 1) : Tail(s)[i] = SubSeq(C, k + 2, m)[i]
      <4>1. \A i \in 1..(m - k - 1) : Tail(s)[i] = s[i + 1]
        BY <1>1, <1>2, <2>1
      <4>2. \A i \in 1..(m - k - 1) : SubSeq(C, k + 2, m)[i] = C[k + 1 + i]
        BY <1>5
      <4> QED BY <1>3, <4>1, <4>2
    <3> HIDE DEF s
    <3> DEFINE t == Tail(s)
               u == SubSeq(C, k + 2, m)
    <3>4. Len(t) = Len(u) /\ t \in Seq(S) /\ u \in Seq(S) /\ \A i \in 1..Len(t) : t[i] = u[i]
      BY <3>1, <3>2, <3>3
    <3> HIDE DEF t, u
    <3>5. t = u
      BY <3>4, SeqEqual
    <3> QED BY <3>5 DEF t, u
  <2> QED BY <1>5, <2>1, <2>2, <2>3
<1> QED BY <1>4, <1>5

LEMMA AllOf == ASSUME NEW S, NEW C \in Seq(S) PROVE SubSeq(C, 1, Len(C)) = C
  OBVIOUS

-----------------------------------------------------------------------------
(* The inductive invariant: whatever VM is there, some commands of some    *)
(* migration have made it, and while commands run, the rest of them is     *)
(* still to do.  A script broken off by a failure ends early, at m.        *)
ImagesWhole(r) ==
  \A i \in 1..Size(r) : image[ImagePath(r, r.source.disks[i])] = Whole(r.source.disks[i])

HostKnown   == host.exists => \E r \in Invocations : \E k \in 1..Len(Commands(r)) : HostAt(host, r, k)
EmptyBefore == ~host.exists /\ Undisturbed => DOMAIN host.vols = {}

StillToDo(r, m, k) ==
  /\ todo = SubSeq(Commands(r), k + 1, m)
  /\ k >= 1 => HostAt(host, r, k)
  /\ Undisturbed => ImagesWhole(r)
  /\ stage \in {"execute", "summary"} => r = run /\ m = Len(Commands(r))

\* Commands are being run, or a migration has run them all.
Executing == stage \in {"execute", "script"} \/ (stage = "summary" /\ Executes(run))

Progress ==
  Executing =>
    \E r \in Invocations : \E m \in 0..Len(Commands(r)) : \E k \in 0..m : StillToDo(r, m, k)

HostInv == /\ TypeOK
           /\ Undisturbed => DeliveryInv
           /\ HostShape(host)
           /\ HostKnown
           /\ EmptyBefore
           /\ Progress

LEMMA InitHostInv == Init => HostInv
<1> SUFFICES ASSUME Init PROVE HostInv
  OBVIOUS
<1>1. TypeOK /\ DeliveryInv
  BY InitIInv, InitDelivery DEF IInv
<1>2. host = HostWith(Strays)
  BY DEF Init
<1>3. HostShape(host) /\ ~host.exists /\ host.vols = Strays
  BY <1>2, StraysAssumption DEF HostWith, HostShape
<1>4. HostKnown /\ EmptyBefore
  BY <1>3 DEF HostKnown, EmptyBefore, Undisturbed
<1>5. Progress
  BY DEF Progress, Executing, Init
<1> QED BY <1>1, <1>3, <1>4, <1>5 DEF HostInv

LEMMA StepExecuteCommand ==
  HostInv /\ ExecuteCommand => (HostShape(host) /\ HostKnown /\ EmptyBefore /\ Progress)'
<1> SUFFICES ASSUME HostInv, ExecuteCommand
             PROVE  HostShape(host)' /\ HostKnown' /\ EmptyBefore' /\ Progress'
  OBVIOUS
<1> DEFINE cmd == Head(todo)
           c   == FileOf(cmd)
<1>1. /\ stage \in {"execute", "script"} /\ todo # <<>>
      /\ CanRun(host, cmd, c) /\ host' = After(host, cmd, c) /\ todo' = Tail(todo)
      /\ UNCHANGED <<stage, run, image>>
  BY DEF ExecuteCommand
<1>r. PICK r \in Invocations : \E m \in 0..Len(Commands(r)) : \E k \in 0..m : StillToDo(r, m, k)
  BY <1>1 DEF HostInv, Progress, Executing
<1>m. PICK m \in 0..Len(Commands(r)) : \E k \in 0..m : StillToDo(r, m, k)
  BY <1>r
<1>2. PICK k \in 0..m : StillToDo(r, m, k)
  BY <1>m
<1>3. Commands(r) \in Seq(AllCommands) /\ Len(Commands(r)) \in Nat
  BY CommandsAre
<1>4. k < m /\ cmd = Commands(r)[k + 1] /\ todo' = SubSeq(Commands(r), k + 2, m)
  BY <1>1, <1>2, <1>3, RestOf DEF StillToDo
<1>5. Undisturbed => \A i \in 1..Size(r) : k = i => c = Whole(r.source.disks[i])
  <2> SUFFICES ASSUME Undisturbed, k \in 1..Size(r) PROVE c = Whole(r.source.disks[k])
    OBVIOUS
  <2>1. cmd = Import(r, k) /\ k \in Nat
    <3>1. Commands(r)[1 + k] = Import(r, k)
      BY CommandsAre
    <3>2. k + 1 = 1 + k /\ k \in Nat
      BY <1>3
    <3> QED BY <1>4, <3>1, <3>2
  <2>2. c = image[ImagePath(r, r.source.disks[k])]
    BY <2>1 DEF FileOf, Import
  <2> QED BY <1>2, <2>2 DEF StillToDo, ImagesWhole
<1> HIDE DEF cmd, c
<1>6. HostShape(host)' /\ HostAt(host', r, k + 1)
  <2>1. k \in 0..(Len(Commands(r)) - 1) /\ (k >= 1 => HostAt(host, r, k))
    BY <1>2, <1>3, <1>4 DEF StillToDo
  <2>2. HostShape(host) /\ (~host.exists /\ Undisturbed => DOMAIN host.vols = {})
    BY DEF HostInv, EmptyBefore
  <2> QED BY <1>1, <1>4, <1>5, <2>1, <2>2, CommandStep
<1>7. k + 1 \in 1..Len(Commands(r)) /\ k + 1 \in 0..m /\ k + 1 + 1 = k + 2 /\ k + 1 >= 1
  BY <1>3, <1>4
<1>8. HostKnown'
  BY <1>6, <1>7 DEF HostKnown
<1>9. host'.exists
  BY <1>6 DEF HostAt, VmAfter
<1>10. EmptyBefore'
  BY <1>9 DEF EmptyBefore
<1>11. StillToDo(r, m, k + 1)'
  <2>1. todo' = SubSeq(Commands(r), k + 1 + 1, m)
    BY <1>4, <1>7
  <2> QED BY <1>1, <1>2, <1>6, <1>7, <2>1 DEF StillToDo, ImagesWhole
<1>12. Progress'
  BY <1>7, <1>11 DEF Progress
<1> QED BY <1>6, <1>8, <1>10, <1>12

(* The end of the writing leaves every command to do.                      *)
LEMMA StepWriteDone == HostInv /\ WriteDone => Progress'
<1> SUFFICES ASSUME HostInv, WriteDone, stage' = "execute" PROVE Progress'
  BY DEF WriteDone, Progress, Executing
<1>1. /\ stage = "write" /\ todo' = Commands(run) /\ UNCHANGED <<run, image>>
      /\ run \in Invocations
  BY RunIsTyped DEF Migrating, WriteDone, HostInv
<1>2. Commands(run) \in Seq(AllCommands) /\ Len(Commands(run)) \in Nat
  BY <1>1, CommandsAre
<1> DEFINE m == Len(Commands(run))
<1>3. todo' = SubSeq(Commands(run), 0 + 1, m)
  BY <1>1, <1>2, AllOf
<1>4. ASSUME Undisturbed PROVE ImagesWhole(run)'
  <2>1. IInv /\ next \in Nat /\ next > Len(vm.disks) /\ ~run.dry_run /\ Len(vm.disks) \in Nat
    BY <1>1, <1>4, RunIsTyped DEF Migrating, HostInv, DeliveryInv, IInv, PastTheLoop, NotDry, TypeOK
  <2>2. \A i \in 1..Len(vm.disks) : image[ImagePath(run, vm.disks[i])] = Whole(vm.disks[i])
    BY <1>1, <2>1 DEF IInv, ConvertedSoFar
  <2> QED BY <1>1, <2>2 DEF ImagesWhole, Size, vm
<1>5. StillToDo(run, m, 0)'
  BY <1>1, <1>3, <1>4 DEF StillToDo
<1>6. m \in 0..Len(Commands(run)) /\ 0 \in 0..m
  BY <1>2
<1>7. \E r \in Invocations : \E n \in 0..Len(Commands(r)) : \E k \in 0..n : StillToDo(r, n, k)'
  BY <1>1, <1>5, <1>6
<1> QED BY <1>7 DEF Progress

(* So does the start of a script, of what the script holds.                *)
LEMMA ScriptHolds ==
  ASSUME TypeOK, NEW p \in ConfigPaths, config[p].target = "proxmox"
  PROVE  \E r \in Invocations : \E m \in 0..Len(Commands(r)) :
           /\ config[p].commands = SubSeq(Commands(r), 1, m)
           /\ config[p].whole => config[p] = Artefact(r)
<1>1. config[p] # NoConfig
  BY DEF NoConfig
<1>2. CASE \E r \in Invocations : config[p] = Artefact(r)
  <2>1. PICK r \in Invocations : config[p] = Artefact(r)
    BY <1>2
  <2>2. config[p].commands = Commands(r)
    BY <2>1 DEF Artefact
  <2>3. Commands(r) \in Seq(AllCommands) /\ Len(Commands(r)) \in 0..Len(Commands(r))
    BY CommandsAre, CommandCount
  <2>4. SubSeq(Commands(r), 1, Len(Commands(r))) = Commands(r)
    BY <2>3, AllOf
  <2> QED BY <2>1, <2>2, <2>3, <2>4
<1>3. CASE config[p] \in TornArtefacts
  <2>1. PICK r \in Invocations : config[p] \in {Torn(r, n) : n \in 0..(Len(Commands(r)) - 1)}
    BY <1>3 DEF TornArtefacts
  <2>2. PICK n \in 0..(Len(Commands(r)) - 1) : config[p] = Torn(r, n)
    BY <2>1
  <2>3. n \in 0..Len(Commands(r))
    BY CommandCount
  <2>4. config[p].commands = SubSeq(Commands(r), 1, n) /\ ~config[p].whole
    BY <2>2 DEF Torn
  <2> QED BY <2>3, <2>4
<1> QED BY <1>1, <1>2, <1>3 DEF TypeOK

LEMMA StepRunScript ==
  ASSUME HostInv, NEW p \in ConfigPaths, RunScript(p)
  PROVE  Progress'
<1>1. /\ config[p].target = "proxmox" /\ (config[p].whole \/ Remigrate)
      /\ stage' = "script" /\ todo' = config[p].commands /\ UNCHANGED image
  BY DEF RunScript
<1>r. PICK r \in Invocations : \E m \in 0..Len(Commands(r)) :
           /\ config[p].commands = SubSeq(Commands(r), 1, m)
           /\ config[p].whole => config[p] = Artefact(r)
  BY <1>1, ScriptHolds DEF HostInv
<1>m. PICK m \in 0..Len(Commands(r)) :
           /\ config[p].commands = SubSeq(Commands(r), 1, m)
           /\ config[p].whole => config[p] = Artefact(r)
  BY <1>r
<1>2. todo' = SubSeq(Commands(r), 0 + 1, m)
  BY <1>1, <1>m
<1>3. ASSUME Undisturbed PROVE ImagesWhole(r)'
  <2>1. config[p] = Artefact(r) /\ Backed(config[p])
    BY <1>1, <1>m, <1>3 DEF HostInv, Undisturbed, CarefulOwner, DeliveryInv, AllBacked
  <2> QED BY <1>1, <2>1, ArtefactFiles DEF Backed, ImagesWhole, Size
<1>4. StillToDo(r, m, 0)'
  BY <1>1, <1>2, <1>3 DEF StillToDo
<1>5. 0 \in 0..m
  BY CommandCount
<1>6. \E q \in Invocations : \E n \in 0..Len(Commands(q)) : \E k \in 0..n : StillToDo(q, n, k)'
  BY <1>4, <1>5
<1> QED BY <1>6 DEF Progress

(* `qm destroy` takes every volume there is.                               *)
LEMMA StepDestroyVM ==
  HostInv /\ DestroyVM => (HostShape(host) /\ HostKnown /\ EmptyBefore /\ Progress)'
<1> SUFFICES ASSUME HostInv, DestroyVM
             PROVE  HostShape(host)' /\ HostKnown' /\ EmptyBefore' /\ Progress'
  OBVIOUS
<1>1. stage' \in Ended /\ host.exists /\ host' = Destroyed(host)
  BY DEF DestroyVM
<1>2. ~host'.exists /\ DOMAIN host'.vols = DOMAIN host.vols \ host.owned
  BY <1>1 DEF Destroyed, HostWith
<1>3. HostShape(host)'
  BY <1>1, <1>2 DEF Destroyed, HostWith, HostShape, HostInv
<1>4. HostKnown'
  BY <1>2 DEF HostKnown
<1>5. ASSUME Undisturbed PROVE DOMAIN host'.vols = {}
  <2>1. PICK r \in Invocations : \E k \in 1..Len(Commands(r)) : HostAt(host, r, k)
    BY <1>1 DEF HostInv, HostKnown
  <2>2. host.owned = DOMAIN host.vols
    BY <1>5, <2>1 DEF HostAt, VolumesAfter
  <2> QED BY <1>2, <2>2
<1>6. EmptyBefore'
  BY <1>5 DEF EmptyBefore
<1>7. Progress'
  BY <1>1 DEF Progress, Executing, Ended
<1> QED BY <1>3, <1>4, <1>6, <1>7

LEMMA StepHostInv == HostInv /\ [Next]_vars => HostInv'
<1> SUFFICES ASSUME HostInv, [Next]_vars PROVE HostInv'
  OBVIOUS
<1>t. TypeOK /\ TypeOK' /\ (Undisturbed => DeliveryInv')
  BY StepTypeOK, StepDelivery DEF HostInv, Undisturbed
<1>h. UNCHANGED host => (HostShape(host) /\ HostKnown /\ EmptyBefore)'
  BY DEF HostInv, HostShape, HostKnown, EmptyBefore
<1>1. CASE ExecuteCommand
  BY <1>t, <1>1, StepExecuteCommand DEF HostInv
<1>2. CASE WriteDone
  <2>1. UNCHANGED host
    BY <1>2 DEF WriteDone
  <2> QED BY <1>t, <1>h, <1>2, <2>1, StepWriteDone DEF HostInv
<1>3. ASSUME NEW p \in ConfigPaths, RunScript(p) PROVE HostInv'
  <2>1. UNCHANGED host
    BY <1>3 DEF RunScript
  <2> QED BY <1>t, <1>h, <1>3, <2>1, StepRunScript DEF HostInv
<1>4. CASE DestroyVM
  BY <1>t, <1>4, StepDestroyVM DEF HostInv
<1>5. CASE UNCHANGED <<stage, run, todo, image, host>>
  <2>1. Progress'
    BY <1>5 DEF HostInv, Progress, Executing, StillToDo, ImagesWhole
  <2> QED BY <1>t, <1>h, <1>5, <2>1 DEF HostInv
<1>6. CASE UNCHANGED host /\ stage' \notin {"execute", "script", "summary"}
  <2>1. Progress'
    BY <1>6 DEF Progress, Executing
  <2> QED BY <1>t, <1>h, <1>6, <2>1 DEF HostInv
<1>7. CASE \/ Parse \/ ParseFails \/ ShowDryRun \/ MakeOutDir
           \/ ConvertDisk \/ ConvertRefused \/ ConvertDone \/ ConvertFails
           \/ WriteDomain \/ GenerateRaises \/ WriteScript \/ WriteFails
           \/ ExecuteFails \/ ShowSummary \/ Killed \/ \E r \in Invocations : Invoke(r)
  <2>1. UNCHANGED host /\ stage' \notin {"execute", "script", "summary"}
    BY <1>7 DEF Parse, ParseFails, ShowDryRun, MakeOutDir, ConvertDisk, ConvertRefused, ConvertDone,
                ConvertFails, WriteDomain, GenerateRaises, WriteScript, WriteFails, ExecuteFails,
                ShowSummary, Killed, Invoke
  <2> QED BY <1>6, <2>1
<1>10. CASE ExecuteDone
  <2>1. /\ stage \in {"execute", "script"} /\ UNCHANGED <<run, todo, image, host>>
        /\ stage' = IF stage = "execute" THEN "summary" ELSE "idle"
    BY <1>10 DEF ExecuteDone
  <2>2. Progress'
    BY <2>1 DEF HostInv, Progress, Executing, StillToDo, ImagesWhole
  <2> QED BY <1>t, <1>h, <2>1, <2>2 DEF HostInv
<1>8. CASE \E d \in Disk : RemoveSource(d)
  BY <1>5, <1>8 DEF RemoveSource
<1>9. CASE UNCHANGED vars
  BY <1>5, <1>9 DEF vars
<1> QED BY <1>1, <1>2, <1>3, <1>4, <1>7, <1>8, <1>9, <1>10 DEF Next, Pipeline, User

(* HostInv holds in every reachable state, whoever the user is.            *)
THEOREM HostInvariance == Spec => []HostInv
  BY InitHostInv, StepHostInv, PTL DEF Spec

-----------------------------------------------------------------------------
(* What the mapper makes of the hardware.                                  *)
LEMMA WindowsHardware ==
  ASSUME NEW r, r.source.windows
  PROVE  Hardware(r).controller = "ide" /\ Hardware(r).nic = "e1000"
<1>1. SafeMode(r)
  BY DEF SafeMode
<1> QED BY <1>1 DEF Hardware, map_hardware, map_controller, map_nic, WINDOWS_SAFE_CONTROLLER, WINDOWS_SAFE_NIC

LEMMA LowFirmware == Lower("efi") = "efi" /\ Lower("bios") = "bios"
<1>1. \A w \in LOWER : w[1] # "efi" /\ w[1] # "bios"
  BY DEF LOWER
<1> QED BY <1>1 DEF Lower

LEMMA EfiFirmware ==
  ASSUME NEW r \in Invocations
  PROVE  NeedsEfi(r) <=> r.source.firmware = "efi"
<1>1. r.source.firmware \in {"efi", "bios"}
  <2>1. r.source \in ExportType
    BY InvocationFields, ExportsAssumption
  <2> QED BY <2>1 DEF ExportType
<1>2. Hardware(r).firmware = map_firmware(r.source.firmware)
  BY DEF Hardware, map_hardware
<1>3. map_firmware("efi") = "ovmf" /\ map_firmware("bios") = "seabios"
  BY LowFirmware DEF map_firmware, Get, FIRMWARE_MAP, NoFirmware
<1> QED BY <1>1, <1>2, <1>3 DEF NeedsEfi, NoFirmware

LEMMA SlotFields ==
  ASSUME NEW r, NEW i
  PROVE  /\ Slot(r, i) # NoSlot
         /\ Slot(r, i)[1] = ProxmoxPrefix(Hardware(r)) /\ Slot(r, i)[2] = i - 1
<1>1. ProxmoxPrefix(Hardware(r)) # "none"
  BY DEF ProxmoxPrefix
<1> QED BY <1>1 DEF Slot, NoSlot

-----------------------------------------------------------------------------
(* With --execute, success means: the VM is on the host, it can boot, and  *)
(* it has an EFI disk exactly if it needs one.                             *)
THEOREM SuccessesAreOnHost == Spec => SuccessIsOnHost
<1>1. HostInv /\ [Next]_vars =>
        [(stage = "summary" /\ stage' = "ok" /\ Executes(run)) =>
           /\ host.exists /\ host.made.name = vm.name
           /\ vm.disks # <<>> => host.boot # NoSlot
           /\ vm.firmware = "efi" <=> host.efi \in DOMAIN host.vols]_vars
  <2> SUFFICES ASSUME HostInv, [Next]_vars, stage = "summary", stage' = "ok", Executes(run)
               PROVE  /\ host.exists /\ host.made.name = vm.name
                      /\ vm.disks # <<>> => host.boot # NoSlot
                      /\ vm.firmware = "efi" <=> host.efi \in DOMAIN host.vols
    OBVIOUS
  <2>1. todo = <<>>
    BY DEF HostInv, TypeOK
  <2>2. run \in Invocations
    BY RunIsTyped DEF HostInv, Migrating
  <2>r. PICK r \in Invocations : \E m \in 0..Len(Commands(r)) : \E k \in 0..m : StillToDo(r, m, k)
    BY DEF HostInv, Progress, Executing
  <2>m. PICK m \in 0..Len(Commands(r)) : \E k \in 0..m : StillToDo(r, m, k)
    BY <2>r
  <2>k. PICK k \in 0..m : StillToDo(r, m, k)
    BY <2>m
  <2>3. r = run /\ m = Len(Commands(run)) /\ SubSeq(Commands(run), k + 1, m) = <<>>
    BY <2>1, <2>k DEF StillToDo
  <2>4. k = m /\ m >= 1 /\ m \in Nat
    <3>1. Commands(run) \in Seq(AllCommands) /\ Size(run) \in Nat /\ m \in Nat /\ m >= 1 + 2 * Size(run)
      BY <2>2, <2>3, CommandsAre, CommandCount
    <3>2. m >= 1
      BY ONLY <3>1
    <3> QED BY <2>3, <3>1, <3>2, RestOf
  <2>5. VmAfter(host, run, m)
    BY <2>3, <2>4, <2>k DEF StillToDo, HostAt
  <2>6. host.exists /\ host.made.name = vm.name
    BY <2>5 DEF VmAfter, Create, CreateCommand, vm
  <2>7. ASSUME vm.disks # <<>> PROVE host.boot # NoSlot
    <3>1. Size(run) # 0 /\ Size(run) \in Nat
      <4>1. vm.disks \in Seq(Disk)
        BY RunIsTyped DEF HostInv, Migrating
      <4> QED BY <2>7, <4>1 DEF Size, vm
    <3>2. m >= 2 * Size(run) + 2
      <4>1. Len(Commands(run)) >= 2 + 2 * Size(run)
        BY <2>2, <3>1, CommandCount
      <4> QED BY <2>3, <2>4, <3>1, <4>1
    <3> QED BY <2>5, <3>1, <3>2, SlotFields DEF VmAfter, Booted
  <2>8. vm.firmware = "efi" <=> host.efi \in DOMAIN host.vols
    <3>1. vm.firmware = "efi" <=> NeedsEfi(run)
      BY <2>2, EfiFirmware DEF vm
    <3>2. NeedsEfi(run) => host.efi \in DOMAIN host.vols
      BY <2>3, <2>5 DEF VmAfter, EfiMade
    <3>3. ~NeedsEfi(run) => host.efi = NoVolume
      BY <2>5 DEF VmAfter, EfiMade
    <3>4. NoVolume \notin DOMAIN host.vols
      BY DEF HostInv, HostShape, NoVolume
    <3> QED BY <3>1, <3>2, <3>3, <3>4
  <2> QED BY <2>6, <2>7, <2>8
<1> QED BY <1>1, HostInvariance, PTL DEF Spec, SuccessIsOnHost

(* With VMs named apart, a Windows guest gets the hardware it has drivers  *)
(* for, in the artefact and on the node.                                   *)
THEOREM WindowsIsSafelyMapped == NamesApart /\ Spec => []WindowsGetsSafeHardware
<1>1. NamesApart => NamesApart'
  BY DEF NamesApart
<1>2. NamesApart /\ HostInv => WindowsGetsSafeHardware
  <2> SUFFICES ASSUME NamesApart, HostInv PROVE WindowsGetsSafeHardware
    OBVIOUS
  <2>1. ASSUME NEW c \in Written, c.source.windows
        PROVE  /\ \A i \in DOMAIN c.slots : c.slots[i][1] = "ide"
               /\ \A i \in DOMAIN c.nics : c.nics[i].model = "e1000"
    <3>1. PICK r \in Invocations : c = Artefact(r)
      BY <2>1, TornIsNotWhole DEF Written, HostInv, TypeOK, TornArtefacts, NoConfig
    <3>2. r.source.windows
      BY <2>1, <3>1, ArtefactFiles
    <3>3. Hardware(r).controller = "ide" /\ Hardware(r).nic = "e1000"
      BY <3>2, WindowsHardware
    <3>4. CASE r.target = "kvm"
      <4>1. /\ c.slots = [i \in 1..Zipped(r.source, ConvertedPaths(r, Len(r.source.disks))) |->
                           <<LibvirtBus(Hardware(r)), i - 1>>]
            /\ c.nics = _build_nics(r.source, Hardware(r), r.net)
        BY <3>1, <3>4 DEF Artefact, generate_libvirt_xml
      <4>2. LibvirtBus(Hardware(r)) = "ide"
        BY <3>3 DEF LibvirtBus
      <4> QED BY <3>3, <4>1, <4>2 DEF _build_nics
    <3>5. CASE r.target # "kvm"
      <4>1. /\ c.slots = [i \in 1..Len(r.source.disks) |-> AttachCommands(r.source, Hardware(r))[i].slot]
            /\ c.nics = << CreateCommand(r.source, Hardware(r), r.net).net0 >>
        BY <3>1, <3>5 DEF Artefact
      <4>2. ProxmoxPrefix(Hardware(r)) = "ide"
        BY <3>3 DEF ProxmoxPrefix
      <4>3. CreateCommand(r.source, Hardware(r), r.net).net0.model = "e1000"
        BY <3>3 DEF CreateCommand, _build_nic_string, _map_nic_model
      <4>4. \A i \in DOMAIN c.slots : c.slots[i][1] = "ide"
        BY <4>1, <4>2 DEF AttachCommands
      <4> QED BY <4>1, <4>3, <4>4
    <3> QED BY <3>4, <3>5
  <2>2. ASSUME NEW x \in Exports, x.windows, host.exists, host.made.name = x.name
        PROVE  host.made.scsihw = "lsi" /\ host.made.net0.model = "e1000"
    <3>1. PICK r \in Invocations : \E k \in 1..Len(Commands(r)) : HostAt(host, r, k)
      BY <2>2 DEF HostInv, HostKnown
    <3>2. host.made = Create(r)
      BY <3>1 DEF HostAt, VmAfter
    <3>3. r.source = x
      BY <2>2, <3>2, InvocationFields DEF Create, CreateCommand, NamesApart
    <3>4. Hardware(r).controller = "ide" /\ Hardware(r).nic = "e1000"
      BY <2>2, <3>3, WindowsHardware
    <3>5. Create(r).scsihw = "lsi"
      BY <3>4 DEF Create, CreateCommand, _map_scsihw
    <3>6. Create(r).net0.model = "e1000"
      BY <3>4 DEF Create, CreateCommand, _build_nic_string, _map_nic_model
    <3> QED BY <3>2, <3>5, <3>6
  <2> QED BY <2>1, <2>2 DEF WindowsGetsSafeHardware
<1> QED BY <1>1, <1>2, HostInvariance, PTL

(* For the careful owner of descriptors named apart, on a storage that was *)
(* empty: from when it can be started, the VM on the node has every disk   *)
(* of the export in its place, whole, and boots from the first.            *)
THEOREM BootablesAreWhole == Undisturbed /\ Spec => []BootableIsWhole
<1>1. Undisturbed => Undisturbed'
  OBVIOUS
<1>2. Undisturbed /\ HostInv => BootableIsWhole
  <2> SUFFICES ASSUME Undisturbed, HostInv, NEW x \in Exports, host.exists, host.made.name = x.name,
                      host.boot # NoSlot
               PROVE  /\ host.boot[2] = 0
                      /\ \A i \in 1..Len(x.disks) : HostHasDisk(x, i)
    BY DEF BootableIsWhole
  <2>r. PICK r \in Invocations : \E k \in 1..Len(Commands(r)) : HostAt(host, r, k)
    BY DEF HostInv, HostKnown
  <2>k. PICK k \in 1..Len(Commands(r)) : HostAt(host, r, k)
    BY <2>r
  <2>1. VmAfter(host, r, k) /\ VolumesAfter(host, r, k)
    BY <2>k DEF HostAt
  <2>2. r.source = x
    BY <2>1, InvocationFields DEF VmAfter, Create, CreateCommand, NamesApart, Undisturbed, CarefulOwner
  <2>3. /\ Size(r) \in Nat /\ k \in Nat /\ k >= 2 * Size(r) + 2
        /\ host.boot = Slot(r, 1)
    BY <2>1, CommandCount DEF VmAfter, Booted
  <2>4. ASSUME NEW i \in 1..Len(x.disks) PROVE HostHasDisk(x, i)
    <3>1. i \in 1..Size(r) /\ k >= Size(r) + 1 + i /\ k >= 1 + i
      BY <2>2, <2>3 DEF Size
    <3>2. <<host.boot[1], i - 1>> = Slot(r, i)
      BY <2>3, SlotFields DEF Slot
    <3>3. Slot(r, i) \in DOMAIN host.slots /\ host.slots[Slot(r, i)] = i - 1
      BY <2>1, <3>1 DEF VmAfter, Drives
    <3>4. host.vols[i - 1] = Whole(x.disks[i])
      BY <2>1, <2>2, <3>1 DEF VolumesAfter
    <3> QED BY <3>2, <3>3, <3>4 DEF HostHasDisk
  <2>5. host.boot[2] = 0
    BY <2>3, SlotFields
  <2> QED BY <2>4, <2>5
<1> QED BY <1>1, <1>2, HostInvariance, PTL
=============================================================================
