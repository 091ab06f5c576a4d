-------------------------- MODULE BootloaderProofs --------------------------
(***************************************************************************)
(* Theorems about Bootloader, for any set of kernels and any guests.       *)
(***************************************************************************)
EXTENDS Bootloader, TLAPS

-----------------------------------------------------------------------------
(* What the steps of a call know of one another: the rebuild comes first,  *)
(* and it is reached only when a tool was detected.                        *)
InOrder == /\ stage \in {"initramfs", "config", "rebuild"} =>
                todo \in {FullFixup, <<"initramfs">>}
           /\ stage \in {"grub", "mkconfig"} => todo \in {<<"grub", "fstab">>, <<"grub">>}
           /\ stage = "fstab" => todo = <<"fstab">>
           /\ stage = "initramfs" => tool = ""
           /\ stage \in {"config", "rebuild"} => tool # ""

AfterRebuild == {"grub", "mkconfig", "fstab", "done"}

\* A configuration that worked is there when the rebuild begins.
ListedBeforeRebuild == stage = "rebuild" /\ clean => guest.listed

\* Nothing after the rebuild touches the initramfs or makes good a failure.
RebuiltIfClean   == stage \in AfterRebuild /\ clean /\ tool # "" => Boots
RebuiltIfSuccess == stage \in AfterRebuild /\ success /\ tool # "" /\ guest.listed => Boots

IInv == TypeOK /\ InOrder /\ ListedBeforeRebuild /\ RebuiltIfClean /\ RebuiltIfSuccess

(* The first step of each list of steps.                                   *)
LEMMA FirstSteps ==
  /\ Head(FullFixup) = "initramfs" /\ FullFixup # <<>>
  /\ Head(<<"initramfs">>) = "initramfs" /\ <<"initramfs">> # <<>>
  /\ Head(<<"grub", "fstab">>) = "grub" /\ <<"grub", "fstab">> # <<>>
  /\ Head(<<"grub">>) = "grub" /\ <<"grub">> # <<>>
  /\ Head(<<"fstab">>) = "fstab" /\ <<"fstab">> # <<>>
  BY DEF FullFixup

(* Where a step leads that ends: what comes next is never the rebuild.     *)
LEMMA NextStep ==
  ASSUME TypeOK, InOrder, StepEnds, stage \notin Ended
  PROVE  /\ stage' \in {"grub", "fstab", "done"}
         /\ todo' \in Calls \cup {<<"grub", "fstab">>, <<>>}
         /\ stage' = "grub" => todo' = <<"grub", "fstab">>
         /\ stage' = "fstab" => todo' = <<"fstab">>
<1>1. todo \in {FullFixup, <<"initramfs">>, <<"grub", "fstab">>, <<"grub">>, <<"fstab">>}
  BY DEF TypeOK, Ended, Calls
<1>2. CASE todo = FullFixup
  <2>1. Tail(todo) = <<"grub", "fstab">> /\ Head(Tail(todo)) = "grub"
    BY <1>2 DEF FullFixup
  <2> QED BY <2>1 DEF StepEnds
<1>3. CASE todo = <<"grub", "fstab">>
  <2>1. Tail(todo) = <<"fstab">> /\ Head(Tail(todo)) = "fstab"
    BY <1>3
  <2> QED BY <2>1 DEF StepEnds, Calls
<1>4. CASE todo \in {<<"initramfs">>, <<"grub">>, <<"fstab">>}
  <2>1. Tail(<<"initramfs">>) = <<>> /\ Tail(<<"grub">>) = <<>> /\ Tail(<<"fstab">>) = <<>>
    OBVIOUS
  <2> QED BY <1>4, <2>1 DEF StepEnds
<1> QED BY <1>1, <1>2, <1>3, <1>4

(* A rebuild of some kernels: a guest, whose every kernel has virtio if    *)
(* all were rebuilt and virtio was listed.                                 *)
LEMMA BuildsIsTyped ==
  ASSUME TypeOK, NEW ks \in SUBSET Kernels, NEW g \in Builds(ks)
  PROVE  /\ g \in GuestType
         /\ g.listed = guest.listed
         /\ ks = Kernels /\ guest.listed => g.virtio = Kernels
<1>1. guest \in GuestType
  BY DEF TypeOK
<1>2. PICK with \in (IF guest.listed THEN {ks} ELSE SUBSET ks) :
        g = [guest EXCEPT !.virtio = (@ \ ks) \cup with]
  BY DEF Builds
<1>3. with \subseteq Kernels
  BY <1>2
<1>4. g.virtio = (guest.virtio \ ks) \cup with /\ guest.virtio \subseteq Kernels
  BY <1>1, <1>2 DEF GuestType
<1>5. g \in GuestType /\ g.listed = guest.listed
  BY <1>1, <1>2, <1>3 DEF GuestType
<1> QED BY <1>2, <1>4, <1>5

(* The other edits of the guest's disk.                                    *)
LEMMA EditsAreTyped ==
  ASSUME TypeOK
  PROVE  LET listed  == [guest EXCEPT !.listed = TRUE]
             current == [guest EXCEPT !.grub = "current"]
             kept    == [guest EXCEPT !.backup = @ \/ guest.fstab = "sd"]
         IN  /\ {listed, current, kept} \subseteq GuestType
             /\ listed.listed /\ listed.virtio = guest.virtio
             /\ current.listed = guest.listed /\ current.virtio = guest.virtio
             /\ kept.listed = guest.listed /\ kept.virtio = guest.virtio
<1>1. guest \in GuestType
  BY DEF TypeOK
<1> QED BY <1>1 DEF GuestType

LEMMA InitIInv == Init => IInv
<1> SUFFICES ASSUME Init PROVE IInv
  OBVIOUS
<1>1. guest \in GuestType /\ host \in [disk : BOOLEAN, programs : SUBSET Programs]
  BY GuestsAssumption DEF Init
<1>2. TypeOK
  BY <1>1 DEF Init, TypeOK, Ended
<1> QED BY <1>2 DEF Init, IInv, InOrder, ListedBeforeRebuild, RebuiltIfClean, RebuiltIfSuccess, AfterRebuild

LEMMA StepIInv == IInv /\ [Next]_vars => IInv'
<1> SUFFICES ASSUME IInv, [Next]_vars PROVE IInv'
  OBVIOUS
<1>t. TypeOK /\ InOrder
  BY DEF IInv
<1> USE DEF IInv, InOrder, ListedBeforeRebuild, RebuiltIfClean, RebuiltIfSuccess, AfterRebuild
<1>1. ASSUME NEW call \in Calls, Start(call) PROVE IInv'
  <2>1. /\ stage' = Head(call) /\ todo' = call /\ tool' = "" /\ success' = TRUE /\ clean' = TRUE
        /\ guest' = guest /\ host' \in [disk : BOOLEAN, programs : SUBSET Programs]
    BY <1>1 DEF Start
  <2>2. \/ call \in {FullFixup, <<"initramfs">>} /\ Head(call) = "initramfs"
        \/ call = <<"grub">> /\ Head(call) = "grub"
        \/ call = <<"fstab">> /\ Head(call) = "fstab"
    BY FirstSteps, Zenon DEF Calls
  <2>3. call # <<>>
    BY FirstSteps, Zenon DEF Calls
  <2>4. TypeOK'
    BY <1>t, <2>1, <2>2, <2>3 DEF TypeOK, Ended
  <2> QED BY <2>1, <2>2, <2>4
<1>2. CASE NoDiskImage
  <2>1. /\ stage' \in {"grub", "fstab", "done"} /\ success' = FALSE /\ clean' = FALSE
        /\ UNCHANGED <<host, guest, tool>>
        /\ todo' \in Calls \cup {<<"grub", "fstab">>, <<>>}
        /\ stage' = "grub" => todo' = <<"grub", "fstab">>
        /\ stage' = "fstab" => todo' = <<"fstab">>
    BY <1>2, <1>t, NextStep DEF NoDiskImage, Ended
  <2>2. TypeOK'
    BY <1>t, <2>1, FirstSteps DEF TypeOK, Ended
  <2> QED BY <2>1, <2>2
<1>3. CASE DetectInitramfsTool
  <2>1. /\ stage = "initramfs" /\ UNCHANGED <<host, guest, success>>
        /\ tool' \in InitramfsTools \cup {""} /\ clean' \in BOOLEAN
    BY <1>3, <1>t DEF DetectInitramfsTool, TypeOK, GuestType
  <2>2. CASE tool' = ""
    <3>1. /\ stage' \in {"grub", "fstab", "done"}
          /\ todo' \in Calls \cup {<<"grub", "fstab">>, <<>>}
          /\ stage' = "grub" => todo' = <<"grub", "fstab">>
          /\ stage' = "fstab" => todo' = <<"fstab">>
      BY <1>3, <1>t, <2>1, <2>2, NextStep DEF DetectInitramfsTool, Ended
    <3>2. TypeOK'
      BY <1>t, <2>1, <3>1, FirstSteps DEF TypeOK, Ended
    <3> QED BY <2>2, <3>1, <3>2
  <2>3. CASE tool' # ""
    <3>1. stage' = "config" /\ todo' = todo
      BY <1>3, <2>3 DEF DetectInitramfsTool
    <3>2. TypeOK'
      BY <1>t, <2>1, <3>1 DEF TypeOK, Ended
    <3> QED BY <1>t, <2>1, <2>3, <3>1, <3>2
  <2> QED BY <2>2, <2>3
<1>4. CASE AddVirtioModuleConfig
  <2>1. /\ stage = "config" /\ stage' = "rebuild" /\ UNCHANGED <<todo, host, tool>>
        /\ guest' \in GuestType /\ success' \in BOOLEAN /\ clean' \in BOOLEAN
        /\ clean' = TRUE => guest'.listed
    BY <1>4, <1>t, EditsAreTyped DEF AddVirtioModuleConfig, Worked, NonZero, Absent, Ran, TypeOK
  <2>2. TypeOK'
    BY <1>t, <2>1 DEF TypeOK, Ended
  <2> QED BY <1>t, <2>1, <2>2
<1>5. CASE Rebuild
  <2>1. /\ stage = "rebuild" /\ UNCHANGED <<host, tool>>
        /\ stage' \in {"grub", "fstab", "done"}
        /\ todo' \in Calls \cup {<<"grub", "fstab">>, <<>>}
        /\ stage' = "grub" => todo' = <<"grub", "fstab">>
        /\ stage' = "fstab" => todo' = <<"fstab">>
    BY <1>5, <1>t, NextStep DEF Rebuild, Ended
  <2>2. /\ guest' \in GuestType /\ success' \in BOOLEAN /\ clean' \in BOOLEAN
        /\ clean' = TRUE => guest'.virtio = Kernels
        /\ success' = TRUE /\ guest'.listed => guest'.virtio = Kernels
    <3>1. CASE Worked /\ guest' \in Builds(Kernels)
      <4>1. guest' \in GuestType /\ guest'.listed = guest.listed
            /\ (guest.listed => guest'.virtio = Kernels)
        BY <1>t, <3>1, BuildsIsTyped
      <4>2. success' = success /\ clean' = clean /\ (clean => guest.listed)
        BY <2>1, <3>1 DEF Worked
      <4> QED BY <1>t, <4>1, <4>2 DEF TypeOK
    <3>2. CASE NonZero /\ success' = FALSE /\ \E ks \in SUBSET Kernels : guest' \in Builds(ks)
      BY <1>t, <3>2, BuildsIsTyped DEF NonZero
    <3>3. CASE Absent
      BY <1>t, <3>3 DEF Absent, TypeOK
    <3> QED BY <1>5, <3>1, <3>2, <3>3 DEF Rebuild
  <2>3. TypeOK'
    BY <1>t, <2>1, <2>2, FirstSteps DEF TypeOK, Ended
  <2> QED BY <2>1, <2>2, <2>3 DEF Boots, TypeOK
<1>6. CASE CheckGrubInstalled
  <2>1. /\ stage = "grub" /\ UNCHANGED <<host, guest, tool, success>>
        /\ clean' \in BOOLEAN /\ (clean' = TRUE => clean = TRUE)
        /\ \/ stage' = "mkconfig" /\ UNCHANGED todo
           \/ StepEnds
    BY <1>6, <1>t DEF CheckGrubInstalled, TypeOK
  <2>2. /\ stage' \in {"grub", "mkconfig", "fstab", "done"}
        /\ todo' \in Calls \cup {<<"grub", "fstab">>, <<>>}
        /\ stage' \in {"grub", "mkconfig"} => todo' \in {<<"grub", "fstab">>, <<"grub">>}
        /\ stage' = "fstab" => todo' = <<"fstab">>
    BY <1>t, <2>1, NextStep DEF Ended, TypeOK, InOrder
  <2>3. TypeOK'
    BY <1>t, <2>1, <2>2, FirstSteps DEF TypeOK, Ended
  <2> QED BY <1>t, <2>1, <2>2, <2>3 DEF Boots
<1>7. CASE RegenerateGrub \/ CheckFstab
  <2>1. /\ stage \in {"mkconfig", "fstab"} /\ UNCHANGED <<host, tool>>
        /\ stage' \in {"grub", "fstab", "done"}
        /\ todo' \in Calls \cup {<<"grub", "fstab">>, <<>>}
        /\ stage' = "grub" => todo' = <<"grub", "fstab">>
        /\ stage' = "fstab" => todo' = <<"fstab">>
    BY <1>7, <1>t, NextStep DEF RegenerateGrub, CheckFstab, Ended
  <2>2. /\ guest' \in GuestType /\ success' \in BOOLEAN /\ clean' \in BOOLEAN
        /\ guest'.virtio = guest.virtio /\ guest'.listed = guest.listed
        /\ clean' = TRUE => clean = TRUE
        /\ success' = TRUE => success = TRUE
    BY <1>7, <1>t, EditsAreTyped DEF RegenerateGrub, CheckFstab, Worked, NonZero, Absent, Ran, TypeOK
  <2>3. TypeOK'
    BY <1>t, <2>1, <2>2, FirstSteps DEF TypeOK, Ended
  <2> QED BY <2>1, <2>2, <2>3 DEF Boots, TypeOK
<1>8. CASE Killed
  <2>1. stage' = "idle" /\ guest' \in GuestType /\ UNCHANGED <<todo, host, tool, success, clean>>
    BY <1>8, <1>t, BuildsIsTyped DEF Killed, TypeOK
  <2> QED BY <1>t, <2>1 DEF TypeOK, Ended
<1>9. CASE UNCHANGED vars
  <2>1. TypeOK'
    BY <1>t, <1>9 DEF vars, TypeOK
  <2> QED BY <1>t, <1>9, <2>1 DEF vars, Boots
<1> QED BY <1>1, <1>2, <1>3, <1>4, <1>5, <1>6, <1>7, <1>8, <1>9 DEF Next, Steps

-----------------------------------------------------------------------------
(* What is known of the step a call is at holds in every reachable state.  *)
THEOREM Invariance == Spec => []IInv
  BY InitIInv, StepIInv, PTL DEF Spec

(* Every variable keeps its type.                                          *)
THEOREM TypeCorrect == Spec => []TypeOK
<1>1. IInv => TypeOK
  BY DEF IInv
<1> QED BY <1>1, Invariance, PTL

(* After a call that worked, every kernel of a guest whose tool was        *)
(* detected has virtio in its initramfs.                                   *)
THEOREM CleanRunsBoot == Spec => []CleanRunBoots
<1>1. IInv => CleanRunBoots
  BY DEF IInv, RebuiltIfClean, AfterRebuild, CleanRunBoots
<1> QED BY <1>1, Invariance, PTL

(* A call that reports success hides no rebuild that failed for a kernel.  *)
THEOREM RebuildFailuresShow == Spec => []RebuildFailureShows
<1>1. IInv => RebuildFailureShows
  BY DEF IInv, RebuiltIfSuccess, AfterRebuild, RebuildFailureShows
<1> QED BY <1>1, Invariance, PTL

(* A call that ends with the fstab step does not end in success without    *)
(* virt-customize.                                                         *)
THEOREM NoSuccessWithoutTools == Spec => NoToolsNoSuccess
<1>1. [Next]_vars =>
        [stage = "fstab" /\ stage' = "done" /\ "virt-customize" \notin host.programs => ~success']_vars
  <2> SUFFICES ASSUME [Next]_vars, stage = "fstab", stage' = "done", "virt-customize" \notin host.programs
               PROVE  ~success'
    OBVIOUS
  <2>1. CASE NoDiskImage
    BY <2>1 DEF NoDiskImage
  <2>2. CASE CheckFstab
    BY <2>2 DEF CheckFstab, Worked, NonZero, Absent, Ran
  <2>3. ~(NoDiskImage \/ CheckFstab) => FALSE
    BY DEF Next, Steps, Start, DetectInitramfsTool, AddVirtioModuleConfig, Rebuild,
           CheckGrubInstalled, RegenerateGrub, Killed, vars, Ended
  <2> QED BY <2>1, <2>2, <2>3
<1> QED BY <1>1, PTL DEF Spec, NoToolsNoSuccess
=============================================================================
