---------------------------- MODULE MergePromise ----------------------------
(***************************************************************************)
(* What merging a snapshot chain promises, for a caller who sees only the  *)
(* guest's disk and the answer: the disk keeps its content throughout, a   *)
(* call ends in one answer, and a good answer names a file that shows the  *)
(* disk.  That the merge goes through many files cluster by cluster, and   *)
(* may have been tried before, cannot be seen.                             *)
(***************************************************************************)
CONSTANT Disks     \* contents a disk can have

VARIABLES disk,    \* what the guest's disk holds
          answer,  \* "none", "merging", "success", "failed"
          result   \* what the file named by a good answer shows, or NoResult

NoResult == "no result"

Init == disk \in Disks /\ answer = "none" /\ result = NoResult

Call == /\ answer # "merging"
        /\ answer' = "merging"
        /\ result' = NoResult
        /\ UNCHANGED disk

Succeed == /\ answer' = "success"
           /\ result' = disk
           /\ UNCHANGED disk

Fail == /\ answer' = "failed"
        /\ result' = NoResult
        /\ UNCHANGED disk

Killed == /\ answer = "merging"
          /\ answer' = "none"
          /\ result' = NoResult
          /\ UNCHANGED disk

Next == Call \/ Succeed \/ Fail \/ Killed

Spec == Init /\ [][Next]_<<disk, answer, result>>
=============================================================================
