--------------------------- MODULE SnapshotMerge ---------------------------
(***************************************************************************)
(* merge_snapshot_chain (converter/disk.py): a VMDK snapshot chain, listed *)
(* leaf first, is folded into its last file by one `qemu-img commit` per   *)
(* delta.  The loop is the repository's; a commit is qemu's, and is broken *)
(* here into the cluster copies it consists of, so that it can fail, and   *)
(* the whole program can die, between any two of them.                     *)
(*                                                                         *)
(* Images are numbered by depth: image 1 is the leaf, image i+1 backs      *)
(* image i, image N is the base.                                           *)
(***************************************************************************)
EXTENDS Integers

CONSTANTS N,        \* number of images in the chain on disk
          Cluster,  \* the clusters of the virtual disk
          Data,     \* what an allocated cluster can hold
          Hole      \* an image's unallocated cluster: read through

ASSUME LengthAssumption == N \in Nat \ {0}
ASSUME HoleAssumption   == Hole \notin Data

VARIABLES img,      \* img[i][c]: cluster c as stored in image i
          phase,    \* where merge_snapshot_chain is
          len,      \* len(chain): how much of the chain the caller listed
          pos,      \* the loop's delta_path is image pos
          copied,   \* clusters the running commit has dealt with
          view      \* what the guest's disk held when it was shut down

vars == <<img, phase, len, pos, copied, view>>

Images  == 1..N
Content == Data \cup {Hole}

(***************************************************************************)
(* Opening image i shows v in cluster c: the first image from i down that  *)
(* has c allocated decides, and a cluster no image has reads as a hole.    *)
(***************************************************************************)
Reads(im, i, c, v) ==
  \E j \in i..N : /\ im[j][c] = v
                  /\ v # Hole \/ j = N
                  /\ \A k \in i..(j-1) : im[k][c] = Hole

Idle == phase \in {"idle", "success", "failed"}

Init == /\ img \in [Images -> [Cluster -> Content]]
        /\ view \in [Cluster -> Content]
        /\ \A c \in Cluster : Reads(img, 1, c, view[c])
        /\ phase = "idle"
        /\ len = 0
        /\ pos = 1
        /\ copied = {}

-----------------------------------------------------------------------------
(* merge_snapshot_chain called with the first n images of the chain.       *)

\* if not chain: "Empty snapshot chain"
CallEmpty == /\ Idle
             /\ phase' = "failed"
             /\ len' = 0
             /\ UNCHANGED <<img, pos, copied, view>>

\* len(chain) == 1: "Single disk, no merge needed"
CallSingle == /\ Idle
              /\ phase' = "success"
              /\ len' = 1
              /\ pos' = 1
              /\ UNCHANGED <<img, copied, view>>

\* Mutant: the leaf, chain[0], is taken for the running VM's and skipped.
FirstDelta_SkipsLeaf == 2

\* The loop starts at the leaf, chain[0].
FirstDelta == 1

CallChain(n) == /\ Idle
                /\ n > 1
                /\ phase' = "loop"
                /\ len' = n
                /\ pos' = FirstDelta
                /\ UNCHANGED <<img, copied, view>>

\* One iteration: `qemu-img commit` is started on image pos ...
StartCommit == /\ phase = "loop"
               /\ pos < len
               /\ phase' = "commit"
               /\ copied' = {}
               /\ UNCHANGED <<img, len, pos, view>>

\* Mutant: a missing qemu-img only ends the loop.
NoQemuImg_Succeeds == /\ phase = "loop"
                      /\ pos < len
                      /\ phase' = "success"
                      /\ UNCHANGED <<img, len, pos, copied, view>>

\* ... or is not on PATH, and the call returns with an error.
NoQemuImg == /\ phase = "loop"
             /\ pos < len
             /\ phase' = "failed"
             /\ UNCHANGED <<img, len, pos, copied, view>>

\* Mutant: success is reported with one delta to go.
Finish_OneEarly == /\ phase = "loop"
                   /\ pos + 1 >= len
                   /\ phase' = "success"
                   /\ UNCHANGED <<img, len, pos, copied, view>>

\* chain[:-1] is exhausted: success, output_path = chain[-1].
Finish == /\ phase = "loop"
          /\ pos = len
          /\ phase' = "success"
          /\ UNCHANGED <<img, len, pos, copied, view>>

-----------------------------------------------------------------------------
(* External: qemu-img commit of image pos into the file that backs it.     *)

CopyCluster(c) ==
  /\ phase = "commit"
  /\ c \notin copied
  /\ img' = IF img[pos][c] = Hole
              THEN img
              ELSE [img EXCEPT ![pos+1] = [@ EXCEPT ![c] = img[pos][c]]]
  /\ copied' = copied \cup {c}
  /\ UNCHANGED <<phase, len, pos, view>>

\* Exit status 0.  The committed delta may be emptied (qemu does so for the
\* formats that support it) or keep its clusters.
CommitDone ==
  /\ phase = "commit"
  /\ copied = Cluster
  /\ img' \in {img, [img EXCEPT ![pos] = [c \in Cluster |-> Hole]]}
  /\ phase' = "loop"
  /\ pos' = pos + 1
  /\ UNCHANGED <<len, copied, view>>

\* Mutant: the delta is removed although its commit failed.
CommitFails_DropsDelta == /\ phase = "commit"
                          /\ img' = [img EXCEPT ![pos] = [c \in Cluster |-> Hole]]
                          /\ phase' = "failed"
                          /\ UNCHANGED <<len, pos, copied, view>>

\* Mutant: a failed commit is tried again.
CommitFails_Retries == /\ phase = "commit"
                       /\ phase' = "loop"
                       /\ UNCHANGED <<img, len, pos, copied, view>>

\* A nonzero exit status after some of the clusters: "Merge failed for ..."
CommitFails == /\ phase = "commit"
               /\ phase' = "failed"
               /\ UNCHANGED <<img, len, pos, copied, view>>

\* The program is killed (SIGKILL, power) anywhere; a later call starts over.
Crash == /\ ~Idle
         /\ phase' = "idle"
         /\ UNCHANGED <<img, len, pos, copied, view>>

-----------------------------------------------------------------------------
Next == \/ CallEmpty
        \/ CallSingle
        \/ \E n \in Images : CallChain(n)
        \/ StartCommit
        \/ NoQemuImg
        \/ Finish
        \/ \E c \in Cluster : CopyCluster(c)
        \/ CommitDone
        \/ CommitFails
        \/ Crash

Spec == Init /\ [][Next]_vars

(***************************************************************************)
(* The loop and the child it waits for do not stop by themselves.  Calls,  *)
(* failures and crashes are never forced.                                  *)
(***************************************************************************)
Progress == StartCommit \/ Finish \/ CommitDone \/ (\E c \in Cluster : CopyCluster(c))

FairSpec == Spec /\ WF_vars(Progress)

-----------------------------------------------------------------------------
(* The types of the variables, and which phases go with which positions.   *)
TypeOK == /\ img \in [Images -> [Cluster -> Content]]
          /\ phase \in {"idle", "loop", "commit", "success", "failed"}
          /\ len \in 0..N
          /\ pos \in Images
          /\ copied \in SUBSET Cluster
          /\ view \in [Cluster -> Content]
          /\ phase \in {"loop", "success"} => pos <= len
          /\ phase = "commit" => pos < len

(***************************************************************************)
(* The guest's disk, opened through its leaf as VMware would, never        *)
(* changes: not between two copies, not when a commit fails half way, not  *)
(* when the program dies, not when the merge is run again on what an       *)
(* earlier attempt left.                                                   *)
(***************************************************************************)
SourceSurvives == \A c \in Cluster : Reads(img, 1, c, view[c])

(***************************************************************************)
(* "After merging, the base VMDK contains the fully-merged state": when    *)
(* the call reports success, the file it returns (chain[-1]) shows the     *)
(* guest's disk, whatever earlier attempts did to the chain.               *)
(***************************************************************************)
SuccessIsMerged ==
  phase = "success" => \A c \in Cluster : Reads(img, len, c, view[c])

(***************************************************************************)
(* The loop's invariant: everything above the delta about to be committed  *)
(* has reached it, so the chain may be read from there.                    *)
(***************************************************************************)
MergedDownTo ==
  phase \in {"loop", "commit", "success"} =>
    \A c \in Cluster : Reads(img, pos, c, view[c])

\* What the running commit has copied is in the parent.
CopiedIsInParent ==
  phase = "commit" =>
    \A c \in copied : img[pos][c] # Hole => img[pos+1][c] = img[pos][c]

\* A call's success leaves the loop at its last element.
SuccessIsAtEnd == phase = "success" => pos = len

IInv == TypeOK /\ SourceSurvives /\ MergedDownTo /\ CopiedIsInParent /\ SuccessIsAtEnd

(* Every call returns, unless the program is killed.                       *)
EveryCallEnds == ~Idle ~> Idle

(***************************************************************************)
(* Seen through the leaf, and through the file a success returns, the      *)
(* merge does what MergePromise promises.                                  *)
(***************************************************************************)
ShownBy(i) == CHOOSE f \in [Cluster -> Content] : \A c \in Cluster : Reads(img, i, c, f[c])

Answer == CASE phase = "idle"               -> "none"
            [] phase \in {"loop", "commit"} -> "merging"
            [] phase = "success"            -> "success"
            [] phase = "failed"             -> "failed"

Result == IF phase = "success" THEN ShownBy(len) ELSE "no result"

Promise == INSTANCE MergePromise
             WITH Disks  <- [Cluster -> Content], disk   <- ShownBy(1),
                  answer <- Answer,               result <- Result

KeepsPromise == Promise!Spec
=============================================================================
