------------------------ MODULE SnapshotMergeProofs ------------------------
(***************************************************************************)
(* Theorems about SnapshotMerge for chains of every length, over every set *)
(* of clusters and data.  IInv is inductive; the guest's disk survives and *)
(* a success is merged because of it.                                      *)
(***************************************************************************)
EXTENDS SnapshotMerge, TLAPS

\* The chain as a table of clusters.
Table == [Images -> [Cluster -> Content]]

-----------------------------------------------------------------------------
(* How a chain reads.                                                      *)

(* An allocated cluster hides everything below it.                         *)
LEMMA ReadsTop ==
  ASSUME NEW im \in Table, NEW i \in Images, NEW c \in Cluster, NEW v,
         im[i][c] # Hole
  PROVE  Reads(im, i, c, v) <=> v = im[i][c]
<1>1. ASSUME Reads(im, i, c, v) PROVE v = im[i][c]
  <2>1. PICK j \in i..N : im[j][c] = v /\ \A k \in i..(j-1) : im[k][c] = Hole
    BY <1>1 DEF Reads
  <2>2. j = i
    BY <2>1, LengthAssumption DEF Images
  <2> QED BY <2>1, <2>2
<1>2. ASSUME v = im[i][c] PROVE Reads(im, i, c, v)
  <2>1. i \in i..N /\ i..(i-1) = {}
    BY LengthAssumption DEF Images
  <2> QED BY <1>2, <2>1 DEF Reads
<1> QED BY <1>1, <1>2

(* A hole above the base is read through.                                  *)
LEMMA ReadsThrough ==
  ASSUME NEW im \in Table, NEW i \in Images, NEW c \in Cluster, NEW v,
         i < N, im[i][c] = Hole
  PROVE  Reads(im, i, c, v) <=> Reads(im, i+1, c, v)
<1> USE LengthAssumption DEF Images
<1>1. ASSUME Reads(im, i, c, v) PROVE Reads(im, i+1, c, v)
  <2>1. PICK j \in i..N : /\ im[j][c] = v
                          /\ v # Hole \/ j = N
                          /\ \A k \in i..(j-1) : im[k][c] = Hole
    BY <1>1 DEF Reads
  <2>2. j # i
    BY <2>1
  <2>3. j \in (i+1)..N /\ \A k \in (i+1)..(j-1) : im[k][c] = Hole
    BY <2>1, <2>2
  <2> QED BY <2>1, <2>3 DEF Reads
<1>2. ASSUME Reads(im, i+1, c, v) PROVE Reads(im, i, c, v)
  <2>1. PICK j \in (i+1)..N : /\ im[j][c] = v
                              /\ v # Hole \/ j = N
                              /\ \A k \in (i+1)..(j-1) : im[k][c] = Hole
    BY <1>2 DEF Reads
  <2>2. j \in i..N /\ \A k \in i..(j-1) : im[k][c] = Hole
    BY <2>1
  <2> QED BY <2>1, <2>2 DEF Reads
<1> QED BY <1>1, <1>2

(* Opening an image shows at most one value in a cluster.                  *)
LEMMA ReadsOne ==
  ASSUME NEW im \in Table, NEW i \in Images, NEW c \in Cluster, NEW v, NEW w,
         Reads(im, i, c, v), Reads(im, i, c, w)
  PROVE  v = w
<1> USE LengthAssumption DEF Images
<1>1. PICK j \in i..N : /\ im[j][c] = v
                        /\ v # Hole \/ j = N
                        /\ \A k \in i..(j-1) : im[k][c] = Hole
  BY DEF Reads
<1>2. PICK l \in i..N : /\ im[l][c] = w
                        /\ w # Hole \/ l = N
                        /\ \A k \in i..(l-1) : im[k][c] = Hole
  BY DEF Reads
<1>3. CASE j = l
  BY <1>1, <1>2, <1>3
<1>4. CASE j < l
  BY <1>1, <1>2, <1>4
<1>5. CASE l < j
  BY <1>1, <1>2, <1>5
<1> QED BY <1>3, <1>4, <1>5

-----------------------------------------------------------------------------
(* What qemu-img commit does to the way a chain reads.                     *)

(* Copying an allocated cluster one image down changes nothing for whoever *)
(* opens the delta or an image above it.                                   *)
LEMMA CopyKeepsReads ==
  ASSUME NEW im \in Table, NEW im2 \in Table, NEW p \in Images, p < N,
         NEW d \in Cluster, im[p][d] # Hole,
         im2 = [im EXCEPT ![p+1] = [@ EXCEPT ![d] = im[p][d]]],
         NEW i \in 1..p, NEW c \in Cluster, NEW v, Reads(im, i, c, v)
  PROVE  Reads(im2, i, c, v)
<1> USE LengthAssumption DEF Images
<1>1. PICK j \in i..N : /\ im[j][c] = v
                        /\ v # Hole \/ j = N
                        /\ \A k \in i..(j-1) : im[k][c] = Hole
  BY DEF Reads
<1>2. \A k \in Images : k # p+1 \/ c # d => im2[k][c] = im[k][c]
  BY DEF Table
<1>3. CASE c # d
  <2>1. im2[j][c] = v /\ \A k \in i..(j-1) : im2[k][c] = Hole
    BY <1>1, <1>2, <1>3
  <2> QED BY <1>1, <2>1 DEF Reads
<1>4. CASE c = d
  <2>1. j <= p
    BY <1>1, <1>4
  <2>2. im2[j][c] = v /\ \A k \in i..(j-1) : im2[k][c] = Hole
    BY <1>1, <1>2, <2>1
  <2> QED BY <1>1, <2>2 DEF Reads
<1> QED BY <1>3, <1>4

(* Emptying a delta whose clusters are all in its parent changes nothing   *)
(* for whoever opens it or an image above it.                              *)
LEMMA EmptyKeepsReads ==
  ASSUME NEW im \in Table, NEW im2 \in Table, NEW p \in Images, p < N,
         \A c \in Cluster : im[p][c] # Hole => im[p+1][c] = im[p][c],
         im2 = [im EXCEPT ![p] = [c \in Cluster |-> Hole]],
         NEW i \in 1..p, NEW c \in Cluster, NEW v, Reads(im, i, c, v)
  PROVE  Reads(im2, i, c, v)
<1> USE LengthAssumption DEF Images
<1>1. PICK j \in i..N : /\ im[j][c] = v
                        /\ v # Hole \/ j = N
                        /\ \A k \in i..(j-1) : im[k][c] = Hole
  BY DEF Reads
<1>2. /\ \A k \in Images : k # p => im2[k][c] = im[k][c]
      /\ im2[p][c] = Hole
  BY DEF Table
<1>3. CASE j # p
  <2>1. im2[j][c] = v /\ \A k \in i..(j-1) : im2[k][c] = Hole
    BY <1>1, <1>2, <1>3
  <2> QED BY <1>1, <2>1 DEF Reads
<1>4. CASE j = p
  <2>1. v # Hole /\ p+1 \in i..N
    BY <1>1, <1>4
  <2>2. im2[p+1][c] = v
    BY <1>1, <1>2, <1>4, <2>1
  <2>3. \A k \in i..((p+1)-1) : im2[k][c] = Hole
    BY <1>1, <1>2, <1>4
  <2> QED BY <2>1, <2>2, <2>3 DEF Reads
<1> QED BY <1>3, <1>4

(* Once a delta's clusters are in its parent, the parent reads as it did.  *)
LEMMA CommittedReads ==
  ASSUME NEW im \in Table, NEW p \in Images, p < N,
         \A c \in Cluster : im[p][c] # Hole => im[p+1][c] = im[p][c],
         NEW c \in Cluster, NEW v, Reads(im, p, c, v)
  PROVE  Reads(im, p+1, c, v)
<1>1. p+1 \in Images
  BY LengthAssumption DEF Images
<1>2. CASE im[p][c] = Hole
  BY <1>2, ReadsThrough
<1>3. CASE im[p][c] # Hole
  <2>1. v = im[p][c]
    BY <1>3, ReadsTop
  <2>2. im[p+1][c] # Hole /\ v = im[p+1][c]
    BY <1>3, <2>1
  <2> QED BY <1>1, <2>2, ReadsTop
<1> QED BY <1>2, <1>3

-----------------------------------------------------------------------------
(* The inductive invariant.                                                *)

LEMMA InitIInv == Init => IInv
<1> SUFFICES ASSUME Init PROVE IInv
  OBVIOUS
<1>1. TypeOK
  BY LengthAssumption DEF Init, TypeOK, Images
<1> QED BY <1>1 DEF Init, IInv, SourceSurvives, MergedDownTo, CopiedIsInParent, SuccessIsAtEnd

LEMMA StepIInv == IInv /\ [Next]_vars => IInv'
<1> SUFFICES ASSUME IInv, [Next]_vars PROVE IInv'
  OBVIOUS
<1> USE LengthAssumption
<1>t. /\ img \in Table /\ len \in 0..N /\ pos \in Images
      /\ copied \in SUBSET Cluster /\ view \in [Cluster -> Content]
      /\ 1 \in Images
  BY DEF IInv, TypeOK, Table, Images
<1>1. CASE CallEmpty
  BY <1>1 DEF CallEmpty, Idle, IInv, TypeOK, Images, SourceSurvives, MergedDownTo, CopiedIsInParent,
              SuccessIsAtEnd
<1>2. CASE CallSingle
  <2>1. TypeOK'
    BY <1>2 DEF CallSingle, IInv, TypeOK, Images
  <2> QED BY <1>2, <2>1 DEF CallSingle, IInv, SourceSurvives, MergedDownTo, CopiedIsInParent,
                            SuccessIsAtEnd
<1>3. ASSUME NEW n \in Images, CallChain(n) PROVE IInv'
  <2>1. TypeOK'
    BY <1>3 DEF CallChain, FirstDelta, IInv, TypeOK, Images
  <2> QED BY <1>3, <2>1 DEF CallChain, FirstDelta, IInv, SourceSurvives, MergedDownTo,
                            CopiedIsInParent, SuccessIsAtEnd
<1>4. CASE StartCommit
  BY <1>4 DEF StartCommit, IInv, TypeOK, SourceSurvives, MergedDownTo, CopiedIsInParent, SuccessIsAtEnd
<1>5. CASE NoQemuImg
  BY <1>5 DEF NoQemuImg, IInv, TypeOK, SourceSurvives, MergedDownTo, CopiedIsInParent, SuccessIsAtEnd
<1>6. CASE Finish
  BY <1>6, <1>t DEF Finish, IInv, TypeOK, SourceSurvives, MergedDownTo, CopiedIsInParent,
                    SuccessIsAtEnd, Images
<1>7. ASSUME NEW d \in Cluster, CopyCluster(d) PROVE IInv'
  <2>0. /\ phase = "commit" /\ phase' = "commit" /\ pos < len /\ pos < N
        /\ UNCHANGED <<len, pos, view>> /\ copied' = copied \cup {d}
    BY <1>7, <1>t DEF CopyCluster, IInv, TypeOK, Images
  <2>1. CASE img[pos][d] = Hole
    <3>1. img' = img
      BY <1>7, <2>1 DEF CopyCluster
    <3> QED BY <1>t, <2>0, <2>1, <3>1 DEF IInv, TypeOK, SourceSurvives, MergedDownTo,
                                           CopiedIsInParent, SuccessIsAtEnd
  <2>2. CASE img[pos][d] # Hole
    <3>1. img' = [img EXCEPT ![pos+1] = [@ EXCEPT ![d] = img[pos][d]]]
      BY <1>7, <2>2 DEF CopyCluster
    <3>2. pos+1 \in Images /\ img[pos][d] \in Content
      BY <1>t, <2>0 DEF Images, Table
    <3>3. img' \in Table
      BY <1>t, <3>1, <3>2 DEF Table
    <3>4. TypeOK'
      BY <1>t, <2>0, <3>3 DEF IInv, TypeOK, Table
    <3>5. \A i \in 1..pos, c \in Cluster, v \in Content : Reads(img, i, c, v) => Reads(img', i, c, v)
      BY <1>t, <2>0, <2>2, <3>1, <3>3, CopyKeepsReads
    <3>6. SourceSurvives'
      BY <1>t, <2>0, <3>5 DEF IInv, SourceSurvives, Images
    <3>7. MergedDownTo'
      BY <1>t, <2>0, <3>5 DEF IInv, MergedDownTo, Images
    <3>8. CopiedIsInParent'
      <4>1. img'[pos+1][d] = img[pos][d] /\ \A c \in Cluster : img'[pos][c] = img[pos][c]
        BY <1>t, <3>1, <3>2 DEF Table, Images
      <4>2. \A c \in Cluster : c # d => img'[pos+1][c] = img[pos+1][c]
        BY <1>t, <3>1, <3>2 DEF Table, Images
      <4> QED BY <1>t, <2>0, <4>1, <4>2 DEF IInv, CopiedIsInParent
    <3> QED BY <2>0, <3>4, <3>6, <3>7, <3>8 DEF IInv, SuccessIsAtEnd
  <2> QED BY <2>1, <2>2
<1>8. CASE CommitDone
  <2>0. /\ phase = "commit" /\ phase' = "loop" /\ pos < len /\ pos < N /\ pos' = pos + 1
        /\ UNCHANGED <<len, copied, view>> /\ copied = Cluster
    BY <1>8, <1>t DEF CommitDone, IInv, TypeOK, Images
  <2>1. \A c \in Cluster : img[pos][c] # Hole => img[pos+1][c] = img[pos][c]
    BY <2>0 DEF IInv, CopiedIsInParent
  <2>2. pos+1 \in Images
    BY <1>t, <2>0 DEF Images
  <2>3. /\ img' \in Table
        /\ \A i \in 1..pos, c \in Cluster, v \in Content : Reads(img, i, c, v) => Reads(img', i, c, v)
        /\ \A i \in Images : i # pos => img'[i] = img[i]
    <3>1. CASE img' = img
      BY <1>t, <3>1
    <3>2. CASE img' = [img EXCEPT ![pos] = [c \in Cluster |-> Hole]]
      <4>1. img' \in Table
        BY <1>t, <3>2 DEF Table, Content
      <4>2. \A i \in Images : i # pos => img'[i] = img[i]
        BY <1>t, <3>2 DEF Table
      <4> QED BY <1>t, <2>0, <2>1, <3>2, <4>1, <4>2, EmptyKeepsReads
    <3> QED BY <1>8, <3>1, <3>2 DEF CommitDone
  <2>4. TypeOK'
    BY <1>t, <2>0, <2>2, <2>3 DEF IInv, TypeOK, Table, Images
  <2>5. SourceSurvives'
    BY <1>t, <2>0, <2>3 DEF IInv, SourceSurvives, Images
  <2>6. MergedDownTo'
    <3>1. \A c \in Cluster : Reads(img, pos, c, view[c])
      BY <2>0 DEF IInv, MergedDownTo
    <3>2. \A c \in Cluster : Reads(img, pos+1, c, view[c])
      BY <1>t, <2>0, <2>1, <3>1, CommittedReads
    <3>3. \A i \in (pos+1)..N : img'[i] = img[i]
      BY <1>t, <2>3 DEF Images
    <3>4. \A c \in Cluster : Reads(img', pos+1, c, view[c])
      BY <1>t, <3>2, <3>3 DEF Reads, Images
    <3> QED BY <2>0, <3>4 DEF MergedDownTo
  <2> QED BY <2>0, <2>4, <2>5, <2>6 DEF IInv, CopiedIsInParent, SuccessIsAtEnd
<1>9. CASE CommitFails
  BY <1>9 DEF CommitFails, IInv, TypeOK, SourceSurvives, MergedDownTo, CopiedIsInParent, SuccessIsAtEnd
<1>10. CASE Crash
  BY <1>10 DEF Crash, IInv, TypeOK, SourceSurvives, MergedDownTo, CopiedIsInParent, SuccessIsAtEnd
<1>11. CASE UNCHANGED vars
  BY <1>11 DEF vars, IInv, TypeOK, SourceSurvives, MergedDownTo, CopiedIsInParent, SuccessIsAtEnd
<1> QED BY <1>1, <1>2, <1>3, <1>4, <1>5, <1>6, <1>7, <1>8, <1>9, <1>10, <1>11 DEF Next

(* IInv holds in every reachable state.                                    *)
THEOREM Invariance == Spec => []IInv
<1> QED BY InitIInv, StepIInv, PTL DEF Spec

(* Every variable keeps its type, for chains of any length.                *)
THEOREM TypeCorrect == Spec => []TypeOK
<1>1. IInv => TypeOK
  BY DEF IInv
<1> QED BY <1>1, Invariance, PTL

(* At every moment, failures, kills and repeated calls included, the guest *)
(* can still be started from the leaf of its chain.                        *)
THEOREM SourceAlwaysSurvives == Spec => []SourceSurvives
<1>1. IInv => SourceSurvives
  BY DEF IInv
<1> QED BY <1>1, Invariance, PTL

(* merge_snapshot_chain reports success only when the file it returns      *)
(* shows the guest's disk.                                                 *)
THEOREM SuccessAlwaysMerged == Spec => []SuccessIsMerged
<1>1. IInv => SuccessIsMerged
  BY DEF IInv, SuccessIsMerged, MergedDownTo, SuccessIsAtEnd
<1> QED BY <1>1, Invariance, PTL

-----------------------------------------------------------------------------
(* The refinement: seen through the leaf and the returned file, the merge  *)
(* takes the steps of MergePromise or none.                                *)

(* An image through which every cluster of the guest's disk reads right    *)
(* shows the guest's disk and nothing else.                                *)
LEMMA ShownIsView ==
  ASSUME TypeOK, NEW i \in Images, \A c \in Cluster : Reads(img, i, c, view[c])
  PROVE  ShownBy(i) = view
<1> DEFINE Shows(f) == \A c \in Cluster : Reads(img, i, c, f[c])
<1>1. view \in [Cluster -> Content] /\ img \in Table
  BY DEF TypeOK, Table
<1>2. ASSUME NEW f \in [Cluster -> Content], Shows(f) PROVE f = view
  <2>1. \A c \in Cluster : f[c] = view[c]
    BY <1>1, <1>2, ReadsOne
  <2> QED BY <1>1, <2>1
<1>3. Shows(view)
  OBVIOUS
<1> HIDE DEF Shows
<1>4. (CHOOSE f \in [Cluster -> Content] : Shows(f)) = view
  BY <1>1, <1>2, <1>3
<1> QED BY <1>4 DEF ShownBy, Shows

\* What MergePromise sees of a reachable state.
Visible == /\ ShownBy(1) = view
           /\ Result = IF phase = "success" THEN view ELSE "no result"

LEMMA Seen == IInv => Visible
<1> SUFFICES ASSUME IInv PROVE Visible
  OBVIOUS
<1>1. 1 \in Images
  BY LengthAssumption DEF Images
<1>2. ShownBy(1) = view
  BY <1>1, ShownIsView DEF IInv, SourceSurvives
<1>3. CASE phase = "success"
  <2>1. len \in Images /\ \A c \in Cluster : Reads(img, len, c, view[c])
    BY <1>3 DEF IInv, SuccessIsAtEnd, MergedDownTo, TypeOK
  <2> QED BY <1>2, <1>3, <2>1, ShownIsView DEF IInv, Result, Visible
<1> QED BY <1>2, <1>3 DEF Result, Visible

LEMMA ViewNeverChanges == [Next]_vars => view' = view
  BY DEF Next, vars, CallEmpty, CallSingle, CallChain, StartCommit, NoQemuImg, Finish, CopyCluster,
         CommitDone, CommitFails, Crash

(* merge_snapshot_chain implements MergePromise: the guest's disk stays as *)
(* it is, and every good answer names a file that shows it.                *)
THEOREM Implements == Spec => KeepsPromise
<1>1. Init => Promise!Init
  <2> SUFFICES ASSUME Init PROVE Promise!Init
    OBVIOUS
  <2>1. IInv
    BY InitIInv
  <2>2. ShownBy(1) = view /\ Result = "no result" /\ Answer = "none"
    BY <2>1, Seen DEF Init, Answer, Visible
  <2> QED BY <2>2 DEF Promise!Init, Init, Promise!NoResult
<1>2. IInv /\ IInv' /\ [Next]_vars => [Promise!Next]_<<ShownBy(1), Answer, Result>>
  <2> SUFFICES ASSUME IInv, IInv', [Next]_vars
               PROVE  Promise!Next \/ UNCHANGED <<ShownBy(1), Answer, Result>>
    OBVIOUS
  <2>1. /\ ShownBy(1) = view
        /\ ShownBy(1)' = view
        /\ Result = IF phase = "success" THEN view ELSE "no result"
        /\ Result' = IF phase' = "success" THEN view ELSE "no result"
    <3>1. IInv' => Visible'
      BY Seen, PTL
    <3> QED BY Seen, ViewNeverChanges, <3>1 DEF Visible
  <2>2. CASE phase' = phase
    BY <2>1, <2>2 DEF Answer
  <2>3. CASE phase' # phase
    <3>1. \/ phase \in {"idle", "success", "failed"} /\ phase' \in {"loop", "success", "failed"}
          \/ phase \in {"loop", "commit"} /\ phase' \in {"idle", "loop", "commit", "success", "failed"}
      <4>1. CASE CallEmpty \/ CallSingle \/ \E n \in Images : CallChain(n)
        BY <4>1 DEF Idle, CallEmpty, CallSingle, CallChain
      <4>2. CASE StartCommit \/ NoQemuImg \/ Finish
        BY <4>2 DEF StartCommit, NoQemuImg, Finish
      <4>3. CASE \E c \in Cluster : CopyCluster(c)
        BY <2>3, <4>3 DEF CopyCluster
      <4>4. CASE CommitDone \/ CommitFails
        BY <4>4 DEF CommitDone, CommitFails
      <4>5. CASE Crash
        BY <4>5 DEF Crash, Idle, IInv, TypeOK
      <4> QED BY <2>3, <4>1, <4>2, <4>3, <4>4, <4>5 DEF Next, vars
    <3> QED BY <2>1, <2>3, <3>1 DEF Answer, Promise!Next, Promise!Call, Promise!Succeed,
                                     Promise!Fail, Promise!Killed, Promise!NoResult
  <2> QED BY <2>2, <2>3
<1> QED BY <1>1, <1>2, Invariance, PTL DEF Spec, KeepsPromise, Promise!Spec
=============================================================================
