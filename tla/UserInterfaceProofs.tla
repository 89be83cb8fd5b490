------------------------ MODULE UserInterfaceProofs ------------------------
(***************************************************************************)
(* Theorems about the programs that face the user: those of a terminal for *)
(* any settings, inputs, packages and patches (the monitor and the input   *)
(* line are in TerminalProofs), the pages of the browser for any markers,  *)
(* formulas, settings, topics and subscriptions, the driver of the LED     *)
(* strip for any requests and any size of the queue they wait in, and the  *)
(* notification node for any statuses and readings.                        *)
(***************************************************************************)
EXTENDS MCUserInterface, TerminalProofs

-----------------------------------------------------------------------------
(* Patches.                                                                *)

\* The patches that were applied are the first ones, newest first; the tree is what was
\* there and they; those listed are the rest. A repository that had a patch takes none.
PatchInv ==
    /\ touches \in [Patch -> SUBSET Patch] /\ \A p \in Patch : touches[p] \subseteq 1 .. (p - 1)
    /\ script \in {"applying", "unwinding", "done", "refused"}
    /\ \E k \in 0 .. PatchCount :
           /\ applied = [i \in 1 .. k |-> k + 1 - i]
           /\ found \in {<<>>, <<1>>} /\ (k > 0 => found = <<>>)
           /\ tree = found \o [i \in 1 .. k |-> i]
           /\ script = "applying" => listed = [i \in 1 .. (PatchCount - k) |-> k + i]
           /\ script = "done" => k = PatchCount
           /\ script = "refused" => k = 0

LEMMA TailIs ==
    ASSUME NEW S, NEW s \in Seq(S), s # <<>>
    PROVE  Tail(s) = [i \in 1 .. (Len(s) - 1) |-> s[i + 1]]
<1>1. Tail(s) \in Seq(S) /\ Len(Tail(s)) = Len(s) - 1
  OBVIOUS
<1>2. \A i \in 1 .. (Len(s) - 1) : Tail(s)[i] = s[i + 1]
  OBVIOUS
<1>3. Tail(s) \in [1 .. (Len(s) - 1) -> S]
  BY <1>1, LenProperties
<1>4. QED BY <1>2, <1>3

LEMMA PatchStarts == PatchInit => PatchInv
<1> SUFFICES ASSUME PatchInit PROVE PatchInv
  OBVIOUS
<1> USE PatchAssumption
<1>1. [i \in 1 .. 0 |-> 0 + 1 - i] = <<>> /\ [i \in 1 .. 0 |-> i] = <<>>
  OBVIOUS
<1>2. touches \in [Patch -> SUBSET Patch] /\ \A p \in Patch : touches[p] \subseteq 1 .. (p - 1)
  BY DEF PatchInit
<1>3. found \o <<>> = found /\ found \in {<<>>, <<1>>}
  BY DEF PatchInit
<1>4. listed = [i \in 1 .. (PatchCount - 0) |-> 0 + i]
  BY DEF PatchInit, Patch
<1>5. /\ applied = [i \in 1 .. 0 |-> 0 + 1 - i]
      /\ tree = found \o [i \in 1 .. 0 |-> i] /\ script = "applying"
  <2>1. applied = <<>> /\ tree = found /\ script = "applying"
    BY DEF PatchInit
  <2>2. tree = found \o [i \in 1 .. 0 |-> i]
    BY <2>1, <1>1, <1>3
  <2>3. QED BY <2>1, <2>2, <1>1
<1>6. script \in {"applying", "unwinding", "done", "refused"} /\ script # "done" /\ script # "refused"
  BY <1>5
<1>7. QED
  BY <1>2, <1>3, <1>4, <1>5, <1>6 DEF PatchInv

LEMMA ApplyKeeps == PatchInv /\ ApplyPatch => PatchInv'
<1> SUFFICES ASSUME PatchInv, ApplyPatch PROVE PatchInv'
  OBVIOUS
<1> USE PatchAssumption
<1>0. UNCHANGED <<touches, found>>
  BY DEF ApplyPatch
<1>1. PICK k \in 0 .. PatchCount :
           /\ applied = [i \in 1 .. k |-> k + 1 - i]
           /\ found \in {<<>>, <<1>>} /\ (k > 0 => found = <<>>)
           /\ tree = found \o [i \in 1 .. k |-> i]
           /\ listed = [i \in 1 .. (PatchCount - k) |-> k + i]
  BY DEF PatchInv, ApplyPatch
<1>2. script = "applying" /\ listed # <<>>
  BY DEF ApplyPatch
<1>3. k < PatchCount /\ Head(listed) = k + 1 /\ Tail(listed) = [i \in 1 .. (PatchCount - (k + 1)) |-> (k + 1) + i]
  <2>1. k < PatchCount
    BY <1>1, <1>2
  <2>2. Head(listed) = k + 1
    BY <2>1, <1>1
  <2>3. Tail(listed) = [i \in 1 .. (PatchCount - (k + 1)) |-> (k + 1) + i]
    <3>1. listed \in Seq(Int) /\ Len(listed) = PatchCount - k /\ listed # <<>>
      <4>1. listed \in Seq(Int) /\ PatchCount - k \in Nat
        BY <1>1
      <4>2. DOMAIN listed = 1 .. (PatchCount - k)
        BY <1>1
      <4>3. QED BY <4>1, <4>2, <1>2
    <3>2. Tail(listed) = [i \in 1 .. ((PatchCount - k) - 1) |-> listed[i + 1]]
      BY <3>1, TailIs
    <3>3. (PatchCount - k) - 1 = PatchCount - (k + 1)
      OBVIOUS
    <3>4. \A i \in 1 .. (PatchCount - (k + 1)) : listed[i + 1] = (k + 1) + i
      BY <1>1
    <3>5. QED BY <3>2, <3>3, <3>4
  <2>4. QED BY <2>1, <2>2, <2>3
<1>4. CASE GitApplies(k + 1)
  <2>1. tree' = Append(tree, k + 1) /\ applied' = <<k + 1>> \o applied /\ listed' = Tail(listed) /\ script' = script
    BY <1>2, <1>3, <1>4 DEF ApplyPatch
  <2>2. found = <<>>
    <3> SUFFICES ASSUME found # <<>>, k = 0 PROVE FALSE
      BY <1>1
    <3>1. [i \in 1 .. 0 |-> i] = <<>>
      OBVIOUS
    <3>2. tree = <<1>>
      BY <1>1, <3>1
    <3>3. 1 \in Held
      BY <3>2 DEF Held
    <3>4. QED BY <3>3, <1>4 DEF GitApplies
  <2>3. tree' = found' \o [i \in 1 .. (k + 1) |-> i]
    <3>1. tree = [i \in 1 .. k |-> i]
      BY <2>2, <1>1
    <3>2. tree' = [i \in 1 .. (k + 1) |-> i]
      BY <3>1, <2>1
    <3>3. [i \in 1 .. (k + 1) |-> i] \in Seq(Nat)
      OBVIOUS
    <3>4. QED BY <3>2, <3>3, <2>2, <1>0
  <2>4. applied' = [i \in 1 .. (k + 1) |-> (k + 1) + 1 - i]
    <3>1. applied \in Seq(Int) /\ Len(applied) = k
      BY <1>1
    <3>2. <<k + 1>> \o applied = [i \in 1 .. (k + 1) |-> IF i = 1 THEN k + 1 ELSE applied[i - 1]]
      BY <3>1
    <3>3. \A i \in 1 .. (k + 1) : (IF i = 1 THEN k + 1 ELSE applied[i - 1]) = (k + 1) + 1 - i
      BY <1>1
    <3>4. QED BY <2>1, <3>2, <3>3
  <2>5. k + 1 \in 0 .. PatchCount
    BY <1>3
  <2>6. script' = "applying"
    BY <2>1, <1>2
  <2>7. QED BY <2>1, <2>2, <2>3, <2>4, <2>5, <2>6, <1>0, <1>3 DEF PatchInv
<1>5. CASE ~GitApplies(k + 1)
  <2>1. script' = "unwinding" /\ UNCHANGED <<tree, applied, listed>>
    BY <1>3, <1>5 DEF ApplyPatch
  <2>2. QED BY <2>1, <1>0, <1>1 DEF PatchInv
<1>6. QED BY <1>4, <1>5

LEMMA UnwindKeeps == PatchInv /\ Unwind => PatchInv'
<1> SUFFICES ASSUME PatchInv, Unwind PROVE PatchInv'
  OBVIOUS
<1> USE PatchAssumption
<1>0. UNCHANGED <<touches, found, listed>> /\ script = "unwinding" /\ applied # <<>>
  BY DEF Unwind
<1>1. PICK k \in 0 .. PatchCount :
           /\ applied = [i \in 1 .. k |-> k + 1 - i]
           /\ found \in {<<>>, <<1>>} /\ (k > 0 => found = <<>>)
           /\ tree = found \o [i \in 1 .. k |-> i]
  BY DEF PatchInv
<1>2. k > 0 /\ Head(applied) = k
  <2>1. k > 0
    BY <1>0, <1>1
  <2>2. QED BY <2>1, <1>1
<1>3. tree = [i \in 1 .. k |-> i] /\ found = <<>>
  BY <1>1, <1>2
<1>4. GitReverts(k)
  <2>1. Held = 1 .. k
    BY <1>3 DEF Held
  <2>2. \A q \in 1 .. k : k \notin touches[q]
    <3> SUFFICES ASSUME NEW q \in 1 .. k, k \in touches[q] PROVE FALSE
      OBVIOUS
    <3>1. q \in Patch
      BY DEF Patch
    <3>2. k \in 1 .. (q - 1)
      BY <3>1 DEF PatchInv
    <3>3. QED BY <3>2
  <2>3. QED BY <2>1, <2>2, <1>2 DEF GitReverts
<1>5. /\ \E i \in DOMAIN tree : tree[i] = k /\ tree' = RemoveAt(tree, i)
      /\ applied' = Tail(applied) /\ script' = script
  BY <1>2, <1>4 DEF Unwind
<1>6. tree' = [i \in 1 .. (k - 1) |-> i]
  <2>1. tree' = RemoveAt(tree, k) /\ Len(tree) = k
    BY <1>5, <1>3
  <2>2. SubSeq(tree, 1, k - 1) = [i \in 1 .. (k - 1) |-> i] /\ SubSeq(tree, k + 1, k) = <<>>
    BY <1>2, <1>3
  <2>3. [i \in 1 .. (k - 1) |-> i] \in Seq(Nat)
    OBVIOUS
  <2>4. QED BY <2>1, <2>2, <2>3 DEF RemoveAt
<1>7. applied' = [i \in 1 .. (k - 1) |-> (k - 1) + 1 - i]
  <2>1. applied \in Seq(Int) /\ Len(applied) = k
    BY <1>1
  <2>2. Tail(applied) = [i \in 1 .. (k - 1) |-> applied[i + 1]]
    BY <2>1, <1>2, TailIs
  <2>3. \A i \in 1 .. (k - 1) : applied[i + 1] = (k - 1) + 1 - i
    BY <1>1
  <2>4. QED BY <2>2, <2>3, <1>5
<1>8. tree' = found' \o [i \in 1 .. (k - 1) |-> i]
  <2>1. [i \in 1 .. (k - 1) |-> i] \in Seq(Nat)
    OBVIOUS
  <2>2. QED BY <2>1, <1>6, <1>3, <1>0
<1>9. k - 1 \in 0 .. PatchCount
  BY <1>2
<1>10. QED BY <1>0, <1>1, <1>3, <1>5, <1>7, <1>8, <1>9 DEF PatchInv

LEMMA FinishKeeps == PatchInv /\ FinishPatches => PatchInv'
<1> SUFFICES ASSUME PatchInv, FinishPatches PROVE PatchInv'
  OBVIOUS
<1> USE PatchAssumption
<1>0. UNCHANGED <<touches, found, listed, tree, applied>>
  BY DEF FinishPatches
<1>1. PICK k \in 0 .. PatchCount :
           /\ applied = [i \in 1 .. k |-> k + 1 - i]
           /\ found \in {<<>>, <<1>>} /\ (k > 0 => found = <<>>)
           /\ tree = found \o [i \in 1 .. k |-> i]
           /\ script = "applying" => listed = [i \in 1 .. (PatchCount - k) |-> k + i]
  BY DEF PatchInv
<1>2. CASE script = "applying" /\ listed = <<>> /\ script' = "done"
  <2>1. DOMAIN listed = 1 .. (PatchCount - k)
    BY <1>1, <1>2
  <2>0. DOMAIN listed = {}
    BY <1>2
  <2>2. k = PatchCount
    BY <2>0, <2>1
  <2>3. QED BY <2>2, <1>0, <1>1, <1>2 DEF PatchInv
<1>3. CASE script = "unwinding" /\ applied = <<>> /\ script' = "refused"
  <2>1. k = 0
    BY <1>1, <1>3
  <2>2. QED BY <2>1, <1>0, <1>1, <1>3 DEF PatchInv
<1>4. QED BY <1>2, <1>3 DEF FinishPatches

LEMMA PatchMeans == PatchInv => AllOrNone
<1> SUFFICES ASSUME PatchInv PROVE AllOrNone
  OBVIOUS
<1> USE PatchAssumption
<1>1. PICK k \in 0 .. PatchCount :
           /\ found \in {<<>>, <<1>>}
           /\ tree = found \o [i \in 1 .. k |-> i]
           /\ script = "done" => k = PatchCount
           /\ script = "refused" => k = 0
  BY DEF PatchInv
<1>2. [i \in 1 .. 0 |-> i] = <<>> /\ found \o <<>> = found
  BY <1>1
<1>3. script # "broken"
  BY DEF PatchInv
<1>4. script = "refused" => tree = found
  BY <1>1, <1>2
<1>5. script = "done" => tree = found \o [i \in Patch |-> i]
  BY <1>1 DEF Patch
<1>6. QED BY <1>3, <1>4, <1>5 DEF AllOrNone

LEMMA PatchStep == PatchInv /\ [PatchNext]_patchVars => PatchInv'
<1> SUFFICES ASSUME PatchInv, [PatchNext]_patchVars PROVE PatchInv'
  OBVIOUS
<1>1. CASE PatchNext
  BY <1>1, ApplyKeeps, UnwindKeeps, FinishKeeps DEF PatchNext
<1>2. CASE UNCHANGED patchVars
  BY <1>2 DEF PatchInv, patchVars
<1>3. QED BY <1>1, <1>2

-----------------------------------------------------------------------------
(* Releases.                                                               *)

Base3 == Nat \X Nat \X Nat
Version3 == [base : Base3, rc : Nat]
Commit == [Package -> Base3]
Tag == [version : Version3, commit : Commit, on : Nat, from : Nat]
NotBefore(a, b) == a = b \/ BaseLess(b, a)

\* Newer than every tag there is, and never a stable version that has candidates.
Fresh(v) ==
    \A i \in DOMAIN tags : Less(tags[i].version, v) /\ (v.rc = 0 => tags[i].version.base # v.base)

ReleaseTypes ==
    /\ master \in Seq(Commit) /\ Len(master) > 0
    /\ tags \in Seq(Tag)
    /\ waiting # NoJob => waiting.at \in DOMAIN master /\ waiting.request \in Requests
MasterAscends ==
    \A i, j \in DOMAIN master : i <= j => NotBefore(master[j][Reference], master[i][Reference])
TagsBehindHead ==
    \A i \in DOMAIN tags : NotBefore(master[Len(master)][Reference], tags[i].version.base)
StableOrCandidates ==
    \A i, j \in DOMAIN tags :
        tags[i].version.base = tags[j].version.base /\ tags[i].version.rc = 0 => tags[j].version.rc = 0

\* A job that may still push its commit is at the head of master, and its tag is fresh; one
\* that has pushed it has its commit on master.
JobTypes ==
    /\ job.step \in {"prepared", "tagged", "pushed"} /\ job.at \in DOMAIN master
    /\ job.tag \in Version3 /\ job.work \in Commit /\ job.changed \in BOOLEAN
    /\ job.from = 0 \/ job.from \in DOMAIN tags
JobSays ==
    /\ job.work[Reference] = job.tag.base /\ (job.tag.rc = 0 => job.work = Written(job.tag.base))
    /\ ~job.changed => job.work = master[job.at]
JobFresh ==
    IF job.step = "pushed"
    THEN /\ JobHead \in DOMAIN master /\ master[JobHead] = job.work /\ Fresh(job.tag)
         /\ job.from # 0 => tags[job.from].on <= JobHead
    ELSE job.at = Len(master) =>
             Fresh(job.tag) /\ (job.changed => BaseLess(master[job.at][Reference], job.tag.base))
JobInv ==
    job # NoJob =>
        /\ JobTypes
        /\ (job.step = "prepared" /\ job.tag \in Tagged) \/ (JobSays /\ JobFresh)

ReleaseInv ==
    /\ ReleaseTypes /\ MasterAscends /\ StableOrCandidates /\ JobInv
    /\ TagsBehindHead /\ TagsAscend /\ TagsTrue

LEMMA BaseLessIs ==
    ASSUME NEW a \in Base3, NEW b \in Base3
    PROVE  BaseLess(a, b) <=> \/ a[1] < b[1]
                              \/ a[1] = b[1] /\ a[2] < b[2]
                              \/ a[1] = b[1] /\ a[2] = b[2] /\ a[3] < b[3]
<1>1. 1 .. 3 = {1, 2, 3} /\ 1 .. 0 = {} /\ 1 .. 1 = {1} /\ 1 .. 2 = {1, 2}
  OBVIOUS
<1>2. 1 - 1 = 0 /\ 2 - 1 = 1 /\ 3 - 1 = 2
  OBVIOUS
<1>3. BaseLess(a, b) <=> \E i \in {1, 2, 3} : a[i] < b[i] /\ \A j \in 1 .. (i - 1) : a[j] = b[j]
  BY <1>1 DEF BaseLess
<1>4. QED BY <1>1, <1>2, <1>3

LEMMA BaseOrder ==
    ASSUME NEW a \in Base3, NEW b \in Base3, NEW c \in Base3
    PROVE  /\ ~BaseLess(a, a)
           /\ BaseLess(a, b) /\ BaseLess(b, c) => BaseLess(a, c)
<1>1. a[1] \in Nat /\ a[2] \in Nat /\ a[3] \in Nat /\ b[1] \in Nat /\ b[2] \in Nat /\ b[3] \in Nat
      /\ c[1] \in Nat /\ c[2] \in Nat /\ c[3] \in Nat
  BY DEF Base3
<1>2. ~BaseLess(a, a)
  BY <1>1, BaseLessIs
<1>3. ASSUME BaseLess(a, b), BaseLess(b, c) PROVE BaseLess(a, c)
  BY <1>1, <1>3, BaseLessIs
<1>4. QED BY <1>2, <1>3

LEMMA BumpedIsNext ==
    ASSUME NEW base \in Base3, NEW field \in Bump
    PROVE  Bumped(base, field) \in Base3 /\ BaseLess(base, Bumped(base, field))
<1>1. base[1] \in Nat /\ base[2] \in Nat /\ base[3] \in Nat
  BY DEF Base3
<1>2. field \in {"major", "minor", "patch"}
  BY ReleasesAssumption
<1>3. CASE field = "major"
  <2>1. Bumped(base, field) = <<base[1] + 1, 0, 0>>
    BY <1>3 DEF Bumped
  <2>2. Bumped(base, field) \in Base3
    BY <2>1, <1>1 DEF Base3
  <2>3. base[1] < Bumped(base, field)[1]
    BY <2>1, <1>1
  <2>4. QED BY <2>2, <2>3, BaseLessIs
<1>4. CASE field = "minor"
  <2>1. Bumped(base, field) = <<base[1], base[2] + 1, 0>>
    BY <1>4 DEF Bumped
  <2>2. Bumped(base, field) \in Base3
    BY <2>1, <1>1 DEF Base3
  <2>3. base[1] = Bumped(base, field)[1] /\ base[2] < Bumped(base, field)[2]
    BY <2>1, <1>1
  <2>4. QED BY <2>2, <2>3, BaseLessIs
<1>5. CASE field = "patch"
  <2>1. Bumped(base, field) = <<base[1], base[2], base[3] + 1>>
    BY <1>5 DEF Bumped
  <2>2. Bumped(base, field) \in Base3
    BY <2>1, <1>1 DEF Base3
  <2>3. base[1] = Bumped(base, field)[1] /\ base[2] = Bumped(base, field)[2] /\ base[3] < Bumped(base, field)[3]
    BY <2>1, <1>1
  <2>4. QED BY <2>2, <2>3, BaseLessIs
<1>6. QED BY <1>2, <1>3, <1>4, <1>5

LEMMA ReleaseStarts == ReleaseInit => ReleaseInv
<1> SUFFICES ASSUME ReleaseInit PROVE ReleaseInv
  OBVIOUS
<1> DEFINE first == [p \in Package |-> <<0, 1, 0>>]
<1>1. <<0, 1, 0>> \in Base3 /\ first \in Commit /\ Reference \in Package
  BY ReleasesAssumption DEF Base3, Commit
<1>2. master = <<first>> /\ master \in Seq(Commit) /\ Len(master) = 1 /\ master[1] = first
  BY <1>1 DEF ReleaseInit
<1>3. MasterAscends
  BY <1>2 DEF MasterAscends, NotBefore
<1>4. CASE tags = <<>>
  <2>1. tags \in Seq(Tag) /\ DOMAIN tags = {}
    BY <1>4
  <2>2. QED
    BY <1>2, <1>3, <2>1 DEF ReleaseInit, ReleaseInv, ReleaseTypes, StableOrCandidates, JobInv, TagsAscend, TagsTrue,
                                TagsBehindHead
<1>5. CASE tags = <<[version |-> Stable(<<0, 1, 0>>), commit |-> master[1], on |-> 1, from |-> 0]>>
  <2> DEFINE t == [version |-> Stable(<<0, 1, 0>>), commit |-> first, on |-> 1, from |-> 0]
  <2>1. t \in Tag
    BY <1>1 DEF Version3, Stable, Version, Tag
  <2>2. tags = <<t>> /\ DOMAIN tags = {1} /\ tags[1] = t
    BY <1>5, <1>2
  <2>3. tags \in Seq(Tag)
    BY <2>1, <2>2
  <2>4. t.version.rc = 0 /\ t.version.base = <<0, 1, 0>> /\ t.commit = first /\ t.on = 1 /\ t.from = 0
    BY DEF Stable, Version
  <2>5. TagsTrue
    <3>1. first[Reference] = <<0, 1, 0>> /\ first = Written(<<0, 1, 0>>)
      BY <1>1 DEF Written
    <3>2. 1 \in DOMAIN master
      BY <1>2
    <3>3. ~BaseLess(<<0, 1, 0>>, <<0, 1, 0>>)
      BY <1>1, BaseOrder
    <3>4. QED BY <3>1, <3>2, <3>3, <2>2, <2>4, <1>2 DEF TagsTrue
  <2>6. TagsAscend /\ StableOrCandidates /\ TagsBehindHead
    <3>1. first[Reference] = <<0, 1, 0>>
      BY <1>1
    <3>2. TagsAscend /\ StableOrCandidates
      BY <2>2, <2>4 DEF TagsAscend, StableOrCandidates
    <3>3. master[Len(master)] = first /\ t.version.base = first[Reference]
      BY <3>1, <1>2, <2>4
    <3> HIDE DEF first
    <3>4. TagsBehindHead
      BY <3>3, <2>2 DEF TagsBehindHead, NotBefore
    <3>5. QED BY <3>2, <3>4
  <2>7. waiting = NoJob /\ job = NoJob
    BY DEF ReleaseInit
  <2>8. QED BY <1>2, <1>3, <2>3, <2>5, <2>6, <2>7 DEF ReleaseInv, ReleaseTypes, JobInv
<1>6. QED BY <1>4, <1>5 DEF ReleaseInit

\* A tag's base is at most that of the head of master.
LEMMA TagsBehind ==
    ASSUME ReleaseInv, NEW i \in DOMAIN tags
    PROVE  NotBefore(master[Len(master)][Reference], tags[i].version.base)
BY DEF ReleaseInv, TagsBehindHead

LEMMA MasterBases ==
    ASSUME ReleaseInv, NEW i \in DOMAIN master
    PROVE  master[i] \in Commit /\ master[i][Reference] \in Base3
BY ReleasesAssumption DEF ReleaseInv, ReleaseTypes, Commit

LEMMA TagFields ==
    ASSUME ReleaseInv, NEW i \in DOMAIN tags
    PROVE  /\ tags[i].version \in Version3 /\ tags[i].version.base \in Base3 /\ tags[i].version.rc \in Nat
           /\ tags[i].version = Version(tags[i].version.base, tags[i].version.rc)
           /\ tags[i] \in Tag
<1>0. tags \in Seq(Tag) /\ i \in 1 .. Len(tags)
  BY DEF ReleaseInv, ReleaseTypes
<1>1. tags[i] \in Tag
  BY <1>0, ElementOfSeq
<1>2. tags[i].version \in [base : Base3, rc : Nat]
  BY <1>1 DEF Version3, Tag
<1>3. tags[i].version = [base |-> tags[i].version.base, rc |-> tags[i].version.rc]
  BY <1>2
<1>4. QED BY <1>1, <1>2, <1>3 DEF Version3, Version

\* A version above the head of master is fresh, stable or the first candidate.
LEMMA NextIsFresh ==
    ASSUME ReleaseInv, NEW next \in Base3, BaseLess(master[Len(master)][Reference], next), NEW rc \in Nat
    PROVE  Fresh(Version(next, rc))
<1> SUFFICES ASSUME NEW i \in DOMAIN tags
             PROVE  BaseLess(tags[i].version.base, next) /\ tags[i].version.base # next
  BY DEF Fresh, Less, Version
<1>1. Len(master) \in DOMAIN master
  BY DEF ReleaseInv, ReleaseTypes
<1>2. tags[i].version.base \in Base3 /\ master[Len(master)][Reference] \in Base3
  BY <1>1, TagFields, MasterBases
<1>3. NotBefore(master[Len(master)][Reference], tags[i].version.base)
  BY TagsBehind
<1>4. BaseLess(tags[i].version.base, next)
  BY <1>2, <1>3, BaseOrder DEF NotBefore
<1>5. QED BY <1>2, <1>4, BaseOrder

LEMMA CandidateSet ==
    ASSUME ReleaseInv, NEW base
    PROVE  \A n : n \in Candidates(base) <=>
               \E i \in DOMAIN tags : tags[i].version.base = base /\ tags[i].version.rc = n /\ n # 0
BY DEF Candidates, Tagged

\* The numbers of candidates grow with the tags, so that there is a greatest one.
LEMMA GreatestCandidate ==
    ASSUME ReleaseInv, NEW base, Candidates(base) # {}
    PROVE  LET n == CHOOSE n \in Candidates(base) : \A k \in Candidates(base) : k <= n
           IN  n \in Candidates(base) /\ \A k \in Candidates(base) : k <= n
<1> DEFINE Its(i) == tags[i].version.base = base /\ tags[i].version.rc # 0
           Back == {Len(tags) - i : i \in {j \in DOMAIN tags : Its(j)}}
<1>0. Len(tags) \in Nat /\ DOMAIN tags = 1 .. Len(tags)
  BY DEF ReleaseInv, ReleaseTypes
<1>1. PICK j \in DOMAIN tags : Its(j)
  BY CandidateSet
<1>2. Back \subseteq Nat /\ Back # {}
  BY <1>0, <1>1
<1>3. PICK b \in Back : \A c \in Back : b <= c
  BY <1>2, LeastNumber
<1>4. PICK i \in DOMAIN tags : Its(i) /\ b = Len(tags) - i
  BY <1>3
<1>5. \A k \in DOMAIN tags : Its(k) => k <= i
  <2> SUFFICES ASSUME NEW k \in DOMAIN tags, Its(k) PROVE k <= i
    OBVIOUS
  <2>1. Len(tags) - k \in Back
    OBVIOUS
  <2>2. Len(tags) - i <= Len(tags) - k
    BY <2>1, <1>3, <1>4
  <2>3. QED BY <2>2, <1>0
<1>6. \A k \in DOMAIN tags : Its(k) => tags[k].version.rc <= tags[i].version.rc
  <2> SUFFICES ASSUME NEW k \in DOMAIN tags, Its(k) PROVE tags[k].version.rc <= tags[i].version.rc
    OBVIOUS
  <2>1. tags[k].version.rc \in Nat /\ tags[i].version.rc \in Nat /\ base \in Base3
    BY TagFields
  <2>2. CASE k = i
    BY <2>1, <2>2
  <2>3. CASE k < i
    <3>1. Less(tags[k].version, tags[i].version)
      BY <2>3 DEF ReleaseInv, TagsAscend
    <3>2. ~BaseLess(base, base)
      BY <2>1, BaseOrder
    <3>3. tags[i].version.rc # 0 /\ tags[k].version.rc < tags[i].version.rc
      BY <3>1, <3>2, <1>4 DEF Less
    <3>4. QED BY <3>3, <2>1
  <2>4. QED BY <1>5, <2>2, <2>3, <1>0
<1>7. tags[i].version.rc \in Candidates(base)
  BY <1>4, CandidateSet
<1>8. \A k \in Candidates(base) : k <= tags[i].version.rc
  BY <1>6, CandidateSet
<1>9. \E n \in Candidates(base) : \A k \in Candidates(base) : k <= n
  BY <1>7, <1>8
<1>10. QED BY <1>9

LEMMA MergeKeeps == ReleaseInv /\ Merge => ReleaseInv'
<1> SUFFICES ASSUME ReleaseInv, Merge PROVE ReleaseInv'
  OBVIOUS
<1> DEFINE n == Len(master)
<1>0. UNCHANGED <<tags, waiting, job, dispatched>>
  BY DEF Merge
<1>1. PICK p \in Package \ {Reference} : \E base \in {<<0, 0, 0>>, master[n][p]} :
          master' = Append(master, [master[n] EXCEPT ![p] = base])
  BY DEF Merge
<1>a. PICK base \in {<<0, 0, 0>>, master[n][p]} : master' = Append(master, [master[n] EXCEPT ![p] = base])
  BY <1>1
<1> DEFINE c == [master[n] EXCEPT ![p] = base]
<1>2. n \in DOMAIN master /\ master[n] \in Commit
  BY MasterBases DEF ReleaseInv, ReleaseTypes
<1>3. c \in Commit /\ c[Reference] = master[n][Reference]
  <2>1. base \in Base3
    BY <1>2 DEF Commit, Base3
  <2>2. QED BY <1>2, <2>1 DEF Commit
<1>4. master' \in Seq(Commit) /\ Len(master') = n + 1 /\ n \in Nat
      /\ DOMAIN master' = 1 .. (n + 1) /\ DOMAIN master = 1 .. n /\ \A i \in 1 .. n : master'[i] = master[i]
  BY <1>a, <1>3 DEF ReleaseInv, ReleaseTypes
<1>5. master'[n + 1] = c
  BY <1>a, <1>4
<1>6. MasterAscends'
  <2> SUFFICES ASSUME NEW i \in 1 .. (n + 1), NEW j \in 1 .. (n + 1), i <= j
               PROVE  NotBefore(master'[j][Reference], master'[i][Reference])
    BY <1>4 DEF MasterAscends
  <2>1. CASE j \in 1 .. n
    BY <2>1, <1>4 DEF ReleaseInv, MasterAscends
  <2>2. CASE j = n + 1 /\ i \in 1 .. n
    <3>1. NotBefore(master[n][Reference], master[i][Reference])
      BY <2>2, <1>2, <1>4 DEF ReleaseInv, MasterAscends
    <3>2. QED BY <3>1, <2>2, <1>3, <1>4, <1>5
  <2>3. CASE j = n + 1 /\ i = n + 1
    BY <2>3 DEF NotBefore
  <2>4. QED BY <2>1, <2>2, <2>3, <1>4
<1>7. Requests' = Requests
  BY <1>0 DEF Requests
<1>8. ReleaseTypes'
  BY <1>0, <1>4, <1>7 DEF ReleaseInv, ReleaseTypes
<1>9. StableOrCandidates' /\ TagsAscend'
  BY <1>0 DEF ReleaseInv, StableOrCandidates, TagsAscend
<1>10. TagsTrue' /\ TagsBehindHead'
  BY <1>0, <1>3, <1>4, <1>5 DEF ReleaseInv, TagsTrue, TagsBehindHead
<1>11. JobInv'
  <2> SUFFICES ASSUME job # NoJob
               PROVE  JobTypes' /\ ((job.step = "prepared" /\ job.tag \in Tagged)' \/ (JobSays' /\ JobFresh'))
    BY <1>0 DEF JobInv
  <2>1. JobTypes /\ JobTypes'
    BY <1>0, <1>4 DEF ReleaseInv, JobInv, JobTypes
  <2>2. CASE job.step = "prepared" /\ job.tag \in Tagged
    BY <2>1, <2>2, <1>0 DEF Tagged
  <2>3. CASE JobSays /\ JobFresh
    <3>1. JobSays'
      BY <2>1, <2>3, <1>0, <1>4 DEF JobSays, JobTypes
    <3>2. job.at # Len(master')
      BY <2>1, <1>4 DEF JobTypes
    <3>3. \A v : Fresh(v) => Fresh(v)'
      BY <1>0 DEF Fresh
    <3>4. CASE job.step = "pushed"
      <4> DEFINE on == JobHead
      <4>1. /\ on \in DOMAIN master /\ master[on] = job.work /\ Fresh(job.tag)
            /\ job.from # 0 => tags[job.from].on <= on
        BY <3>4, <2>3 DEF JobFresh
      <4>2. on \in DOMAIN master' /\ master'[on] = job.work /\ on' = on
        BY <4>1, <1>4, <1>0 DEF JobHead
      <4>3. Fresh(job.tag)'
        BY <4>1, <1>0 DEF Fresh
      <4>4. UNCHANGED <<tags, job>>
        BY <1>0
      <4> HIDE DEF on
      <4>5. job.from # 0 => tags'[job.from].on <= on
        BY <4>1, <4>4
      <4>6. JobHead' = on
        BY <4>2 DEF on
      <4>7. JobFresh'
        BY <4>2, <4>3, <4>4, <4>5, <4>6, <3>4 DEF JobFresh
      <4>8. QED BY <4>7, <3>1, <2>1
    <3>5. CASE job.step # "pushed"
      BY <3>5, <3>2, <3>1, <2>1, <1>0 DEF JobFresh
    <3>6. QED BY <3>4, <3>5
  <2>4. QED BY <2>2, <2>3 DEF ReleaseInv, JobInv
<1>12. QED BY <1>6, <1>8, <1>9, <1>10, <1>11 DEF ReleaseInv

\* What a step that leaves master, the tags and the job alone keeps.
LEMMA ReleaseFrame ==
    ReleaseInv /\ UNCHANGED <<master, tags>> =>
        /\ MasterAscends' /\ StableOrCandidates' /\ TagsBehindHead' /\ TagsAscend' /\ TagsTrue'
        /\ UNCHANGED job => JobInv'
        /\ (waiting' # NoJob => waiting'.at \in DOMAIN master /\ waiting'.request \in Requests) => ReleaseTypes'
<1> SUFFICES ASSUME ReleaseInv, UNCHANGED <<master, tags>>
             PROVE  /\ MasterAscends' /\ StableOrCandidates' /\ TagsBehindHead' /\ TagsAscend' /\ TagsTrue'
                    /\ UNCHANGED job => JobInv'
                    /\ (waiting' # NoJob => waiting'.at \in DOMAIN master /\ waiting'.request \in Requests)
                           => ReleaseTypes'
  OBVIOUS
<1>1. MasterAscends'
  BY DEF ReleaseInv, MasterAscends
<1>2. StableOrCandidates' /\ TagsBehindHead' /\ TagsAscend'
  BY DEF ReleaseInv, StableOrCandidates, TagsBehindHead, TagsAscend
<1>3. TagsTrue'
  BY DEF ReleaseInv, TagsTrue
<1>4. UNCHANGED job => JobInv'
  BY DEF ReleaseInv, JobInv, JobTypes, JobSays, JobFresh, JobHead, Tagged, Fresh
<1>5. (waiting' # NoJob => waiting'.at \in DOMAIN master /\ waiting'.request \in Requests) => ReleaseTypes'
  BY DEF ReleaseInv, ReleaseTypes, Requests
<1>6. QED BY <1>1, <1>2, <1>3, <1>4, <1>5

LEMMA DispatchKeeps == ReleaseInv /\ Dispatch => ReleaseInv'
<1> SUFFICES ASSUME ReleaseInv, Dispatch PROVE ReleaseInv'
  OBVIOUS
<1>1. PICK a \in DOMAIN master, r \in Requests : waiting' = [step |-> "waiting", at |-> a, request |-> r]
  BY DEF Dispatch
<1>2. UNCHANGED <<master, tags, job>>
  BY DEF Dispatch
<1>3. waiting'.at \in DOMAIN master /\ waiting'.request \in Requests
  BY <1>1
<1>4. QED BY <1>2, <1>3, ReleaseFrame DEF ReleaseInv

LEMMA PreparedKeeps ==
    ASSUME ReleaseInv, UNCHANGED <<master, tags>>, waiting # NoJob, waiting' = NoJob,
           NEW tag \in Version3, NEW changed \in BOOLEAN, NEW base \in Base3,
           Prepared(tag, base, changed),
           \/ tag \in Tagged
           \/ /\ changed => tag.base = base
              /\ ~changed => tag.base = master[waiting.at][Reference] /\ tag.rc # 0
              /\ waiting.at = Len(master) =>
                     Fresh(tag) /\ (changed => BaseLess(master[waiting.at][Reference], tag.base))
    PROVE  ReleaseInv'
<1> DEFINE work == IF changed THEN Written(base) ELSE master[waiting.at]
<1>1. job' = [step |-> "prepared", at |-> waiting.at, from |-> waiting.request.from, tag |-> tag,
              changed |-> changed, work |-> work]
  BY DEF Prepared
<1>2. waiting.at \in DOMAIN master /\ waiting.request.from \in {0} \cup DOMAIN tags
  BY DEF ReleaseInv, ReleaseTypes, Requests
<1>3. work \in Commit
  BY <1>2, MasterBases DEF Written, Commit
<1>4. JobTypes'
  BY <1>1, <1>2, <1>3 DEF JobTypes
<1>5. job' # NoJob /\ job'.step = "prepared" /\ job'.tag = tag /\ job'.work = work /\ job'.changed = changed
      /\ job'.at = waiting.at
  BY <1>1 DEF NoJob
<1>6. CASE tag \in Tagged
  <2>1. (job.step = "prepared" /\ job.tag \in Tagged)'
    BY <1>5, <1>6 DEF Tagged
  <2>2. JobInv'
    BY <2>1, <1>4 DEF JobInv
  <2>3. QED BY <2>2, ReleaseFrame DEF ReleaseInv
<1>7. CASE /\ changed => tag.base = base
           /\ ~changed => tag.base = master[waiting.at][Reference] /\ tag.rc # 0
           /\ waiting.at = Len(master) =>
                  Fresh(tag) /\ (changed => BaseLess(master[waiting.at][Reference], tag.base))
  <2>1. work[Reference] = tag.base
    BY <1>7, ReleasesAssumption DEF Written
  <2>2. tag.rc = 0 => work = Written(tag.base)
    BY <1>7
  <2>3. JobSays'
    BY <2>1, <2>2, <1>5 DEF JobSays, Written
  <2>4. JobFresh'
    <3>1. Fresh(tag) => Fresh(tag)'
      BY DEF Fresh
    <3>2. ASSUME job'.at = Len(master')
          PROVE  Fresh(job.tag)' /\ (job'.changed => BaseLess(master'[job'.at][Reference], job'.tag.base))
      BY <3>1, <3>2, <1>5, <1>7 DEF Fresh
    <3>3. QED BY <3>2, <1>5 DEF JobFresh
  <2>5. JobInv'
    BY <2>3, <2>4, <1>4 DEF JobInv
  <2>6. QED BY <2>5, ReleaseFrame DEF ReleaseInv
<1>8. QED BY <1>6, <1>7

LEMMA PrepareKeeps == ReleaseInv /\ Prepare => ReleaseInv'
<1> SUFFICES ASSUME ReleaseInv, Prepare PROVE ReleaseInv'
  OBVIOUS
<1> DEFINE base == master[waiting.at][Reference]
<1>1. UNCHANGED <<master, tags>> /\ waiting # NoJob /\ waiting' = NoJob
      /\ (PrepareStable(base) \/ PrepareCandidate(base) \/ PreparePromotion(base))
  BY DEF Prepare
<1>2. waiting.at \in DOMAIN master /\ waiting.request \in Requests
  BY <1>1 DEF ReleaseInv, ReleaseTypes
<1>3. base \in Base3
  BY <1>2, MasterBases
<1>4. waiting.request.from = 0 \/ waiting.request.from \in DOMAIN tags
  BY <1>2 DEF Requests
<1>5. waiting.request.bump \in Bump
  BY <1>2 DEF Requests
<1>7. CASE PrepareStable(base)
  <2> DEFINE next == Bumped(base, waiting.request.bump)
  <2>1. Prepared(Stable(next), next, TRUE) /\ waiting.request.from = 0
    BY <1>7 DEF PrepareStable
  <2>2. next \in Base3 /\ BaseLess(base, next)
    BY <1>3, <1>5, BumpedIsNext
  <2>3. Stable(next) \in Version3 /\ Stable(next).base = next
    BY <2>2 DEF Stable, Version, Version3
  <2>4. waiting.at = Len(master) => Fresh(Stable(next))
    BY <2>2, NextIsFresh DEF Stable
  <2>5. QED BY <2>1, <2>2, <2>3, <2>4, <1>1, PreparedKeeps
<1>8. CASE PrepareCandidate(base)
  <2> DEFINE rcs == Candidates(base)
             next == Bumped(base, waiting.request.bump)
             top == CHOOSE n \in rcs : \A k \in rcs : k <= n
  <2>1. next \in Base3 /\ BaseLess(base, next)
    BY <1>3, <1>5, BumpedIsNext
  <2>2. CASE rcs # {}
    <3>1. Prepared(Version(base, 1 + top), base, FALSE)
      BY <2>2, <1>8 DEF PrepareCandidate
    <3>2. top \in rcs /\ \A k \in rcs : k <= top
      BY <2>2, GreatestCandidate
    <3>3. PICK w \in DOMAIN tags : tags[w].version.base = base /\ tags[w].version.rc = top /\ top # 0
      BY <3>2, CandidateSet
    <3>4. top \in Nat
      BY <3>3, TagFields
    <3>5. Version(base, 1 + top) \in Version3 /\ Version(base, 1 + top).base = base
          /\ Version(base, 1 + top).rc = 1 + top /\ 1 + top # 0
      BY <3>4, <1>3 DEF Version, Version3
    <3>6. ASSUME waiting.at = Len(master) PROVE Fresh(Version(base, 1 + top))
      <4> SUFFICES ASSUME NEW i \in DOMAIN tags PROVE Less(tags[i].version, Version(base, 1 + top))
        BY <3>5 DEF Fresh
      <4>1. NotBefore(base, tags[i].version.base)
        BY <3>6, TagsBehind
      <4>2. CASE BaseLess(tags[i].version.base, base)
        BY <4>2, <3>5 DEF Less
      <4>3. CASE tags[i].version.base = base
        <5>1. tags[i].version.rc # 0
          BY <4>3, <3>3 DEF ReleaseInv, StableOrCandidates
        <5>2. tags[i].version.rc \in rcs
          BY <5>1, <4>3, CandidateSet
        <5>3. tags[i].version.rc <= top /\ tags[i].version.rc \in Nat
          BY <5>2, <3>2, TagFields
        <5>4. tags[i].version.rc < 1 + top
          BY <5>3, <3>4
        <5>5. QED BY <5>1, <5>4, <4>3, <3>5 DEF Less
      <4>4. QED BY <4>1, <4>2, <4>3 DEF NotBefore
    <3>7. QED BY <3>1, <3>5, <3>6, <1>1, <1>3, PreparedKeeps
  <2>3. CASE rcs = {} /\ Stable(base) \in Tagged
    <3>1. Prepared(Version(next, 1), next, TRUE)
      BY <2>3, <1>8 DEF PrepareCandidate
    <3>2. Version(next, 1) \in Version3 /\ Version(next, 1).base = next
      BY <2>1 DEF Version, Version3
    <3>3. waiting.at = Len(master) => Fresh(Version(next, 1))
      BY <2>1, NextIsFresh
    <3>4. QED BY <3>1, <3>2, <3>3, <2>1, <1>1, PreparedKeeps
  <2>4. CASE rcs = {} /\ Stable(base) \notin Tagged
    <3>1. Prepared(Version(base, 1), base, FALSE)
      BY <2>4, <1>8 DEF PrepareCandidate
    <3>2. Version(base, 1) \in Version3 /\ Version(base, 1).base = base /\ Version(base, 1).rc = 1
      BY <1>3 DEF Version, Version3
    <3>3. ASSUME waiting.at = Len(master) PROVE Fresh(Version(base, 1))
      <4> SUFFICES ASSUME NEW i \in DOMAIN tags PROVE Less(tags[i].version, Version(base, 1))
        BY <3>2 DEF Fresh
      <4>1. NotBefore(base, tags[i].version.base)
        BY <3>3, TagsBehind
      <4>2. tags[i].version.base # base
        <5> SUFFICES ASSUME tags[i].version.base = base PROVE FALSE
          OBVIOUS
        <5>1. tags[i].version.rc = 0
          <6>1. tags[i].version.rc # 0 => tags[i].version.rc \in rcs
            BY CandidateSet
          <6>2. QED BY <6>1, <2>4
        <5>2. tags[i].version = Stable(base)
          BY <5>1, TagFields DEF Stable
        <5>3. QED BY <5>2, <2>4 DEF Tagged
      <4>3. QED BY <4>1, <4>2, <3>2 DEF NotBefore, Less
    <3>4. Version(base, 1).rc # 0
      BY <3>2
    <3>5. QED BY <3>1, <3>2, <3>3, <3>4, <1>1, <1>3, PreparedKeeps
  <2>5. QED BY <2>2, <2>3, <2>4
<1>9. CASE PreparePromotion(base)
  <2> DEFINE tag == tags[waiting.request.from].version
  <2>1. Prepared(tag, base, FALSE) /\ waiting.request.from \in DOMAIN tags
    BY <1>9, <1>4 DEF PreparePromotion
  <2>2. tag \in Version3 /\ tag \in Tagged
    BY <2>1, TagFields DEF Tagged
  <2>3. QED BY <2>1, <2>2, <1>1, <1>3, PreparedKeeps
<1>10. QED BY <1>1, <1>7, <1>8, <1>9

LEMMA CommitKeeps == ReleaseInv /\ CommitAndTag => ReleaseInv'
<1> SUFFICES ASSUME ReleaseInv, CommitAndTag PROVE ReleaseInv'
  OBVIOUS
<1>1. UNCHANGED <<master, tags, waiting>> /\ job.step = "prepared"
  BY DEF CommitAndTag
<1>2. ReleaseTypes' /\ MasterAscends' /\ StableOrCandidates' /\ TagsBehindHead' /\ TagsAscend' /\ TagsTrue'
  BY <1>1, ReleaseFrame DEF ReleaseInv, ReleaseTypes
<1>3. CASE job.tag \in Tagged
  <2>1. job' = NoJob
    BY <1>3 DEF CommitAndTag
  <2>2. QED BY <2>1, <1>2 DEF ReleaseInv, JobInv
<1>4. CASE job.tag \notin Tagged
  <2>1. job' = [job EXCEPT !.step = "tagged"]
    BY <1>4 DEF CommitAndTag
  <2>2. job # NoJob
    BY <1>1 DEF NoJob
  <2>3. JobTypes /\ JobSays /\ JobFresh
    BY <2>2, <1>4 DEF ReleaseInv, JobInv
  <2>4. job'.step = "tagged" /\ job'.at = job.at /\ job'.tag = job.tag /\ job'.work = job.work /\ job'.changed = job.changed
        /\ job'.from = job.from
    BY <2>1, <2>3
  <2>5. JobTypes' /\ JobSays'
    BY <2>3, <2>4, <1>1 DEF JobTypes, JobSays
  <2>6. JobFresh'
    BY <2>3, <2>4, <1>1 DEF JobFresh, Fresh
  <2>7. QED BY <2>5, <2>6, <1>2 DEF ReleaseInv, JobInv
<1>5. QED BY <1>3, <1>4

LEMMA PushMasterKeeps == ReleaseInv /\ PushMaster => ReleaseInv'
<1> SUFFICES ASSUME ReleaseInv, PushMaster PROVE ReleaseInv'
  OBVIOUS
<1> DEFINE n == Len(master)
<1>1. UNCHANGED <<tags, waiting>> /\ job.step = "tagged"
  BY DEF PushMaster
<1>2. job # NoJob
  BY <1>1 DEF NoJob
<1>3. JobTypes /\ JobSays /\ JobFresh
  BY <1>1, <1>2 DEF ReleaseInv, JobInv
<1>4. CASE job.at # n
  <2>1. job' = NoJob /\ UNCHANGED master
    BY <1>4 DEF PushMaster
  <2>2. QED BY <2>1, <1>1, ReleaseFrame DEF ReleaseInv, JobInv, ReleaseTypes
<1>5. CASE job.at = n
  <2>1. job' = [job EXCEPT !.step = "pushed"] /\ master' = IF job.changed THEN Append(master, job.work) ELSE master
    BY <1>5 DEF PushMaster
  <2>2. job'.step = "pushed" /\ job'.at = job.at /\ job'.tag = job.tag /\ job'.work = job.work /\ job'.changed = job.changed
        /\ job'.from = job.from
    BY <2>1, <1>3
  <2>3. Fresh(job.tag) /\ (job.changed => BaseLess(master[n][Reference], job.tag.base))
    BY <1>1, <1>3, <1>5 DEF JobFresh
  <2>4. n \in Nat /\ n > 0 /\ DOMAIN master = 1 .. n /\ master[n] \in Commit
    BY MasterBases DEF ReleaseInv, ReleaseTypes
  <2>5. CASE ~job.changed
    <3>1. UNCHANGED <<master, tags>>
      BY <2>1, <2>5, <1>1
    <3>2. JobTypes' /\ JobSays'
      BY <2>2, <3>1, <1>3 DEF JobTypes, JobSays
    <3>3. JobFresh'
      <4>1. job.at \in DOMAIN master /\ master[job.at] = job.work
        BY <2>5, <1>3 DEF JobTypes, JobSays
      <4>2. Fresh(job.tag)'
        BY <2>2, <2>3, <3>1 DEF Fresh
      <4>3. JobHead' = job.at
        BY <2>2, <2>5 DEF JobHead
      <4>4. job.from # 0 => tags[job.from].on <= job.at
        BY <2>4, <1>3, <1>5 DEF JobTypes, ReleaseInv, TagsTrue
      <4>5. QED BY <4>1, <4>2, <4>3, <4>4, <2>2, <3>1 DEF JobFresh
    <3>4. QED BY <3>1, <3>2, <3>3, <1>1, ReleaseFrame DEF ReleaseInv, JobInv, ReleaseTypes
  <2>6. CASE job.changed
    <3>1. job.work \in Commit /\ job.work[Reference] = job.tag.base
      BY <1>3 DEF JobTypes, JobSays
    <3>2. master' \in Seq(Commit) /\ Len(master') = n + 1 /\ DOMAIN master' = 1 .. (n + 1)
          /\ \A i \in 1 .. n : master'[i] = master[i]
      BY <2>1, <2>4, <2>6, <3>1 DEF ReleaseInv, ReleaseTypes
    <3>3. master'[n + 1] = job.work
      BY <2>1, <2>4, <2>6, <3>1 DEF ReleaseInv, ReleaseTypes
    <3>4. MasterAscends'
      <4> SUFFICES ASSUME NEW i \in 1 .. (n + 1), NEW j \in 1 .. (n + 1), i <= j
                   PROVE  NotBefore(master'[j][Reference], master'[i][Reference])
        BY <3>2 DEF MasterAscends
      <4>1. CASE j \in 1 .. n
        BY <4>1, <2>4, <3>2 DEF ReleaseInv, MasterAscends
      <4>2. CASE j = n + 1 /\ i \in 1 .. n
        <5>1. NotBefore(master[n][Reference], master[i][Reference])
          BY <4>2, <2>4 DEF ReleaseInv, MasterAscends
        <5>2. BaseLess(master[n][Reference], job.tag.base)
          BY <2>3, <2>6
        <5>3. master[n][Reference] \in Base3 /\ master[i][Reference] \in Base3 /\ job.tag.base \in Base3
          BY <4>2, <2>4, MasterBases, <1>3 DEF JobTypes, Version3
        <5>4. BaseLess(master[i][Reference], job.tag.base)
          BY <5>1, <5>2, <5>3, BaseOrder DEF NotBefore
        <5>5. QED BY <5>4, <4>2, <3>1, <3>2, <3>3 DEF NotBefore
      <4>3. CASE j = n + 1 /\ i = n + 1
        BY <4>3 DEF NotBefore
      <4>4. QED BY <4>1, <4>2, <4>3, <2>4
    <3>5. Requests' = Requests
      BY <1>1 DEF Requests
    <3>6. ReleaseTypes'
      BY <1>1, <2>4, <3>2, <3>5 DEF ReleaseInv, ReleaseTypes
    <3>7. StableOrCandidates' /\ TagsAscend'
      BY <1>1 DEF ReleaseInv, StableOrCandidates, TagsAscend
    <3>8. TagsTrue'
      BY <1>1, <2>4, <3>2 DEF ReleaseInv, TagsTrue
    <3>a. TagsBehindHead'
      <4> SUFFICES ASSUME NEW i \in DOMAIN tags PROVE NotBefore(job.tag.base, tags[i].version.base)
        BY <1>1, <3>1, <3>2, <3>3 DEF TagsBehindHead
      <4>1. NotBefore(master[n][Reference], tags[i].version.base) /\ BaseLess(master[n][Reference], job.tag.base)
        BY <2>3, <2>6, TagsBehind
      <4>2. master[n][Reference] \in Base3 /\ tags[i].version.base \in Base3 /\ job.tag.base \in Base3
        BY <2>4, MasterBases, TagFields, <1>3 DEF JobTypes, Version3
      <4>3. QED BY <4>1, <4>2, BaseOrder DEF NotBefore
    <3>9. JobTypes' /\ JobSays'
      BY <1>1, <2>2, <2>4, <2>6, <3>2, <1>3 DEF JobTypes, JobSays
    <3>10. JobFresh'
      <4>1. Fresh(job.tag)'
        BY <2>2, <2>3, <1>1 DEF Fresh
      <4>2. n + 1 \in DOMAIN master' /\ job'.at + 1 = n + 1
        BY <2>2, <2>4, <3>2, <1>5
      <4>3. JobHead' = n + 1
        BY <2>2, <2>6, <4>2 DEF JobHead
      <4>4. job.from # 0 => tags[job.from].on <= n + 1
        BY <2>4, <1>3 DEF JobTypes, ReleaseInv, TagsTrue
      <4>5. QED BY <4>1, <4>2, <4>3, <4>4, <2>2, <3>3, <1>1 DEF JobFresh
    <3>11. QED BY <3>4, <3>6, <3>7, <3>8, <3>a, <3>9, <3>10 DEF ReleaseInv, JobInv
  <2>7. QED BY <2>5, <2>6
<1>6. QED BY <1>4, <1>5

LEMMA PushTagKeeps == ReleaseInv /\ PushTag => ReleaseInv'
<1> SUFFICES ASSUME ReleaseInv, PushTag PROVE ReleaseInv'
  OBVIOUS
<1> DEFINE n == Len(tags)
           on == JobHead
           t == IF job.from = 0
                THEN [version |-> job.tag, commit |-> job.work, on |-> on, from |-> 0]
                ELSE [tags[job.from] EXCEPT !.version = job.tag, !.from = job.from]
<1>1. UNCHANGED <<master, waiting>> /\ job.step = "pushed" /\ job' = NoJob /\ tags' = Append(tags, t)
  BY DEF PushTag
<1>2. /\ JobTypes /\ JobSays /\ on \in DOMAIN master /\ master[on] = job.work /\ Fresh(job.tag)
      /\ job.from # 0 => tags[job.from].on <= on
  <2>1. job # NoJob
    BY <1>1 DEF NoJob
  <2>2. JobTypes /\ JobSays /\ JobFresh
    BY <1>1, <2>1 DEF ReleaseInv, JobInv
  <2>3. QED BY <2>2, <1>1 DEF JobFresh
<1>3. n \in Nat /\ DOMAIN tags = 1 .. n /\ on \in Nat
  BY <1>2 DEF ReleaseInv, ReleaseTypes
<1>4. t \in Tag /\ t.version = job.tag /\ t.from = job.from
  <2>1. CASE job.from = 0
    BY <2>1, <1>2, <1>3 DEF JobTypes, Tag
  <2>2. CASE job.from # 0
    <3>1. job.from \in DOMAIN tags /\ job.from \in Nat /\ job.tag \in Version3
      BY <2>2, <1>2, <1>3 DEF JobTypes
    <3>2. tags[job.from] \in Tag
      BY <3>1, TagFields
    <3>3. t = [tags[job.from] EXCEPT !.version = job.tag, !.from = job.from]
      BY <2>2
    <3>4. QED BY <3>1, <3>2, <3>3 DEF Tag
  <2>3. QED BY <2>1, <2>2
<1>a. /\ t.on \in DOMAIN master /\ master[t.on] = t.commit
      /\ ~BaseLess(job.tag.base, t.commit[Reference])
      /\ t.from = 0 =>
             /\ t.commit[Reference] = t.version.base
             /\ t.version.rc = 0 => t.commit = Written(t.version.base)
  <2>0. job.tag.base \in Base3 /\ master[on][Reference] = job.tag.base
    BY <1>2 DEF JobTypes, JobSays, Version3
  <2>1. CASE job.from = 0
    <3>1. t.on = on /\ t.commit = job.work /\ t.version = job.tag
      BY <2>1
    <3>2. QED BY <3>1, <2>0, <1>2, BaseOrder DEF JobSays
  <2>2. CASE job.from # 0
    <3>1. job.from \in DOMAIN tags /\ tags[job.from].on <= on
      BY <2>2, <1>2 DEF JobTypes
    <3>2. tags[job.from] \in Tag
      BY <3>1, TagFields
    <3>3. t.on = tags[job.from].on /\ t.commit = tags[job.from].commit /\ t.from # 0
      BY <2>2, <3>2, <1>4 DEF Tag
    <3>4. t.on \in DOMAIN master /\ master[t.on] = t.commit
      BY <3>1, <3>3 DEF ReleaseInv, TagsTrue
    <3>5. NotBefore(master[on][Reference], t.commit[Reference])
      BY <3>1, <3>3, <3>4, <1>2 DEF ReleaseInv, MasterAscends
    <3>6. t.commit[Reference] \in Base3
      BY <3>4, MasterBases
    <3>7. ~BaseLess(job.tag.base, t.commit[Reference])
      BY <3>5, <3>6, <2>0, BaseOrder DEF NotBefore
    <3>8. QED BY <3>3, <3>4, <3>7
  <2>3. QED BY <2>1, <2>2
<1> HIDE DEF t, on
<1>5. /\ tags' \in Seq(Tag)
      /\ DOMAIN tags' = 1 .. (n + 1)
      /\ \A i \in 1 .. n : tags'[i] = tags[i]
      /\ tags'[n + 1] = t
  BY <1>1, <1>3, <1>4 DEF ReleaseInv, ReleaseTypes
<1>6. \A i \in 1 .. n : Less(tags[i].version, job.tag) /\ (job.tag.rc = 0 => tags[i].version.base # job.tag.base)
  BY <1>2, <1>3 DEF Fresh
<1>7. TagsAscend'
  <2> SUFFICES ASSUME NEW i \in 1 .. (n + 1), NEW j \in 1 .. (n + 1), i < j
               PROVE  Less(tags'[i].version, tags'[j].version)
    BY <1>5 DEF TagsAscend
  <2>1. CASE j \in 1 .. n
    <3>1. i \in 1 .. n /\ i \in DOMAIN tags /\ j \in DOMAIN tags
      BY <2>1, <1>3
    <3>2. Less(tags[i].version, tags[j].version)
      BY <3>1 DEF ReleaseInv, TagsAscend
    <3>3. QED BY <3>1, <3>2, <2>1, <1>5
  <2>2. CASE j = n + 1
    BY <2>2, <1>3, <1>4, <1>5, <1>6
  <2>3. QED BY <2>1, <2>2, <1>3
<1>8. StableOrCandidates'
  <2> SUFFICES ASSUME NEW i \in 1 .. (n + 1), NEW j \in 1 .. (n + 1),
                      tags'[i].version.base = tags'[j].version.base, tags'[i].version.rc = 0
               PROVE  tags'[j].version.rc = 0
    BY <1>5 DEF StableOrCandidates
  <2>1. CASE i \in 1 .. n /\ j \in 1 .. n
    BY <2>1, <1>3, <1>5 DEF ReleaseInv, StableOrCandidates
  <2>2. CASE i = n + 1 /\ j \in 1 .. n
    BY <2>2, <1>4, <1>5, <1>6
  <2>3. CASE i \in 1 .. n /\ j = n + 1
    <3>1. tags[i].version.base = job.tag.base /\ tags[i].version.rc = 0 /\ Less(tags[i].version, job.tag)
      BY <2>3, <1>4, <1>5, <1>6
    <3>2. tags[i].version.base \in Base3
      BY <2>3, <1>3, TagFields
    <3>3. ~BaseLess(tags[i].version.base, job.tag.base)
      BY <3>1, <3>2, BaseOrder
    <3>4. QED BY <3>1, <3>3 DEF Less
  <2>4. CASE i = n + 1 /\ j = n + 1
    BY <2>4
  <2>5. QED BY <2>1, <2>2, <2>3, <2>4, <1>3
<1>9. TagsTrue'
  <2>1. \A i \in 1 .. n : LET u == tags'[i] IN
            /\ u.on \in DOMAIN master' /\ master'[u.on] = u.commit
            /\ ~BaseLess(u.version.base, u.commit[Reference])
            /\ u.from = 0 =>
                   /\ u.commit[Reference] = u.version.base
                   /\ u.version.rc = 0 => u.commit = Written(u.version.base)
    BY <1>1, <1>3, <1>5 DEF ReleaseInv, TagsTrue
  <2>2. QED BY <2>1, <1>a, <1>1, <1>3, <1>4, <1>5 DEF TagsTrue
<1>b. TagsBehindHead'
  <2>1. NotBefore(master[Len(master)][Reference], job.tag.base)
    <3>1. Len(master) \in DOMAIN master /\ on <= Len(master) /\ on \in DOMAIN master
      BY <1>2 DEF ReleaseInv, ReleaseTypes
    <3>2. master[on][Reference] = job.tag.base
      BY <1>2 DEF JobSays
    <3>3. QED BY <3>1, <3>2 DEF ReleaseInv, MasterAscends
  <2>2. \A i \in 1 .. n : NotBefore(master[Len(master)][Reference], tags[i].version.base)
    BY <1>3, TagsBehind
  <2>3. QED BY <2>1, <2>2, <1>1, <1>3, <1>4, <1>5 DEF TagsBehindHead
<1>10. MasterAscends'
  BY <1>1 DEF ReleaseInv, MasterAscends
<1>11. Requests \subseteq Requests'
  BY <1>3, <1>5 DEF Requests
<1>12. ReleaseTypes'
  BY <1>1, <1>5, <1>11 DEF ReleaseInv, ReleaseTypes
<1>13. JobInv'
  BY <1>1 DEF JobInv
<1>14. QED BY <1>7, <1>8, <1>9, <1>b, <1>10, <1>12, <1>13 DEF ReleaseInv

LEMMA JobDiesKeeps == ReleaseInv /\ JobDies => ReleaseInv'
BY ReleaseFrame DEF JobDies, ReleaseInv, ReleaseTypes, JobInv

LEMMA ReleaseStep == ReleaseInv /\ [ReleaseNext]_releaseVars => ReleaseInv'
<1> SUFFICES ASSUME ReleaseInv, [ReleaseNext]_releaseVars PROVE ReleaseInv'
  OBVIOUS
<1>1. CASE ReleaseNext
  BY <1>1, MergeKeeps, DispatchKeeps, PrepareKeeps, CommitKeeps, PushMasterKeeps, PushTagKeeps, JobDiesKeeps
     DEF ReleaseNext
<1>2. CASE UNCHANGED releaseVars
  BY <1>2, ReleaseFrame DEF releaseVars, ReleaseInv, ReleaseTypes
<1>3. QED BY <1>1, <1>2

-----------------------------------------------------------------------------
(* Settings.                                                               *)

Screens == {Screen0} \cup Group \cup Leaf
InWork == {"opened", "written"}

\* What a tree may hold of a leaf: what the leaf takes, or what the first file held.
MayHold(l) == Fits[l] \cup {NoSetting, Default[l]} \cup {inodes[1].of[l]}
MayBe(vals) == vals \in Values /\ \A l \in Leaf : vals[l] \in MayHold(l)

FileTypes ==
    /\ inodes \in Seq(Content) /\ Len(inodes) \in 1 .. MaxInodes
    /\ valuesFile \in 0 .. Len(inodes) /\ tmpFile \in 0 .. Len(inodes) /\ tmpFile # 1
    /\ tmpFile # 0 => tmpFile # valuesFile
SavingTypes ==
    /\ DOMAIN saving = Editor
    /\ \A e \in Editor :
           /\ saving[e].at \in {"idle", "begun", "opened", "written"}
           /\ saving[e].at # "idle" =>
                  saving[e] = [at |-> saving[e].at, inode |-> saving[e].inode, tree |-> saving[e].tree]
           /\ saving[e].at \in InWork => saving[e].inode \in 2 .. Len(inodes)

\* Nothing but what fits gets into a tree or a file; the first file is never written.
ProvenanceInv ==
    /\ MayBe(edited) /\ labels \in Values
    /\ \A e \in Editor : saving[e].at # "idle" => MayBe(saving[e].tree)
    /\ \A i \in DOMAIN inodes : \A l \in Leaf : inodes[i].of[l] \in MayHold(l)

\* While nothing was disturbed, one save at most is under way, and its file is its own:
\* empty when it was opened, its tree when it is written. A save that could not even open
\* the file may have removed it meanwhile.
WorkInv(e) ==
    saving[e].at \in InWork =>
        /\ \A f \in Editor \ {e} : saving[f].at \notin InWork
        /\ tmpFile \in {0, saving[e].inode} /\ valuesFile # saving[e].inode
        /\ saving[e].at = "opened" => inodes[saving[e].inode] = Empty
        /\ saving[e].at = "written" => inodes[saving[e].inode] = ToYaml(saving[e].tree)
UndisturbedInv == ~disturbed => FileIsLastSaved /\ \A e \in Editor : WorkInv(e)

\* At most one callback waits. A screen is popped only while there is one below it.
ScreensInv ==
    /\ screens \in Seq(Screens) /\ terminal \in {"up", "down"}
    /\ edits \in 0 .. MaxEdits /\ disturbed \in BOOLEAN
    /\ screens # <<>> => screens[1] = Screen0
    /\ \/ posted = <<>>
       \/ \E what \in Screens : posted = <<[do |-> "push", what |-> what]>> /\ (screens = <<>> => what = Screen0)
       \/ posted = <<[do |-> "pop", what |-> Screen0]>> /\ Len(screens) > 1
       \/ posted = <<[do |-> "save", what |-> Screen0]>>
    /\ OnForm => labels = edited

SettingsInv == FileTypes /\ SavingTypes /\ ProvenanceInv /\ UndisturbedInv /\ ScreensInv

LEMMA LoadFacts ==
    ASSUME FileTypes, \A i \in DOMAIN inodes : \A l \in Leaf : inodes[i].of[l] \in MayHold(l)
    PROVE  MayBe(Loaded)
<1> DEFINE content == IF valuesFile = 0 THEN Empty ELSE inodes[valuesFile]
<1>1. content \in Content
  <2>1. Empty \in Content
    BY DEF Empty, Content, Nothing
  <2>2. valuesFile # 0 => valuesFile \in 1 .. Len(inodes)
    BY DEF FileTypes
  <2>3. valuesFile # 0 => inodes[valuesFile] \in Content
    BY <2>2, ElementOfSeq DEF FileTypes
  <2>4. QED BY <2>1, <2>3
<1>2. \A l \in Leaf : content.of[l] \in MayHold(l) /\ content.of[l] \in Setting \cup {NoSetting, "map"}
  <2>1. \A l \in Leaf : Empty.of[l] \in MayHold(l)
    BY DEF Empty, Nothing, MayHold
  <2>2. valuesFile # 0 => valuesFile \in DOMAIN inodes
    BY DEF FileTypes
  <2>3. \A l \in Leaf : content.of[l] \in MayHold(l)
    BY <2>1, <2>2
  <2>4. QED BY <2>3, <1>1 DEF Content
<1>3. \A l \in Leaf : Loaded[l] = OrDefault(l, content.of[l])
  BY DEF Loaded, Load
<1>4. \A l \in Leaf : OrDefault(l, content.of[l]) \in MayHold(l)
  BY <1>2 DEF OrDefault, MayHold
<1>5. \A l \in Leaf : OrDefault(l, content.of[l]) \in Setting \cup {NoSetting}
  BY <1>2, SettingsAssumption DEF OrDefault
<1>6. Loaded = [l \in Leaf |-> OrDefault(l, content.of[l])]
  BY DEF Loaded, Load
<1>7. Loaded \in Values
  BY <1>5, <1>6 DEF Values
<1>8. QED BY <1>3, <1>4, <1>7 DEF MayBe

LEMMA YamlFacts ==
    ASSUME NEW vals, MayBe(vals)
    PROVE  /\ ToYaml(vals) \in Content /\ ToYaml(vals) # Empty
           /\ \A l \in Leaf : ToYaml(vals).of[l] \in MayHold(l)
<1>1. \A l \in Leaf : OrDefault(l, vals[l]) \in MayHold(l)
  BY DEF MayBe, OrDefault, MayHold
<1>2. \A l \in Leaf : OrDefault(l, vals[l]) \in Setting \cup {NoSetting}
  BY SettingsAssumption DEF MayBe, Values, OrDefault
<1>3. ToYaml(vals) = [kind |-> "values", of |-> [l \in Leaf |-> OrDefault(l, vals[l])]]
  BY DEF ToYaml, Yaml
<1>4. ToYaml(vals) # Empty
  BY <1>3 DEF Empty
<1>5. ToYaml(vals) \in Content
  BY <1>2, <1>3 DEF Content
<1>6. QED BY <1>1, <1>3, <1>4, <1>5

LEMMA PlainFiles ==
    /\ Empty \in Content /\ Broken \in Content
    /\ \A l \in Leaf : Empty.of[l] = NoSetting /\ Broken.of[l] = NoSetting
BY DEF Empty, Broken, Content, Nothing

LEMMA SettingsStarts == SettingsInit => SettingsInv
<1> SUFFICES ASSUME SettingsInit PROVE SettingsInv
  OBVIOUS
<1>1. PICK content \in {Broken} \cup {Yaml(v) : v \in [Leaf -> Setting \cup {NoSetting, "map"}]} : inodes = <<content>>
  BY DEF SettingsInit
<1>2. content \in Content
  BY <1>1, PlainFiles DEF Yaml, Content
<1>3. inodes \in Seq(Content) /\ Len(inodes) = 1 /\ DOMAIN inodes = {1} /\ inodes[1] = content
  BY <1>1, <1>2
<1>4. FileTypes
  BY <1>3, SettingsAssumption DEF SettingsInit, FileTypes
<1>5. \A i \in DOMAIN inodes : \A l \in Leaf : inodes[i].of[l] \in MayHold(l)
  BY <1>3 DEF MayHold
<1>6. MayBe(edited) /\ labels = edited
  BY <1>4, <1>5, LoadFacts DEF SettingsInit
<1>7. \A e \in Editor : saving[e].at = "idle" /\ saving[e].at \notin InWork
  BY DEF SettingsInit, Idle, InWork
<1>8. SavingTypes
  BY <1>7 DEF SettingsInit, SavingTypes
<1>9. ProvenanceInv
  BY <1>5, <1>6, <1>7 DEF ProvenanceInv, MayBe
<1>10. UndisturbedInv
  BY <1>7 DEF SettingsInit, UndisturbedInv, WorkInv, FileIsLastSaved
<1>11. ScreensInv
  <2>1. screens = <<>> /\ posted = <<[do |-> "push", what |-> Screen0]>> /\ Screen0 \in Screens
    BY DEF SettingsInit, Screens
  <2>2. screens \in Seq(Screens)
    BY <2>1
  <2>3. edits \in 0 .. MaxEdits /\ terminal = "up" /\ disturbed = FALSE
    BY SettingsAssumption DEF SettingsInit
  <2>4. QED BY <1>6, <2>1, <2>2, <2>3 DEF ScreensInv
<1>12. QED BY <1>4, <1>8, <1>9, <1>10, <1>11 DEF SettingsInv

\* What a save leaves alone.
TerminalVars == <<edited, screens, posted, labels, terminal, edits>>

LEMMA ScreensFrame ==
    ASSUME ScreensInv, UNCHANGED <<edited, screens, posted, labels, edits>>, terminal' \in {"up", "down"},
           disturbed' \in BOOLEAN
    PROVE  ScreensInv'
BY DEF ScreensInv, OnForm

LEMMA SavingIdle ==
    ASSUME SavingTypes, NEW e \in Editor, FailSave(e)
    PROVE  /\ DOMAIN saving' = Editor /\ saving'[e] = Idle /\ saving'[e].at = "idle"
           /\ \A f \in Editor \ {e} : saving'[f] = saving[f]
BY DEF SavingTypes, FailSave, Idle

\* A save that ends, one way or another, with the files as they are or one renamed.
LEMMA SaveFailKeeps ==
    ASSUME SettingsInv, NEW e \in Editor, FailSave(e), UNCHANGED inodes,
           valuesFile' \in 0 .. Len(inodes), tmpFile' \in {tmpFile, 0}, tmpFile' # 0 => tmpFile' # valuesFile',
           UNCHANGED <<edited, labels>>,
           ~disturbed => FileIsLastSaved',
           ~disturbed /\ valuesFile' # valuesFile => saving[e].at \in InWork,
           disturbed \/ UNCHANGED disturbed
    PROVE  FileTypes' /\ SavingTypes' /\ ProvenanceInv' /\ (disturbed \/ UndisturbedInv')
<1>1. /\ DOMAIN saving' = Editor /\ saving'[e].at = "idle" /\ \A f \in Editor \ {e} : saving'[f] = saving[f]
  BY SavingIdle DEF SettingsInv
<1>2. FileTypes'
  BY DEF SettingsInv, FileTypes
<1>3. SavingTypes'
  BY <1>1 DEF SettingsInv, SavingTypes, InWork
<1>4. \A l \in Leaf : MayHold(l)' = MayHold(l)
  BY DEF MayHold
<1>5. ProvenanceInv'
  BY <1>1, <1>4 DEF SettingsInv, ProvenanceInv, MayBe
<1>6. ASSUME ~disturbed PROVE UndisturbedInv'
  <2> SUFFICES ASSUME NEW f \in Editor PROVE WorkInv(f)'
    BY <1>6 DEF UndisturbedInv
  <2>1. CASE f = e
    BY <2>1, <1>1 DEF WorkInv, InWork
  <2>2. CASE f # e /\ saving[f].at \in InWork
    <3>1. saving[e].at \notin InWork /\ WorkInv(f)
      BY <2>2, <1>6 DEF SettingsInv, UndisturbedInv, WorkInv
    <3>2. valuesFile' = valuesFile
      BY <3>1, <1>6
    <3>3. \A g \in Editor \ {f} : saving'[g].at \notin InWork
      BY <3>1, <2>2, <1>1 DEF WorkInv, InWork
    <3>4. QED BY <3>1, <3>2, <3>3, <2>2, <1>1, <1>6 DEF WorkInv, ToYaml
  <2>3. CASE f # e /\ saving[f].at \notin InWork
    BY <2>3, <1>1 DEF WorkInv
  <2>4. QED BY <2>1, <2>2, <2>3
<1>7. QED BY <1>2, <1>3, <1>5, <1>6

LEMMA SaveOpenKeeps ==
    ASSUME SettingsInv, NEW e \in Editor, Open(e)
    PROVE  SettingsInv'
<1>1. saving[e].at = "begun" /\ UNCHANGED <<valuesFile, edited, screens, posted, labels, terminal, edits, savedLast>>
  BY DEF Open
<1>2. CASE FailSave(e) /\ tmpFile' = 0 /\ UNCHANGED <<inodes, disturbed>>
  <2>1. FileTypes' /\ SavingTypes' /\ ProvenanceInv' /\ (disturbed \/ UndisturbedInv')
    <3>1. ~disturbed => FileIsLastSaved'
      BY <1>1, <1>2 DEF SettingsInv, UndisturbedInv, FileIsLastSaved, InFile
    <3>2. valuesFile' \in 0 .. Len(inodes) /\ (tmpFile' # 0 => tmpFile' # valuesFile')
      BY <1>1, <1>2 DEF SettingsInv, FileTypes
    <3>3. QED BY <1>1, <1>2, <3>1, <3>2, SaveFailKeeps
  <2>2. disturbed => UndisturbedInv'
    BY <1>2 DEF UndisturbedInv
  <2>3. ScreensInv'
    BY <1>1, <1>2 DEF SettingsInv, ScreensInv, OnForm
  <2>4. QED BY <2>1, <2>2, <2>3 DEF SettingsInv
<1>3. CASE /\ tmpFile = 0 => Len(inodes) < MaxInodes
           /\ inodes' = IF tmpFile = 0 THEN Append(inodes, Empty) ELSE [inodes EXCEPT ![tmpFile] = Empty]
           /\ tmpFile' = IF tmpFile = 0 THEN Len(inodes) + 1 ELSE tmpFile
           /\ saving' = [saving EXCEPT ![e].at = "opened", ![e].inode = tmpFile']
           /\ disturbed' = (disturbed \/ Others(e))
  <2>1. inodes \in Seq(Content) /\ Len(inodes) \in 1 .. MaxInodes /\ MaxInodes \in Nat
    BY SettingsAssumption DEF SettingsInv, FileTypes
  <2>2. /\ inodes' \in Seq(Content) /\ Len(inodes') \in 1 .. MaxInodes /\ Len(inodes') >= Len(inodes)
        /\ tmpFile' \in 2 .. Len(inodes') /\ tmpFile' # valuesFile
        /\ inodes'[tmpFile'] = Empty
        /\ \A i \in DOMAIN inodes : i # tmpFile' => inodes'[i] = inodes[i]
        /\ \A i \in DOMAIN inodes' : i # tmpFile' => i \in DOMAIN inodes
    <3>1. CASE tmpFile = 0
      <4>1. inodes' = Append(inodes, Empty) /\ tmpFile' = Len(inodes) + 1 /\ Len(inodes) < MaxInodes
        BY <1>3, <3>1
      <4>2. inodes' \in Seq(Content) /\ Len(inodes') = Len(inodes) + 1
        BY <4>1, <2>1, PlainFiles
      <4>3. inodes'[Len(inodes) + 1] = Empty /\ \A i \in 1 .. Len(inodes) : inodes'[i] = inodes[i]
        BY <4>1, <2>1, PlainFiles
      <4>4. valuesFile \in 0 .. Len(inodes) /\ DOMAIN inodes = 1 .. Len(inodes) /\ DOMAIN inodes' = 1 .. (Len(inodes) + 1)
        BY <2>1, <4>2 DEF SettingsInv, FileTypes
      <4>5. QED BY <2>1, <4>1, <4>2, <4>3, <4>4
    <3>2. CASE tmpFile # 0
      <4>1. inodes' = [inodes EXCEPT ![tmpFile] = Empty] /\ tmpFile' = tmpFile
        BY <1>3, <3>2
      <4>2. tmpFile \in 2 .. Len(inodes) /\ tmpFile # valuesFile
        BY <3>2, <2>1 DEF SettingsInv, FileTypes
      <4>3. inodes' \in Seq(Content) /\ Len(inodes') = Len(inodes)
        BY <4>1, <4>2, <2>1, PlainFiles
      <4>4. inodes'[tmpFile] = Empty /\ \A i \in 1 .. Len(inodes) : i # tmpFile => inodes'[i] = inodes[i]
        BY <4>1, <4>2, <2>1
      <4>5. DOMAIN inodes = 1 .. Len(inodes) /\ DOMAIN inodes' = 1 .. Len(inodes)
        BY <2>1, <4>3
      <4>6. QED BY <2>1, <4>1, <4>2, <4>3, <4>4, <4>5
    <3>3. QED BY <3>1, <3>2
  <2>3. FileTypes'
    BY <2>2, <1>1 DEF SettingsInv, FileTypes
  <2>4. /\ DOMAIN saving' = Editor
        /\ saving'[e].at = "opened" /\ saving'[e].inode = tmpFile' /\ saving'[e].tree = saving[e].tree
        /\ \A f \in Editor \ {e} : saving'[f] = saving[f]
    BY <1>1, <1>3 DEF SettingsInv, SavingTypes
  <2>5. SavingTypes'
    <3>1. \A f \in Editor \ {e} : saving'[f].at \in InWork => saving'[f].inode \in 2 .. Len(inodes')
      BY <2>1, <2>2, <2>4 DEF SettingsInv, SavingTypes
    <3>2. saving'[e].inode \in 2 .. Len(inodes')
      BY <2>2, <2>4
    <3>3. saving'[e] = [at |-> saving'[e].at, inode |-> saving'[e].inode, tree |-> saving'[e].tree]
      <4>1. saving[e] = [at |-> saving[e].at, inode |-> saving[e].inode, tree |-> saving[e].tree] /\ DOMAIN saving = Editor
        BY <1>1 DEF SettingsInv, SavingTypes
      <4>2. saving'[e] = [[saving[e] EXCEPT !.at = "opened"] EXCEPT !.inode = tmpFile']
        BY <1>3, <4>1
      <4>3. QED BY <4>1, <4>2
    <3>4. QED BY <2>4, <3>1, <3>2, <3>3 DEF SettingsInv, SavingTypes
  <2>6. \A l \in Leaf : MayHold(l)' = MayHold(l)
    <3>1. 1 \in DOMAIN inodes /\ 1 # tmpFile'
      BY <2>1, <2>2
    <3>2. QED BY <3>1, <2>2 DEF MayHold
  <2>7. ProvenanceInv'
    <3>1. \A i \in DOMAIN inodes' : \A l \in Leaf : inodes'[i].of[l] \in MayHold(l)
      <4>1. \A l \in Leaf : inodes'[tmpFile'].of[l] \in MayHold(l)
        BY <2>2, PlainFiles DEF MayHold
      <4>2. QED BY <4>1, <2>2 DEF SettingsInv, ProvenanceInv
    <3>2. \A f \in Editor : saving'[f].at # "idle" => MayBe(saving'[f].tree)
      BY <1>1, <2>4 DEF SettingsInv, ProvenanceInv
    <3>3. QED BY <1>1, <2>6, <3>1, <3>2 DEF SettingsInv, ProvenanceInv, MayBe
  <2>8. UndisturbedInv'
    <3> SUFFICES ASSUME ~disturbed' PROVE FileIsLastSaved' /\ \A f \in Editor : WorkInv(f)'
      BY DEF UndisturbedInv
    <3>1. ~disturbed /\ \A f \in Editor \ {e} : saving[f].at \notin InWork
      BY <1>3 DEF Others, InWork
    <3>2. FileIsLastSaved'
      <4>1. savedLast # Empty => valuesFile # 0 /\ inodes[valuesFile] = savedLast
        BY <3>1 DEF SettingsInv, UndisturbedInv, FileIsLastSaved, InFile
      <4>2. valuesFile # 0 => valuesFile \in DOMAIN inodes /\ valuesFile # tmpFile'
        BY <2>1, <2>2 DEF SettingsInv, FileTypes
      <4>3. QED BY <4>1, <4>2, <2>2, <1>1 DEF FileIsLastSaved, InFile
    <3>3. \A f \in Editor \ {e} : WorkInv(f)'
      BY <3>1, <2>4 DEF WorkInv
    <3>4. valuesFile' # tmpFile'
      BY <1>1, <1>3, <2>1 DEF SettingsInv, FileTypes
    <3>5. WorkInv(e)'
      BY <3>1, <3>4, <2>2, <2>4 DEF WorkInv
    <3>6. QED BY <3>2, <3>3, <3>5
  <2>9. ScreensInv'
    BY <1>1, <1>3 DEF SettingsInv, ScreensInv, OnForm, Others
  <2>10. QED BY <2>3, <2>5, <2>7, <2>8, <2>9 DEF SettingsInv
<1>4. QED BY <1>2, <1>3 DEF Open

\* A save that goes on to "written", with its own file changed or not.
LEMMA WrittenKeeps ==
    ASSUME SettingsInv, NEW e \in Editor, saving[e].at = "opened",
           saving' = [saving EXCEPT ![e].at = "written"],
           NEW content \in Content, \A l \in Leaf : content.of[l] \in MayHold(l),
           inodes' = [inodes EXCEPT ![saving[e].inode] = content],
           disturbed' \in BOOLEAN, disturbed => disturbed',
           ~disturbed' => content = ToYaml(saving[e].tree),
           UNCHANGED <<tmpFile, valuesFile, edited, screens, posted, labels, terminal, edits, savedLast>>
    PROVE  SettingsInv'
<1> DEFINE n == saving[e].inode
<1>1. n \in 2 .. Len(inodes) /\ inodes \in Seq(Content) /\ Len(inodes) \in 1 .. MaxInodes
  BY DEF SettingsInv, SavingTypes, FileTypes, InWork
<1>2. inodes' \in Seq(Content) /\ Len(inodes') = Len(inodes)
  BY <1>1
<1>3. DOMAIN inodes' = DOMAIN inodes /\ inodes'[n] = content /\ \A i \in DOMAIN inodes : i # n => inodes'[i] = inodes[i]
  BY <1>1
<1>4. /\ DOMAIN saving' = Editor
      /\ saving'[e].at = "written" /\ saving'[e].inode = n /\ saving'[e].tree = saving[e].tree
      /\ \A f \in Editor \ {e} : saving'[f] = saving[f]
  BY DEF SettingsInv, SavingTypes
<1>5. FileTypes'
  BY <1>2 DEF SettingsInv, FileTypes
<1>6. SavingTypes'
  <2>1. saving'[e] = [at |-> "written", inode |-> n, tree |-> saving[e].tree]
    <3>1. saving[e] = [at |-> saving[e].at, inode |-> saving[e].inode, tree |-> saving[e].tree] /\ DOMAIN saving = Editor
      BY DEF SettingsInv, SavingTypes
    <3>2. saving'[e] = [saving[e] EXCEPT !.at = "written"]
      BY <3>1
    <3>3. QED BY <3>1, <3>2
  <2>2. QED BY <2>1, <1>1, <1>2, <1>4 DEF SettingsInv, SavingTypes
<1>7. \A l \in Leaf : MayHold(l)' = MayHold(l)
  BY <1>1, <1>3 DEF MayHold
<1>8. ProvenanceInv'
  <2>1. \A i \in DOMAIN inodes' : \A l \in Leaf : inodes'[i].of[l] \in MayHold(l)
    BY <1>3 DEF SettingsInv, ProvenanceInv
  <2>2. \A f \in Editor : saving'[f].at # "idle" => MayBe(saving'[f].tree)
    BY <1>4 DEF SettingsInv, ProvenanceInv
  <2>3. QED BY <1>7, <2>1, <2>2 DEF SettingsInv, ProvenanceInv, MayBe
<1>9. UndisturbedInv'
  <2> SUFFICES ASSUME ~disturbed' PROVE FileIsLastSaved' /\ \A f \in Editor : WorkInv(f)'
    BY DEF UndisturbedInv
  <2>1. ~disturbed /\ WorkInv(e) /\ saving[e].at \in InWork
    BY DEF SettingsInv, UndisturbedInv, InWork
  <2>2. tmpFile \in {0, n} /\ valuesFile # n /\ \A f \in Editor \ {e} : saving[f].at \notin InWork
    BY <2>1 DEF WorkInv
  <2>3. FileIsLastSaved'
    <3>1. savedLast # Empty => valuesFile # 0 /\ inodes[valuesFile] = savedLast
      BY <2>1 DEF SettingsInv, UndisturbedInv, FileIsLastSaved, InFile
    <3>2. valuesFile # 0 => valuesFile \in DOMAIN inodes /\ valuesFile # n
      BY <1>1, <2>2 DEF SettingsInv, FileTypes
    <3>3. QED BY <3>1, <3>2, <1>3 DEF FileIsLastSaved, InFile
  <2>4. \A f \in Editor \ {e} : WorkInv(f)'
    BY <2>2, <1>4 DEF WorkInv
  <2>5. WorkInv(e)'
    BY <2>2, <1>3, <1>4 DEF WorkInv
  <2>6. QED BY <2>3, <2>4, <2>5
<1>10. ScreensInv'
  BY DEF SettingsInv, ScreensInv, OnForm
<1>11. QED BY <1>5, <1>6, <1>8, <1>9, <1>10 DEF SettingsInv

LEMMA WriteKeeps ==
    ASSUME SettingsInv, NEW e \in Editor, Write(e)
    PROVE  SettingsInv'
<1> DEFINE s == saving[e]
<1>1. s.at = "opened"
      /\ UNCHANGED <<valuesFile, edited, screens, posted, labels, terminal, edits, savedLast>>
  BY DEF Write
<1>2. s.inode \in 2 .. Len(inodes) /\ inodes \in Seq(Content) /\ MayBe(s.tree) /\ disturbed \in BOOLEAN
  BY <1>1 DEF SettingsInv, SavingTypes, FileTypes, ProvenanceInv, ScreensInv, InWork
<1>3. CASE /\ inodes' = [inodes EXCEPT ![s.inode] = ToYaml(s.tree)]
           /\ saving' = [saving EXCEPT ![e].at = "written"] /\ UNCHANGED <<tmpFile, disturbed>>
  <2>1. ToYaml(s.tree) \in Content /\ \A l \in Leaf : ToYaml(s.tree).of[l] \in MayHold(l)
    BY <1>2, YamlFacts
  <2>2. QED BY <1>1, <1>2, <1>3, <2>1, WrittenKeeps
<1>4. CASE /\ inodes[s.inode] # Empty /\ inodes' = [inodes EXCEPT ![s.inode] = Broken]
           /\ saving' = [saving EXCEPT ![e].at = "written"] /\ UNCHANGED <<tmpFile, disturbed>>
  <2>1. disturbed
    BY <1>1, <1>4 DEF SettingsInv, UndisturbedInv, WorkInv, InWork
  <2>2. Broken \in Content /\ \A l \in Leaf : Broken.of[l] \in MayHold(l)
    BY PlainFiles DEF MayHold
  <2>3. QED BY <1>1, <1>2, <1>4, <2>1, <2>2, WrittenKeeps
<1>5. CASE FailSave(e) /\ tmpFile' = 0 /\ UNCHANGED <<inodes, disturbed>>
  <2>1. ~disturbed => FileIsLastSaved'
    BY <1>1, <1>5 DEF SettingsInv, UndisturbedInv, FileIsLastSaved, InFile
  <2>2. valuesFile' \in 0 .. Len(inodes)
    BY <1>1 DEF SettingsInv, FileTypes
  <2>3. tmpFile' # 0 => tmpFile' # valuesFile'
    BY <1>5
  <2>4. FileTypes' /\ SavingTypes' /\ ProvenanceInv' /\ (disturbed \/ UndisturbedInv')
    BY <1>1, <1>5, <2>1, <2>2, <2>3, SaveFailKeeps
  <2>5. disturbed => UndisturbedInv'
    BY <1>5 DEF UndisturbedInv
  <2>6. ScreensInv'
    BY <1>1, <1>5 DEF SettingsInv, ScreensInv, OnForm
  <2>7. QED BY <2>4, <2>5, <2>6 DEF SettingsInv
<1>6. CASE /\ saving' = [saving EXCEPT ![e].at = "written"] /\ disturbed' = TRUE
           /\ UNCHANGED <<inodes, tmpFile>>
  <2>1. inodes' = [inodes EXCEPT ![s.inode] = inodes[s.inode]]
    BY <1>2, <1>6
  <2>2. inodes[s.inode] \in Content /\ s.inode \in DOMAIN inodes
    BY <1>2, ElementOfSeq
  <2>3. \A l \in Leaf : inodes[s.inode].of[l] \in MayHold(l)
    BY <2>2 DEF SettingsInv, ProvenanceInv
  <2>4. QED BY <1>1, <1>2, <1>6, <2>1, <2>2, <2>3, WrittenKeeps
<1>7. QED BY <1>3, <1>4, <1>5, <1>6 DEF Write

LEMMA RenameKeeps ==
    ASSUME SettingsInv, NEW e \in Editor, Rename(e)
    PROVE  SettingsInv'
<1>1. /\ saving[e].at = "written" /\ FailSave(e)
      /\ UNCHANGED <<inodes, edited, screens, posted, labels, terminal, edits, disturbed>>
  BY DEF Rename
<1>2. saving[e].at \in InWork
  BY <1>1 DEF InWork
<1>3. /\ valuesFile' \in 0 .. Len(inodes) /\ tmpFile' \in {tmpFile, 0} /\ (tmpFile' # 0 => tmpFile' # valuesFile')
      /\ (~disturbed => FileIsLastSaved')
  <2>1. CASE UNCHANGED <<valuesFile, savedLast>>
    BY <1>1, <2>1 DEF Rename, SettingsInv, FileTypes, UndisturbedInv, FileIsLastSaved, InFile
  <2>2. CASE tmpFile # 0 /\ valuesFile' = tmpFile /\ savedLast' = ToYaml(saving[e].tree)
    <3>1. valuesFile' = tmpFile /\ tmpFile' = 0 /\ savedLast' = ToYaml(saving[e].tree)
      BY <2>2 DEF Rename
    <3>2. ~disturbed => inodes[tmpFile] = ToYaml(saving[e].tree)
      BY <1>1, <1>2, <2>2 DEF SettingsInv, UndisturbedInv, WorkInv
    <3>3. ~disturbed => FileIsLastSaved'
      BY <3>1, <3>2, <2>2, <1>1 DEF FileIsLastSaved, InFile
    <3>4. QED BY <3>1, <3>3 DEF SettingsInv, FileTypes
  <2>3. QED BY <2>1, <2>2 DEF Rename
<1>4. FileTypes' /\ SavingTypes' /\ ProvenanceInv' /\ (disturbed \/ UndisturbedInv')
  BY <1>1, <1>2, <1>3, SaveFailKeeps
<1>5. disturbed => UndisturbedInv'
  BY <1>1 DEF UndisturbedInv
<1>6. ScreensInv'
  BY <1>1 DEF SettingsInv, ScreensInv, OnForm
<1>7. QED BY <1>4, <1>5, <1>6 DEF SettingsInv

LEMMA CrashKeeps ==
    ASSUME SettingsInv, NEW e \in Editor, Crash(e)
    PROVE  SettingsInv'
<1>1. /\ FailSave(e)
      /\ UNCHANGED <<inodes, valuesFile, tmpFile, edited, screens, posted, labels, edits, disturbed, savedLast>>
      /\ terminal' \in {"up", "down"}
  BY DEF Crash, SettingsInv, ScreensInv
<1>2. ~disturbed => FileIsLastSaved'
  BY <1>1 DEF SettingsInv, UndisturbedInv, FileIsLastSaved, InFile
<1>3. valuesFile' \in 0 .. Len(inodes) /\ (tmpFile' # 0 => tmpFile' # valuesFile')
  BY <1>1 DEF SettingsInv, FileTypes
<1>4. FileTypes' /\ SavingTypes' /\ ProvenanceInv' /\ (disturbed \/ UndisturbedInv')
  BY <1>1, <1>2, <1>3, SaveFailKeeps
<1>5. disturbed => UndisturbedInv'
  BY <1>1 DEF UndisturbedInv
<1>6. ScreensInv'
  BY <1>1, ScreensFrame DEF SettingsInv, ScreensInv
<1>7. QED BY <1>4, <1>5, <1>6 DEF SettingsInv

\* A save that begins, with a tree that holds what it may.
LEMMA BegunKeeps ==
    ASSUME SettingsInv, NEW e \in Editor, saving[e].at = "idle", NEW vals, MayBe(vals),
           saving' = [saving EXCEPT ![e] = [at |-> "begun", inode |-> 0, tree |-> vals]],
           UNCHANGED <<inodes, valuesFile, tmpFile, edited, labels, disturbed, savedLast>>
    PROVE  FileTypes' /\ SavingTypes' /\ ProvenanceInv' /\ UndisturbedInv'
<1>1. /\ DOMAIN saving' = Editor /\ saving'[e] = [at |-> "begun", inode |-> 0, tree |-> vals]
      /\ \A f \in Editor \ {e} : saving'[f] = saving[f]
  BY DEF SettingsInv, SavingTypes
<1>2. FileTypes'
  BY DEF SettingsInv, FileTypes
<1>3. SavingTypes'
  BY <1>1 DEF SettingsInv, SavingTypes, InWork
<1>4. \A l \in Leaf : MayHold(l)' = MayHold(l)
  BY DEF MayHold
<1>5. ProvenanceInv'
  BY <1>1, <1>4 DEF SettingsInv, ProvenanceInv, MayBe
<1>6. UndisturbedInv'
  <2> SUFFICES ASSUME ~disturbed, NEW f \in Editor PROVE FileIsLastSaved' /\ WorkInv(f)'
    BY DEF UndisturbedInv
  <2>1. FileIsLastSaved'
    BY DEF SettingsInv, UndisturbedInv, FileIsLastSaved, InFile
  <2>2. WorkInv(f)
    BY DEF SettingsInv, UndisturbedInv
  <2>3. saving'[e].at \notin InWork
    BY <1>1 DEF InWork
  <2>4. CASE f = e
    <3>1. saving'[f].at \notin InWork
      BY <2>3, <2>4
    <3>2. QED BY <2>1, <3>1 DEF WorkInv
  <2>5. CASE f # e
    <3>1. saving'[f] = saving[f]
      BY <1>1, <2>5
    <3>2. saving[f].at \in InWork => \A g \in Editor \ {f} : saving'[g].at \notin InWork
      BY <1>1, <2>2, <2>3, <2>5 DEF WorkInv
    <3>3. WorkInv(f)'
      BY <2>2, <3>1, <3>2 DEF WorkInv, ToYaml
    <3>4. QED BY <2>1, <3>3
  <2>6. QED BY <2>1, <2>4, <2>5
<1>7. QED BY <1>2, <1>3, <1>5, <1>6

LEMMA HandleSaveKeeps ==
    ASSUME SettingsInv, NEW r \in Request, RequestOK(r), HandleSave(r)
    PROVE  SettingsInv'
<1>1. /\ saving["http"].at = "idle" /\ edits < MaxEdits /\ edits' = edits + 1
      /\ UNCHANGED <<inodes, valuesFile, tmpFile, edited, screens, posted, labels, terminal, disturbed, savedLast>>
  BY DEF HandleSave
<1>2. ScreensInv'
  <2>1. edits' \in 0 .. MaxEdits
    BY <1>1, SettingsAssumption DEF SettingsInv, ScreensInv
  <2>2. QED BY <1>1, <2>1 DEF SettingsInv, ScreensInv, OnForm
<1>3. CASE Accepted(r)
  <2>1. saving' = [saving EXCEPT !["http"] = [at |-> "begun", inode |-> 0, tree |-> Apply(r, Loaded)]]
    BY <1>3 DEF HandleSave
  <2>2. MayBe(Loaded)
    BY LoadFacts DEF SettingsInv, ProvenanceInv
  <2>3. \A l \in Leaf : Apply(r, Loaded)[l] \in MayHold(l) /\ Apply(r, Loaded)[l] \in Setting \cup {NoSetting}
    <3> SUFFICES ASSUME NEW l \in Leaf
                 PROVE  Apply(r, Loaded)[l] \in MayHold(l) /\ Apply(r, Loaded)[l] \in Setting \cup {NoSetting}
      OBVIOUS
    <3>1. Apply(r, Loaded)[l] \in {Default[l], Loaded[l]} \/ (l \in DOMAIN r.leaves /\ Apply(r, Loaded)[l] = r.leaves[l])
      BY DEF Apply
    <3>2. l \in DOMAIN r.leaves => r.leaves[l] \in Fits[l]
      BY <1>3 DEF Accepted
    <3>3. Fits[l] \subseteq Setting /\ Default[l] \in Setting \cup {NoSetting}
      BY SettingsAssumption
    <3>4. Loaded[l] \in MayHold(l) /\ Loaded[l] \in Setting \cup {NoSetting}
      BY <2>2 DEF MayBe, Values
    <3>5. QED BY <3>1, <3>2, <3>3, <3>4 DEF MayHold
  <2>4. MayBe(Apply(r, Loaded))
    BY <2>3 DEF MayBe, Values, Apply
  <2>5. FileTypes' /\ SavingTypes' /\ ProvenanceInv' /\ UndisturbedInv'
    BY <1>1, <2>1, <2>4, BegunKeeps DEF Editor
  <2>6. QED BY <1>2, <2>5 DEF SettingsInv
<1>4. CASE ~Accepted(r)
  <2>1. UNCHANGED saving
    BY <1>4 DEF HandleSave
  <2>2. FileTypes' /\ SavingTypes'
    BY <1>1, <2>1 DEF SettingsInv, FileTypes, SavingTypes
  <2>3. ProvenanceInv'
    BY <1>1, <2>1 DEF SettingsInv, ProvenanceInv, MayBe, MayHold
  <2>4. UndisturbedInv'
    BY <1>1, <2>1 DEF SettingsInv, UndisturbedInv, FileIsLastSaved, InFile, WorkInv, ToYaml
  <2>5. QED BY <1>2, <2>2, <2>3, <2>4 DEF SettingsInv
<1>5. QED BY <1>3, <1>4

-----------------------------------------------------------------------------
(* The terminal editor.                                                    *)

\* A key that changes neither the files nor what is being saved.
LEMMA KeyFrame ==
    ASSUME SettingsInv, InFiles, UNCHANGED saving, MayBe(edited'), labels' \in Values
    PROVE  FileTypes' /\ SavingTypes' /\ ProvenanceInv' /\ UndisturbedInv'
<1>1. UNCHANGED <<inodes, valuesFile, tmpFile, disturbed, savedLast, saving>>
  BY DEF InFiles
<1>2. FileTypes' /\ SavingTypes'
  BY <1>1 DEF SettingsInv, FileTypes, SavingTypes
<1>3. \A l \in Leaf : MayHold(l)' = MayHold(l)
  BY <1>1 DEF MayHold
<1>4. ProvenanceInv'
  BY <1>1, <1>3 DEF SettingsInv, ProvenanceInv, MayBe
<1>5. UndisturbedInv'
  BY <1>1 DEF SettingsInv, UndisturbedInv, FileIsLastSaved, InFile, WorkInv, ToYaml
<1>6. QED BY <1>2, <1>4, <1>5

LEMMA EditedSound == SettingsInv => MayBe(edited) /\ labels \in Values /\ disturbed \in BOOLEAN /\ edited \in Values
BY DEF SettingsInv, ProvenanceInv, ScreensInv, MayBe

LEMMA StartKeeps == SettingsInv /\ StartTerminal => SettingsInv'
<1> SUFFICES ASSUME SettingsInv, StartTerminal PROVE SettingsInv'
  OBVIOUS
<1>1. MayBe(Loaded) /\ Loaded \in Values
  BY LoadFacts DEF SettingsInv, ProvenanceInv, MayBe
<1>2. /\ terminal' = "up" /\ edited' = Loaded /\ labels' = Loaded /\ screens' = <<>>
      /\ posted' = <<[do |-> "push", what |-> Screen0]>> /\ InFiles /\ UNCHANGED <<saving, edits>>
  BY DEF StartTerminal
<1>3. FileTypes' /\ SavingTypes' /\ ProvenanceInv' /\ UndisturbedInv'
  BY <1>1, <1>2, KeyFrame
<1>4. screens' \in Seq(Screens) /\ Screen0 \in Screens
  BY <1>2 DEF Screens
<1>5. ScreensInv'
  BY <1>2, <1>4 DEF SettingsInv, ScreensInv, InFiles
<1>6. QED BY <1>3, <1>5 DEF SettingsInv

LEMMA PostIs ==
    ASSUME posted = <<>>, NEW c, Post(c)
    PROVE  posted' = <<c>>
BY DEF Post

LEMMA PressFieldKeeps == SettingsInv /\ PressField => SettingsInv'
<1> SUFFICES ASSUME SettingsInv, PressField PROVE SettingsInv'
  OBVIOUS
<1>1. /\ posted = <<>> /\ screens # <<>> /\ InFiles /\ UNCHANGED <<saving, edited, screens, labels, terminal, edits>>
  BY DEF PressField, ReadsKey
<1>2. PICK child \in Children(Last(screens)) : Post([do |-> "push", what |-> child])
  BY DEF PressField
<1>3. child \in Screens /\ posted' = <<[do |-> "push", what |-> child]>>
  BY <1>1, <1>2, PostIs DEF Children, Screens
<1>4. ScreensInv'
  BY <1>1, <1>3 DEF SettingsInv, ScreensInv, OnForm, InFiles
<1>5. FileTypes' /\ SavingTypes' /\ ProvenanceInv' /\ UndisturbedInv'
  BY <1>1, EditedSound, KeyFrame
<1>6. QED BY <1>4, <1>5 DEF SettingsInv

LEMMA PressSaveKeeps == SettingsInv /\ PressSave => SettingsInv'
<1> SUFFICES ASSUME SettingsInv, PressSave PROVE SettingsInv'
  OBVIOUS
<1>1. /\ posted = <<>> /\ screens # <<>> /\ ~OnForm /\ edits < MaxEdits /\ edits' = edits + 1
      /\ InFiles /\ UNCHANGED <<saving, screens, labels, terminal>>
  BY DEF PressSave, ReadsKey
<1>2. screens \in Seq(Screens) /\ Last(screens) \in Leaf
  BY <1>1 DEF OnForm, SettingsInv, ScreensInv
<1>3. Len(screens) > 1
  <2>1. screens[1] = Screen0 /\ Screen0 \notin Leaf
    BY <1>1, SettingsAssumption DEF SettingsInv, ScreensInv, Screen0
  <2>2. Last(screens) = screens[Len(screens)]
    BY DEF Last
  <2>0. Len(screens) \in Nat /\ Len(screens) # 0
    BY <1>1, <1>2
  <2>3. Len(screens) # 1
    BY <2>1, <2>2, <1>2
  <2>4. \A n \in Nat : n # 0 /\ n # 1 => n > 1
    OBVIOUS
  <2>5. QED BY <2>0, <2>3, <2>4
<1>4. PICK v \in Setting :
          IF v \in Fits[Last(screens)]
          THEN edited' = [edited EXCEPT ![Last(screens)] = v] /\ Post([do |-> "pop", what |-> Screen0])
          ELSE UNCHANGED <<edited, posted>>
  BY DEF PressSave
<1>5. edits' \in 0 .. MaxEdits
  BY <1>1, SettingsAssumption DEF SettingsInv, ScreensInv
<1>6. MayBe(edited')
  <2>1. edited \in Values /\ \A l \in Leaf : edited[l] \in MayHold(l)
    BY EditedSound DEF MayBe
  <2>2. CASE v \in Fits[Last(screens)]
    <3>1. edited' \in Values
      BY <2>1, <2>2, <1>4 DEF Values
    <3>2. \A l \in Leaf : edited'[l] \in MayHold(l)
      BY <2>1, <2>2, <1>2, <1>4 DEF Values, MayHold
    <3>3. QED BY <3>1, <3>2 DEF MayBe
  <2>3. CASE v \notin Fits[Last(screens)]
    BY <2>3, <1>4, EditedSound
  <2>4. QED BY <2>2, <2>3
<1>7. FileTypes' /\ SavingTypes' /\ ProvenanceInv' /\ UndisturbedInv'
  BY <1>1, <1>6, EditedSound, KeyFrame
<1>8. posted' = <<[do |-> "pop", what |-> Screen0]>> \/ posted' = <<>>
  BY <1>1, <1>4, PostIs
<1>9. ~OnForm'
  BY <1>1 DEF OnForm
<1>10. ScreensInv'
  BY <1>1, <1>3, <1>5, <1>8, <1>9 DEF SettingsInv, ScreensInv, InFiles
<1>11. QED BY <1>7, <1>10 DEF SettingsInv

LEMMA EscapeKeeps == SettingsInv /\ PressEscape => SettingsInv'
<1> SUFFICES ASSUME SettingsInv, PressEscape PROVE SettingsInv'
  OBVIOUS
<1>1. /\ posted = <<>> /\ InFiles /\ UNCHANGED <<saving, edited, screens, labels, edits>>
  BY DEF PressEscape, ReadsKey
<1>2. FileTypes' /\ SavingTypes' /\ ProvenanceInv' /\ UndisturbedInv'
  BY <1>1, EditedSound, KeyFrame
<1>3. CASE Len(screens) > 1
  <2>1. posted' = <<[do |-> "pop", what |-> Screen0]>> /\ UNCHANGED terminal
    BY <1>1, <1>3, PostIs DEF PressEscape
  <2>2. ScreensInv'
    BY <1>1, <1>3, <2>1 DEF SettingsInv, ScreensInv, OnForm, InFiles
  <2>3. QED BY <1>2, <2>2 DEF SettingsInv
<1>4. CASE ~(Len(screens) > 1)
  <2>1. terminal' = "down" /\ UNCHANGED posted
    BY <1>4 DEF PressEscape
  <2>2. ScreensInv'
    BY <1>1, <2>1 DEF SettingsInv, ScreensInv, OnForm, InFiles
  <2>3. QED BY <1>2, <2>2 DEF SettingsInv
<1>5. QED BY <1>3, <1>4

LEMMA CtrlSKeeps == SettingsInv /\ PressCtrlS => SettingsInv'
<1> SUFFICES ASSUME SettingsInv, PressCtrlS PROVE SettingsInv'
  OBVIOUS
<1>1. /\ posted = <<>> /\ InFiles /\ UNCHANGED <<saving, edited, screens, labels, terminal, edits>>
      /\ Post([do |-> "save", what |-> Screen0])
  BY DEF PressCtrlS, ReadsKey
<1>2. FileTypes' /\ SavingTypes' /\ ProvenanceInv' /\ UndisturbedInv'
  BY <1>1, EditedSound, KeyFrame
<1>3. posted' = <<[do |-> "save", what |-> Screen0]>>
  BY <1>1, PostIs
<1>4. ScreensInv'
  BY <1>1, <1>3 DEF SettingsInv, ScreensInv, OnForm, InFiles
<1>5. QED BY <1>2, <1>4 DEF SettingsInv

\* Whatever comes to the top, a form shows what it edits.
LEMMA Entered ==
    ASSUME SettingsInv, Enter, UNCHANGED edited
    PROVE  (OnForm' => labels' = edited') /\ labels' \in Values
BY EditedSound DEF Enter, OnForm

LEMMA RunPostedKeeps == SettingsInv /\ RunPosted => SettingsInv'
<1> SUFFICES ASSUME SettingsInv, RunPosted PROVE SettingsInv'
  OBVIOUS
<1>1. /\ terminal = "up" /\ saving["terminal"].at = "idle" /\ posted # <<>> /\ posted' = Tail(posted)
      /\ InFiles /\ UNCHANGED <<edited, edits>>
  BY DEF RunPosted, TerminalRests
<1>2. screens \in Seq(Screens)
  BY DEF SettingsInv, ScreensInv
<1>3. ASSUME NEW what \in Screens, posted = <<[do |-> "push", what |-> what]>>, screens = <<>> => what = Screen0
      PROVE  SettingsInv'
  <2>1. Head(posted).do = "push" /\ Head(posted).what = what /\ posted' = <<>>
    BY <1>1, <1>3
  <2>2. screens' = Append(screens, what) /\ Enter /\ UNCHANGED <<terminal, saving>>
    BY <2>1 DEF RunPosted
  <2>3. screens' \in Seq(Screens) /\ screens'[1] = Screen0
    <3>1. screens' \in Seq(Screens)
      BY <1>2, <2>2
    <3>2. CASE screens = <<>>
      BY <3>2, <1>3, <2>2
    <3>3. CASE screens # <<>>
      BY <3>3, <1>2, <2>2 DEF SettingsInv, ScreensInv
    <3>4. QED BY <3>1, <3>2, <3>3
  <2>4. (OnForm' => labels' = edited') /\ labels' \in Values
    BY <1>1, <2>2, Entered
  <2>5. FileTypes' /\ SavingTypes' /\ ProvenanceInv' /\ UndisturbedInv'
    BY <1>1, <2>2, <2>4, EditedSound, KeyFrame
  <2>6. ScreensInv'
    BY <1>1, <2>1, <2>2, <2>3, <2>4 DEF SettingsInv, ScreensInv, InFiles
  <2>7. QED BY <2>5, <2>6 DEF SettingsInv
<1>4. ASSUME posted = <<[do |-> "pop", what |-> Screen0]>>, Len(screens) > 1
      PROVE  SettingsInv'
  <2>1. Head(posted).do = "pop" /\ Head(posted).what = Screen0 /\ posted' = <<>>
    BY <1>1, <1>4
  <2>2. Pop /\ UNCHANGED saving
    BY <2>1 DEF RunPosted
  <2>3. screens' = Front(screens) /\ terminal' = "up" /\ Enter
    BY <2>2, <1>1, <1>2, <1>4 DEF Pop
  <2>4. screens' \in Seq(Screens) /\ (screens' # <<>> => screens'[1] = Screen0)
    <3>1. Front(screens) = SubSeq(screens, 1, Len(screens) - 1) /\ Len(screens) \in Nat
      BY <1>2 DEF Front
    <3>2. SubSeq(screens, 1, Len(screens) - 1) \in Seq(Screens)
          /\ SubSeq(screens, 1, Len(screens) - 1)[1] = screens[1]
      BY <1>2, <1>4
    <3>3. screens[1] = Screen0
      BY <1>4 DEF SettingsInv, ScreensInv
    <3>4. QED BY <2>3, <3>1, <3>2, <3>3
  <2>5. (OnForm' => labels' = edited') /\ labels' \in Values
    BY <1>1, <2>3, Entered
  <2>6. FileTypes' /\ SavingTypes' /\ ProvenanceInv' /\ UndisturbedInv'
    BY <1>1, <2>2, <2>5, EditedSound, KeyFrame
  <2>7. ScreensInv'
    BY <1>1, <2>1, <2>3, <2>4, <2>5 DEF SettingsInv, ScreensInv, InFiles
  <2>8. QED BY <2>6, <2>7 DEF SettingsInv
<1>5. ASSUME posted = <<[do |-> "save", what |-> Screen0]>> PROVE SettingsInv'
  <2>1. Head(posted).do = "save" /\ Head(posted).what = Screen0 /\ posted' = <<>>
    BY <1>1, <1>5
  <2>2. /\ saving' = [saving EXCEPT !["terminal"] = [at |-> "begun", inode |-> 0, tree |-> edited]]
        /\ UNCHANGED <<screens, terminal, labels>>
    BY <2>1 DEF RunPosted
  <2>3. MayBe(edited) /\ "terminal" \in Editor
    BY EditedSound DEF Editor
  <2>4. FileTypes' /\ SavingTypes' /\ ProvenanceInv' /\ UndisturbedInv'
    BY <1>1, <2>2, <2>3, BegunKeeps DEF InFiles
  <2>5. ScreensInv'
    BY <1>1, <2>1, <2>2 DEF SettingsInv, ScreensInv, OnForm, InFiles
  <2>6. QED BY <2>4, <2>5 DEF SettingsInv
<1>6. QED BY <1>1, <1>3, <1>4, <1>5 DEF SettingsInv, ScreensInv

LEMMA SettingsStep == SettingsInv /\ [SettingsNext]_settingsVars => SettingsInv'
<1> SUFFICES ASSUME SettingsInv, [SettingsNext]_settingsVars PROVE SettingsInv'
  OBVIOUS
<1>1. CASE SettingsNext
  BY <1>1, SaveOpenKeeps, WriteKeeps, RenameKeeps, CrashKeeps, HandleSaveKeeps, StartKeeps, PressFieldKeeps,
     PressSaveKeeps, EscapeKeeps, CtrlSKeeps, RunPostedKeeps
     DEF SettingsNext
<1>2. CASE UNCHANGED settingsVars
  <2>1. FileTypes' /\ SavingTypes' /\ ProvenanceInv' /\ UndisturbedInv'
    BY <1>2, EditedSound, KeyFrame DEF settingsVars, InFiles
  <2>2. ScreensInv'
    BY <1>2 DEF settingsVars, SettingsInv, ScreensInv, OnForm
  <2>3. QED BY <2>1, <2>2 DEF SettingsInv
<1>3. QED BY <1>1, <1>2

LEMMA SettingsMeans == SettingsInv => SettingsKept
<1> SUFFICES ASSUME SettingsInv PROVE SettingsKept
  OBVIOUS
<1>1. SettingsTypeOK
  <2>1. inodes \in Seq(Content) /\ Len(inodes) <= MaxInodes /\ valuesFile \in 0 .. Len(inodes) /\ tmpFile \in 0 .. Len(inodes)
    BY DEF SettingsInv, FileTypes
  <2>2. \A e \in Editor : saving[e].at \in {"idle", "begun", "opened", "written"}
    BY DEF SettingsInv, SavingTypes
  <2>3. edited \in Values /\ labels \in Values
    BY EditedSound
  <2>4. /\ screens \in Seq({Screen0} \cup Group \cup Leaf)
        /\ terminal \in {"up", "down", "undefined"} /\ edits \in 0 .. MaxEdits /\ disturbed \in BOOLEAN
    BY DEF SettingsInv, ScreensInv, Screens
  <2>5. QED BY <2>1, <2>2, <2>3, <2>4 DEF SettingsTypeOK
<1>2. FileIsLastSaved
  BY DEF SettingsInv, UndisturbedInv, FileIsLastSaved
<1>3. EnteredFits
  <2> SUFFICES ASSUME NEW e \in Editor, saving[e].at # "idle", NEW l \in Leaf
               PROVE  saving[e].tree[l] \in Fits[l] \cup {NoSetting, Default[l]} \cup
                          {inodes[i].of[l] : i \in DOMAIN inodes}
    BY DEF EnteredFits
  <2>1. saving[e].tree[l] \in MayHold(l)
    BY DEF SettingsInv, ProvenanceInv, MayBe
  <2>2. 1 \in DOMAIN inodes
    BY DEF SettingsInv, FileTypes
  <2>3. QED BY <2>1, <2>2 DEF MayHold
<1>4. ScreensSound
  BY DEF SettingsInv, ScreensInv, ScreensSound
<1>5. QED BY <1>1, <1>2, <1>3, <1>4 DEF SettingsKept

-----------------------------------------------------------------------------
(* The toolkit.                                                            *)

LEMMA RunNone == ASSUME NEW u PROVE FoldLeft(Callback, u, <<>>) = u
<1> DEFINE op(x, y) == Callback(y, x)
           Def(iter, s) == IF s = {} THEN u ELSE LET x == Max(s) IN op(<<>>[x], iter[s \ {x}])
           step == CHOOSE iter : iter = [s \in SUBSET (DOMAIN <<>>) |-> Def(iter, s)]
<1>0. FoldLeft(Callback, u, <<>>) = step[DOMAIN <<>>]
  BY DEF FoldLeft, MapThenFoldSet
<1>1. DOMAIN <<>> = {}
  OBVIOUS
<1>2. QED BY <1>0, <1>1

LEMMA RunOne == ASSUME NEW u, NEW c PROVE FoldLeft(Callback, u, <<c>>) = Callback(u, c)
<1> DEFINE op(x, y) == Callback(y, x)
           Def(iter, s) == IF s = {} THEN u ELSE LET x == Max(s) IN op(<<c>>[x], iter[s \ {x}])
           step == CHOOSE iter : iter = [s \in SUBSET (DOMAIN <<c>>) |-> Def(iter, s)]
           f == [s \in SUBSET {1} |-> IF s = {} THEN u ELSE Callback(u, c)]
<1>0. FoldLeft(Callback, u, <<c>>) = step[DOMAIN <<c>>]
  BY DEF FoldLeft, MapThenFoldSet
<1>1. DOMAIN <<c>> = {1} /\ <<c>>[1] = c
  OBVIOUS
<1>2. Max({1}) = 1
  BY DEF Max
<1>3. SUBSET {1} = {{}, {1}} /\ {1} \ {1} = {} /\ {1} # {}
  OBVIOUS
<1>4. Def(f, {}) = u /\ Def(f, {1}) = Callback(u, c)
  BY <1>1, <1>2, <1>3
<1>5. f = [s \in SUBSET (DOMAIN <<c>>) |-> Def(f, s)]
  <2>1. \A s \in SUBSET {1} : f[s] = Def(f, s)
    BY <1>3, <1>4
  <2>2. QED BY <2>1, <1>1
<1>6. step = [s \in SUBSET (DOMAIN <<c>>) |-> Def(step, s)]
  BY <1>5
<1>7. \A s \in SUBSET {1} : step[s] = IF s = {} THEN u ELSE Callback(step[s \ {Max(s)}], <<c>>[Max(s)])
  BY <1>6, <1>1
<1> HIDE DEF step
<1>8. step[{}] = u
  BY <1>7, <1>3
<1>9. step[{1}] = Callback(step[{}], c)
  BY <1>7, <1>1, <1>2, <1>3
<1>10. QED BY <1>0, <1>1, <1>8, <1>9

Ui == [depth : 0 .. 2, row : {1, 2}, held : Widget \cup {NoWidget, Gone}, focus : Widget \cup {NoWidget},
       hovered : Widget \cup {NoWidget, Gone}, hot : SUBSET Widget, active : SUBSET Button,
       pressed : SUBSET Button, text : Nat, stored : Nat, selected : BOOLEAN, note : BOOLEAN,
       calls : Seq({"start", "open", "close", "write"}), woken : BOOLEAN, dirty : BOOLEAN,
       running : BOOLEAN, acts : Nat]

FocusIn(u) == u.focus # NoWidget => u.focus \in OnTop(u)
SameLook(u, v) ==
    /\ v.depth = u.depth /\ v.row = u.row /\ v.focus = u.focus /\ v.text = u.text /\ v.note = u.note
    /\ v.selected = u.selected /\ v.hot = u.hot /\ v.pressed = u.pressed

\* What moves the focus or the look, and asks for a picture when it does.
Calm(u, v) ==
    /\ v \in Ui
    /\ v.depth = u.depth /\ v.calls = u.calls /\ v.woken = u.woken /\ v.running = u.running /\ v.acts = u.acts
    /\ FocusIn(u) => FocusIn(v)
    /\ ~v.dirty => ~u.dirty /\ SameLook(u, v)

\* What can be posted from a screen: a form opens an editor, an editor closes itself.
CallsFit(u) ==
    \/ u.calls = <<>> \/ u.calls = <<"write">>
    \/ u.depth = 1 /\ u.calls = <<"open">>
    \/ u.depth = 2 /\ u.calls = <<"close">>

\* Ready for an event, and what the whole event may have done.
Ready(u) == u \in Ui /\ u.depth \in {1, 2} /\ u.calls = <<>> /\ u.acts = 0 /\ FocusIn(u)
EventDone(u, v) ==
    /\ v \in Ui
    /\ v.depth = u.depth /\ FocusIn(v) /\ v.acts <= 1 /\ CallsFit(v) /\ (v.calls # <<>> => v.woken)
    /\ ~v.dirty => ~u.dirty /\ SameLook(u, v)

LEMMA Tops ==
    /\ \A u : u.depth = 1 => ScreenOf(u) = Form /\ OnTop(u) = {"first", "second"}
    /\ \A u : u.depth = 2 => ScreenOf(u) = FieldEditor /\ OnTop(u) = {"input", "save", "cancel"}
    /\ \A u : u.depth = 0 => ScreenOf(u) = <<>> /\ OnTop(u) = {}
    /\ Range(Form) = {"first", "second"} /\ Range(FieldEditor) = {"input", "save", "cancel"}
    /\ Form[1] = "first" /\ Form[2] = "second" /\ DOMAIN Form = {1, 2} /\ Len(Form) = 2
    /\ FieldEditor[1] = "input" /\ FieldEditor[2] = "save" /\ FieldEditor[3] = "cancel"
    /\ DOMAIN FieldEditor = {1, 2, 3} /\ Len(FieldEditor) = 3
    /\ Widget = {"first", "second", "save", "cancel", "input"}
    /\ Button = {"first", "second", "save", "cancel"}
<1>1. /\ Form[1] = "first" /\ Form[2] = "second" /\ DOMAIN Form = {1, 2} /\ Len(Form) = 2
      /\ FieldEditor[1] = "input" /\ FieldEditor[2] = "save" /\ FieldEditor[3] = "cancel"
      /\ DOMAIN FieldEditor = {1, 2, 3} /\ Len(FieldEditor) = 3 /\ DOMAIN <<>> = {}
  BY DEF Form, FieldEditor
<1>2. Range(Form) = {"first", "second"}
  BY <1>1 DEF Range
<1>3. Range(FieldEditor) = {"input", "save", "cancel"}
  BY <1>1 DEF Range
<1>4. Range(<<>>) = {}
  BY <1>1 DEF Range
<1>5. QED BY <1>1, <1>2, <1>3, <1>4 DEF ScreenOf, OnTop, Widget, Button

LEMMA CalmTwice ==
    ASSUME NEW u, NEW v, NEW w, Calm(u, v), Calm(v, w)
    PROVE  Calm(u, w)
BY DEF Calm, SameLook

LEMMA CalmSelf == \A u \in Ui : Calm(u, u)
BY DEF Calm, SameLook

LEMMA TookCalm ==
    ASSUME NEW u \in Ui
    PROVE  Calm(u, Took(u))
BY DEF Took, Calm, SameLook, FocusIn, OnTop, ScreenOf, Ui

LEMMA FocusedFields ==
    ASSUME NEW u \in Ui, NEW w \in Widget \cup {NoWidget}
    PROVE  /\ Focused(u, w) \in Ui /\ Focused(u, w).focus = w
           /\ Focused(u, w).depth = u.depth /\ Focused(u, w).calls = u.calls /\ Focused(u, w).woken = u.woken
           /\ Focused(u, w).running = u.running /\ Focused(u, w).acts = u.acts /\ Focused(u, w).dirty = u.dirty
           /\ Focused(u, w).row = u.row /\ Focused(u, w).held = u.held
BY DEF Focused, Ui

LEMMA BlurredFields ==
    ASSUME NEW u \in Ui, NEW w
    PROVE  /\ Blurred(u, w) \in Ui /\ Blurred(u, w).focus \in {u.focus, NoWidget}
           /\ Blurred(u, w).depth = u.depth /\ Blurred(u, w).calls = u.calls /\ Blurred(u, w).woken = u.woken
           /\ Blurred(u, w).running = u.running /\ Blurred(u, w).acts = u.acts /\ Blurred(u, w).row = u.row
<1>1. CASE u.focus = w
  BY <1>1 DEF Blurred, Ui
<1>2. CASE u.focus # w
  BY <1>2 DEF Blurred
<1>3. QED BY <1>1, <1>2

LEMMA HeldFields ==
    ASSUME NEW u \in Ui, NEW w \in Widget, w \in OnTop(u)
    PROVE  Calm(u, Hold(u, w))
<1> DEFINE v == [u EXCEPT !.held = w, !.dirty = TRUE]
<1>1. v \in Ui /\ v.depth = u.depth /\ v.calls = u.calls /\ v.woken = u.woken /\ v.running = u.running
      /\ v.acts = u.acts /\ v.dirty
  BY DEF Ui
<1>2. Hold(u, w) = Focused(v, w)
  BY DEF Hold
<1> HIDE DEF v
<1>3. /\ Hold(u, w) \in Ui /\ Hold(u, w).focus = w /\ Hold(u, w).depth = u.depth /\ Hold(u, w).calls = u.calls
      /\ Hold(u, w).woken = u.woken /\ Hold(u, w).running = u.running /\ Hold(u, w).acts = u.acts /\ Hold(u, w).dirty
  BY <1>1, <1>2, FocusedFields
<1>4. OnTop(Hold(u, w)) = OnTop(u)
  BY <1>3 DEF OnTop, ScreenOf
<1>5. QED BY <1>3, <1>4 DEF Calm, FocusIn

-----------------------------------------------------------------------------
(* One event.                                                              *)

\* Something acted: once, and the screen is drawn again.
LEMMA ActedFields ==
    ASSUME NEW u \in Ui, u.acts = 0
    PROVE  /\ Acted(u) \in Ui /\ Acted(u).dirty /\ Acted(u).acts = 1
           /\ Acted(u).depth = u.depth /\ Acted(u).calls = u.calls /\ Acted(u).focus = u.focus
           /\ Acted(u).text = u.text /\ Acted(u).running = u.running /\ Acted(u).row = u.row
<1>1. Acted(u) = [u EXCEPT !.dirty = TRUE, !.acts = 1]
  <2>1. u.acts + 1 = 1
    OBVIOUS
  <2>2. QED BY <2>1 DEF Acted
<1>2. 1 \in Nat
  OBVIOUS
<1>3. QED BY <1>1, <1>2 DEF Ui

LEMMA PostedFields ==
    ASSUME NEW u \in Ui, NEW c \in {"start", "open", "close", "write"}, u.calls = <<>>
    PROVE  /\ Posted(u, c) \in Ui /\ Posted(u, c).dirty = u.dirty /\ Posted(u, c).acts = u.acts
           /\ Posted(u, c).depth = u.depth /\ Posted(u, c).calls = <<c>> /\ Posted(u, c).focus = u.focus
           /\ Posted(u, c).woken
<1>1. Append(u.calls, c) = <<c>> /\ <<c>> \in Seq({"start", "open", "close", "write"})
  OBVIOUS
<1>2. Posted(u, c) = [u EXCEPT !.calls = <<c>>, !.woken = TRUE]
  BY <1>1 DEF Posted
<1>3. QED BY <1>1, <1>2 DEF Ui

\* What a dirty result needs to be what an event may do.
LEMMA DirtyDone ==
    ASSUME NEW u, NEW v \in Ui, v.dirty, v.depth = u.depth, FocusIn(v), v.acts <= 1, CallsFit(v),
           v.calls # <<>> => v.woken
    PROVE  EventDone(u, v)
BY DEF EventDone

LEMMA SameScreen == \A u, v : v.depth = u.depth => OnTop(v) = OnTop(u) /\ ScreenOf(v) = ScreenOf(u)
BY DEF OnTop, ScreenOf

LEMMA CalmThenDone ==
    ASSUME NEW u, NEW v, NEW w, Calm(u, v), EventDone(v, w)
    PROVE  EventDone(u, w)
BY DEF Calm, EventDone, SameLook

LEMMA CalmReady ==
    ASSUME NEW u, NEW v, Ready(u), Calm(u, v)
    PROVE  Ready(v)
BY DEF Calm, Ready

LEMMA CalmIsDone ==
    ASSUME NEW u, NEW v, Ready(u), Calm(u, v)
    PROVE  EventDone(u, v)
BY DEF Calm, Ready, EventDone, CallsFit

LEMMA PopDone ==
    ASSUME NEW u, NEW v \in Ui, Ready(u), v.depth = u.depth, v.calls = <<>>, v.acts = 1, v.dirty, v.focus = u.focus
    PROVE  EventDone(u, PopScreen(v))
<1>1. FocusIn(v)
  BY SameScreen DEF FocusIn, Ready
<1>2. CASE v.depth > 1
  <2>1. PopScreen(v) = Posted(v, "close") /\ v.depth = 2
    BY <1>2 DEF PopScreen, Ready
  <2>2. /\ Posted(v, "close") \in Ui /\ Posted(v, "close").dirty /\ Posted(v, "close").acts = 1
        /\ Posted(v, "close").depth = v.depth /\ Posted(v, "close").calls = <<"close">>
        /\ Posted(v, "close").focus = v.focus /\ Posted(v, "close").woken
    BY PostedFields
  <2>3. FocusIn(Posted(v, "close"))
    BY <1>1, <2>2, SameScreen DEF FocusIn
  <2>4. CallsFit(Posted(v, "close"))
    BY <2>1, <2>2 DEF CallsFit
  <2>5. QED BY <2>1, <2>2, <2>3, <2>4 DEF EventDone
<1>3. CASE ~(v.depth > 1)
  <2>1. PopScreen(v) = v
    BY <1>3 DEF PopScreen
  <2>2. QED BY <1>1, <2>1 DEF EventDone, CallsFit
<1>4. QED BY <1>2, <1>3

LEMMA ActivatedDone ==
    ASSUME NEW u, Ready(u), NEW b \in Button, b \in OnTop(u), NEW fits \in BOOLEAN
    PROVE  EventDone(u, Activated(u, b, fits)) /\ Activated(u, b, fits).dirty
<1> DEFINE v == Acted(u)
<1>0. u \in Ui /\ u.acts = 0 /\ u.calls = <<>> /\ u.depth \in {1, 2}
  BY DEF Ready
<1>1. /\ v \in Ui /\ v.dirty /\ v.acts = 1 /\ v.depth = u.depth /\ v.calls = <<>> /\ v.focus = u.focus
  BY <1>0, ActedFields
<1>2. FocusIn(v)
  BY <1>1, SameScreen DEF FocusIn, Ready
<1>3. Activated(u, b, fits) =
          CASE b \in Range(Form) -> Posted(v, "open")
            [] b = "cancel" -> PopScreen(v)
            [] b = "save" -> IF fits THEN PopScreen([v EXCEPT !.stored = v.text]) ELSE [v EXCEPT !.note = TRUE]
  BY DEF Activated
<1> HIDE DEF v
<1>4. CASE b \in {"first", "second"}
  <2>1. Activated(u, b, fits) = Posted(v, "open") /\ u.depth = 1
    BY <1>0, <1>3, <1>4, Tops
  <2>2. /\ Posted(v, "open") \in Ui /\ Posted(v, "open").dirty /\ Posted(v, "open").acts = 1
        /\ Posted(v, "open").depth = v.depth /\ Posted(v, "open").calls = <<"open">>
        /\ Posted(v, "open").focus = v.focus /\ Posted(v, "open").woken
    BY <1>1, PostedFields
  <2>3. FocusIn(Posted(v, "open"))
    BY <1>2, <2>2, SameScreen DEF FocusIn
  <2>4. CallsFit(Posted(v, "open"))
    BY <1>1, <2>1, <2>2 DEF CallsFit
  <2>5. QED BY <1>1, <2>1, <2>2, <2>3, <2>4 DEF EventDone
<1>5. CASE b = "cancel"
  <2>1. Activated(u, b, fits) = PopScreen(v)
    BY <1>3, <1>5, Tops
  <2>2. EventDone(u, PopScreen(v))
    BY <1>1, PopDone
  <2>3. PopScreen(v).dirty
    BY <1>1, PostedFields DEF PopScreen
  <2>4. QED BY <2>1, <2>2, <2>3
<1>6. CASE b = "save" /\ fits
  <2> DEFINE w == [v EXCEPT !.stored = v.text]
  <2>1. Activated(u, b, fits) = PopScreen(w)
    BY <1>3, <1>6, Tops
  <2>2. w \in Ui /\ w.dirty /\ w.acts = 1 /\ w.depth = u.depth /\ w.calls = <<>> /\ w.focus = u.focus
    BY <1>1 DEF Ui
  <2> HIDE DEF w
  <2>3. EventDone(u, PopScreen(w))
    BY <2>2, PopDone
  <2>4. PopScreen(w).dirty
    BY <2>2, PostedFields DEF PopScreen
  <2>5. QED BY <2>1, <2>3, <2>4
<1>7. CASE b = "save" /\ ~fits
  <2> DEFINE w == [v EXCEPT !.note = TRUE]
  <2>1. Activated(u, b, fits) = w
    BY <1>3, <1>7, Tops
  <2>2. w \in Ui /\ w.dirty /\ w.acts = 1 /\ w.depth = u.depth /\ w.calls = <<>> /\ w.focus = u.focus
    BY <1>1 DEF Ui
  <2> HIDE DEF w
  <2>3. FocusIn(w)
    BY <1>2, <1>1, <2>2, SameScreen DEF FocusIn
  <2>4. QED BY <2>1, <2>2, <2>3 DEF EventDone, CallsFit
<1>8. QED BY <1>4, <1>5, <1>6, <1>7, Tops

\* Typing changes the line alone.
LEMMA TypedDone ==
    ASSUME NEW u, Ready(u), NEW key \in KeyPress
    PROVE  /\ Typed(u, key) \in Ui /\ Typed(u, key).depth = u.depth /\ Typed(u, key).calls = <<>>
           /\ Typed(u, key).acts <= 1 /\ Typed(u, key).focus = u.focus
<1>0. u \in Ui /\ u.acts = 0 /\ u.calls = <<>>
  BY DEF Ready
<1>1. CASE key = "all"
  <2>1. Typed(u, key) = [u EXCEPT !.selected = u.text > 0]
    BY <1>1 DEF Typed
  <2> DEFINE b == u.text > 0
  <2>2. b \in BOOLEAN
    OBVIOUS
  <2>3. Typed(u, key) = [u EXCEPT !.selected = b]
    BY <2>1
  <2> HIDE DEF b
  <2>4. [u EXCEPT !.selected = b] \in Ui
    BY <1>0, <2>2 DEF Ui
  <2>5. QED BY <1>0, <2>3, <2>4 DEF Ui
<1>2. CASE key \in {"char", "ctrlS"}
  <2> DEFINE w == [u EXCEPT !.text = IF u.selected THEN 1 ELSE @ + 1, !.selected = FALSE]
  <2>1. Typed(u, key) = Acted(w)
    BY <1>2 DEF Typed
  <2> DEFINE n == IF u.selected THEN 1 ELSE u.text + 1
  <2>2. w = [u EXCEPT !.text = n, !.selected = FALSE]
    OBVIOUS
  <2>3. n \in Nat
    <3>1. u.text \in Nat
      BY <1>0 DEF Ui
    <3>2. QED BY <3>1
  <2> HIDE DEF n, w
  <2>4. w \in Ui /\ w.acts = 0 /\ w.calls = <<>> /\ w.depth = u.depth /\ w.focus = u.focus
    BY <1>0, <2>2, <2>3 DEF Ui
  <2>5. QED BY <2>1, <2>4, ActedFields
<1>3. CASE key \notin {"all", "char", "ctrlS"}
  <2>1. Typed(u, key) = u
    BY <1>3 DEF Typed
  <2>2. QED BY <1>0, <2>1
<1>4. QED BY <1>1, <1>2, <1>3

LEMMA TookDone ==
    ASSUME NEW u, NEW v, EventDone(u, v)
    PROVE  EventDone(u, Took(v))
<1>1. /\ Took(v) \in Ui /\ Took(v).dirty /\ Took(v).depth = v.depth /\ Took(v).focus = v.focus
      /\ Took(v).acts = v.acts /\ Took(v).calls = v.calls /\ Took(v).woken = v.woken
  BY DEF Took, EventDone, Ui
<1>2. FocusIn(Took(v))
  BY <1>1, SameScreen DEF EventDone, FocusIn
<1>3. CallsFit(Took(v))
  BY <1>1 DEF EventDone, CallsFit
<1>4. QED BY <1>1, <1>2, <1>3 DEF EventDone

LEMMA WidgetKeyDone ==
    ASSUME NEW u, Ready(u), NEW w \in OnTop(u), NEW key \in KeyPress, NEW fits \in BOOLEAN
    PROVE  EventDone(u, WidgetKey(u, w, key, fits))
<1>0. w \in Widget
  BY Tops DEF Ready
<1>1. CASE w = "input"
  <2> DEFINE v == Typed(u, key)
  <2>1. WidgetKey(u, w, key, fits) = Took(v)
    BY <1>1 DEF WidgetKey
  <2>2. v \in Ui /\ v.depth = u.depth /\ v.calls = <<>> /\ v.acts <= 1 /\ v.focus = u.focus
    BY TypedDone
  <2> HIDE DEF v
  <2>3. /\ Took(v) \in Ui /\ Took(v).dirty /\ Took(v).depth = v.depth /\ Took(v).focus = v.focus
        /\ Took(v).acts = v.acts /\ Took(v).calls = v.calls
    BY <2>2 DEF Took, Ui
  <2>4. FocusIn(Took(v))
    BY <2>2, <2>3, SameScreen DEF Ready, FocusIn
  <2>5. QED BY <2>1, <2>2, <2>3, <2>4 DEF EventDone, CallsFit
<1>2. CASE w # "input"
  <2>1. WidgetKey(u, w, key, fits) = Took(Activated(u, w, fits)) /\ w \in Button
    BY <1>0, <1>2 DEF WidgetKey, Widget
  <2>2. QED BY <2>1, ActivatedDone, TookDone
<1>3. QED BY <1>1, <1>2

\* What only loses the focus or moves within the screen in front.
LEMMA StillFocused ==
    ASSUME NEW u, NEW v, v.depth = u.depth, FocusIn(u), v.focus \in {u.focus, NoWidget} \/ v.focus \in OnTop(u)
    PROVE  FocusIn(v)
BY SameScreen DEF FocusIn

LEMMA ScreenKeyDone ==
    ASSUME NEW u, Ready(u), NEW key \in KeyPress, NEW fits \in BOOLEAN
    PROVE  EventDone(u, ScreenKey(u, key, fits))
<1> DEFINE a == Acted(u)
           next == ((u.row + (IF key = "down" THEN 1 ELSE Len(Form) - 1) - 1) % Len(Form)) + 1
<1>0. u \in Ui /\ u.acts = 0 /\ u.calls = <<>> /\ u.depth \in {1, 2} /\ u.row \in {1, 2} /\ FocusIn(u)
  BY DEF Ready, Ui
<1>1. /\ a \in Ui /\ a.dirty /\ a.acts = 1 /\ a.depth = u.depth /\ a.calls = <<>> /\ a.focus = u.focus
      /\ a.running = u.running /\ a.row = u.row
  BY <1>0, ActedFields
<1>2. ScreenKey(u, key, fits) =
          CASE key = "esc" -> IF u.depth > 1 THEN PopScreen(a) ELSE Acted([u EXCEPT !.running = FALSE])
            [] key = "ctrlS" -> Posted(a, "write")
            [] key \in {"down", "up"} /\ u.depth = 1 -> Focused(Acted([u EXCEPT !.row = next]), Form[next])
            [] key \in {"down", "up"} /\ u.depth = 2 -> Focused(a, IF key = "down" THEN "save" ELSE "cancel")
            [] OTHER -> IF u.focus \in OnTop(u) /\ Consumes(u.focus, key)
                        THEN WidgetKey(u, u.focus, key, fits) ELSE u
  BY DEF ScreenKey
<1>3. next \in {1, 2}
  <2>1. Len(Form) = 2
    BY Tops
  <2>2. \A n \in Nat : n % 2 \in 0 .. 1
    OBVIOUS
  <2>3. u.row + (IF key = "down" THEN 1 ELSE Len(Form) - 1) - 1 \in Nat
    BY <1>0, <2>1
  <2>4. QED BY <2>1, <2>2, <2>3
<1> HIDE DEF a, next
<1>4. CASE key = "esc" /\ u.depth > 1
  <2>1. ScreenKey(u, key, fits) = PopScreen(a)
    BY <1>2, <1>4
  <2>2. QED BY <1>1, <2>1, PopDone
<1>5. CASE key = "esc" /\ ~(u.depth > 1)
  <2> DEFINE r == [u EXCEPT !.running = FALSE]
  <2>1. ScreenKey(u, key, fits) = Acted(r)
    BY <1>2, <1>5
  <2>2. r \in Ui /\ r.acts = 0 /\ r.calls = <<>> /\ r.depth = u.depth /\ r.focus = u.focus
    BY <1>0 DEF Ui
  <2> HIDE DEF r
  <2>3. /\ Acted(r) \in Ui /\ Acted(r).dirty /\ Acted(r).acts = 1 /\ Acted(r).depth = u.depth
        /\ Acted(r).calls = <<>> /\ Acted(r).focus = u.focus
    BY <2>2, ActedFields
  <2>4. FocusIn(Acted(r))
    BY <1>0, <2>3, StillFocused
  <2>5. QED BY <2>1, <2>3, <2>4 DEF EventDone, CallsFit
<1>6. CASE key = "ctrlS"
  <2>1. ScreenKey(u, key, fits) = Posted(a, "write")
    BY <1>2, <1>6
  <2>2. /\ Posted(a, "write") \in Ui /\ Posted(a, "write").dirty /\ Posted(a, "write").acts = 1
        /\ Posted(a, "write").depth = u.depth /\ Posted(a, "write").calls = <<"write">>
        /\ Posted(a, "write").focus = u.focus /\ Posted(a, "write").woken
    BY <1>1, PostedFields
  <2>3. FocusIn(Posted(a, "write"))
    BY <1>0, <2>2, StillFocused
  <2>4. QED BY <2>1, <2>2, <2>3 DEF EventDone, CallsFit
<1>7. CASE key \in {"down", "up"} /\ u.depth = 1
  <2> DEFINE r == [u EXCEPT !.row = next]
  <2>1. ScreenKey(u, key, fits) = Focused(Acted(r), Form[next])
    BY <1>2, <1>7
  <2>2. r \in Ui /\ r.acts = 0 /\ r.calls = <<>> /\ r.depth = u.depth
    BY <1>0, <1>3 DEF Ui
  <2> HIDE DEF r
  <2>3. Acted(r) \in Ui /\ Acted(r).dirty /\ Acted(r).acts = 1 /\ Acted(r).depth = u.depth /\ Acted(r).calls = <<>>
    BY <2>2, ActedFields
  <2>4. Form[next] \in Widget /\ Form[next] \in OnTop(u)
    BY <1>3, <1>7, Tops
  <2> DEFINE d == Acted(r)
             f == Form[next]
  <2> HIDE DEF d, f
  <2>5. /\ Focused(d, f) \in Ui /\ Focused(d, f).dirty /\ Focused(d, f).acts = 1 /\ Focused(d, f).depth = u.depth
        /\ Focused(d, f).calls = <<>> /\ Focused(d, f).focus = f
    BY <2>3, <2>4, FocusedFields DEF d, f
  <2>6. FocusIn(Focused(d, f))
    BY <1>0, <2>4, <2>5, StillFocused DEF f
  <2>7. QED BY <2>1, <2>5, <2>6 DEF EventDone, CallsFit, d, f
<1>8. CASE key \in {"down", "up"} /\ u.depth = 2
  <2> DEFINE f == IF key = "down" THEN "save" ELSE "cancel"
  <2>1. ScreenKey(u, key, fits) = Focused(a, f)
    BY <1>2, <1>8
  <2>2. f \in Widget /\ f \in OnTop(u)
    BY <1>8, Tops
  <2> HIDE DEF f
  <2>5. /\ Focused(a, f) \in Ui /\ Focused(a, f).dirty /\ Focused(a, f).acts = 1 /\ Focused(a, f).depth = u.depth
        /\ Focused(a, f).calls = <<>> /\ Focused(a, f).focus = f
    BY <1>1, <2>2, FocusedFields
  <2>6. FocusIn(Focused(a, f))
    BY <1>0, <2>2, <2>5, StillFocused
  <2>7. QED BY <2>1, <2>5, <2>6 DEF EventDone, CallsFit
<1>9. CASE key \notin {"esc", "ctrlS", "down", "up"}
  <2>1. ScreenKey(u, key, fits) = IF u.focus \in OnTop(u) /\ Consumes(u.focus, key)
                                  THEN WidgetKey(u, u.focus, key, fits) ELSE u
    BY <1>2, <1>9
  <2>2. EventDone(u, u)
    BY <1>0, CalmSelf, CalmIsDone
  <2>3. u.focus \in OnTop(u) => EventDone(u, WidgetKey(u, u.focus, key, fits))
    BY WidgetKeyDone
  <2>4. QED BY <2>1, <2>2, <2>3
<1>10. QED BY <1>0, <1>4, <1>5, <1>6, <1>7, <1>8, <1>9

LEMMA BlurredDone ==
    ASSUME NEW u, Ready(u), NEW w
    PROVE  /\ Blurred(u, w) \in Ui /\ FocusIn(Blurred(u, w)) /\ Blurred(u, w).depth = u.depth
           /\ Blurred(u, w).calls = <<>> /\ Blurred(u, w).woken = u.woken /\ Blurred(u, w).running = u.running
           /\ Blurred(u, w).acts = 0
<1>0. u \in Ui /\ u.acts = 0 /\ u.calls = <<>> /\ FocusIn(u)
  BY DEF Ready
<1>1. QED BY <1>0, BlurredFields, StillFocused

\* The keyboard goes to a widget of the screen in front.
LEMMA HoldReady ==
    ASSUME NEW u, Ready(u), NEW w \in OnTop(u), NEW x
    PROVE  Calm(u, Hold(Blurred(u, x), w))
<1> DEFINE v == Blurred(u, x)
<1>1. /\ v \in Ui /\ FocusIn(v) /\ v.depth = u.depth
      /\ v.calls = u.calls /\ v.woken = u.woken /\ v.running = u.running /\ v.acts = u.acts
  BY BlurredDone DEF Ready
<1>2. w \in Widget /\ w \in OnTop(v)
  BY <1>1, Tops, SameScreen DEF Ready
<1> HIDE DEF v
<1>3. Calm(v, Hold(v, w)) /\ Hold(v, w).dirty
  <2>1. Calm(v, Hold(v, w))
    BY <1>1, <1>2, HeldFields
  <2> DEFINE h == [v EXCEPT !.held = w, !.dirty = TRUE]
  <2>2. h \in Ui /\ h.dirty /\ Hold(v, w) = Focused(h, w)
    BY <1>1, <1>2 DEF Ui, Hold
  <2> HIDE DEF h
  <2>3. QED BY <1>2, <2>1, <2>2, FocusedFields
<1>4. QED BY <1>1, <1>3 DEF Calm, v

LEMMA TabDone ==
    ASSUME NEW u, Ready(u)
    PROVE  EventDone(u, TabTo(u))
<1> DEFINE here == {i \in DOMAIN ScreenOf(u) : ScreenOf(u)[i] = u.held}
           next == IF here = {} THEN 1 ELSE ((CHOOSE i \in here : TRUE) % Len(ScreenOf(u))) + 1
<1>1. ScreenOf(u) # <<>> /\ Len(ScreenOf(u)) \in {2, 3} /\ DOMAIN ScreenOf(u) = 1 .. Len(ScreenOf(u))
  BY Tops DEF Ready, Form, FieldEditor
<1>2. next \in DOMAIN ScreenOf(u)
  <2>1. \A i \in Nat : i % 2 \in 0 .. 1 /\ i % 3 \in 0 .. 2
    OBVIOUS
  <2>2. CASE here = {}
    BY <1>1, <2>2
  <2>3. CASE here # {}
    <3> DEFINE c == CHOOSE i \in here : TRUE
    <3>1. c \in here
      BY <2>3
    <3>2. c \in Nat
      BY <1>1, <3>1
    <3>3. next = (c % Len(ScreenOf(u))) + 1
      BY <2>3
    <3> HIDE DEF c, next
    <3>4. QED BY <1>1, <2>1, <3>2, <3>3
  <2>4. QED BY <2>2, <2>3
<1>3. TabTo(u) = Hold(Blurred(u, u.held), ScreenOf(u)[next])
  BY <1>1 DEF TabTo
<1> HIDE DEF here, next
<1>4. ScreenOf(u)[next] \in OnTop(u)
  BY <1>2 DEF OnTop, Range
<1>5. QED BY <1>3, <1>4, HoldReady, CalmIsDone

LEMMA KeyDone ==
    ASSUME NEW u, Ready(u), NEW key \in KeyPress, NEW fits \in BOOLEAN
    PROVE  EventDone(u, OnKey(u, key, fits))
<1>1. CASE Quits(u, key)
  <2> DEFINE r == [u EXCEPT !.running = FALSE]
  <2>1. OnKey(u, key, fits) = r
    BY <1>1 DEF OnKey
  <2>2. /\ r \in Ui /\ r.acts = 0 /\ r.calls = <<>> /\ r.depth = u.depth /\ r.focus = u.focus
        /\ r.dirty = u.dirty /\ SameLook(u, r)
    BY DEF Ui, Ready, SameLook
  <2> HIDE DEF r
  <2>3. FocusIn(r)
    BY <2>2, StillFocused DEF Ready
  <2>4. QED BY <2>1, <2>2, <2>3 DEF EventDone, CallsFit
<1>2. CASE ~Quits(u, key) /\ u.held # NoWidget /\ u.held = u.focus /\ Consumes(u.held, key)
  <2>1. OnKey(u, key, fits) = WidgetKey(u, u.held, key, fits) /\ u.held \in OnTop(u)
    BY <1>2 DEF OnKey, Ready, FocusIn
  <2>2. QED BY <2>1, WidgetKeyDone
<1>3. CASE ~Quits(u, key) /\ ~(u.held # NoWidget /\ u.held = u.focus /\ Consumes(u.held, key)) /\ key = "tab"
  <2>1. OnKey(u, key, fits) = TabTo(u)
    BY <1>3 DEF OnKey
  <2>2. QED BY <2>1, TabDone
<1>4. CASE ~Quits(u, key) /\ ~(u.held # NoWidget /\ u.held = u.focus /\ Consumes(u.held, key)) /\ key # "tab"
  <2>1. OnKey(u, key, fits) = ScreenKey(u, key, fits)
    BY <1>4 DEF OnKey
  <2>2. QED BY <2>1, ScreenKeyDone
<1>5. QED BY <1>1, <1>2, <1>3, <1>4

\* Whoever is under the mouse is a widget of the screen in front.
LEMMA AtTop == ASSUME NEW u, NEW row PROVE At(u, row) # NoWidget => At(u, row) \in OnTop(u)
BY DEF At, OnTop, Range

LEMMA ClickCalm ==
    ASSUME NEW u, Ready(u), NEW w, w # NoWidget => w \in OnTop(u)
    PROVE  Calm(u, ClickFocus(u, w))
<1>0. u \in Ui
  BY DEF Ready
<1>1. CASE w # NoWidget
  BY <1>1, HoldReady DEF ClickFocus
<1>2. CASE w = NoWidget /\ u.held # NoWidget
  <2> DEFINE b == Blurred(u, u.held)
             c == [b EXCEPT !.held = NoWidget]
             d == Took(c)
  <2>1. ClickFocus(u, w) = d
    BY <1>2 DEF ClickFocus
  <2>2. /\ b \in Ui /\ FocusIn(b) /\ b.depth = u.depth
        /\ b.calls = u.calls /\ b.woken = u.woken /\ b.running = u.running /\ b.acts = u.acts
    BY BlurredDone DEF Ready
  <2> HIDE DEF b
  <2>3. /\ c \in Ui /\ c.focus = b.focus /\ c.depth = u.depth
        /\ c.calls = u.calls /\ c.woken = u.woken /\ c.running = u.running /\ c.acts = u.acts
    BY <2>2 DEF Ui
  <2> HIDE DEF c
  <2>4. /\ d \in Ui /\ d.focus = b.focus /\ d.depth = u.depth /\ d.dirty
        /\ d.calls = u.calls /\ d.woken = u.woken /\ d.running = u.running /\ d.acts = u.acts
    BY <2>3 DEF Ui, Took
  <2> HIDE DEF d
  <2>5. FocusIn(d)
    BY <2>2, <2>4, StillFocused
  <2>6. QED BY <2>1, <2>4, <2>5 DEF Calm
<1>3. CASE w = NoWidget /\ u.held = NoWidget
  BY <1>0, <1>3, CalmSelf DEF ClickFocus
<1>4. QED BY <1>1, <1>2, <1>3

LEMMA HoverCalm ==
    ASSUME NEW u, Ready(u), NEW w, w # NoWidget => w \in OnTop(u)
    PROVE  Calm(u, Hover(u, w))
<1>0. u \in Ui /\ FocusIn(u) /\ w \in Widget \cup {NoWidget}
  BY Tops DEF Ready
<1>1. CASE w = u.hovered
  BY <1>0, <1>1, CalmSelf DEF Hover
<1>2. CASE w # u.hovered
  <2> DEFINE heat == (u.hot \ {u.hovered}) \cup ({w} \ {NoWidget})
             d == [u EXCEPT !.hovered = w, !.hot = heat, !.dirty = TRUE]
  <2>1. Hover(u, w) = d
    BY <1>2 DEF Hover, Took
  <2>2. heat \in SUBSET Widget
    BY <1>0 DEF Ui
  <2> HIDE DEF heat
  <2>3. /\ d \in Ui /\ d.focus = u.focus /\ d.depth = u.depth /\ d.dirty
        /\ d.calls = u.calls /\ d.woken = u.woken /\ d.running = u.running /\ d.acts = u.acts
    BY <1>0, <2>2 DEF Ui
  <2> HIDE DEF d
  <2>4. FocusIn(d)
    BY <1>0, <2>3, StillFocused
  <2>5. QED BY <2>1, <2>3, <2>4 DEF Calm
<1>3. QED BY <1>1, <1>2

LEMMA ButtonDone ==
    ASSUME NEW u, Ready(u), NEW b \in Button, b \in OnTop(u), NEW mouse \in Mouse, NEW row, NEW fits \in BOOLEAN
    PROVE  EventDone(u, Took(ButtonMouse(u, b, mouse, row, fits)))
<1> DEFINE hit == Hit(u, b, row)
<1>0. u \in Ui /\ FocusIn(u) /\ b \in Widget /\ u.acts = 0 /\ u.calls = <<>>
  BY DEF Ready, Widget
<1>1. ASSUME NEW h \in SUBSET Widget, NEW a \in SUBSET Button, NEW q \in SUBSET Button
      PROVE  EventDone(u, Took([u EXCEPT !.hot = h, !.active = a, !.pressed = q]))
  <2> DEFINE d == [u EXCEPT !.hot = h, !.active = a, !.pressed = q, !.dirty = TRUE]
  <2>1. Took([u EXCEPT !.hot = h, !.active = a, !.pressed = q]) = d
    BY DEF Took
  <2>2. d \in Ui /\ d.dirty /\ d.acts = 0 /\ d.calls = <<>> /\ d.depth = u.depth /\ d.focus = u.focus
    BY <1>0 DEF Ui
  <2> HIDE DEF d
  <2>3. FocusIn(d)
    BY <1>0, <2>2, StillFocused
  <2>4. QED BY <2>1, <2>2, <2>3 DEF EventDone, CallsFit
<1>2. CASE hit # (b \in u.hot)
  <2> DEFINE h == IF hit THEN u.hot \cup {b} ELSE u.hot \ {b}
             q == IF b \notin u.active THEN u.pressed ELSE IF hit THEN u.pressed \cup {b} ELSE u.pressed \ {b}
  <2>1. ButtonMouse(u, b, mouse, row, fits) = [u EXCEPT !.hot = h, !.pressed = q]
    BY <1>2 DEF ButtonMouse
  <2>2. h \in SUBSET Widget /\ q \in SUBSET Button
    BY <1>0 DEF Ui
  <2> HIDE DEF h, q
  <2>3. [u EXCEPT !.hot = h, !.pressed = q] = [u EXCEPT !.hot = h, !.active = u.active, !.pressed = q]
    BY <1>0 DEF Ui
  <2>4. u.active \in SUBSET Button
    BY <1>0 DEF Ui
  <2>5. QED BY <1>1, <2>1, <2>2, <2>3, <2>4
<1>3. CASE ~(hit # (b \in u.hot)) /\ Left(mouse)
  <2> DEFINE a == u.active \cup {b}
             q == u.pressed \cup {b}
  <2>1. ButtonMouse(u, b, mouse, row, fits) = [u EXCEPT !.active = a, !.pressed = q]
    BY <1>3 DEF ButtonMouse
  <2>2. a \in SUBSET Button /\ q \in SUBSET Button
    BY <1>0 DEF Ui
  <2> HIDE DEF a, q
  <2>3. [u EXCEPT !.active = a, !.pressed = q] = [u EXCEPT !.hot = u.hot, !.active = a, !.pressed = q]
    BY <1>0 DEF Ui
  <2>4. u.hot \in SUBSET Widget
    BY <1>0 DEF Ui
  <2>5. QED BY <1>1, <2>1, <2>2, <2>3, <2>4
<1>4. CASE ~(hit # (b \in u.hot)) /\ ~Left(mouse)
  <2> DEFINE a == u.active \ {b}
             q == u.pressed \ {b}
             v == [u EXCEPT !.active = a, !.pressed = q]
  <2>1. ButtonMouse(u, b, mouse, row, fits) = IF hit THEN Activated(v, b, fits) ELSE v
    BY <1>4 DEF ButtonMouse
  <2>2. a \in SUBSET Button /\ q \in SUBSET Button
    BY <1>0 DEF Ui
  <2> HIDE DEF a, q
  <2>3. v = [u EXCEPT !.hot = u.hot, !.active = a, !.pressed = q]
    BY <1>0 DEF Ui
  <2>4. u.hot \in SUBSET Widget
    BY <1>0 DEF Ui
  <2>5. EventDone(u, Took(v))
    BY <1>1, <2>2, <2>3, <2>4
  <2>6. /\ v \in Ui /\ v.depth = u.depth /\ v.focus = u.focus /\ v.calls = <<>> /\ v.acts = 0
        /\ v.dirty = u.dirty
    BY <1>0, <2>2 DEF Ui
  <2> HIDE DEF v
  <2>7. Ready(v) /\ b \in OnTop(v)
    BY <1>0, <2>6, StillFocused, SameScreen DEF Ready
  <2>8. EventDone(v, Took(Activated(v, b, fits))) /\ Took(Activated(v, b, fits)).dirty
    <3>1. EventDone(v, Activated(v, b, fits))
      BY <2>7, ActivatedDone
    <3>2. Took(Activated(v, b, fits)).dirty
      <4>1. Activated(v, b, fits) \in Ui
        BY <3>1 DEF EventDone
      <4>2. QED BY <4>1 DEF Took, Ui
    <3>3. QED BY <3>1, <3>2, TookDone
  <2>9. EventDone(u, Took(Activated(v, b, fits)))
    BY <2>6, <2>8 DEF EventDone
  <2>10. QED BY <2>1, <2>5, <2>9
<1>5. QED BY <1>2, <1>3, <1>4

LEMMA WidgetMouseDone ==
    ASSUME NEW u, Ready(u), NEW w \in OnTop(u), NEW mouse \in Mouse, NEW row, NEW fits \in BOOLEAN
    PROVE  EventDone(u, WidgetMouse(u, w, mouse, row, fits))
<1>0. w \in Widget /\ u \in Ui /\ u.calls = <<>> /\ u.acts = 0
  BY Tops DEF Ready
<1>1. CASE w = "input"
  <2> DEFINE v == Focused(u, w)
             d == Took(v)
  <2>1. WidgetMouse(u, w, mouse, row, fits) = d
    BY <1>1 DEF WidgetMouse
  <2>2. v \in Ui /\ v.depth = u.depth /\ v.calls = <<>> /\ v.acts = 0 /\ v.focus = w
    BY <1>0, FocusedFields
  <2> HIDE DEF v
  <2>3. d \in Ui /\ d.depth = u.depth /\ d.calls = <<>> /\ d.acts = 0 /\ d.focus = w /\ d.dirty
    BY <2>2 DEF Took, Ui
  <2> HIDE DEF d
  <2>4. FocusIn(d)
    BY <2>3, StillFocused DEF Ready
  <2>5. QED BY <2>1, <2>3, <2>4 DEF EventDone, CallsFit
<1>2. CASE w # "input"
  <2>1. w \in Button /\ WidgetMouse(u, w, mouse, row, fits) = Took(ButtonMouse(u, w, mouse, row, fits))
    BY <1>0, <1>2 DEF WidgetMouse, Widget
  <2>2. QED BY <2>1, ButtonDone
<1>3. QED BY <1>1, <1>2

\* The last of a screen's widgets that takes an event.
LEMMA TakerIs ==
    ASSUME NEW takers \in SUBSET (1 .. 3), takers # {}
    PROVE  (CHOOSE i \in takers : \A j \in takers : j <= i) \in takers
<1>1. \E i \in takers : \A j \in takers : j <= i
  <2>1. CASE 3 \in takers
    BY <2>1
  <2>2. CASE 3 \notin takers /\ 2 \in takers
    BY <2>2
  <2>3. CASE 3 \notin takers /\ 2 \notin takers
    <3>1. \A i \in takers : i = 1
      <4>1. \A i \in 1 .. 3 : i = 1 \/ i = 2 \/ i = 3
        OBVIOUS
      <4>2. QED BY <2>3, <4>1
    <3>2. PICK i \in takers : TRUE
      OBVIOUS
    <3>3. i \in takers /\ \A j \in takers : j <= i
      BY <3>1
    <3>4. QED BY <3>3
  <2>4. QED BY <2>1, <2>2, <2>3
<1>2. QED BY <1>1

LEMMA ChildrenDone ==
    ASSUME NEW u, Ready(u), NEW mouse \in Mouse, NEW row, NEW fits \in BOOLEAN
    PROVE  EventDone(u, ChildrenMouse(u, mouse, row, fits))
<1> DEFINE takers == {i \in DOMAIN ScreenOf(u) : MouseTakes(u, ScreenOf(u)[i], mouse, row)}
           taker == CHOOSE i \in takers : \A j \in takers : j <= i
           let == {ScreenOf(u)[i] : i \in {j \in DOMAIN ScreenOf(u) : takers = {} \/ j > taker}}
           v == IF Left(mouse) THEN u ELSE [u EXCEPT !.active = u.active \ let]
<1>1. ChildrenMouse(u, mouse, row, fits) = IF takers = {} THEN v ELSE WidgetMouse(v, ScreenOf(u)[taker], mouse, row, fits)
  BY DEF ChildrenMouse
<1>2. takers \in SUBSET (1 .. 3) /\ takers \subseteq DOMAIN ScreenOf(u)
  <2>1. DOMAIN ScreenOf(u) \subseteq 1 .. 3
    BY Tops DEF Ready
  <2>2. QED BY <2>1
<1>3. takers # {} => taker \in takers
  BY <1>2, TakerIs
<1>4. takers # {} => ScreenOf(u)[taker] \in OnTop(u)
  BY <1>2, <1>3 DEF OnTop, Range
<1> HIDE DEF takers, taker, let
<1>5. Calm(u, v)
  <2>1. u \in Ui /\ FocusIn(u)
    BY DEF Ready
  <2>2. CASE Left(mouse)
    BY <2>1, <2>2, CalmSelf
  <2>3. CASE ~Left(mouse)
    <3> DEFINE a == u.active \ let
               d == [u EXCEPT !.active = a]
    <3>1. v = d
      BY <2>3
    <3>2. a \in SUBSET Button
      BY <2>1 DEF Ui
    <3> HIDE DEF a
    <3>3. /\ d \in Ui /\ SameLook(u, d) /\ d.dirty = u.dirty
          /\ d.depth = u.depth /\ d.calls = u.calls /\ d.woken = u.woken /\ d.running = u.running /\ d.acts = u.acts
      BY <2>1, <3>2 DEF Ui, SameLook
    <3> HIDE DEF d
    <3>4. FocusIn(d)
      BY <2>1, <3>3, StillFocused DEF SameLook
    <3>5. QED BY <3>1, <3>3, <3>4 DEF Calm
  <2>4. QED BY <2>2, <2>3
<1> HIDE DEF v
<1>6. CASE takers = {}
  BY <1>1, <1>5, <1>6, CalmIsDone
<1>7. CASE takers # {}
  <2>1. Ready(v)
    BY <1>5, CalmReady
  <2>2. ScreenOf(u)[taker] \in OnTop(v)
    BY <1>4, <1>5, <1>7, SameScreen DEF Calm
  <2>3. EventDone(v, WidgetMouse(v, ScreenOf(u)[taker], mouse, row, fits))
    BY <2>1, <2>2, WidgetMouseDone
  <2>4. QED BY <1>1, <1>5, <1>7, <2>3, CalmThenDone
<1>8. QED BY <1>6, <1>7

LEMMA MouseDone ==
    ASSUME NEW u, Ready(u), NEW mouse \in Mouse, NEW row, NEW fits \in BOOLEAN
    PROVE  EventDone(u, OnMouse(u, mouse, row, fits))
<1> DEFINE w == At(u, row)
           v == IF Left(mouse) THEN ClickFocus(u, w) ELSE u
           x == IF mouse \in {"move", "drag"} THEN Hover(v, w) ELSE v
<1>1. OnMouse(u, mouse, row, fits) = ChildrenMouse(x, mouse, row, fits)
  BY DEF OnMouse
<1>2. w # NoWidget => w \in OnTop(u)
  BY AtTop
<1> HIDE DEF w
<1>3. Calm(u, v)
  <2>1. Calm(u, ClickFocus(u, w))
    BY <1>2, ClickCalm
  <2>2. Calm(u, u)
    BY CalmSelf DEF Ready
  <2>3. QED BY <2>1, <2>2
<1> HIDE DEF v
<1>4. Ready(v) /\ (w # NoWidget => w \in OnTop(v))
  BY <1>2, <1>3, CalmReady, SameScreen DEF Calm
<1>5. Calm(v, x)
  <2>1. Calm(v, Hover(v, w))
    BY <1>4, HoverCalm
  <2>2. Calm(v, v)
    BY <1>4, CalmSelf DEF Ready
  <2>3. QED BY <2>1, <2>2
<1> HIDE DEF x
<1>6. Calm(u, x) /\ Ready(x)
  BY <1>3, <1>4, <1>5, CalmTwice, CalmReady
<1>7. QED BY <1>1, <1>6, ChildrenDone, CalmThenDone

LEMMA HandledDone ==
    ASSUME NEW u \in Ui, u.depth \in {1, 2}, u.calls = <<>>, FocusIn(u), NEW e \in UserEvent, NEW fits \in BOOLEAN
    PROVE  EventDone(u, Handled(u, e, fits))
<1> DEFINE v == [u EXCEPT !.acts = 0]
<1>1. Handled(u, e, fits) = IF e[1] \in KeyPress THEN OnKey(v, e[1], fits) ELSE OnMouse(v, e[1], e[2], fits)
  BY DEF Handled
<1>2. v \in Ui /\ v.depth = u.depth /\ v.calls = <<>> /\ v.acts = 0 /\ v.dirty = u.dirty /\ SameLook(u, v)
  BY DEF Ui, SameLook
<1> HIDE DEF v
<1>3. Ready(v)
  BY <1>2, StillFocused DEF Ready, SameLook
<1>4. e[1] \notin KeyPress => e[1] \in Mouse
  BY DEF UserEvent
<1>5. ASSUME NEW w, EventDone(v, w) PROVE EventDone(u, w)
  BY <1>2, <1>5 DEF EventDone, SameLook
<1>6. QED BY <1>1, <1>3, <1>4, <1>5, KeyDone, MouseDone

-----------------------------------------------------------------------------
(* The callbacks that were posted.                                         *)

CallbackFits(u, c) ==
    \/ c = "start" /\ u.depth = 0
    \/ c = "open" /\ u.depth = 1
    \/ c = "close" /\ u.depth = 2
    \/ c = "write" /\ u.depth \in {1, 2}

LEMMA CallbackDone ==
    ASSUME NEW u \in Ui, FocusIn(u), NEW c, CallbackFits(u, c)
    PROVE  LET v == Callback(u, c) IN
           v \in Ui /\ v.dirty /\ v.calls = u.calls /\ v.depth \in {1, 2} /\ FocusIn(v) /\ v.acts = u.acts
                /\ v.running = u.running /\ v.woken = u.woken
<1>0. Form[u.row] \in {"first", "second"} /\ Form[u.row] \in Widget /\ 1 \in 0 .. 2 /\ 2 \in 0 .. 2
  <2>1. 1 \in 0 .. 2 /\ 2 \in 0 .. 2
    OBVIOUS
  <2>2. QED BY <2>1, Tops DEF Ui
<1>1. CASE c = "start" /\ u.depth = 0
  <2> DEFINE w == [u EXCEPT !.dirty = TRUE, !.depth = 1]
             f == Form[u.row]
  <2>0. u.depth + 1 = 1
    BY <1>1
  <2>1. Callback(u, c) = Focused(w, f)
    BY <1>1, <2>0 DEF Callback
  <2>2. w \in Ui /\ w.dirty /\ w.depth = 1 /\ w.calls = u.calls /\ w.acts = u.acts /\ w.running = u.running
        /\ w.woken = u.woken
    BY <1>0 DEF Ui
  <2>3. f \in Widget /\ f \in {"first", "second"}
    BY <1>0
  <2> HIDE DEF w, f
  <2>4. /\ Focused(w, f) \in Ui /\ Focused(w, f).dirty /\ Focused(w, f).depth = 1 /\ Focused(w, f).calls = u.calls
        /\ Focused(w, f).acts = u.acts /\ Focused(w, f).focus = f /\ Focused(w, f).running = u.running
        /\ Focused(w, f).woken = u.woken
    BY <2>2, <2>3, FocusedFields
  <2>5. FocusIn(Focused(w, f))
    BY <2>3, <2>4, Tops DEF FocusIn
  <2>6. QED BY <2>1, <2>4, <2>5
<1>2. CASE c = "open" /\ u.depth = 1
  <2> DEFINE n == u.stored
             w == [u EXCEPT !.dirty = TRUE, !.depth = 2, !.text = n]
             f == "input"
  <2>0. u.depth + 1 = 2
    BY <1>2
  <2>1. Callback(u, c) = Focused(w, f)
    BY <1>2, <2>0 DEF Callback
  <2>2. n \in Nat
    BY DEF Ui
  <2> HIDE DEF n
  <2>3. w \in Ui /\ w.dirty /\ w.depth = 2 /\ w.calls = u.calls /\ w.acts = u.acts /\ w.running = u.running
        /\ w.woken = u.woken
    BY <1>0, <2>2 DEF Ui
  <2>4. f \in Widget /\ f \in {"input"}
    BY DEF Widget
  <2> HIDE DEF w, f
  <2>5. /\ Focused(w, f) \in Ui /\ Focused(w, f).dirty /\ Focused(w, f).depth = 2 /\ Focused(w, f).calls = u.calls
        /\ Focused(w, f).acts = u.acts /\ Focused(w, f).focus = f /\ Focused(w, f).running = u.running
        /\ Focused(w, f).woken = u.woken
    BY <2>3, <2>4, FocusedFields
  <2>6. FocusIn(Focused(w, f))
    BY <2>4, <2>5, Tops DEF FocusIn
  <2>7. QED BY <2>1, <2>5, <2>6
<1>3. CASE c = "close" /\ u.depth = 2
  <2> DEFINE h == LeftBehind(u.held)
             o == LeftBehind(u.hovered)
             t == u.hot \ Range(FieldEditor)
             a == u.active \ Range(FieldEditor)
             q == u.pressed \ Range(FieldEditor)
             w == [u EXCEPT !.dirty = TRUE, !.depth = 1, !.held = h, !.hovered = o, !.hot = t, !.active = a,
                            !.pressed = q]
             f == Form[u.row]
  <2>0. u.depth - 1 = 1
    BY <1>3
  <2>1. Callback(u, c) = Focused(w, f)
    BY <1>3, <2>0 DEF Callback
  <2>2. /\ h \in Widget \cup {NoWidget, Gone} /\ o \in Widget \cup {NoWidget, Gone}
        /\ t \in SUBSET Widget /\ a \in SUBSET Button /\ q \in SUBSET Button
    BY DEF Ui, LeftBehind
  <2> HIDE DEF h, o, t, a, q
  <2>3. w \in Ui /\ w.dirty /\ w.depth = 1 /\ w.calls = u.calls /\ w.acts = u.acts /\ w.running = u.running
        /\ w.woken = u.woken
    BY <1>0, <2>2 DEF Ui
  <2>4. f \in Widget /\ f \in {"first", "second"}
    BY <1>0
  <2> HIDE DEF w, f
  <2>5. /\ Focused(w, f) \in Ui /\ Focused(w, f).dirty /\ Focused(w, f).depth = 1 /\ Focused(w, f).calls = u.calls
        /\ Focused(w, f).acts = u.acts /\ Focused(w, f).focus = f /\ Focused(w, f).running = u.running
        /\ Focused(w, f).woken = u.woken
    BY <2>3, <2>4, FocusedFields
  <2>6. FocusIn(Focused(w, f))
    BY <2>4, <2>5, Tops DEF FocusIn
  <2>7. QED BY <2>1, <2>5, <2>6
<1>4. CASE c = "write" /\ u.depth \in {1, 2}
  <2> DEFINE w == [u EXCEPT !.dirty = TRUE, !.note = TRUE]
  <2>1. Callback(u, c) = w
    BY <1>4 DEF Callback
  <2>2. w \in Ui /\ w.dirty /\ w.depth = u.depth /\ w.calls = u.calls /\ w.acts = u.acts /\ w.focus = u.focus
        /\ w.running = u.running /\ w.woken = u.woken
    BY DEF Ui
  <2> HIDE DEF w
  <2>3. FocusIn(w)
    BY <2>2, StillFocused
  <2>4. QED BY <1>4, <2>1, <2>2, <2>3
<1>5. QED BY <1>1, <1>2, <1>3, <1>4 DEF CallbackFits

-----------------------------------------------------------------------------
(* The loop.                                                               *)

LoopTypes ==
    /\ ui \in Ui /\ timers \in BOOLEAN /\ winch \in BOOLEAN
    /\ arrived \in 0 .. MaxInput /\ console \in 0 .. arrived
    /\ loop \in {"turn", "wait", "batch", "ended"}
    /\ termSize \in TermSize /\ bufferSize \in TermSize /\ pendingSize \in TermSize \cup {NoSize}

\* A program that has not shown its first screen is about to; what was posted fits the
\* screen in front; and a picture that nobody asks to be drawn again is the right one.
ToolkitInv ==
    /\ LoopTypes
    /\ FocusIn(ui) /\ ui.acts <= 1
    /\ ui.depth = 0 => ui.calls = <<"start">> /\ loop = "turn" /\ ui.running
    /\ ui.depth # 0 => CallsFit(ui)
    /\ PostedComesFirst
    /\ ~ui.dirty => picture = Drawing(ui, bufferSize)
    /\ loop = "wait" => ~ui.dirty

LEMMA ToolkitStarts == ToolkitInit => ToolkitInv
<1> SUFFICES ASSUME ToolkitInit PROVE ToolkitInv
  OBVIOUS
<1>1. <<"start">> \in Seq({"start", "open", "close", "write"})
  OBVIOUS
<1>2. ui \in Ui
  BY <1>1 DEF ToolkitInit, Ui
<1>3. LoopTypes
  <2>1. arrived \in 0 .. MaxInput /\ console \in 0 .. arrived
    BY ToolkitAssumption DEF ToolkitInit
  <2>2. QED BY <1>2, <2>1 DEF ToolkitInit, LoopTypes
<1>4. ui.depth = 0 /\ ui.calls = <<"start">> /\ loop = "turn" /\ ui.running /\ ui.acts = 0 /\ ui.focus = NoWidget
      /\ ui.dirty
  BY DEF ToolkitInit
<1>5. QED BY <1>3, <1>4 DEF ToolkitInv, FocusIn, PostedComesFirst, Reading

LEMMA SameDrawing ==
    ASSUME NEW u, NEW v, SameLook(u, v), NEW size
    PROVE  Drawing(v, size) = Drawing(u, size)
<1>1. OnTop(v) = OnTop(u)
  BY SameScreen DEF SameLook
<1>2. QED BY <1>1 DEF Drawing, SameLook

LEMMA TurnKeeps == ToolkitInv /\ TurnLoop => ToolkitInv'
<1> SUFFICES ASSUME ToolkitInv, TurnLoop PROVE ToolkitInv'
  OBVIOUS
<1> DEFINE u == [ui EXCEPT !.calls = <<>>]
           ran == FoldLeft(Callback, [ui EXCEPT !.calls = <<>>], ui.calls)
<1>1. PICK fires \in {timers, FALSE}, rested \in BOOLEAN, over \in BOOLEAN :
          LET resizes == pendingSize # NoSize /\ rested
              draws == ran.dirty \/ fires \/ resizes
              drawn == [ran EXCEPT !.dirty = FALSE, !.note = @ /\ ~over]
          IN  /\ bufferSize' = IF resizes THEN pendingSize ELSE bufferSize
              /\ pendingSize' = IF resizes THEN NoSize ELSE pendingSize
              /\ ui' = IF draws THEN drawn ELSE ran
              /\ picture' = IF draws THEN Drawing(drawn, bufferSize') ELSE picture
  <2>1. PICK fires \in {timers, FALSE} : \E rested, over \in BOOLEAN :
          LET resizes == pendingSize # NoSize /\ rested
              draws == ran.dirty \/ fires \/ resizes
              drawn == [ran EXCEPT !.dirty = FALSE, !.note = @ /\ ~over]
          IN  /\ bufferSize' = IF resizes THEN pendingSize ELSE bufferSize
              /\ pendingSize' = IF resizes THEN NoSize ELSE pendingSize
              /\ ui' = IF draws THEN drawn ELSE ran
              /\ picture' = IF draws THEN Drawing(drawn, bufferSize') ELSE picture
    BY DEF TurnLoop
  <2>2. QED BY <2>1
<1>2. loop = "turn" /\ loop' = "wait" /\ UNCHANGED <<console, timers, winch, termSize, arrived>>
  BY DEF TurnLoop
<1>3. u \in Ui /\ u.calls = <<>> /\ u.acts = ui.acts /\ u.depth = ui.depth /\ u.focus = ui.focus
       /\ u.dirty = ui.dirty /\ SameLook(ui, u) /\ u.running = ui.running
  <2>1. <<>> \in Seq({"start", "open", "close", "write"})
    OBVIOUS
  <2>2. QED BY <2>1 DEF ToolkitInv, LoopTypes, Ui, SameLook
<1>4. ran = FoldLeft(Callback, u, ui.calls)
  OBVIOUS
<1> HIDE DEF u, ran
<1>5. FocusIn(u)
  BY <1>3, StillFocused DEF ToolkitInv
<1>6. /\ ran \in Ui /\ ran.calls = <<>> /\ ran.depth \in {1, 2} /\ FocusIn(ran) /\ ran.acts <= 1
      /\ ~ran.dirty => ~ui.dirty /\ SameLook(ui, ran)
  <2>1. CASE ui.calls = <<>>
    <3>1. ran = u
      BY <1>4, <2>1, RunNone
    <3>2. ui.depth # 0 /\ ui.depth \in 0 .. 2
      BY <2>1 DEF ToolkitInv, LoopTypes, Ui
    <3>3. QED BY <1>3, <1>5, <3>1, <3>2 DEF ToolkitInv
  <2>2. CASE ui.calls # <<>>
    <3>1. PICK c \in {"start", "open", "close", "write"} : ui.calls = <<c>> /\ CallbackFits(u, c)
      BY <2>2, <1>3 DEF ToolkitInv, LoopTypes, Ui, CallsFit, CallbackFits
    <3>2. ran = Callback(u, c)
      BY <1>4, <3>1, RunOne
    <3>3. /\ Callback(u, c) \in Ui /\ Callback(u, c).dirty /\ Callback(u, c).calls = u.calls
          /\ Callback(u, c).depth \in {1, 2} /\ FocusIn(Callback(u, c)) /\ Callback(u, c).acts = u.acts
      BY <1>3, <1>5, <3>1, CallbackDone
    <3>4. QED BY <1>3, <3>2, <3>3 DEF ToolkitInv
  <2>3. QED BY <2>1, <2>2
<1> DEFINE resizes == pendingSize # NoSize /\ rested
           draws == ran.dirty \/ fires \/ resizes
           note == ran.note /\ ~over
           drawn == [ran EXCEPT !.dirty = FALSE, !.note = note]
<1>7. /\ bufferSize' = IF resizes THEN pendingSize ELSE bufferSize
      /\ pendingSize' = IF resizes THEN NoSize ELSE pendingSize
      /\ ui' = IF draws THEN drawn ELSE ran
      /\ picture' = IF draws THEN Drawing(drawn, bufferSize') ELSE picture
  BY <1>1
<1>8. note \in BOOLEAN
  BY DEF Ui
<1> HIDE DEF note
<1>9. /\ drawn \in Ui /\ drawn.calls = <<>> /\ drawn.depth \in {1, 2} /\ drawn.acts <= 1 /\ ~drawn.dirty
      /\ FocusIn(drawn)
  <2>1. drawn \in Ui /\ drawn.calls = <<>> /\ drawn.depth = ran.depth /\ drawn.acts = ran.acts /\ ~drawn.dirty
        /\ drawn.focus = ran.focus
    BY <1>6, <1>8 DEF Ui
  <2> HIDE DEF drawn
  <2>2. FocusIn(drawn)
    BY <1>6, <2>1, StillFocused
  <2>3. QED BY <1>6, <2>1, <2>2
<1>10. bufferSize' \in TermSize /\ pendingSize' \in TermSize \cup {NoSize}
  BY <1>7 DEF ToolkitInv, LoopTypes
<1> HIDE DEF drawn
<1>11. CASE draws
  <2>1. ui' = drawn /\ picture' = Drawing(drawn, bufferSize')
    BY <1>7, <1>11
  <2>2. LoopTypes'
    BY <1>2, <1>9, <1>10, <2>1 DEF ToolkitInv, LoopTypes
  <2>3. QED BY <1>2, <1>9, <2>1, <2>2 DEF ToolkitInv, PostedComesFirst, CallsFit
<1>12. CASE ~draws
  <2>1. ui' = ran /\ picture' = picture /\ bufferSize' = bufferSize /\ ~ran.dirty
    BY <1>7, <1>12
  <2>2. LoopTypes'
    BY <1>2, <1>6, <1>10, <2>1 DEF ToolkitInv, LoopTypes
  <2>3. picture' = Drawing(ran, bufferSize')
    BY <1>6, <2>1, SameDrawing DEF ToolkitInv
  <2>4. QED BY <1>2, <1>6, <2>1, <2>2, <2>3 DEF ToolkitInv, PostedComesFirst, CallsFit
<1>13. QED BY <1>11, <1>12

LEMMA LeaveKeeps == ToolkitInv /\ LeaveLoop => ToolkitInv'
<1> SUFFICES ASSUME ToolkitInv, LeaveLoop PROVE ToolkitInv'
  OBVIOUS
<1>1. ~ui.running /\ loop' = "ended"
      /\ UNCHANGED <<ui, console, timers, winch, termSize, pendingSize, bufferSize, picture, arrived>>
  BY DEF LeaveLoop
<1>2. LoopTypes'
  BY <1>1 DEF ToolkitInv, LoopTypes
<1>3. QED BY <1>1, <1>2 DEF ToolkitInv, PostedComesFirst, CallsFit, FocusIn, Reading, OnTop, ScreenOf, Drawing

LEMMA ResizeKeeps == ToolkitInv /\ ReadResize => ToolkitInv'
<1> SUFFICES ASSUME ToolkitInv, ReadResize PROVE ToolkitInv'
  OBVIOUS
<1> DEFINE v == [ui EXCEPT !.dirty = TRUE]
<1>1. /\ Reading /\ winch' = FALSE /\ pendingSize' = termSize /\ ui' = v /\ loop' = "batch"
      /\ UNCHANGED <<console, timers, termSize, bufferSize, picture, arrived>>
  BY DEF ReadResize
<1>2. /\ v \in Ui /\ v.dirty /\ v.depth = ui.depth /\ v.calls = ui.calls /\ v.woken = ui.woken /\ v.acts = ui.acts
      /\ v.focus = ui.focus /\ v.running = ui.running
  BY DEF ToolkitInv, LoopTypes, Ui
<1> HIDE DEF v
<1>3. LoopTypes'
  BY <1>1, <1>2 DEF ToolkitInv, LoopTypes
<1>4. FocusIn(v)
  BY <1>2, StillFocused DEF ToolkitInv
<1>5. ui.depth # 0 /\ (ui.calls # <<>> => ui.woken)
  BY <1>1 DEF ToolkitInv, PostedComesFirst, Reading
<1>6. QED BY <1>1, <1>2, <1>3, <1>4, <1>5 DEF ToolkitInv, PostedComesFirst, CallsFit

LEMMA WakeupKeeps == ToolkitInv /\ ReadWakeup => ToolkitInv'
<1> SUFFICES ASSUME ToolkitInv, ReadWakeup PROVE ToolkitInv'
  OBVIOUS
<1> DEFINE v == [ui EXCEPT !.woken = FALSE, !.dirty = TRUE]
<1>1. /\ Reading /\ ui' = v /\ loop' = "turn"
      /\ UNCHANGED <<console, timers, winch, termSize, pendingSize, bufferSize, picture, arrived>>
  BY DEF ReadWakeup
<1>2. /\ v \in Ui /\ v.dirty /\ v.depth = ui.depth /\ v.calls = ui.calls /\ v.acts = ui.acts
      /\ v.focus = ui.focus /\ v.running = ui.running
  BY DEF ToolkitInv, LoopTypes, Ui
<1> HIDE DEF v
<1>3. LoopTypes'
  BY <1>1, <1>2 DEF ToolkitInv, LoopTypes
<1>4. FocusIn(v)
  BY <1>2, StillFocused DEF ToolkitInv
<1>5. ui.depth # 0
  BY <1>1 DEF ToolkitInv, Reading
<1>6. QED BY <1>1, <1>2, <1>3, <1>4, <1>5 DEF ToolkitInv, PostedComesFirst, CallsFit, Reading

LEMMA InputKeeps == ToolkitInv /\ ReadInput => ToolkitInv'
<1> SUFFICES ASSUME ToolkitInv, ReadInput PROVE ToolkitInv'
  OBVIOUS
<1>1. PICK e \in UserEvent, fits \in BOOLEAN :
          ui' = Handled(ui, e, fits) /\ loop' = IF Quits(ui, e[1]) THEN "turn" ELSE "batch"
  BY DEF ReadInput
<1>2. /\ Reading /\ ~ui.woken /\ console > 0 /\ console' = console - 1
      /\ UNCHANGED <<timers, winch, termSize, pendingSize, bufferSize, picture, arrived>>
  BY DEF ReadInput
<1>3. ui \in Ui /\ ui.depth \in {1, 2} /\ ui.calls = <<>> /\ FocusIn(ui)
  <2>1. ui.depth # 0 /\ ui.depth \in 0 .. 2
    BY <1>2 DEF ToolkitInv, LoopTypes, Ui, Reading
  <2>2. QED BY <1>2, <2>1 DEF ToolkitInv, LoopTypes, PostedComesFirst
<1>4. EventDone(ui, ui')
  BY <1>1, <1>3, HandledDone
<1>5. loop' \in {"turn", "batch"}
  BY <1>1
<1>6. LoopTypes'
  <2>1. console' \in 0 .. arrived
    BY <1>2 DEF ToolkitInv, LoopTypes
  <2>2. QED BY <1>2, <1>4, <1>5, <2>1 DEF ToolkitInv, LoopTypes, EventDone
<1>7. ~ui'.dirty => picture' = Drawing(ui', bufferSize')
  <2>1. SUFFICES ASSUME ~ui'.dirty PROVE picture' = Drawing(ui', bufferSize')
    OBVIOUS
  <2>2. ~ui.dirty /\ SameLook(ui, ui')
    BY <1>4, <2>1 DEF EventDone
  <2>3. QED BY <1>2, <2>2, SameDrawing DEF ToolkitInv
<1>8. FocusIn(ui') /\ ui'.acts <= 1 /\ ui'.depth # 0 /\ CallsFit(ui') /\ (ui'.calls # <<>> => ui'.woken)
  BY <1>3, <1>4 DEF EventDone
<1>9. QED BY <1>5, <1>6, <1>7, <1>8 DEF ToolkitInv, PostedComesFirst

LEMMA NothingKeeps == ToolkitInv /\ ReadNothing => ToolkitInv'
<1> SUFFICES ASSUME ToolkitInv, ReadNothing PROVE ToolkitInv'
  OBVIOUS
<1>1. /\ Reading /\ loop' = "turn"
      /\ UNCHANGED <<ui, console, timers, winch, termSize, pendingSize, bufferSize, picture, arrived>>
  BY DEF ReadNothing
<1>2. LoopTypes'
  BY <1>1 DEF ToolkitInv, LoopTypes
<1>3. QED BY <1>1, <1>2 DEF ToolkitInv, PostedComesFirst, CallsFit, FocusIn, Reading, OnTop, ScreenOf, Drawing

LEMMA UserKeeps == ToolkitInv /\ UserActs => ToolkitInv'
<1> SUFFICES ASSUME ToolkitInv, UserActs PROVE ToolkitInv'
  OBVIOUS
<1>1. /\ arrived < MaxInput /\ arrived' = arrived + 1
      /\ UNCHANGED <<ui, loop, timers, pendingSize, bufferSize, picture>>
      /\ \/ console' = console + 1 /\ UNCHANGED <<winch, termSize>>
         \/ termSize' \in TermSize \ {termSize} /\ winch' = TRUE /\ UNCHANGED console
  BY DEF UserActs
<1>2. LoopTypes'
  <2>1. arrived' \in 0 .. MaxInput /\ console' \in 0 .. arrived'
    BY <1>1, ToolkitAssumption DEF ToolkitInv, LoopTypes
  <2>2. termSize' \in TermSize /\ winch' \in BOOLEAN
    BY <1>1 DEF ToolkitInv, LoopTypes
  <2>3. QED BY <1>1, <2>1, <2>2 DEF ToolkitInv, LoopTypes
<1>3. QED BY <1>1, <1>2 DEF ToolkitInv, PostedComesFirst, CallsFit, FocusIn, Reading, OnTop, ScreenOf, Drawing

LEMMA ToolkitRests == ToolkitInv /\ UNCHANGED toolkitVars => ToolkitInv'
<1> SUFFICES ASSUME ToolkitInv, UNCHANGED toolkitVars PROVE ToolkitInv'
  OBVIOUS
<1>1. UNCHANGED <<ui, console, loop, timers, winch, termSize, pendingSize, bufferSize, picture, arrived>>
  BY DEF toolkitVars
<1>2. LoopTypes'
  BY <1>1 DEF ToolkitInv, LoopTypes
<1>3. QED BY <1>1, <1>2 DEF ToolkitInv, PostedComesFirst, CallsFit, FocusIn, Reading, OnTop, ScreenOf, Drawing

LEMMA ToolkitStep == ToolkitInv /\ [ToolkitNext]_toolkitVars => ToolkitInv'
BY TurnKeeps, LeaveKeeps, ResizeKeeps, WakeupKeeps, InputKeeps, NothingKeeps, UserKeeps, ToolkitRests
   DEF ToolkitNext, LoopStep

LEMMA ToolkitMeans == ToolkitInv => ToolkitSound
<1> SUFFICES ASSUME ToolkitInv PROVE ToolkitSound
  OBVIOUS
<1>1. /\ ui.depth \in 0 .. 2 /\ ui.row \in DOMAIN Form /\ ui.calls \in Seq({"start", "open", "close", "write"})
      /\ ui.held \in Widget \cup {NoWidget, Gone} /\ ui.focus \in Widget \cup {NoWidget}
      /\ ui.hovered \in Widget \cup {NoWidget, Gone}
      /\ ui.hot \subseteq Widget /\ ui.active \subseteq Button /\ ui.pressed \subseteq Button
  BY Tops DEF ToolkitInv, LoopTypes, Ui
<1>2. /\ {ui.running, ui.dirty, ui.woken, ui.note, ui.selected, timers, winch} \subseteq BOOLEAN
      /\ {ui.text, ui.stored, ui.acts, arrived} \subseteq Nat
  BY DEF ToolkitInv, LoopTypes, Ui
<1>3. console \in 0 .. MaxInput
  BY ToolkitAssumption DEF ToolkitInv, LoopTypes
<1>4. ToolkitTypeOK
  BY <1>1, <1>2, <1>3 DEF ToolkitTypeOK, ToolkitInv, LoopTypes
<1>5. PictureTrue
  BY DEF ToolkitInv, PictureTrue
<1>6. QED BY <1>4, <1>5 DEF ToolkitInv, ToolkitSound, ScreensLeft, FocusInFront, FocusIn, WorksOnce

-----------------------------------------------------------------------------
(* The programs of a terminal and the tools of those who build the system. *)

LEMMA TerminalSteps ==
    [Next]_vars =>
        /\ [PatchNext]_patchVars /\ [ReleaseNext]_releaseVars /\ [SettingsNext]_settingsVars
        /\ [ToolkitNext]_toolkitVars /\ [ViewNext]_viewVars /\ [LineNext]_lineVars
<1> SUFFICES ASSUME [Next]_vars
             PROVE  /\ [PatchNext]_patchVars /\ [ReleaseNext]_releaseVars /\ [SettingsNext]_settingsVars
                    /\ [ToolkitNext]_toolkitVars /\ [ViewNext]_viewVars /\ [LineNext]_lineVars
  OBVIOUS
<1>1. CASE Here /\ UNCHANGED <<part, webVars, toolVars, clientVars>>
  BY <1>1 DEF Here, toolVars
<1>2. CASE Web /\ UNCHANGED <<part, played, hereVars, toolVars, clientVars>>
  BY <1>2 DEF hereVars, toolVars
<1>3. CASE Tools /\ UNCHANGED <<part, played, hereVars, webVars, clientVars>>
  BY <1>3 DEF Tools, hereVars
<1>4. CASE part = "client" /\ ClientNext /\ UNCHANGED <<part, played, hereVars, webVars, toolVars>>
  BY <1>4 DEF hereVars, toolVars
<1>5. CASE UNCHANGED vars
  BY <1>5 DEF vars, hereVars, toolVars
<1>6. QED BY <1>1, <1>2, <1>3, <1>4, <1>5 DEF Next

\* A repository takes all of its patches or none, whichever of them fail to apply and
\* whatever stands on what, for any number of patches (apply_patches, patches_unwind).
THEOREM PatchesAlwaysAllOrNone == Spec => []AllOrNone
<1>1. Init => PatchInv
  BY PatchStarts DEF Init
<1>2. PatchInv /\ [Next]_vars => PatchInv'
  BY PatchStep, TerminalSteps
<1>3. QED BY <1>1, <1>2, PatchMeans, PTL DEF Spec

\* Tags only ascend, and each is on a commit of master that has the version the tag says,
\* however many jobs wait, are replaced, run again or die half-way, and whatever is merged
\* between (release.yml, bump, bump_rc, write_all).
THEOREM ReleasesAlwaysSound == Spec => []ReleasesSound
<1>1. Init => ReleaseInv
  BY ReleaseStarts DEF Init
<1>2. ReleaseInv /\ [Next]_vars => ReleaseInv'
  BY ReleaseStep, TerminalSteps
<1>3. ReleaseInv => ReleasesSound
  BY DEF ReleaseInv, ReleasesSound
<1>4. QED BY <1>1, <1>2, <1>3, PTL DEF Spec

\* The file is what the last successful save wrote, only values that fit are entered, and
\* the form in front shows what it edits, for any settings and any crashes between the
\* steps of a save (config_field::save_to_file, settings_server::handle_save, navigator).
THEOREM SettingsAlwaysKept == Spec => []SettingsKept
<1>1. Init => SettingsInv
  BY SettingsStarts DEF Init
<1>2. SettingsInv /\ [Next]_vars => SettingsInv'
  BY SettingsStep, TerminalSteps
<1>3. QED BY <1>1, <1>2, SettingsMeans, PTL DEF Spec

\* What was posted runs before the next key, no key or click works twice, the keyboard
\* belongs to the screen in front, and what is shown while the loop waits is what there is,
\* for any number of inputs and any sizes (App::run, Terminal::readRawEvent).
THEOREM ToolkitAlwaysSound == Spec => []ToolkitSound
<1>1. Init => ToolkitInv
  BY ToolkitStarts DEF Init
<1>2. ToolkitInv /\ [Next]_vars => ToolkitInv'
  BY ToolkitStep, TerminalSteps
<1>3. QED BY <1>1, <1>2, ToolkitMeans, PTL DEF Spec

\* No status that a checked filter asks for is missing but below a folded group, no group
\* looks better than what is below it, and the details are those of the selected row, for
\* any reports and any keys (model::update, rebuild_visible_items, rebuild_view).
THEOREM ViewAlwaysSound == Spec => []ViewSound
<1>1. Init => MonitorInv
  BY ViewStarts DEF Init
<1>2. MonitorInv /\ [Next]_vars => MonitorInv'
  BY ViewStepKeeps, TerminalSteps
<1>3. QED BY <1>1, <1>2, ViewInvSound, PTL DEF Spec

\* Undo and redo bring back the texts they are asked for, cursor and selection lie in the
\* text, and a click on a character puts the cursor before it, for any texts, any keys and
\* any width of the line (Input, SelectionState, UndoRedoHistory, TextHelper).
THEOREM LineAlwaysSound == Spec => []LineSound
<1>1. Init => LineInv
  BY LineStarts DEF Init
<1>2. LineInv /\ [Next]_vars => LineInv'
  BY LineStepKeeps, TerminalSteps
<1>3. QED BY <1>1, <1>2, LineInvSound, PTL DEF Spec

\* All that the programs of a terminal promise.
THEOREM TerminalAlwaysSound == Spec => []TerminalSound
<1>1. SettingsKept /\ ViewSound /\ ToolkitSound /\ LineSound /\ ReleasesSound /\ AllOrNone => TerminalSound
  BY DEF TerminalSound
<1>2. QED
  BY <1>1, SettingsAlwaysKept, ViewAlwaysSound, ToolkitAlwaysSound, LineAlwaysSound, ReleasesAlwaysSound,
     PatchesAlwaysAllOrNone, PTL

-----------------------------------------------------------------------------
(* The map page.                                                           *)

IsMap(f, S) == DOMAIN f \subseteq MarkerId /\ f \in [DOMAIN f -> S]
Marker == [info : Info, pose : Place \cup {NoPlace}]
Shape == [info : Info, formula : Formula]
Edits == [kind : {"edit", "add"}, id : MarkerId, marker : [info : Info, pose : Place]]
Deletes == [kind : {"delete"}, id : MarkerId]
Operation == Edits \cup Deletes
Calls == [phase : {"sent", "ok", "failed"}, op : Operation, before : SUBSET MarkerId]

PageTypes ==
    /\ IsMap(remote, Marker) /\ IsMap(markers, Marker)
    /\ IsMap(markerUi, Formula) /\ IsMap(baseline, Shape)
    /\ DOMAIN markers \subseteq DOMAIN markerUi /\ DOMAIN baseline \subseteq DOMAIN markerUi
    /\ loaded \in BOOLEAN /\ mapError \in BOOLEAN /\ mapSaving \in BOOLEAN
    /\ ~loaded => DOMAIN markerUi = {}
LoadTypes ==
    \/ load = NoLoad
    \/ load = [phase |-> "asked"]
    \/ load.phase = "answered" /\ IsMap(load.markers, Marker)
SaveTypes ==
    /\ mapSaving => call \in Calls /\ ops \subseteq Operation
    /\ ~mapSaving => call = NoCall /\ ops = {}
    /\ straggler \in {NoCall} \cup Calls

\* Ids that the save under way has asked for; those of which it knows that they were served.
Attempted == IF mapSaving THEN call.before \cup (IF call.phase = "sent" THEN {} ELSE {call.op.id}) ELSE {}
Carried == IF mapSaving THEN call.before \cup (IF call.phase = "ok" THEN {call.op.id} ELSE {}) ELSE {}
Pending == IF mapSaving THEN {call.op} \cup ops ELSE {}

\* The page is loaded and no load is under way or has to be.
SettledPage == loaded /\ load = NoLoad /\ ~mapError

\* What the page holds for saved of one marker is what the server has.
AsBaseline(id) ==
    /\ id \in DOMAIN baseline <=> id \in DOMAIN remote
    /\ id \in DOMAIN remote =>
          /\ baseline[id].info = remote[id].info
          /\ remote[id].pose \in {NoPlace, Resolves[baseline[id].formula][id]}
\* What the server has of one marker is what its formulas stand for.
AsFormulas(id) ==
    id \in DOMAIN remote =>
       /\ loaded => id \in DOMAIN markerUi
       /\ id \in DOMAIN markerUi => remote[id].pose \in {NoPlace, Resolves[markerUi[id]][id]}
AsAnswered(id) ==
    /\ id \in DOMAIN load.markers <=> id \in DOMAIN remote
    /\ id \in DOMAIN remote => load.markers[id] = remote[id]
\* What will be sent of a marker is what its formulas stand for.
Meant(op) ==
    op.kind # "delete" /\ op.id \notin excused =>
        op.id \in DOMAIN markerUi /\ op.marker.pose = Resolves[markerUi[op.id]][op.id]

\* The answer under way is the map; a marker whose baseline is to be replaced is as its
\* formulas; the others are as their baseline; and what the user changed is under way.
AnswerInv == load.phase = "answered" => \A id \in MarkerId \ excused : AsAnswered(id)
FormulasInv == \A id \in MarkerId \ excused : load # NoLoad \/ mapError \/ id \in Carried => AsFormulas(id)
BaselineInv == SettledPage => \A id \in MarkerId \ (excused \cup Attempted) : AsBaseline(id)
RetypedInv ==
    SettledPage /\ mapSaving =>
        \A id \in DOMAIN baseline \ (excused \cup UnderWay) : markerUi[id] = baseline[id].formula
PendingInv == \A op \in Pending : Meant(op)
OverlapInv == mapSaving /\ load # NoLoad => UnderWay \subseteq excused

EditorInv ==
    /\ PageTypes /\ LoadTypes /\ SaveTypes
    /\ AnswerInv /\ FormulasInv /\ BaselineInv /\ RetypedInv /\ PendingInv /\ OverlapInv

LEMMA CallPhases ==
    /\ NoLoad.phase = "no" /\ NoCall.phase = "none"
    /\ \A c \in Calls : c # NoCall /\ c.phase \in {"sent", "ok", "failed"} /\ c.op \in Operation
                        /\ c.before \subseteq MarkerId
    /\ \A op \in Operation : op.id \in MarkerId
    /\ NoLoad # [phase |-> "asked"] /\ [phase |-> "asked"].phase = "asked"
  BY DEF NoLoad, NoCall, Calls, Operation, Edits, Deletes

LEMMA EditFields ==
    ASSUME NEW op \in Operation, op.kind # "delete"
    PROVE  op.marker \in Marker /\ op.marker.pose \in Place
  BY DEF Operation, Edits, Deletes, Marker

LEMMA SavingOrNot == SaveTypes => (call.phase \in {"sent", "ok", "failed"} <=> mapSaving)
  BY CallPhases DEF SaveTypes

LEMMA WithMap ==
    ASSUME NEW S, NEW f, IsMap(f, S), NEW id \in MarkerId, NEW v \in S
    PROVE  IsMap(With(f, id, v), S)
  BY DEF With, IsMap

LEMMA WithoutMap ==
    ASSUME NEW S, NEW f, IsMap(f, S), NEW ids
    PROVE  IsMap(Without(f, ids), S)
  BY DEF Without, IsMap

\* The formulas that are there stay.
LEMMA SeededMap ==
    ASSUME IsMap(markerUi, Formula), NEW m, IsMap(m, Marker)
    PROVE  /\ IsMap(Seeded(m), Formula)
           /\ DOMAIN Seeded(m) = DOMAIN markerUi \cup DOMAIN m
           /\ \A i \in DOMAIN markerUi : Seeded(m)[i] = markerUi[i]
           /\ \A i \in DOMAIN m \ DOMAIN markerUi : Seeded(m)[i] = Literal[m[i].pose]
<1>1. \A i \in DOMAIN m : m[i].pose \in Place \cup {NoPlace}
  BY DEF IsMap, Marker
<1>2. \A i \in DOMAIN m : Literal[m[i].pose] \in Formula
  BY <1>1, EditorAssumption
<1>3. QED
  BY <1>2 DEF Seeded, IsMap

LEMMA EditorInvSound == EditorInv => EditorTypeOK /\ CleanIsServed
<1> SUFFICES ASSUME EditorInv PROVE EditorTypeOK /\ CleanIsServed
  OBVIOUS
<1>1. EditorTypeOK
  BY CallPhases DEF EditorInv, EditorTypeOK, PageTypes, SaveTypes
<1>2. CleanIsServed
  <2> SUFFICES ASSUME loaded, AtRest, NEW id \in MarkerId \ (Dirty \cup excused)
               PROVE  /\ id \in DOMAIN markers <=> id \in DOMAIN remote
                      /\ id \in DOMAIN markers =>
                            /\ markers[id].info = remote[id].info
                            /\ remote[id].pose \in {NoPlace, Resolves[markerUi[id]][id]}
    BY DEF CleanIsServed
  <2>1. AsBaseline(id)
    BY DEF AtRest, SettledPage, EditorInv, BaselineInv, Attempted
  <2>2. id \in DOMAIN markers <=> id \in DOMAIN baseline
    BY DEF Dirty
  <2>3. id \in DOMAIN markers => markers[id].info = baseline[id].info
    BY DEF Dirty
  <2>4. id \in DOMAIN markers => markerUi[id] = baseline[id].formula
    BY DEF Dirty, Retyped, EditorInv, PageTypes
  <2>5. QED
    BY <2>1, <2>2, <2>3, <2>4 DEF AsBaseline
<1>3. QED
  BY <1>1, <1>2

LEMMA EditorInitInv == EditorInit => EditorInv
<1> SUFFICES ASSUME EditorInit PROVE EditorInv
  OBVIOUS
<1>1. IsMap(remote, Marker)
  <2>1. PICK ids \in {{}, {0}, {0, 1}} : remote \in [ids -> [info : {NewInfo}, pose : Place \cup {NoPlace}]]
    BY DEF EditorInit
  <2>2. ids \subseteq MarkerId /\ DOMAIN remote = ids
    BY <2>1, EditorAssumption
  <2>3. \A i \in ids : remote[i] \in Marker
    BY <2>1, EditorAssumption DEF Marker
  <2>4. QED
    BY <2>1, <2>2, <2>3 DEF IsMap
<1>2. PageTypes
  BY <1>1 DEF EditorInit, PageTypes, IsMap, None
<1>3. LoadTypes /\ SaveTypes /\ Pending = {} /\ Carried = {}
  BY DEF EditorInit, LoadTypes, SaveTypes, Pending, Carried
<1>4. AnswerInv /\ FormulasInv /\ BaselineInv /\ RetypedInv /\ PendingInv /\ OverlapInv
  BY <1>3, CallPhases DEF EditorInit, AnswerInv, FormulasInv, BaselineInv, RetypedInv, PendingInv, OverlapInv,
                      SettledPage
<1>5. QED
  BY <1>2, <1>3, <1>4 DEF EditorInv

-----------------------------------------------------------------------------
(* Loading.                                                                *)

\* A load begins where all but the excused are as their formulas.
LEMMA LoadBegins ==
    ASSUME PageTypes, SaveTypes, PendingInv, load' = [phase |-> "asked"], mapError' = FALSE,
           \A id \in MarkerId \ excused' : AsFormulas(id),
           mapSaving' => mapSaving /\ UNCHANGED <<ops, call>> /\ UnderWay \subseteq excused',
           ~mapSaving' => call' = NoCall /\ ops' = {}, mapSaving' \in BOOLEAN,
           excused \subseteq excused',
           UNCHANGED <<remote, markers, markerUi, baseline, loaded, straggler>>
    PROVE  EditorInv'
<1>1. PageTypes'
  BY DEF PageTypes, IsMap
<1>2. LoadTypes' /\ SaveTypes' /\ load' # NoLoad /\ load'.phase = "asked"
  BY CallPhases DEF LoadTypes, SaveTypes
<1>3. AnswerInv' /\ BaselineInv' /\ RetypedInv'
  BY <1>2 DEF AnswerInv, BaselineInv, RetypedInv, SettledPage
<1>4. FormulasInv'
  BY DEF FormulasInv, AsFormulas
<1>5. PendingInv'
  BY DEF PendingInv, Pending, Meant
<1>6. OverlapInv'
  BY DEF OverlapInv, UnderWay
<1>7. QED
  BY <1>1, <1>2, <1>3, <1>4, <1>5, <1>6 DEF EditorInv

\* Outside a load, what is neither retyped nor under way is as its formulas.
LEMMA UntouchedAsFormulas ==
    ASSUME EditorInv, load = NoLoad, NEW id \in MarkerId \ (excused \cup Attempted),
           id \in DOMAIN baseline => markerUi[id] = baseline[id].formula
    PROVE  AsFormulas(id)
<1>1. CASE mapError
  BY <1>1 DEF EditorInv, FormulasInv
<1>2. CASE ~mapError /\ ~loaded
  BY <1>2 DEF EditorInv, PageTypes, AsFormulas
<1>3. CASE ~mapError /\ loaded
  <2>1. AsBaseline(id) /\ DOMAIN baseline \subseteq DOMAIN markerUi
    BY <1>3 DEF EditorInv, BaselineInv, SettledPage, PageTypes
  <2>2. QED
    BY <2>1 DEF AsBaseline, AsFormulas
<1>4. QED
  BY <1>1, <1>2, <1>3 DEF EditorInv, PageTypes

LEMMA ReloadKeeps ==
    ASSUME EditorInv, Reload
    PROVE  EditorInv'
<1>1. /\ load = NoLoad /\ load' = [phase |-> "asked"] /\ mapError' = FALSE
      /\ excused' = excused \cup Retyped \cup UnderWay
      /\ UNCHANGED <<remote, markers, markerUi, baseline, loaded, mapSaving, ops, call, straggler>>
  BY DEF Reload, saveVars
<1>2. Attempted \subseteq UnderWay
  BY DEF Attempted, UnderWay
<1>3. \A id \in MarkerId \ excused' : AsFormulas(id)
  <2> TAKE id \in MarkerId \ excused'
  <2>1. id \notin excused /\ id \notin Retyped /\ id \notin Attempted
    BY <1>1, <1>2
  <2>2. id \in DOMAIN baseline => markerUi[id] = baseline[id].formula
    BY <2>1 DEF Retyped, EditorInv, PageTypes
  <2>3. QED
    BY <1>1, <2>1, <2>2, UntouchedAsFormulas
<1>4. ~mapSaving => call = NoCall /\ ops = {}
  BY DEF EditorInv, SaveTypes
<1>5. mapSaving' \in BOOLEAN
  BY <1>1 DEF EditorInv, PageTypes
<1>6. QED
  BY <1>1, <1>3, <1>4, <1>5, LoadBegins DEF EditorInv

LEMMA LoadKeeps ==
    ASSUME EditorInv, ServeMapPage \/ LoadFails
    PROVE  EditorInv'
<1>1. /\ load.phase = "asked"
      /\ UNCHANGED <<remote, markers, markerUi, baseline, loaded, mapSaving, ops, call, straggler, excused>>
  BY DEF ServeMapPage, LoadFails, saveVars
<1>2. load # NoLoad
  BY <1>1, CallPhases
<1>3. SaveTypes' /\ PendingInv' /\ (Carried' = Carried) /\ (UnderWay' = UnderWay)
  BY <1>1 DEF EditorInv, SaveTypes, PendingInv, Pending, Meant, Carried, UnderWay
<1>4. FormulasInv'
  BY <1>1, <1>2 DEF EditorInv, FormulasInv, AsFormulas
<1>5. CASE ServeMapPage
  <2>1. load' = [phase |-> "answered", markers |-> remote] /\ UNCHANGED mapError
    BY <1>5 DEF ServeMapPage
  <2>2. load'.phase = "answered" /\ load'.markers = remote
    BY <2>1
  <2>3. load' # NoLoad
    BY <2>2, CallPhases
  <2>4. PageTypes' /\ LoadTypes'
    BY <1>1, <2>1, <2>2 DEF EditorInv, PageTypes, LoadTypes, IsMap
  <2>5. AnswerInv'
    BY <1>1, <2>2 DEF AnswerInv, AsAnswered
  <2>6. BaselineInv' /\ RetypedInv'
    BY <2>3 DEF BaselineInv, RetypedInv, SettledPage
  <2>7. OverlapInv'
    BY <1>1, <1>2, <1>3 DEF EditorInv, OverlapInv
  <2>8. QED
    BY <1>3, <1>4, <2>4, <2>5, <2>6, <2>7 DEF EditorInv
<1>6. CASE LoadFails
  <2>1. load' = NoLoad /\ mapError' = TRUE
    BY <1>6 DEF LoadFails
  <2>2. PageTypes' /\ LoadTypes'
    BY <1>1, <2>1 DEF EditorInv, PageTypes, LoadTypes, IsMap
  <2>3. AnswerInv' /\ BaselineInv' /\ RetypedInv' /\ OverlapInv'
    BY <2>1, CallPhases DEF AnswerInv, BaselineInv, RetypedInv, OverlapInv, SettledPage
  <2>4. QED
    BY <1>3, <1>4, <2>2, <2>3 DEF EditorInv
<1>7. QED
  BY <1>5, <1>6

LEMMA TakeMapPageKeeps ==
    ASSUME EditorInv, TakeMapPage
    PROVE  EditorInv'
<1> DEFINE m == load.markers
           kept == Seeded(m)
<1>1. /\ load.phase = "answered" /\ markers' = m /\ markerUi' = kept /\ baseline' = Captured(m, kept)
      /\ loaded' = TRUE /\ load' = NoLoad /\ mapError' = FALSE
      /\ UNCHANGED <<remote, mapSaving, ops, call, straggler, excused>>
  BY DEF TakeMapPage, saveVars
<1>2. load # NoLoad /\ IsMap(m, Marker)
  BY <1>1, CallPhases DEF EditorInv, LoadTypes
<1>3. IsMap(markerUi, Formula) /\ IsMap(remote, Marker)
  BY DEF EditorInv, PageTypes
<1>4. /\ IsMap(kept, Formula) /\ DOMAIN kept = DOMAIN markerUi \cup DOMAIN m
      /\ \A i \in DOMAIN markerUi : kept[i] = markerUi[i]
      /\ \A i \in DOMAIN m \ DOMAIN markerUi : kept[i] = Literal[m[i].pose]
  BY <1>2, <1>3, SeededMap
<1> HIDE DEF kept, m
<1>5. /\ DOMAIN baseline' = DOMAIN m
      /\ \A i \in DOMAIN m : baseline'[i] = [info |-> m[i].info, formula |-> kept[i]]
  BY <1>1 DEF Captured
<1>6. IsMap(baseline', Shape)
  <2>1. \A i \in DOMAIN m : m[i].info \in Info /\ kept[i] \in Formula
    BY <1>2, <1>4 DEF IsMap, Marker
  <2>2. \A i \in DOMAIN m : baseline'[i] \in Shape
    BY <1>5, <2>1 DEF Shape
  <2>3. baseline' \in [DOMAIN baseline' -> Shape]
    BY <1>1, <1>5, <2>2 DEF Captured
  <2>4. QED
    BY <1>2, <1>5, <2>3 DEF IsMap
<1>7. PageTypes'
  BY <1>1, <1>2, <1>3, <1>4, <1>5, <1>6 DEF EditorInv, PageTypes
<1>8. LoadTypes' /\ SaveTypes'
  BY <1>1 DEF EditorInv, LoadTypes, SaveTypes
<1>9. AnswerInv' /\ OverlapInv'
  BY <1>1, CallPhases DEF AnswerInv, OverlapInv
<1>10. FormulasInv'
  <2>1. Carried' \subseteq UnderWay
    BY <1>1 DEF Carried, UnderWay
  <2>2. Carried' \subseteq excused
    BY <1>2, <2>1 DEF EditorInv, OverlapInv, Carried, UnderWay
  <2>3. QED
    BY <1>1, <2>2 DEF FormulasInv
<1>11. \A id \in MarkerId \ excused : AsBaseline(id)'
  <2> TAKE id \in MarkerId \ excused
  <2>1. AsAnswered(id) /\ AsFormulas(id)
    BY <1>1, <1>2 DEF EditorInv, AnswerInv, FormulasInv
  <2>2. (id \in DOMAIN m <=> id \in DOMAIN remote) /\ (id \in DOMAIN remote => m[id] = remote[id])
    BY <2>1 DEF AsAnswered, m
  <2>3. id \in DOMAIN m => baseline'[id].info = m[id].info /\ baseline'[id].formula = kept[id]
    BY <1>5
  <2>4. ASSUME id \in DOMAIN remote PROVE remote[id].pose \in {NoPlace, Resolves[kept[id]][id]}
    <3>1. CASE id \in DOMAIN markerUi
      BY <1>4, <2>1, <2>4, <3>1 DEF AsFormulas
    <3>2. CASE id \notin DOMAIN markerUi
      <4>1. kept[id] = Literal[remote[id].pose] /\ remote[id].pose \in Place \cup {NoPlace}
        BY <1>3, <1>4, <2>2, <2>4, <3>2 DEF IsMap, Marker
      <4>2. QED
        BY <4>1, EditorAssumption
    <3>3. QED
      BY <3>1, <3>2
  <2>5. QED
    BY <1>1, <1>5, <2>2, <2>3, <2>4 DEF AsBaseline
<1>12. BaselineInv'
  BY <1>1, <1>11 DEF BaselineInv
<1>13. RetypedInv'
  BY <1>1, <1>5 DEF RetypedInv
<1>14. PendingInv'
  <2> SUFFICES ASSUME NEW op \in Pending, op.kind # "delete", op.id \notin excused
               PROVE  op.id \in DOMAIN kept /\ op.marker.pose = Resolves[kept[op.id]][op.id]
    BY <1>1 DEF PendingInv, Pending, Meant
  <2>1. op.id \in DOMAIN markerUi /\ op.marker.pose = Resolves[markerUi[op.id]][op.id]
    BY DEF EditorInv, PendingInv, Meant
  <2>2. QED
    BY <1>4, <2>1
<1>15. QED
  BY <1>7, <1>8, <1>9, <1>10, <1>12, <1>13, <1>14 DEF EditorInv

-----------------------------------------------------------------------------
(* Editing.                                                                *)

\* What only changes the markers shown is no concern of what is saved.
LEMMA MarkersChange ==
    ASSUME EditorInv, IsMap(markers', Marker), DOMAIN markers' \subseteq DOMAIN markerUi,
           UNCHANGED <<remote, markerUi, baseline, loaded, load, mapError, mapSaving, ops, call, straggler, excused>>
    PROVE  EditorInv'
<1>1. PageTypes'
  BY DEF EditorInv, PageTypes, IsMap
<1>2. LoadTypes' /\ SaveTypes' /\ AnswerInv'
  BY DEF EditorInv, LoadTypes, SaveTypes, AnswerInv, AsAnswered, IsMap
<1>3. FormulasInv' /\ BaselineInv'
  BY DEF EditorInv, FormulasInv, AsFormulas, Carried, BaselineInv, SettledPage, AsBaseline, Attempted
<1>4. RetypedInv' /\ PendingInv' /\ OverlapInv'
  BY DEF EditorInv, RetypedInv, SettledPage, UnderWay, PendingInv, Pending, Meant, OverlapInv
<1>5. QED
  BY <1>1, <1>2, <1>3, <1>4 DEF EditorInv

LEMMA SetInfoKeeps ==
    ASSUME EditorInv, SetInfo
    PROVE  EditorInv'
<1>1. PICK ids \in SUBSET DOMAIN markers, i \in Info :
          markers' = [id \in DOMAIN markers |->
                         IF id \in ids THEN [markers[id] EXCEPT !.info = i] ELSE markers[id]]
  BY DEF SetInfo
<1>2. IsMap(markers, Marker) /\ DOMAIN markers \subseteq DOMAIN markerUi
  BY DEF EditorInv, PageTypes
<1>3. \A id \in DOMAIN markers : markers'[id] \in Marker
  BY <1>1, <1>2 DEF IsMap, Marker
<1>4. IsMap(markers', Marker) /\ DOMAIN markers' \subseteq DOMAIN markerUi
  BY <1>1, <1>2, <1>3 DEF IsMap
<1>5. UNCHANGED <<remote, markerUi, baseline, loaded, load, mapError, mapSaving, ops, call, straggler, excused>>
  BY DEF SetInfo, saveVars
<1>6. QED
  BY <1>4, <1>5, MarkersChange

LEMMA DeleteMarkersKeeps ==
    ASSUME EditorInv, DeleteMarkers
    PROVE  EditorInv'
<1>1. markers' = Without(markers, frame)
      /\ UNCHANGED <<remote, markerUi, baseline, loaded, load, mapError, mapSaving, ops, call, straggler, excused>>
  BY DEF DeleteMarkers, saveVars
<1>2. IsMap(markers, Marker) /\ DOMAIN markers \subseteq DOMAIN markerUi
  BY DEF EditorInv, PageTypes
<1>3. IsMap(markers', Marker) /\ DOMAIN markers' \subseteq DOMAIN markerUi
  BY <1>1, <1>2, WithoutMap DEF Without
<1>4. QED
  BY <1>1, <1>3, MarkersChange

LEMMA AskingKeeps ==
    ASSUME EditorInv, AskDelete \/ Confirm
    PROVE  EditorInv'
<1>1. UNCHANGED <<remote, pageVars, saveVars, excused>>
  BY DEF AskDelete, Confirm
<1>2. IsMap(markers, Marker) /\ DOMAIN markers \subseteq DOMAIN markerUi
  BY DEF EditorInv, PageTypes
<1>3. QED
  BY <1>1, <1>2, MarkersChange DEF pageVars, saveVars

\* Formulas may be typed anew where nothing is under way, or the id is excused; and new ones
\* may be made.
LEMMA FormulasChange ==
    ASSUME EditorInv, IsMap(markerUi', Formula), DOMAIN markerUi \subseteq DOMAIN markerUi',
           IsMap(markers', Marker), DOMAIN markers' \subseteq DOMAIN markerUi',
           ~loaded => DOMAIN markerUi' = {},
           \/ AtRest
           \/ \A id \in DOMAIN markerUi \ excused' : markerUi'[id] = markerUi[id],
           DOMAIN markerUi' = DOMAIN markerUi \/ loaded, excused \subseteq excused',
           UNCHANGED <<remote, baseline, loaded, load, mapError, mapSaving, ops, call, straggler>>
    PROVE  EditorInv'
<1>1. PageTypes'
  BY DEF EditorInv, PageTypes, IsMap
<1>2. LoadTypes' /\ SaveTypes' /\ AnswerInv'
  BY DEF EditorInv, LoadTypes, SaveTypes, AnswerInv, AsAnswered, IsMap
<1>3. BaselineInv' /\ OverlapInv'
  BY DEF EditorInv, BaselineInv, SettledPage, AsBaseline, Attempted, UnderWay, OverlapInv
<1>4. CASE AtRest
  <2>1. ~mapSaving /\ load = NoLoad /\ ~mapError
    BY <1>4 DEF AtRest
  <2>2. FormulasInv' /\ RetypedInv' /\ PendingInv'
    BY <2>1 DEF FormulasInv, Carried, RetypedInv, PendingInv, Pending
  <2>3. QED
    BY <1>1, <1>2, <1>3, <2>2 DEF EditorInv
<1>5. CASE \A id \in DOMAIN markerUi \ excused' : markerUi'[id] = markerUi[id]
  <2>1. FormulasInv'
    <3> SUFFICES ASSUME NEW id \in MarkerId \ excused', load # NoLoad \/ mapError \/ id \in Carried
                 PROVE  AsFormulas(id)'
      BY DEF FormulasInv, Carried
    <3>1. AsFormulas(id)
      BY DEF EditorInv, FormulasInv
    <3>2. CASE id \in DOMAIN markerUi
      BY <1>5, <3>1, <3>2 DEF AsFormulas
    <3>3. CASE id \notin DOMAIN markerUi
      BY <3>1, <3>3 DEF AsFormulas
    <3>4. QED
      BY <3>2, <3>3
  <2>2. RetypedInv'
    BY <1>5 DEF EditorInv, PageTypes, RetypedInv, SettledPage, UnderWay
  <2>3. PendingInv'
    BY <1>5 DEF EditorInv, PendingInv, Pending, Meant
  <2>4. QED
    BY <1>1, <1>2, <1>3, <2>1, <2>2, <2>3 DEF EditorInv
<1>6. QED
  BY <1>4, <1>5

LEMMA SetExprKeeps ==
    ASSUME EditorInv, SetExpr
    PROVE  EditorInv'
<1>1. PICK ids \in SUBSET DOMAIN markers, f \in Formula :
          /\ markerUi' = [id \in DOMAIN markerUi |-> IF id \in ids THEN f ELSE markerUi[id]]
          /\ excused' = IF AtRest THEN excused ELSE excused \cup ids
  BY DEF SetExpr
<1>2. UNCHANGED <<remote, markers, baseline, loaded, load, mapError, mapSaving, ops, call, straggler>>
  BY DEF SetExpr, saveVars
<1>3. PageTypes
  BY DEF EditorInv
<1>4. IsMap(markerUi', Formula) /\ DOMAIN markerUi' = DOMAIN markerUi
  BY <1>1, <1>3 DEF PageTypes, IsMap
<1>5. ~AtRest => \A id \in DOMAIN markerUi \ excused' : markerUi'[id] = markerUi[id]
  BY <1>1
<1>6. IsMap(markers', Marker) /\ DOMAIN markers' \subseteq DOMAIN markerUi' /\ (~loaded => DOMAIN markerUi' = {})
  BY <1>2, <1>3, <1>4 DEF PageTypes, IsMap
<1>7. excused \subseteq excused'
  BY <1>1
<1>8. QED
  BY <1>2, <1>4, <1>5, <1>6, <1>7, FormulasChange

LEMMA AddMarkerKeeps ==
    ASSUME EditorInv, AddMarker
    PROVE  EditorInv'
<1>1. PICK id \in MarkerId : /\ markers' = With(markers, id, NewMarker)
                             /\ markerUi' = Seeded([i \in {id} |-> NewMarker])
  BY DEF AddMarker
<1>2. loaded /\ UNCHANGED <<remote, baseline, loaded, load, mapError, mapSaving, ops, call, straggler, excused>>
  BY DEF AddMarker, PanelShown, saveVars
<1>3. PageTypes /\ NewMarker \in Marker
  BY EditorAssumption DEF EditorInv, NewMarker, Marker
<1> DEFINE n == [i \in {id} |-> NewMarker]
<1>4. IsMap(n, Marker) /\ DOMAIN n = {id}
  BY <1>3 DEF IsMap
<1>5. IsMap(markers, Marker) /\ IsMap(markerUi, Formula) /\ DOMAIN markers \subseteq DOMAIN markerUi
  BY <1>3 DEF PageTypes
<1>6. markerUi' = Seeded(n)
  BY <1>1
<1> HIDE DEF n
<1>7. /\ IsMap(markerUi', Formula) /\ DOMAIN markerUi' = DOMAIN markerUi \cup {id}
      /\ \A i \in DOMAIN markerUi : markerUi'[i] = markerUi[i]
  BY <1>4, <1>5, <1>6, SeededMap
<1>8. IsMap(markers', Marker) /\ DOMAIN markers' = DOMAIN markers \cup {id}
  BY <1>1, <1>3, <1>5, WithMap DEF With
<1>9. DOMAIN markers' \subseteq DOMAIN markerUi'
  BY <1>5, <1>7, <1>8
<1>10. QED
  BY <1>2, <1>7, <1>8, <1>9, FormulasChange

-----------------------------------------------------------------------------
(* Saving.                                                                 *)

LEMMA NextOpIn ==
    ASSUME NEW list \in SUBSET Operation, list # {}
    PROVE  NextOp(list) \in list
<1> DEFINE standing == {op \in list : op.kind # "delete"}
           first == IF standing # {} THEN standing ELSE list
           ids == {op.id : op \in first}
<1>1. first # {} /\ first \subseteq list
  OBVIOUS
<1>2. ids \subseteq Nat /\ ids # {}
  <2>1. \A op \in first : op.id \in Nat
    BY <1>1, CallPhases, EditorAssumption
  <2> HIDE DEF first
  <2>2. QED
    BY <1>1, <2>1
<1>3. PICK n \in ids : \A m \in ids : n <= m
  BY <1>2, LeastNumber
<1>4. \E op \in first : \A q \in first : op.id <= q.id
  BY <1>3
<1>5. NextOp(list) = CHOOSE op \in first : \A q \in first : op.id <= q.id
  BY DEF NextOp
<1> HIDE DEF first
<1>6. NextOp(list) \in first
  BY <1>4, <1>5
<1>7. QED
  BY <1>1, <1>6

LEMMA SendFacts ==
    ASSUME NEW list \in SUBSET Operation, list # {}, NEW before \in SUBSET MarkerId, Send(list, before)
    PROVE  /\ call' \in Calls /\ ops' \subseteq Operation
           /\ call'.phase = "sent" /\ call'.before = before
           /\ {call'.op} \cup ops' = list
<1>1. NextOp(list) \in list
  BY NextOpIn
<1>2. call' = [phase |-> "sent", op |-> NextOp(list), before |-> before] /\ ops' = list \ {NextOp(list)}
  BY DEF Send
<1>3. QED
  BY <1>1, <1>2 DEF Calls

\* What is to be sent of the ids that differ.
LEMMA SaveOpsFacts ==
    ASSUME PageTypes
    PROVE  /\ Dirty \subseteq MarkerId /\ SaveOps \subseteq Operation
           /\ \A op \in SaveOps : op.id \in Dirty /\ Meant(op)
           /\ \A id \in Dirty : \E op \in SaveOps : op.id = id
<1>1. Dirty \subseteq MarkerId
  BY DEF Dirty, PageTypes, IsMap
<1>2. ASSUME NEW id \in Dirty PROVE Op(id) \in Operation /\ Op(id).id = id /\ Meant(Op(id))
  <2>1. CASE id \notin DOMAIN markers
    BY <1>1, <2>1 DEF Op, Operation, Deletes, Meant
  <2>2. CASE id \in DOMAIN markers
    <3> DEFINE k == IF id \in DOMAIN baseline THEN "edit" ELSE "add"
    <3>1. Op(id) = [kind |-> k, id |-> id, marker |-> Sent(id)] /\ k \in {"edit", "add"}
      BY <2>2 DEF Op
    <3> HIDE DEF k
    <3>2. id \in DOMAIN markerUi /\ markerUi[id] \in Formula /\ markers[id].info \in Info /\ id \in MarkerId
      BY <1>1, <2>2 DEF PageTypes, IsMap, Marker
    <3>3. Sent(id) = [info |-> markers[id].info, pose |-> Resolves[markerUi[id]][id]]
      BY DEF Sent
    <3>4. Resolves[markerUi[id]][id] \in Place
      BY <3>2, EditorAssumption
    <3>5. Sent(id) \in [info : Info, pose : Place] /\ Sent(id).pose = Resolves[markerUi[id]][id]
      BY <3>2, <3>3, <3>4
    <3>6. Op(id) \in Edits /\ Op(id).id = id /\ Op(id).marker = Sent(id)
      BY <3>1, <3>2, <3>5 DEF Edits
    <3>7. QED
      BY <3>2, <3>5, <3>6 DEF Operation, Meant
  <2>3. QED
    BY <2>1, <2>2
<1>3. QED
  BY <1>1, <1>2 DEF SaveOps

LEMMA SaveMapKeeps ==
    ASSUME EditorInv, SaveMap
    PROVE  EditorInv'
<1>1. /\ ~mapSaving /\ Dirty # {} /\ mapSaving' = TRUE /\ Send(SaveOps, {})
      /\ excused' = (IF load = NoLoad THEN excused ELSE excused \cup Dirty)
      /\ UNCHANGED <<remote, markers, markerUi, baseline, loaded, load, mapError, straggler>>
  BY DEF SaveMap, pageVars
<1>2. PageTypes
  BY DEF EditorInv
<1>3. SaveOps \subseteq Operation /\ SaveOps # {}
  BY <1>1, <1>2, SaveOpsFacts
<1>4. /\ call' \in Calls /\ ops' \subseteq Operation /\ call'.phase = "sent" /\ call'.before = {}
      /\ {call'.op} \cup ops' = SaveOps
  BY <1>1, <1>3, SendFacts
<1>5. Attempted' = {} /\ Carried' = {} /\ Pending' = SaveOps
  BY <1>1, <1>4 DEF Attempted, Carried, Pending
<1>6. UnderWay' = Dirty
  <2>1. UnderWay' = {op.id : op \in {call'.op} \cup ops'}
    BY <1>1, <1>4 DEF UnderWay
  <2>2. QED
    BY <1>2, <1>4, <2>1, SaveOpsFacts
<1>7. PageTypes' /\ LoadTypes' /\ SaveTypes'
  BY <1>1, <1>4 DEF EditorInv, PageTypes, LoadTypes, SaveTypes, IsMap
<1>8. AnswerInv'
  BY <1>1 DEF EditorInv, AnswerInv, AsAnswered
<1>9. FormulasInv'
  BY <1>1, <1>5 DEF EditorInv, FormulasInv, AsFormulas
<1>10. BaselineInv'
  <2>1. Attempted = {}
    BY <1>1 DEF Attempted
  <2>2. QED
    BY <1>1, <1>5, <2>1 DEF EditorInv, BaselineInv, SettledPage, AsBaseline
<1>11. RetypedInv'
  <2> SUFFICES ASSUME NEW id \in DOMAIN baseline, id \notin Dirty PROVE markerUi[id] = baseline[id].formula
    BY <1>1, <1>6 DEF RetypedInv
  <2>1. id \in DOMAIN markerUi
    BY <1>2 DEF PageTypes
  <2>2. QED
    BY <2>1 DEF Dirty, Retyped
<1>12. PendingInv'
  <2> SUFFICES ASSUME NEW op \in SaveOps PROVE Meant(op)'
    BY <1>5 DEF PendingInv
  <2>1. Meant(op)
    BY <1>2, SaveOpsFacts
  <2>2. QED
    BY <1>1, <2>1 DEF Meant
<1>13. OverlapInv'
  BY <1>1, <1>6 DEF OverlapInv
<1>14. QED
  BY <1>7, <1>8, <1>9, <1>10, <1>11, <1>12, <1>13 DEF EditorInv

\* Requests change nothing of the page, and the server only where they are pending.
LEMMA RequestKeeps ==
    ASSUME EditorInv, Serve \/ Refuse \/ TimesOutAtPage
    PROVE  EditorInv'
<1>1. /\ mapSaving /\ call \in Calls /\ ops \subseteq Operation /\ call.phase = "sent"
      /\ UNCHANGED <<markers, markerUi, baseline, loaded, load, mapError, mapSaving, ops, excused>>
  BY SavingOrNot, CallPhases DEF Serve, Refuse, TimesOutAtPage, pageVars, EditorInv, SaveTypes
<1> DEFINE op == call.op
<1>2. PICK end \in {"ok", "failed"} : call' = [call EXCEPT !.phase = end] /\ (end = "ok" => Serve)
  BY DEF Serve, Refuse, TimesOutAtPage
<1>3. call' \in Calls /\ call'.op = op /\ call'.before = call.before /\ call'.phase = end
  BY <1>1, <1>2 DEF Calls
<1>4. SaveTypes'
  <2>1. straggler' \in {straggler, call}
    BY DEF Serve, Refuse, TimesOutAtPage
  <2>2. QED
    BY <1>1, <1>3, <2>1 DEF EditorInv, SaveTypes
<1>5. op \in Operation /\ op.id \in MarkerId /\ op \in Pending
  BY <1>1, CallPhases DEF Pending
<1>a. op' = op
  BY <1>3
<1> HIDE DEF op
<1>6. IsMap(remote, Marker)
  BY DEF EditorInv, PageTypes
<1>7. /\ IsMap(remote', Marker)
      /\ \A i \in MarkerId : i # op.id =>
            (i \in DOMAIN remote' <=> i \in DOMAIN remote) /\ (i \in DOMAIN remote => remote'[i] = remote[i])
  <2>1. CASE UNCHANGED remote
    BY <1>6, <2>1 DEF IsMap
  <2>2. CASE Serve
    <3>1. remote' = IF op.kind = "delete" THEN Without(remote, {op.id}) ELSE With(remote, op.id, op.marker)
      BY <2>2 DEF Serve, Served, op
    <3>2. op.kind # "delete" => op.marker \in Marker
      BY <1>5, EditFields
    <3>3. CASE op.kind = "delete"
      BY <1>6, <3>1, <3>3, WithoutMap DEF Without
    <3>4. CASE op.kind # "delete"
      BY <1>5, <1>6, <3>1, <3>2, <3>4, WithMap DEF With
    <3>5. QED
      BY <3>3, <3>4
  <2>3. QED
    BY <2>1, <2>2 DEF Refuse, TimesOutAtPage
<1>8. ASSUME op.id \notin excused, Serve PROVE AsFormulas(op.id)'
  <2>1. Meant(op)
    BY <1>5 DEF EditorInv, PendingInv
  <2>2. CASE op.kind = "delete"
    <3>1. op.id \notin DOMAIN remote'
      BY <1>6, <1>8, <2>2, WithoutMap DEF Serve, Served, op, Without
    <3>2. QED
      BY <1>a, <3>1 DEF AsFormulas
  <2>3. CASE op.kind # "delete"
    <3>1. remote' = With(remote, op.id, op.marker) /\ op.marker \in Marker
      BY <1>5, <1>8, <2>3, EditFields DEF Serve, Served, op
    <3>2. remote'[op.id] = op.marker
      BY <1>5, <1>6, <3>1, WithMap DEF With
    <3>3. op.id \in DOMAIN markerUi /\ op.marker.pose = Resolves[markerUi[op.id]][op.id]
      BY <1>8, <2>1, <2>3 DEF Meant
    <3>4. QED
      BY <1>1, <1>a, <3>2, <3>3 DEF AsFormulas
  <2>4. QED
    BY <2>2, <2>3
<1>9. PageTypes' /\ LoadTypes'
  BY <1>1, <1>7 DEF EditorInv, PageTypes, LoadTypes, IsMap
<1>10. UnderWay' = UnderWay /\ op.id \in UnderWay /\ Pending' = Pending
  BY <1>1, <1>3 DEF UnderWay, Pending, op
<1>11. OverlapInv' /\ RetypedInv' /\ PendingInv'
  BY <1>1, <1>10 DEF EditorInv, OverlapInv, RetypedInv, SettledPage, PendingInv, Meant
<1>12. load # NoLoad => op.id \in excused
  BY <1>1, <1>10 DEF EditorInv, OverlapInv
<1>13. AnswerInv'
  <2> SUFFICES ASSUME load.phase = "answered", NEW id \in MarkerId \ excused PROVE AsAnswered(id)'
    BY <1>1 DEF AnswerInv
  <2>1. id # op.id /\ AsAnswered(id)
    BY <1>12, CallPhases DEF EditorInv, AnswerInv
  <2>2. QED
    BY <1>1, <1>7, <2>1 DEF AsAnswered
<1>14. FormulasInv'
  <2> SUFFICES ASSUME NEW id \in MarkerId \ excused, load # NoLoad \/ mapError \/ id \in Carried'
               PROVE  AsFormulas(id)'
    BY <1>1 DEF FormulasInv
  <2>1. CASE id # op.id
    <3>1. id \in Carried' => id \in Carried
      BY <1>1, <1>3, <2>1 DEF Carried, op
    <3>2. AsFormulas(id)
      BY <3>1 DEF EditorInv, FormulasInv
    <3>3. QED
      BY <1>1, <1>7, <2>1, <3>2 DEF AsFormulas
  <2>2. CASE id = op.id /\ Serve
    BY <1>8, <1>a, <2>2 DEF AsFormulas
  <2>3. CASE id = op.id /\ ~Serve
    <3>1. UNCHANGED remote /\ end # "ok"
      BY <1>2, <2>3 DEF Refuse, TimesOutAtPage
    <3>2. id \in Carried' => id \in Carried
      BY <1>1, <1>3, <3>1 DEF Carried
    <3>3. AsFormulas(id)
      BY <3>2 DEF EditorInv, FormulasInv
    <3>4. QED
      BY <1>1, <3>1, <3>3 DEF AsFormulas
  <2>4. QED
    BY <2>1, <2>2, <2>3
<1>15. BaselineInv'
  <2> SUFFICES ASSUME SettledPage, NEW id \in MarkerId \ (excused \cup Attempted') PROVE AsBaseline(id)'
    BY <1>1 DEF BaselineInv, SettledPage
  <2>1. id # op.id /\ id \notin Attempted
    BY <1>1, <1>3 DEF Attempted, op
  <2>2. AsBaseline(id)
    BY <2>1 DEF EditorInv, BaselineInv
  <2>3. QED
    BY <1>1, <1>7, <2>1, <2>2 DEF AsBaseline
<1>16. QED
  BY <1>4, <1>9, <1>11, <1>13, <1>14, <1>15 DEF EditorInv

LEMMA OpSucceededKeeps ==
    ASSUME EditorInv, OpSucceeded
    PROVE  EditorInv'
<1>1. /\ mapSaving /\ call \in Calls /\ ops \subseteq Operation /\ call.phase = "ok"
      /\ UNCHANGED <<remote, markers, markerUi, baseline, loaded, straggler, excused>>
  BY SavingOrNot DEF OpSucceeded, EditorInv, SaveTypes
<1>2. call.op.id \in MarkerId /\ call.before \subseteq MarkerId
  BY <1>1, CallPhases
<1>3. CASE ops # {}
  <2> DEFINE before == call.before \cup {call.op.id}
  <2>1. Send(ops, before) /\ UNCHANGED <<mapSaving, load, mapError>>
    BY <1>3 DEF OpSucceeded
  <2>2. before \in SUBSET MarkerId
    BY <1>2
  <2>3. /\ call' \in Calls /\ ops' \subseteq Operation /\ call'.phase = "sent"
        /\ call'.before = before /\ {call'.op} \cup ops' = ops
    BY <1>1, <1>3, <2>1, <2>2, SendFacts
  <2>4. Attempted' = Attempted /\ Carried' = Carried /\ Pending' \subseteq Pending
    BY <1>1, <2>1, <2>3 DEF Attempted, Carried, Pending
  <2>5. UnderWay' = UnderWay
    <3>1. UnderWay' = before \cup {op.id : op \in {call'.op} \cup ops'}
      BY <1>1, <2>1, <2>3 DEF UnderWay
    <3>2. QED
      BY <1>1, <2>3, <3>1 DEF UnderWay
  <2>6. PageTypes' /\ LoadTypes' /\ SaveTypes'
    BY <1>1, <2>1, <2>3 DEF EditorInv, PageTypes, LoadTypes, SaveTypes, IsMap
  <2>7. AnswerInv' /\ FormulasInv' /\ BaselineInv'
    BY <1>1, <2>1, <2>4 DEF EditorInv, AnswerInv, AsAnswered, FormulasInv, AsFormulas, BaselineInv, AsBaseline, SettledPage
  <2>8. RetypedInv' /\ PendingInv' /\ OverlapInv'
    BY <1>1, <2>1, <2>4, <2>5 DEF EditorInv, RetypedInv, SettledPage, PendingInv, Meant, OverlapInv
  <2>9. QED
    BY <2>6, <2>7, <2>8 DEF EditorInv
<1>4. CASE ops = {} /\ load = NoLoad
  <2>1. mapSaving' = FALSE /\ call' = NoCall /\ ops' = {} /\ load' = [phase |-> "asked"] /\ mapError' = FALSE
    BY <1>4 DEF OpSucceeded
  <2>2. UnderWay = Attempted /\ Attempted = Carried
    BY <1>1, <1>4 DEF UnderWay, Attempted, Carried
  <2>3. \A id \in MarkerId \ excused : AsFormulas(id)
    <3> TAKE id \in MarkerId \ excused
    <3>1. CASE id \in Carried
      BY <3>1 DEF EditorInv, FormulasInv
    <3>2. CASE id \notin Carried /\ SettledPage
      <4>1. id \in DOMAIN baseline => markerUi[id] = baseline[id].formula
        BY <1>1, <2>2, <3>2 DEF EditorInv, RetypedInv
      <4>2. QED
        BY <1>4, <2>2, <3>2, <4>1, UntouchedAsFormulas
    <3>3. CASE ~SettledPage
      BY <1>4, <3>3 DEF SettledPage, EditorInv, PageTypes, FormulasInv, AsFormulas
    <3>4. QED
      BY <3>1, <3>2, <3>3
  <2>4. QED
    BY <1>1, <2>1, <2>3, LoadBegins DEF EditorInv
<1>5. CASE ops = {} /\ load # NoLoad
  <2>1. mapSaving' = FALSE /\ call' = NoCall /\ ops' = {} /\ UNCHANGED <<load, mapError>>
    BY <1>5 DEF OpSucceeded
  <2>2. PageTypes' /\ LoadTypes' /\ SaveTypes'
    BY <1>1, <2>1 DEF EditorInv, PageTypes, LoadTypes, SaveTypes, IsMap
  <2>3. AnswerInv' /\ FormulasInv'
    BY <1>1, <1>5, <2>1 DEF EditorInv, AnswerInv, AsAnswered, FormulasInv, AsFormulas
  <2>4. BaselineInv' /\ RetypedInv' /\ PendingInv' /\ OverlapInv'
    BY <1>5, <2>1 DEF BaselineInv, RetypedInv, SettledPage, PendingInv, Pending, OverlapInv
  <2>5. QED
    BY <2>2, <2>3, <2>4 DEF EditorInv
<1>6. QED
  BY <1>3, <1>4, <1>5

LEMMA OpFailedKeeps ==
    ASSUME EditorInv, OpFailed
    PROVE  EditorInv'
<1>1. /\ mapSaving /\ call \in Calls /\ call.phase = "failed"
      /\ mapSaving' = FALSE /\ call' = NoCall /\ ops' = {}
      /\ excused' = excused \cup call.before \cup {call.op.id}
      /\ UNCHANGED <<remote, markers, markerUi, baseline, loaded, load, mapError, straggler>>
  BY SavingOrNot DEF OpFailed, EditorInv, SaveTypes, pageVars
<1>2. Attempted \subseteq excused' /\ Attempted' = {} /\ Carried' = {} /\ Pending' = {}
  BY <1>1 DEF Attempted, Carried, Pending
<1>3. PageTypes' /\ LoadTypes' /\ SaveTypes'
  BY <1>1 DEF EditorInv, PageTypes, LoadTypes, SaveTypes, IsMap
<1>4. AnswerInv' /\ FormulasInv'
  BY <1>1, <1>2 DEF EditorInv, AnswerInv, AsAnswered, FormulasInv, AsFormulas
<1>5. BaselineInv'
  BY <1>1, <1>2 DEF EditorInv, BaselineInv, SettledPage, AsBaseline
<1>6. RetypedInv' /\ PendingInv' /\ OverlapInv'
  BY <1>1, <1>2 DEF RetypedInv, PendingInv, OverlapInv
<1>7. QED
  BY <1>3, <1>4, <1>5, <1>6 DEF EditorInv

\* Others change the map: the page may be wrong about what they change.
LEMMA RemoteChanges ==
    ASSUME EditorInv, IsMap(remote', Marker), NEW id \in MarkerId, excused' = excused \cup {id},
           \A i \in MarkerId : i # id =>
              (i \in DOMAIN remote' <=> i \in DOMAIN remote) /\ (i \in DOMAIN remote => remote'[i] = remote[i]),
           straggler' \in {straggler, NoCall},
           UNCHANGED <<markers, markerUi, baseline, loaded, load, mapError, mapSaving, ops, call>>
    PROVE  EditorInv'
<1>1. PageTypes' /\ LoadTypes' /\ SaveTypes'
  BY DEF EditorInv, PageTypes, LoadTypes, SaveTypes, IsMap
<1>2. AnswerInv'
  BY DEF EditorInv, AnswerInv, AsAnswered
<1>3. FormulasInv'
  BY DEF EditorInv, FormulasInv, AsFormulas, Carried
<1>4. BaselineInv'
  BY DEF EditorInv, BaselineInv, SettledPage, AsBaseline, Attempted
<1>5. RetypedInv' /\ PendingInv' /\ OverlapInv'
  BY DEF EditorInv, RetypedInv, SettledPage, UnderWay, PendingInv, Pending, Meant, OverlapInv
<1>6. QED
  BY <1>1, <1>2, <1>3, <1>4, <1>5 DEF EditorInv

LEMMA ServeLateKeeps ==
    ASSUME EditorInv, ServeLate
    PROVE  EditorInv'
<1> DEFINE op == straggler.op
<1>1. /\ straggler \in Calls /\ straggler' = NoCall /\ excused' = excused \cup {op.id}
      /\ remote' = (IF Admits(op) THEN Served(op) ELSE remote)
      /\ UNCHANGED <<markers, markerUi, baseline, loaded, load, mapError, mapSaving, ops, call>>
  BY DEF ServeLate, EditorInv, SaveTypes, pageVars
<1>2. op \in Operation /\ op.id \in MarkerId
  BY <1>1, CallPhases
<1> HIDE DEF op
<1>3. IsMap(remote, Marker)
  BY DEF EditorInv, PageTypes
<1>4. /\ IsMap(remote', Marker)
      /\ \A i \in MarkerId : i # op.id =>
            (i \in DOMAIN remote' <=> i \in DOMAIN remote) /\ (i \in DOMAIN remote => remote'[i] = remote[i])
  <2>1. CASE ~Admits(op)
    BY <1>1, <1>3, <2>1
  <2>2. CASE Admits(op) /\ op.kind = "delete"
    BY <1>1, <1>3, <2>2, WithoutMap DEF Served, Without
  <2>3. CASE Admits(op) /\ op.kind # "delete"
    <3>1. op.marker \in Marker /\ remote' = With(remote, op.id, op.marker)
      BY <1>1, <1>2, <2>3, EditFields DEF Served
    <3>2. QED
      BY <1>2, <1>3, <3>1, WithMap DEF With
  <2>4. QED
    BY <2>1, <2>2, <2>3
<1>5. QED
  BY <1>1, <1>2, <1>4, RemoteChanges

LEMMA ForeignKeeps ==
    ASSUME EditorInv, Foreign
    PROVE  EditorInv'
<1>1. PICK id \in MarkerId :
          /\ remote' \in {With(remote, id, [info |-> i, pose |-> p]) : i \in Info, p \in Place}
                            \cup {Without(remote, {id})}
          /\ excused' = excused \cup {id}
  BY DEF Foreign
<1>2. UNCHANGED <<markers, markerUi, baseline, loaded, load, mapError, mapSaving, ops, call, straggler>>
  BY DEF Foreign, pageVars, saveVars
<1>3. IsMap(remote, Marker)
  BY DEF EditorInv, PageTypes
<1>4. /\ IsMap(remote', Marker)
      /\ \A i \in MarkerId : i # id =>
            (i \in DOMAIN remote' <=> i \in DOMAIN remote) /\ (i \in DOMAIN remote => remote'[i] = remote[i])
  <2>1. CASE remote' = Without(remote, {id})
    BY <1>3, <2>1, WithoutMap DEF Without
  <2>2. CASE \E i \in Info, p \in Place : remote' = With(remote, id, [info |-> i, pose |-> p])
    <3>1. PICK i \in Info, p \in Place : remote' = With(remote, id, [info |-> i, pose |-> p])
      BY <2>2
    <3>2. [info |-> i, pose |-> p] \in Marker
      BY DEF Marker
    <3>3. QED
      BY <1>3, <3>1, <3>2, WithMap DEF With
  <2>3. QED
    BY <1>1, <2>1, <2>2
<1>5. QED
  BY <1>1, <1>2, <1>4, RemoteChanges

LEMMA EditorStepKeeps == EditorInv /\ [EditorNext]_editorVars => EditorInv'
<1> SUFFICES ASSUME EditorInv, [EditorNext]_editorVars PROVE EditorInv'
  OBVIOUS
<1>1. CASE UNCHANGED editorVars
  <2>1. IsMap(markers, Marker) /\ DOMAIN markers \subseteq DOMAIN markerUi
    BY DEF EditorInv, PageTypes
  <2>2. QED
    BY <1>1, <2>1, MarkersChange DEF editorVars, pageVars, saveVars
<1>2. CASE Reload \/ Loads
  BY <1>2, ReloadKeeps, LoadKeeps, TakeMapPageKeeps DEF Loads
<1>3. CASE SetInfo \/ SetExpr \/ AddMarker \/ AskDelete \/ Confirm \/ DeleteMarkers
  BY <1>3, SetInfoKeeps, SetExprKeeps, AddMarkerKeeps, AskingKeeps, DeleteMarkersKeeps
<1>4. CASE SaveMap \/ Saves
  BY <1>4, SaveMapKeeps, RequestKeeps, OpSucceededKeeps, OpFailedKeeps DEF Saves
<1>5. QED
  BY <1>1, <1>2, <1>3, <1>4, ServeLateKeeps, ForeignKeeps DEF EditorNext

-----------------------------------------------------------------------------
(* The settings page.                                                      *)

Tree == [Field -> Value]
Answers == [phase : {"answered"}, root : Tree]
Puts == [phase : {"asked", "ok", "failed"}, root : Tree]

FormTypeOK ==
    /\ values \in Tree
    /\ data \in Tree \cup {NoTree} /\ copy \in Tree \cup {NoTree}
    /\ failed \in BOOLEAN /\ touched \in BOOLEAN
    /\ fetch \in {Quiet, Asked} \cup Answers
    /\ put \in {Quiet} \cup Puts
    /\ DOMAIN wishes \subseteq Field
    /\ events \subseteq Events

\* What is shown, and what was set in it.
CopyInv ==
    /\ copy = NoTree => DOMAIN wishes = {}
    /\ copy = NoTree /\ touched => "early" \in events
    /\ FormThere

\* What the user set is in the copy, will outlive the fetch under way, and is in the save
\* under way unless it was typed later.
WishesInv ==
    ~failed /\ "overlap" \notin events =>
        /\ copy # NoTree => \A f \in DOMAIN wishes : copy[f] = wishes[f]
        /\ fetch # Quiet /\ DOMAIN wishes # {} => touched
        /\ put # Quiet => fetch = Quiet /\ copy # NoTree
        /\ put # Quiet /\ ~touched => \A f \in DOMAIN wishes : wishes[f] = put.root[f]

\* What the user did not set is as on the server.
RestInv ==
    ~failed /\ events = {} =>
        /\ put # Quiet => \A f \in Field \ DOMAIN wishes : copy[f] = put.root[f]
        /\ put.phase = "ok" => values = put.root
        /\ fetch.phase = "answered" => values = fetch.root
        /\ copy # NoTree => \A f \in Field \ DOMAIN wishes : copy[f] = values[f]

FormInv == FormTypeOK /\ CopyInv /\ WishesInv /\ RestInv

LEMMA Phases ==
    /\ Quiet.phase = "quiet" /\ Asked.phase = "asked" /\ Quiet # Asked
    /\ \A a \in Answers : a.phase = "answered" /\ a.root \in Tree /\ a # Quiet /\ a # Asked
    /\ \A p \in Puts : p.phase \in {"asked", "ok", "failed"} /\ p.root \in Tree /\ p # Quiet
  BY DEF Quiet, Asked, Answers, Puts

LEMMA NoTreeDomain == DOMAIN NoTree = {}
  BY DEF NoTree


LEMMA FormInvSound == FormInv => FormSound
<1> SUFFICES ASSUME FormInv PROVE FormSound
  OBVIOUS
<1>1. EditsKept
  BY DEF FormInv, WishesInv, EditsKept, FormShown
<1>2. RestShowsServer
  <2> SUFFICES ASSUME FormShown, wishes = NoTree, events = {} PROVE copy = values
    BY DEF RestShowsServer
  <2>1. copy \in Tree /\ values \in Tree
    BY DEF FormShown, FormInv, FormTypeOK
  <2>2. \A f \in Field : copy[f] = values[f]
    BY NoTreeDomain DEF FormShown, FormInv, RestInv
  <2>3. QED
    BY <2>1, <2>2 DEF Tree
<1>3. FormThere
  BY DEF FormInv, CopyInv
<1>4. QED
  BY <1>1, <1>2, <1>3 DEF FormSound

LEMMA FormInitInv == FormInit => FormInv
<1> SUFFICES ASSUME FormInit PROVE FormInv
  OBVIOUS
<1>1. FormTypeOK
  BY NoTreeDomain DEF FormInit, FormTypeOK, Tree
<1>2. CopyInv /\ WishesInv /\ RestInv
  BY NoTreeDomain, Phases DEF FormInit, CopyInv, WishesInv, RestInv, FormThere
<1>3. QED
  BY <1>1, <1>2 DEF FormInv

-----------------------------------------------------------------------------

LEMMA FetchKeeps ==
    ASSUME FormInv, ServeSchema \/ SchemaArrives \/ FetchFails \/ RetryFetch
    PROVE  FormInv'
<1> USE Phases
<1>1. CASE ServeSchema
  <2>1. /\ fetch.phase = "asked" /\ fetch' = [phase |-> "answered", root |-> values]
        /\ UNCHANGED <<values, data, failed, copy, touched, put, typed, puts, wishes, events>>
    BY <1>1 DEF ServeSchema, formHistory
  <2>2. fetch' \in Answers
    BY <2>1 DEF FormInv, FormTypeOK, Answers
  <2>3. fetch' # Quiet /\ fetch # Quiet /\ fetch'.root = values
    BY <2>1
  <2>4. FormTypeOK' /\ CopyInv'
    BY <2>1, <2>2 DEF FormInv, FormTypeOK, CopyInv, FormThere
  <2>5. WishesInv'
    BY <2>1, <2>3 DEF FormInv, WishesInv
  <2>6. RestInv'
    BY <2>1, <2>3 DEF FormInv, RestInv
  <2>7. QED
    BY <2>4, <2>5, <2>6 DEF FormInv
<1>2. CASE SchemaArrives
  <2>1. /\ fetch.phase = "answered" /\ fetch' = Quiet /\ data' = fetch.root
        /\ copy' = (IF touched THEN copy ELSE fetch.root) /\ touched' = FALSE
        /\ UNCHANGED <<values, failed, put, typed, puts, wishes, events>>
    BY <1>2 DEF SchemaArrives, formHistory, Adopted
  <2>2. fetch \in Answers /\ fetch.root \in Tree /\ fetch # Quiet
    BY <2>1 DEF FormInv, FormTypeOK
  <2>3. FormTypeOK'
    BY <2>1, <2>2 DEF FormInv, FormTypeOK
  <2>4. CopyInv'
    <3>1. ~touched /\ copy' = NoTree => DOMAIN wishes' = {}
      BY <2>1, <2>2, NoTreeDomain DEF Tree, FormInv, FormTypeOK
    <3>2. QED
      BY <2>1, <3>1 DEF FormInv, CopyInv, FormThere
  <2>5. WishesInv'
    BY <2>1, <2>2 DEF FormInv, WishesInv, CopyInv
  <2>6. RestInv'
    <3> SUFFICES ASSUME ~failed, events = {} PROVE RestInv'
      BY <2>1 DEF RestInv
    <3>1. put = Quiet
      BY <2>2 DEF FormInv, WishesInv
    <3>2. copy' # NoTree => \A f \in Field \ DOMAIN wishes : copy'[f] = values[f]
      BY <2>1 DEF FormInv, RestInv
    <3>3. QED
      BY <2>1, <3>1, <3>2 DEF FormInv, RestInv
  <2>7. QED
    BY <2>3, <2>4, <2>5, <2>6 DEF FormInv
<1>3. CASE FetchFails
  BY <1>3 DEF FetchFails, formHistory, FormInv, FormTypeOK, CopyInv, FormThere, WishesInv, RestInv
<1>4. CASE RetryFetch
  BY <1>4 DEF RetryFetch, formHistory, FormInv, FormTypeOK, CopyInv, FormThere, WishesInv, RestInv
<1>5. QED
  BY <1>1, <1>2, <1>3, <1>4

\* The user sets some fields to what is then in the copy.
LEMMA TypedKeeps ==
    ASSUME FormInv, NEW fs \in SUBSET Field, copy # NoTree, copy' \in Tree, touched' = TRUE,
           \A f \in Field \ fs : copy'[f] = copy[f],
           DOMAIN wishes' = DOMAIN wishes \cup fs,
           \A f \in DOMAIN wishes' : wishes'[f] = IF f \in fs THEN copy'[f] ELSE wishes[f],
           UNCHANGED <<values, data, failed, fetch, put, events>>
    PROVE  FormInv'
<1>1. FormTypeOK'
  BY DEF FormInv, FormTypeOK
<1>2. copy' # NoTree
  <2>1. copy \in Tree
    BY DEF FormInv, FormTypeOK
  <2>2. Field # {}
    BY <2>1 DEF Tree, NoTree
  <2>3. QED
    BY <2>2, NoTreeDomain DEF Tree
<1>3. CopyInv'
  BY <1>2 DEF FormInv, CopyInv, FormThere
<1>4. WishesInv'
  BY <1>1, <1>2 DEF FormInv, WishesInv, FormTypeOK
<1>5. RestInv'
  BY DEF FormInv, RestInv
<1>6. QED
  BY <1>1, <1>3, <1>4, <1>5 DEF FormInv

LEMMA WishFacts ==
    ASSUME FormTypeOK, NEW fs \in SUBSET Field, NEW root, Wish(fs, root)
    PROVE  /\ DOMAIN wishes' = DOMAIN wishes \cup fs
           /\ \A f \in DOMAIN wishes' : wishes'[f] = IF f \in fs THEN root[f] ELSE wishes[f]
  BY DEF Wish

LEMMA TypingKeeps ==
    ASSUME FormInv, SetValue \/ ResetField \/ ResetAll
    PROVE  FormInv'
<1>0. FormTypeOK
  BY DEF FormInv
<1>1. CASE SetValue \/ ResetField
  <2>1. copy # NoTree /\ touched' = TRUE /\ UNCHANGED <<values, data, failed, fetch, put, events>>
    BY <1>1 DEF SetValue, ResetField, FormShown, resourceVars
  <2>2. PICK f \in Field, v \in Value : copy' = [copy EXCEPT ![f] = v] /\ Wish({f}, copy')
    BY <1>1, FormAssumption DEF SetValue, ResetField
  <2>3. copy \in Tree
    BY <1>0, <2>1 DEF FormTypeOK
  <2>4. copy' \in Tree /\ \A g \in Field \ {f} : copy'[g] = copy[g]
    BY <2>2, <2>3 DEF Tree
  <2>5. DOMAIN wishes' = DOMAIN wishes \cup {f}
        /\ \A g \in DOMAIN wishes' : wishes'[g] = IF g \in {f} THEN copy'[g] ELSE wishes[g]
    BY <2>2 DEF Wish
  <2>6. QED
    BY <2>1, <2>4, <2>5, TypedKeeps
<1>2. CASE ResetAll
  <2>1. touched' = TRUE /\ UNCHANGED <<values, data, failed, fetch, put>>
    BY <1>2 DEF ResetAll, resourceVars
  <2>2. CASE copy = NoTree
    <3>1. events' = events \cup {"early"} /\ UNCHANGED <<copy, wishes>>
      BY <1>2, <2>2 DEF ResetAll
    <3>2. FormTypeOK'
      BY <1>0, <2>1, <3>1 DEF FormTypeOK, Events
    <3>3. CopyInv'
      BY <2>1, <3>1 DEF FormInv, CopyInv, FormThere
    <3>4. WishesInv'
      BY <2>1, <2>2, <3>1 DEF FormInv, WishesInv
    <3>5. RestInv'
      BY <3>1 DEF RestInv
    <3>6. QED
      BY <3>2, <3>3, <3>4, <3>5 DEF FormInv
  <2>3. CASE copy # NoTree
    <3>1. copy' = DefaultOf /\ Wish(Field, DefaultOf) /\ UNCHANGED events
      BY <1>2, <2>3 DEF ResetAll
    <3>2. copy' \in Tree
      BY <3>1, FormAssumption DEF Tree
    <3>3. DOMAIN wishes' = DOMAIN wishes \cup Field
          /\ \A g \in DOMAIN wishes' : wishes'[g] = IF g \in Field THEN copy'[g] ELSE wishes[g]
      BY <1>0, <3>1, WishFacts
    <3>4. QED
      BY <2>1, <2>3, <3>1, <3>2, <3>3, TypedKeeps
  <2>4. QED
    BY <2>2, <2>3
<1>3. QED
  BY <1>1, <1>2

LEMMA SaveKeeps ==
    ASSUME FormInv, Save
    PROVE  FormInv'
<1>1. /\ copy # NoTree /\ put = Quiet /\ put' = [phase |-> "asked", root |-> copy]
      /\ events' = IF fetch = Quiet THEN events ELSE events \cup {"overlap"}
      /\ UNCHANGED <<values, data, failed, fetch, copy, touched, wishes>>
  BY DEF Save, FormDirty, Saving, resourceVars
<1>2. copy \in Tree
  BY <1>1 DEF FormInv, FormTypeOK
<1>3. put' \in Puts /\ put' # Quiet /\ put'.root = copy /\ put'.phase = "asked"
  BY <1>1, <1>2, Phases DEF Puts
<1>4. FormTypeOK'
  BY <1>1, <1>3 DEF FormInv, FormTypeOK, Events
<1>5. CopyInv'
  BY <1>1 DEF FormInv, CopyInv, FormThere
<1>6. WishesInv'
  BY <1>1, <1>3 DEF FormInv, WishesInv
<1>7. RestInv'
  BY <1>1, <1>3 DEF FormInv, RestInv
<1>8. QED
  BY <1>4, <1>5, <1>6, <1>7 DEF FormInv

LEMMA PutKeeps ==
    ASSUME FormInv, ServePut \/ RefusePut \/ SaveFails
    PROVE  FormInv'
<1> USE Phases
<1>1. put # Quiet /\ put \in Puts
  BY DEF ServePut, RefusePut, SaveFails, FormInv, FormTypeOK
<1>2. UNCHANGED <<data, failed, fetch, copy, touched, wishes, events>>
  BY DEF ServePut, RefusePut, SaveFails, resourceVars, formHistory
<1>3. CASE ServePut \/ RefusePut
  <2>1. PICK end \in {"ok", "failed"} : put' = [put EXCEPT !.phase = end]
    BY <1>3 DEF ServePut, RefusePut
  <2>2. put' \in Puts /\ put'.root = put.root /\ put'.phase \in {"ok", "failed"} /\ put' # Quiet
    BY <1>1, <2>1 DEF Puts
  <2>3. values' = put.root \/ (values' = values /\ put'.phase = "failed")
    BY <1>1, <1>3, <2>1 DEF ServePut, RefusePut, Puts
  <2>4. put.root \in Tree
    BY <1>1
  <2>5. FormTypeOK'
    BY <1>2, <2>2, <2>3, <2>4 DEF FormInv, FormTypeOK
  <2>6. CopyInv'
    BY <1>2 DEF FormInv, CopyInv, FormThere
  <2>7. WishesInv'
    BY <1>1, <1>2, <2>2 DEF FormInv, WishesInv
  <2>8. RestInv'
    <3> SUFFICES ASSUME ~failed, events = {} PROVE RestInv'
      BY <1>2 DEF RestInv
    <3>1. fetch.phase # "answered"
      BY <1>1 DEF FormInv, WishesInv
    <3>2. \A f \in Field \ DOMAIN wishes : copy[f] = put.root[f]
      BY <1>1 DEF FormInv, RestInv
    <3>3. copy # NoTree => \A f \in Field \ DOMAIN wishes : copy[f] = values'[f]
      BY <2>3, <3>2 DEF FormInv, RestInv
    <3>4. put'.phase = "ok" => values' = put'.root
      BY <2>2, <2>3
    <3>5. QED
      BY <1>2, <2>2, <3>1, <3>2, <3>3, <3>4 DEF RestInv
  <2>9. QED
    BY <2>5, <2>6, <2>7, <2>8 DEF FormInv
<1>4. CASE SaveFails
  <2>1. put' = Quiet /\ UNCHANGED values
    BY <1>4 DEF SaveFails
  <2>2. FormTypeOK' /\ CopyInv' /\ WishesInv' /\ RestInv'
    BY <1>2, <2>1 DEF FormInv, FormTypeOK, CopyInv, FormThere, WishesInv, RestInv
  <2>3. QED
    BY <2>2 DEF FormInv
<1>5. QED
  BY <1>3, <1>4

\* What was typed while the save was under way is still to be saved, and is kept because the
\* page remembers that it was touched.
LEMMA SaveSucceedsKeeps ==
    ASSUME FormInv, SaveSucceeds
    PROVE  FormInv'
<1> USE Phases
<1>1. /\ put.phase = "ok" /\ put' = Quiet /\ fetch' = Asked
      /\ UNCHANGED <<values, data, failed, copy, touched, events>>
  BY DEF SaveSucceeds
<1>2. put # Quiet /\ put \in Puts
  BY <1>1 DEF FormInv, FormTypeOK
<1> DEFINE open == {f \in DOMAIN wishes : wishes[f] # put.root[f]}
<1>3. wishes' = [f \in open |-> wishes[f]]
  BY DEF SaveSucceeds
<1>4. DOMAIN wishes' = open /\ \A f \in open : wishes'[f] = wishes[f]
  BY <1>3
<1>5. open \subseteq DOMAIN wishes /\ \A f \in DOMAIN wishes : f \notin open => wishes[f] = put.root[f]
  OBVIOUS
<1>6. ~failed /\ "overlap" \notin events /\ open # {} => touched
  BY <1>2 DEF FormInv, WishesInv
<1> HIDE DEF open
<1>7. FormTypeOK'
  BY <1>1, <1>4, <1>5 DEF FormInv, FormTypeOK
<1>8. CopyInv'
  BY <1>1, <1>4, <1>5 DEF FormInv, CopyInv, FormThere
<1>9. WishesInv'
  BY <1>1, <1>4, <1>5, <1>6 DEF FormInv, WishesInv
<1>10. RestInv'
  <2> SUFFICES ASSUME ~failed, events = {} PROVE RestInv'
    BY <1>1 DEF RestInv
  <2>1. values = put.root /\ (copy # NoTree => \A f \in DOMAIN wishes : copy[f] = wishes[f])
    BY <1>1 DEF FormInv, RestInv, WishesInv
  <2>2. copy # NoTree => \A f \in Field \ DOMAIN wishes : copy[f] = values[f]
    BY DEF FormInv, RestInv
  <2>3. copy # NoTree => \A f \in Field \ open : copy[f] = values[f]
    BY <1>5, <2>1, <2>2
  <2>4. QED
    BY <1>1, <1>4, <2>3 DEF RestInv
<1>11. QED
  BY <1>7, <1>8, <1>9, <1>10 DEF FormInv

LEMMA OthersSaveKeeps ==
    ASSUME FormInv, OthersSave
    PROVE  FormInv'
<1>1. /\ values' \in Tree /\ events' = events \cup {"others"}
      /\ UNCHANGED <<data, failed, fetch, copy, touched, put, wishes>>
  BY DEF OthersSave, resourceVars, Tree
<1>2. FormTypeOK' /\ CopyInv' /\ WishesInv' /\ RestInv'
  BY <1>1 DEF FormInv, FormTypeOK, CopyInv, FormThere, WishesInv, RestInv, Events
<1>3. QED
  BY <1>2 DEF FormInv

LEMMA FormStepKeeps == FormInv /\ [FormNext]_formVars => FormInv'
<1> SUFFICES ASSUME FormInv, [FormNext]_formVars PROVE FormInv'
  OBVIOUS
<1>1. CASE UNCHANGED formVars
  BY <1>1 DEF formVars, FormInv, FormTypeOK, CopyInv, FormThere, WishesInv, RestInv
<1>2. QED
  BY <1>1, FetchKeeps, TypingKeeps, SaveKeeps, PutKeeps, SaveSucceedsKeeps, OthersSaveKeeps DEF FormNext

-----------------------------------------------------------------------------
(* The subscriptions.                                                      *)

Subscription == [owner : {"nobody", "view", "logs"}, topic : Topic \cup {Rosout, NoTopic},
                 gate : {"asked", "over"}, socket : {"none", "connecting", "open", "closing", "closed"},
                 connectTimer : BOOLEAN, keepalive : BOOLEAN, disposed : BOOLEAN]
Views == [topic : Topic \cup {NoTopic}, state : {"idle", "connecting", "connected", "closed", "error"},
          held : {Nobody} \cup Slot, shown : SUBSET Topic]
Collectors == [state : {"idle", "connecting", "connected"}, held : {Nobody} \cup Slot,
               timer : BOOLEAN, attempts : Nat]

\* The states the closure of subscribe() may be in.
SubscriptionInv(s) ==
    /\ s \in Subscription
    /\ s.gate = "asked" => s.socket = "none"
    /\ ~s.disposed /\ s.gate = "over" => s.socket \in {"connecting", "open"}
    /\ s.socket \in {"connecting", "open"} => ~s.disposed
    /\ s.connectTimer => s.socket = "connecting"
    /\ s.keepalive => s.socket = "open"

SubsInv == subs \in [Slot -> Subscription] /\ \A p \in Slot : SubscriptionInv(subs[p])

ViewInv ==
    /\ view \in Views
    /\ view.state \in {"idle", "closed", "error"} <=> view.held = Nobody
    /\ view.held # Nobody =>
           /\ subs[view.held].owner = "view" /\ ~subs[view.held].disposed
           /\ subs[view.held].topic = view.topic
           /\ mounted # NoTopic
    /\ view.state = "connected" => subs[view.held].socket = "open"
    /\ mounted # NoTopic => view.topic = mounted
    /\ view.shown \subseteq {view.topic}

LogsInv ==
    /\ logs \in Collectors
    /\ logs.held # Nobody => subs[logs.held].owner = "logs" /\ ~subs[logs.held].disposed
    /\ logs.state = "connected" => logs.held # Nobody /\ subs[logs.held].socket = "open"
    /\ logs.state = "idle" => logs.held = Nobody /\ ~logs.timer
    /\ CollectorAwake

HeldInv == \A p \in Slot : ~subs[p].disposed => p = view.held \/ p = logs.held

StreamInv == SubsInv /\ ViewInv /\ LogsInv /\ HeldInv

LEMMA NobodyHasNoSlot == Nobody \notin Slot
  BY DEF Nobody, Slot

LEMMA StreamInvSound == StreamInv => StreamsSound
<1> SUFFICES ASSUME StreamInv PROVE StreamsSound
  OBVIOUS
<1>1. HeldOrDisposed
  BY NobodyHasNoSlot DEF StreamInv, ViewInv, LogsInv, HeldInv, HeldOrDisposed
<1>2. StateShown
  BY DEF StreamInv, ViewInv, LogsInv, StateShown
<1>3. TimersEnd
  BY DEF StreamInv, SubsInv, SubscriptionInv, TimersEnd
<1>4. QED
  BY <1>1, <1>2, <1>3 DEF StreamsSound, StreamInv, LogsInv

LEMMA FreeInv == SubscriptionInv(Free) /\ Free.disposed
  BY DEF SubscriptionInv, Subscription, Free

LEMMA OpenedInv ==
    ASSUME NEW owner \in {"view", "logs"}, NEW t \in Topic \cup {Rosout}
    PROVE  /\ SubscriptionInv(Opened(owner, t)) /\ ~Opened(owner, t).disposed
           /\ Opened(owner, t).owner = owner /\ Opened(owner, t).topic = t
  BY DEF SubscriptionInv, Subscription, Opened, Free

LEMMA ClosedFields ==
    ASSUME NEW s \in Subscription
    PROVE  /\ Closed(s) \in Subscription /\ Closed(s).disposed
           /\ ~Closed(s).connectTimer /\ ~Closed(s).keepalive
           /\ Closed(s).gate = s.gate
           /\ Closed(s).socket = IF s.socket \in {"connecting", "open"} /\ ~s.disposed THEN "closing" ELSE s.socket
  BY DEF Subscription, Closed

LEMMA ClosedInv ==
    ASSUME NEW s \in Subscription, SubscriptionInv(s)
    PROVE  SubscriptionInv(Closed(s)) /\ Closed(s).disposed
  BY ClosedFields DEF SubscriptionInv

LEMMA CollectedInv ==
    ASSUME NEW s, SubscriptionInv(s), s.disposed
    PROVE  SubscriptionInv(Collected(s)) /\ Collected(s).disposed
  BY FreeInv DEF Collected

\* Every step leaves to nothing that is not held.
LEMMA CloseOneInv ==
    ASSUME SubsInv, NEW p \in {Nobody} \cup Slot
    PROVE  /\ CloseOne(subs, p) \in [Slot -> Subscription]
           /\ \A q \in Slot : SubscriptionInv(CloseOne(subs, p)[q])
           /\ \A q \in Slot : q # p => CloseOne(subs, p)[q] = subs[q]
           /\ p # Nobody => CloseOne(subs, p)[p].disposed
<1>1. CASE p = Nobody
  BY <1>1, NobodyHasNoSlot DEF CloseOne, SubsInv
<1>2. CASE p # Nobody
  <2>1. p \in Slot /\ subs \in [Slot -> Subscription] /\ SubscriptionInv(subs[p]) /\ subs[p] \in Subscription
    BY <1>2 DEF SubsInv, SubscriptionInv
  <2> DEFINE c == Closed(subs[p])
  <2>2. SubscriptionInv(c) /\ c.disposed /\ c \in Subscription
    BY <2>1, ClosedInv, ClosedFields
  <2>3. CloseOne(subs, p) = [subs EXCEPT ![p] = c]
    BY <1>2 DEF CloseOne
  <2> HIDE DEF c
  <2>4. QED
    BY <2>1, <2>2, <2>3 DEF SubsInv
<1>3. QED
  BY <1>1, <1>2

LEMMA NextSlotFree == Room => NextSlot \in Slot /\ subs[NextSlot] = Free
  BY DEF Room, NextSlot

LEMMA MinType == \A n \in Nat : Min({n + 1, 5}) \in Nat
<1> TAKE n \in Nat
<1>1. \E x \in {n + 1, 5} : \A y \in {n + 1, 5} : x <= y
  OBVIOUS
<1>2. Min({n + 1, 5}) \in {n + 1, 5}
  BY <1>1 DEF Min
<1>3. QED
  BY <1>2

-----------------------------------------------------------------------------
(* Opening and closing.                                                    *)

LEMMA SubscribeKeeps ==
    ASSUME StreamInv, NEW t \in Topic, mounted' = t, SubscribeTopic(t), UNCHANGED logs,
           mounted # NoTopic => t = mounted
    PROVE  StreamInv'
<1>0. SubsInv /\ ViewInv /\ LogsInv /\ HeldInv /\ t # NoTopic
  BY StreamAssumption DEF StreamInv
<1>1. CASE t = view.topic /\ view.state = "connected"
  <2>1. UNCHANGED <<subs, view>> /\ mounted # NoTopic /\ mounted' = mounted
    BY <1>0, <1>1 DEF SubscribeTopic, ViewInv
  <2>2. QED
    BY <2>1 DEF StreamInv, SubsInv, ViewInv, LogsInv, HeldInv, CollectorAwake
<1>2. CASE ~(t = view.topic /\ view.state = "connected")
  <2> DEFINE n == NextSlot
             o == Opened("view", t)
             closed == CloseOne(subs, view.held)
  <2>1. /\ Room /\ subs' = [closed EXCEPT ![n] = o]
        /\ view' = [topic |-> t, state |-> "connecting", held |-> n,
                    shown |-> IF t = view.topic THEN view.shown ELSE {}]
    BY <1>2 DEF SubscribeTopic
  <2>2. n \in Slot /\ subs[n].disposed
    BY <2>1, NextSlotFree, FreeInv
  <2>3. view.held \in {Nobody} \cup Slot /\ view.shown \in SUBSET Topic
    BY <1>0 DEF ViewInv, Views
  <2>4. /\ closed \in [Slot -> Subscription] /\ \A q \in Slot : SubscriptionInv(closed[q])
        /\ \A q \in Slot : q # view.held => closed[q] = subs[q]
        /\ view.held # Nobody => closed[view.held].disposed
    BY <1>0, <2>3, CloseOneInv
  <2>5. SubscriptionInv(o) /\ ~o.disposed /\ o.owner = "view" /\ o.topic = t
    BY OpenedInv
  <2> HIDE DEF n, o, closed
  <2>6. \A q \in Slot : subs'[q] = IF q = n THEN o ELSE closed[q]
    BY <2>1, <2>2, <2>4
  <2>7. SubsInv'
    BY <2>1, <2>2, <2>4, <2>5, <2>6 DEF SubsInv, SubscriptionInv
  <2>8. view' \in Views
    BY <2>1, <2>2, <2>3 DEF Views
  <2>9. view'.held = n /\ view'.state = "connecting" /\ view'.topic = t /\ n # Nobody /\ view'.shown \subseteq {t}
    BY <1>0, <2>1, <2>2, NobodyHasNoSlot DEF ViewInv
  <2>10. ViewInv'
    BY <1>0, <2>2, <2>5, <2>6, <2>8, <2>9 DEF ViewInv
  <2>11. logs.held # Nobody => logs.held \in Slot /\ logs.held # view.held /\ logs.held # n
    BY <1>0, <2>2 DEF LogsInv, ViewInv, Collectors
  <2>12. logs.held # Nobody => subs'[logs.held] = subs[logs.held]
    BY <2>4, <2>6, <2>11
  <2>13. LogsInv'
    BY <1>0, <2>12 DEF LogsInv, CollectorAwake
  <2>14. HeldInv'
    <3> SUFFICES ASSUME NEW q \in Slot, ~subs'[q].disposed, q # n PROVE q = logs.held
      BY <2>9 DEF HeldInv
    <3>1. ~closed[q].disposed
      BY <2>6
    <3>2. q # view.held
      BY <2>4, <3>1, NobodyHasNoSlot
    <3>3. QED
      BY <1>0, <2>4, <3>1, <3>2 DEF HeldInv
  <2>15. QED
    BY <2>7, <2>10, <2>13, <2>14 DEF StreamInv
<1>3. QED
  BY <1>1, <1>2

LEMMA UnmountKeeps ==
    ASSUME StreamInv, Unmount
    PROVE  StreamInv'
<1>0. SubsInv /\ ViewInv /\ LogsInv /\ HeldInv
  BY DEF StreamInv
<1>1. /\ mounted' = NoTopic /\ subs' = CloseOne(subs, view.held)
      /\ view' = [view EXCEPT !.held = Nobody, !.state = "idle"] /\ UNCHANGED logs
  BY DEF Unmount
<1>2. view \in Views /\ view.held \in {Nobody} \cup Slot
  BY <1>0 DEF ViewInv, Views
<1>3. view' \in Views /\ view'.held = Nobody /\ view'.state = "idle" /\ view'.topic = view.topic
      /\ view'.shown = view.shown
  BY <1>1, <1>2 DEF Views
<1>4. SubsInv'
  BY <1>0, <1>1, <1>2, CloseOneInv DEF SubsInv
<1>5. ViewInv'
  BY <1>0, <1>1, <1>3 DEF ViewInv
<1>6. logs.held # Nobody => logs.held \in Slot /\ subs'[logs.held] = subs[logs.held]
  BY <1>0, <1>1, <1>2, CloseOneInv DEF LogsInv, ViewInv, Collectors
<1>7. LogsInv'
  BY <1>0, <1>1, <1>6 DEF LogsInv, CollectorAwake
<1>8. HeldInv'
  BY <1>0, <1>1, <1>2, CloseOneInv, NobodyHasNoSlot DEF HeldInv
<1>9. QED
  BY <1>4, <1>5, <1>7, <1>8 DEF StreamInv

\* connect() by a collector that holds nothing: all that it held before is closed.
LEMMA ConnectKeeps ==
    ASSUME StreamInv, NEW all, NEW l \in Collectors, Connect(all, l), l.held = Nobody,
           all \in [Slot -> Subscription], \A q \in Slot : SubscriptionInv(all[q]),
           \A q \in Slot : q # logs.held => all[q] = subs[q],
           logs.held # Nobody => all[logs.held].disposed,
           ~l.timer, UNCHANGED <<view, mounted>>
    PROVE  StreamInv'
<1>0. SubsInv /\ ViewInv /\ LogsInv /\ HeldInv
  BY DEF StreamInv
<1> DEFINE n == NextSlot
           o == Opened("logs", Rosout)
<1>1. Room /\ subs' = [all EXCEPT ![n] = o] /\ logs' = [l EXCEPT !.state = "connecting", !.held = n]
  BY DEF Connect
<1>2. n \in Slot /\ subs[n].disposed
  BY <1>1, NextSlotFree, FreeInv
<1>3. SubscriptionInv(o) /\ ~o.disposed /\ o.owner = "logs"
  BY OpenedInv
<1> HIDE DEF n, o
<1>4. \A q \in Slot : subs'[q] = IF q = n THEN o ELSE all[q]
  BY <1>1, <1>2
<1>5. SubsInv'
  BY <1>1, <1>2, <1>3, <1>4 DEF SubsInv, SubscriptionInv
<1>6. logs' \in Collectors /\ logs'.state = "connecting" /\ logs'.held = n /\ logs'.timer = l.timer /\ n # Nobody
  BY <1>1, <1>2, NobodyHasNoSlot DEF Collectors
<1>7. LogsInv'
  BY <1>2, <1>3, <1>4, <1>6 DEF LogsInv, CollectorAwake
<1>8. view.held # Nobody => view.held \in Slot /\ subs'[view.held] = subs[view.held]
  BY <1>0, <1>2, <1>4 DEF ViewInv, LogsInv, Views
<1>9. ViewInv'
  BY <1>0, <1>8, NobodyHasNoSlot DEF ViewInv
<1>10. HeldInv'
  BY <1>0, <1>4, <1>6, NobodyHasNoSlot DEF HeldInv
<1>11. QED
  BY <1>5, <1>7, <1>9, <1>10 DEF StreamInv

LEMMA CollectorKeeps ==
    ASSUME StreamInv, StartRosoutStream \/ RetryRosoutStream \/ ReconnectTimer
    PROVE  StreamInv'
<1>0. SubsInv /\ ViewInv /\ LogsInv /\ HeldInv /\ logs \in Collectors
  BY DEF StreamInv, LogsInv
<1>1. CASE StartRosoutStream
  <2>1. ~logs.timer /\ Connect(subs, logs) /\ UNCHANGED <<view, mounted>>
    BY <1>1 DEF StartRosoutStream
  <2>2. CASE logs.held # Nobody
    <3>1. UNCHANGED <<subs, logs>>
      BY <2>1, <2>2 DEF Connect
    <3>2. QED
      BY <2>1, <3>1 DEF StreamInv, SubsInv, ViewInv, LogsInv, HeldInv, CollectorAwake
  <2>3. CASE logs.held = Nobody
    BY <1>0, <2>1, <2>3, ConnectKeeps DEF SubsInv
  <2>4. QED
    BY <2>2, <2>3
<1>2. CASE RetryRosoutStream
  <2> DEFINE l == [logs EXCEPT !.timer = FALSE, !.attempts = 0, !.held = Nobody]
             all == CloseOne(subs, logs.held)
  <2>1. Connect(all, l) /\ UNCHANGED <<view, mounted>>
    BY <1>2 DEF RetryRosoutStream
  <2>2. l \in Collectors /\ l.held = Nobody /\ ~l.timer
    BY <1>0 DEF Collectors
  <2>3. logs.held \in {Nobody} \cup Slot
    BY <1>0 DEF Collectors
  <2>4. /\ all \in [Slot -> Subscription] /\ \A q \in Slot : SubscriptionInv(all[q])
        /\ \A q \in Slot : q # logs.held => all[q] = subs[q]
        /\ logs.held # Nobody => all[logs.held].disposed
    BY <1>0, <2>3, CloseOneInv
  <2> HIDE DEF l, all
  <2>5. QED
    BY <2>1, <2>2, <2>4, ConnectKeeps
<1>3. CASE ReconnectTimer
  <2> DEFINE l == [logs EXCEPT !.timer = FALSE]
  <2>1. logs.timer /\ Connect(subs, l) /\ UNCHANGED <<view, mounted>>
    BY <1>3 DEF ReconnectTimer
  <2>2. logs.held = Nobody
    BY <1>0, <2>1 DEF LogsInv, CollectorAwake
  <2>3. l \in Collectors /\ l.held = Nobody /\ ~l.timer
    BY <1>0, <2>2 DEF Collectors
  <2> HIDE DEF l
  <2>4. QED
    BY <1>0, <2>1, <2>2, <2>3, ConnectKeeps DEF SubsInv
<1>4. QED
  BY <1>1, <1>2, <1>3

-----------------------------------------------------------------------------
(* What happens to a subscription.                                         *)

\* A move its owner does not hear of.
LEMMA QuietMove ==
    ASSUME StreamInv, NEW p \in Slot, NEW s, SubscriptionInv(s), subs' = [subs EXCEPT ![p] = s],
           UNCHANGED <<view, logs, mounted>>,
           s.disposed = subs[p].disposed,
           ~s.disposed => /\ s.owner = subs[p].owner /\ s.topic = subs[p].topic
                          /\ subs[p].socket = "open" => s.socket = "open"
    PROVE  StreamInv'
<1>1. SubsInv /\ ViewInv /\ LogsInv /\ HeldInv
  BY DEF StreamInv
<1>2. \A q \in Slot : subs'[q] = IF q = p THEN s ELSE subs[q]
  BY <1>1 DEF SubsInv
<1>3. SubsInv'
  BY <1>1, <1>2 DEF SubsInv, SubscriptionInv
<1>4. view.held # Nobody => view.held \in Slot
  BY <1>1 DEF ViewInv, Views
<1>5. ViewInv'
  BY <1>1, <1>2, <1>4, NobodyHasNoSlot DEF ViewInv
<1>6. logs.held # Nobody => logs.held \in Slot
  BY <1>1 DEF LogsInv, Collectors
<1>7. LogsInv'
  BY <1>1, <1>2, <1>6, NobodyHasNoSlot DEF LogsInv, CollectorAwake
<1>8. HeldInv'
  BY <1>1, <1>2 DEF HeldInv
<1>9. QED
  BY <1>3, <1>5, <1>7, <1>8 DEF StreamInv

\* The end of one that was held: its owner hears of it.
LEMMA LostMove ==
    ASSUME StreamInv, NEW p \in Slot, NEW s, SubscriptionInv(s), subs' = [subs EXCEPT ![p] = s],
           ~subs[p].disposed, s.disposed, NEW as \in {"error", "closed"}, Lost(p, as), UNCHANGED mounted
    PROVE  StreamInv'
<1>1. SubsInv /\ ViewInv /\ LogsInv /\ HeldInv
  BY DEF StreamInv
<1>2. \A q \in Slot : subs'[q] = IF q = p THEN s ELSE subs[q]
  BY <1>1 DEF SubsInv
<1>3. SubsInv'
  BY <1>1, <1>2 DEF SubsInv, SubscriptionInv
<1>4. p # Nobody /\ (p = view.held \/ p = logs.held)
  BY <1>1, NobodyHasNoSlot DEF HeldInv
<1>5. CASE subs[p].owner = "logs"
  <2>1. p = logs.held /\ p # view.held /\ ~logs.timer
    BY <1>1, <1>4, <1>5 DEF ViewInv, LogsInv, CollectorAwake
  <2>2. logs' = [logs EXCEPT !.held = Nobody, !.state = "connecting", !.timer = TRUE, !.attempts = Min({@ + 1, 5})]
        /\ UNCHANGED view
    BY <1>5, <2>1 DEF Lost, Rescheduled
  <2>3. logs \in Collectors /\ Min({logs.attempts + 1, 5}) \in Nat
    BY <1>1, MinType DEF LogsInv, Collectors
  <2>4. logs' \in Collectors /\ logs'.held = Nobody /\ logs'.state = "connecting" /\ logs'.timer
    BY <2>2, <2>3 DEF Collectors
  <2>5. LogsInv'
    BY <2>4 DEF LogsInv, CollectorAwake
  <2>6. view.held # Nobody => view.held \in Slot /\ subs'[view.held] = subs[view.held]
    BY <1>1, <1>2, <2>1 DEF ViewInv, Views
  <2>7. ViewInv'
    BY <1>1, <2>2, <2>6, NobodyHasNoSlot DEF ViewInv
  <2>8. HeldInv'
    BY <1>1, <1>2, <2>1, <2>2 DEF HeldInv
  <2>9. QED
    BY <1>3, <2>5, <2>7, <2>8 DEF StreamInv
<1>6. CASE subs[p].owner # "logs"
  <2>1. p = view.held /\ p # logs.held
    BY <1>1, <1>4, <1>6 DEF LogsInv
  <2>2. view.topic = subs[p].topic
    BY <1>1, <1>4, <2>1 DEF ViewInv
  <2>3. view' = [view EXCEPT !.held = Nobody, !.state = as] /\ UNCHANGED logs
    BY <1>6, <2>2 DEF Lost
  <2>4. view' \in Views /\ view'.held = Nobody /\ view'.state = as /\ view'.topic = view.topic
        /\ view'.shown = view.shown
    BY <1>1, <2>3 DEF ViewInv, Views
  <2>5. ViewInv'
    BY <1>1, <2>4 DEF ViewInv
  <2>6. logs.held # Nobody => logs.held \in Slot /\ subs'[logs.held] = subs[logs.held]
    BY <1>1, <1>2, <2>1 DEF LogsInv, Collectors
  <2>7. LogsInv'
    BY <1>1, <2>3, <2>6, NobodyHasNoSlot DEF LogsInv, CollectorAwake
  <2>8. HeldInv'
    BY <1>1, <1>2, <2>1, <2>3 DEF HeldInv
  <2>9. QED
    BY <1>3, <2>5, <2>7, <2>8 DEF StreamInv
<1>7. QED
  BY <1>5, <1>6

LEMMA FailKeeps ==
    ASSUME StreamInv, NEW p \in Slot, NEW s, SubscriptionInv(Closed(s)), Closed(s).disposed,
           s.disposed = subs[p].disposed, Fail(p, s), UNCHANGED mounted
    PROVE  StreamInv'
<1> DEFINE c == Collected(Closed(s))
<1>1. SubscriptionInv(c) /\ c.disposed
  BY CollectedInv
<1>2. subs' = [subs EXCEPT ![p] = c]
  BY DEF Fail
<1> HIDE DEF c
<1>3. CASE s.disposed
  <2>1. UNCHANGED <<view, logs>>
    BY <1>3 DEF Fail
  <2>2. QED
    BY <1>1, <1>2, <1>3, <2>1, QuietMove
<1>4. CASE ~s.disposed
  <2>1. Lost(p, "error")
    BY <1>4 DEF Fail
  <2>2. QED
    BY <1>1, <1>2, <1>4, <2>1, LostMove
<1>5. QED
  BY <1>3, <1>4

LEMMA FaultKeeps ==
    ASSUME StreamInv, NEW p \in Slot, Faults(p)
    PROVE  StreamInv'
<1> DEFINE s == subs[p]
<1>0. SubscriptionInv(s) /\ s \in Subscription
  BY DEF StreamInv, SubsInv, SubscriptionInv
<1>1. CASE GateFails(p)
  <2> DEFINE g == [s EXCEPT !.gate = "over"]
  <2>1. Fail(p, g) /\ s.gate = "asked" /\ UNCHANGED mounted
    BY <1>1 DEF GateFails
  <2>2. g \in Subscription /\ g.disposed = s.disposed /\ g.gate = "over" /\ g.socket = s.socket
    BY <1>0 DEF Subscription
  <2> HIDE DEF g
  <2>3. g.socket = "none"
    BY <1>0, <2>1, <2>2 DEF SubscriptionInv
  <2>4. SubscriptionInv(Closed(g)) /\ Closed(g).disposed
    BY <2>2, <2>3, ClosedFields DEF SubscriptionInv
  <2>5. QED
    BY <2>1, <2>2, <2>4, FailKeeps
<1>2. CASE ConnectTimesOut(p) \/ OnError(p)
  <2>1. Fail(p, s) /\ UNCHANGED mounted
    BY <1>2 DEF ConnectTimesOut, OnError
  <2>2. QED
    BY <1>0, <2>1, ClosedInv, FailKeeps
<1>3. QED
  BY <1>1, <1>2 DEF Faults

LEMMA GateKeeps ==
    ASSUME StreamInv, NEW p \in Slot, GatePasses(p)
    PROVE  StreamInv'
<1> DEFINE s == subs[p]
<1>0. SubscriptionInv(s) /\ s \in Subscription /\ subs \in [Slot -> Subscription]
  BY DEF StreamInv, SubsInv, SubscriptionInv
<1>1. s.gate = "asked" /\ s.socket = "none" /\ UNCHANGED <<view, logs, mounted>>
  BY <1>0 DEF GatePasses, SubscriptionInv
<1> DEFINE g == [s EXCEPT !.gate = "over"]
           c == [s EXCEPT !.gate = "over", !.socket = "connecting", !.connectTimer = TRUE]
<1>2. CASE s.disposed
  <2>1. subs' = [subs EXCEPT ![p] = Collected(g)]
    BY <1>0, <1>2 DEF GatePasses
  <2>2. g \in Subscription /\ g.disposed /\ g.socket = "none" /\ g.gate = "over"
        /\ g.connectTimer = s.connectTimer /\ g.keepalive = s.keepalive
    BY <1>0, <1>1, <1>2 DEF Subscription
  <2> HIDE DEF g
  <2>3. SubscriptionInv(g)
    BY <1>0, <1>1, <2>2 DEF SubscriptionInv
  <2>4. SubscriptionInv(Collected(g)) /\ Collected(g).disposed
    BY <2>2, <2>3, CollectedInv
  <2>5. QED
    BY <1>1, <1>2, <2>1, <2>4, QuietMove
<1>3. CASE ~s.disposed
  <2>1. subs' = [subs EXCEPT ![p] = c]
    BY <1>0, <1>3 DEF GatePasses
  <2>2. c \in Subscription /\ c.disposed = s.disposed /\ c.socket = "connecting" /\ c.gate = "over"
        /\ c.keepalive = s.keepalive /\ c.owner = s.owner /\ c.topic = s.topic
    BY <1>0 DEF Subscription
  <2> HIDE DEF c
  <2>3. SubscriptionInv(c)
    BY <1>0, <1>1, <1>3, <2>2 DEF SubscriptionInv
  <2>4. QED
    BY <1>1, <1>3, <2>1, <2>2, <2>3, QuietMove
<1>4. QED
  BY <1>2, <1>3

LEMMA OpenKeeps ==
    ASSUME StreamInv, NEW p \in Slot, OnOpen(p)
    PROVE  StreamInv'
<1> DEFINE s == subs[p]
           o == [s EXCEPT !.socket = "open", !.connectTimer = FALSE, !.keepalive = TRUE]
<1>0. SubscriptionInv(s) /\ s \in Subscription /\ subs \in [Slot -> Subscription]
  BY DEF StreamInv, SubsInv, SubscriptionInv
<1>1. s.socket = "connecting" /\ ~s.disposed /\ UNCHANGED <<view, logs, mounted>>
  BY <1>0 DEF OnOpen, SubscriptionInv
<1>2. subs' = [subs EXCEPT ![p] = o]
  BY <1>0 DEF OnOpen
<1>3. o \in Subscription /\ o.disposed = s.disposed /\ o.socket = "open" /\ o.gate = s.gate
      /\ ~o.connectTimer /\ o.owner = s.owner /\ o.topic = s.topic
  BY <1>0 DEF Subscription
<1> HIDE DEF o
<1>4. SubscriptionInv(o)
  BY <1>0, <1>1, <1>3 DEF SubscriptionInv
<1>5. QED
  BY <1>1, <1>2, <1>3, <1>4, QuietMove

LEMMA CloseKeeps ==
    ASSUME StreamInv, NEW p \in Slot, OnClose(p)
    PROVE  StreamInv'
<1> DEFINE s == subs[p]
           k == Closed(s)
           e == [k EXCEPT !.socket = "closed"]
           c == Collected(e)
<1>0. SubscriptionInv(s) /\ s \in Subscription /\ subs \in [Slot -> Subscription]
  BY DEF StreamInv, SubsInv, SubscriptionInv
<1>1. s.socket \in {"open", "closing"} /\ UNCHANGED mounted
  BY DEF OnClose
<1>2. subs' = [subs EXCEPT ![p] = c]
  BY <1>0 DEF OnClose
<1>3. k \in Subscription /\ k.disposed /\ k.gate = s.gate /\ ~k.connectTimer /\ ~k.keepalive
  BY <1>0, ClosedFields
<1>4. s.gate = "over"
  BY <1>0, <1>1 DEF SubscriptionInv, Subscription
<1> HIDE DEF k
<1>5. e \in Subscription /\ e.disposed /\ e.gate = "over" /\ ~e.connectTimer /\ ~e.keepalive /\ e.socket = "closed"
  BY <1>3, <1>4 DEF Subscription
<1> HIDE DEF e
<1>6. SubscriptionInv(e)
  BY <1>5 DEF SubscriptionInv
<1>7. SubscriptionInv(c) /\ c.disposed
  BY <1>5, <1>6, CollectedInv
<1> HIDE DEF c
<1>8. CASE s.disposed
  <2>1. UNCHANGED <<view, logs>>
    BY <1>8 DEF OnClose
  <2>2. QED
    BY <1>1, <1>2, <1>7, <1>8, <2>1, QuietMove
<1>9. CASE ~s.disposed
  <2>1. PICK as \in {"error", "closed"} : Lost(p, as)
    BY <1>9 DEF OnClose
  <2>2. QED
    BY <1>1, <1>2, <1>7, <1>9, <2>1, LostMove
<1>10. QED
  BY <1>8, <1>9

LEMMA MessageKeeps ==
    ASSUME StreamInv, NEW p \in Slot, OnMessage(p)
    PROVE  StreamInv'
<1>0. SubsInv /\ ViewInv /\ LogsInv /\ HeldInv /\ p # Nobody
  BY NobodyHasNoSlot DEF StreamInv
<1>1. subs[p].socket = "open" /\ ~subs[p].disposed /\ UNCHANGED mounted /\ (p = view.held \/ p = logs.held)
  BY <1>0 DEF OnMessage, HeldInv
<1>2. CASE Fail(p, subs[p])
  <2>1. subs[p] \in Subscription /\ SubscriptionInv(subs[p])
    BY <1>0 DEF SubsInv
  <2>2. QED
    BY <1>1, <1>2, <2>1, ClosedInv, FailKeeps
<1>3. CASE /\ UNCHANGED subs /\ subs[p].owner = "logs"
           /\ logs' = [logs EXCEPT !.state = "connected", !.attempts = 0] /\ UNCHANGED view
  <2>1. p = logs.held
    BY <1>0, <1>1, <1>3 DEF ViewInv
  <2>2. logs' \in Collectors /\ logs'.state = "connected" /\ logs'.held = p /\ logs'.timer = logs.timer
    BY <1>0, <1>3, <2>1 DEF LogsInv, Collectors
  <2>3. logs.timer = FALSE
    BY <1>0, <2>1 DEF LogsInv, CollectorAwake, Collectors
  <2>4. LogsInv'
    BY <1>0, <1>1, <1>3, <2>1, <2>2, <2>3 DEF LogsInv, CollectorAwake
  <2>5. SubsInv' /\ ViewInv' /\ HeldInv'
    BY <1>0, <1>1, <1>3, <2>1, <2>2 DEF SubsInv, ViewInv, HeldInv
  <2>6. QED
    BY <2>4, <2>5 DEF StreamInv
<1>4. CASE /\ UNCHANGED subs /\ subs[p].owner # "logs" /\ UNCHANGED logs
           /\ view' = IF view.topic = subs[p].topic
                      THEN [view EXCEPT !.state = "connected", !.shown = @ \cup {subs[p].topic}] ELSE view
  <2>1. p = view.held
    BY <1>0, <1>1, <1>4 DEF LogsInv
  <2>2. view.topic = subs[p].topic /\ mounted # NoTopic /\ view.topic = mounted
    BY <1>0, <2>1 DEF ViewInv
  <2>3. view.topic \in Topic
    BY <1>0, <2>2 DEF ViewInv, Views
  <2>4. view' = [view EXCEPT !.state = "connected", !.shown = @ \cup {view.topic}]
    BY <1>4, <2>2
  <2>5. view' \in Views /\ view'.state = "connected" /\ view'.held = p /\ view'.topic = view.topic
        /\ view'.shown = view.shown \cup {view.topic}
    BY <1>0, <2>1, <2>3, <2>4 DEF ViewInv, Views
  <2>6. ViewInv'
    BY <1>0, <1>1, <1>4, <2>1, <2>2, <2>5 DEF ViewInv
  <2>7. SubsInv' /\ LogsInv' /\ HeldInv'
    BY <1>0, <1>1, <1>4, <2>1, <2>5 DEF SubsInv, LogsInv, HeldInv, CollectorAwake
  <2>8. QED
    BY <2>6, <2>7 DEF StreamInv
<1>5. QED
  BY <1>2, <1>3, <1>4 DEF OnMessage

LEMMA StreamInitInv == StreamInit => StreamInv
<1> SUFFICES ASSUME StreamInit PROVE StreamInv
  OBVIOUS
<1>1. SubsInv /\ \A p \in Slot : subs[p].disposed
  BY FreeInv DEF StreamInit, SubsInv, SubscriptionInv
<1>2. ViewInv
  BY DEF StreamInit, ViewInv, Views
<1>3. LogsInv
  BY DEF StreamInit, LogsInv, Collectors, CollectorAwake
<1>4. QED
  BY <1>1, <1>2, <1>3 DEF StreamInv, HeldInv

LEMMA StreamStepKeeps == StreamInv /\ [StreamNext]_streamVars => StreamInv'
<1> SUFFICES ASSUME StreamInv, [StreamNext]_streamVars PROVE StreamInv'
  OBVIOUS
<1>1. CASE \E t \in Topic : Mount(t)
  BY <1>1, SubscribeKeeps DEF Mount
<1>2. CASE RetryStream
  <2>1. mounted # NoTopic /\ view.topic = mounted /\ view.topic \in Topic /\ SubscribeTopic(view.topic)
        /\ UNCHANGED <<logs, mounted>>
    BY <1>2 DEF RetryStream, StreamInv, ViewInv, Views
  <2>2. QED
    BY <2>1, SubscribeKeeps
<1>3. CASE UNCHANGED streamVars
  BY <1>3 DEF streamVars, StreamInv, SubsInv, ViewInv, LogsInv, HeldInv, CollectorAwake
<1>4. CASE \E p \in Slot : Progress(p) \/ Faults(p)
  BY <1>4, FaultKeeps, GateKeeps, OpenKeeps, MessageKeeps, CloseKeeps DEF Progress
<1>5. QED
  BY <1>1, <1>2, <1>3, <1>4, UnmountKeeps, CollectorKeeps DEF StreamNext

-----------------------------------------------------------------------------
(* The video page.                                                         *)

Effect == [aborted : BOOLEAN, pump : {"none", "fetching", "reading", "updating", "over"},
           watchdog : BOOLEAN, reader : BOOLEAN, cancelled : BOOLEAN, updating : BOOLEAN, appended : BOOLEAN]

VideoTypeOK ==
    /\ mseStatus \in {"loading", "playing", "error"}
    /\ started \in 0 .. MaxAttempts /\ attempt \in 0 .. started
    /\ effects \in [Attempt -> Effect]

\* The effect holds no stream: there was none, it is over, or the fetch was called off.
GivenUp(e) == ~e.reader /\ (e.pump \in {"none", "over"} \/ e.cancelled)

\* What the page shows of the effect in force.
InForce(e, shown) ==
    /\ ~e.aborted
    /\ shown = "error" => ~e.watchdog /\ GivenUp(e)
    /\ shown = "playing" => e.appended
    /\ shown # "error" /\ e.pump # "none" => e.watchdog

VideoInv ==
    /\ VideoTypeOK
    /\ \A i \in Attempt : i > started => effects[i] = New
    /\ \A i \in Attempt : i <= started /\ i # attempt => effects[i].aborted /\ GivenUp(effects[i])
    /\ attempt # 0 => attempt \in Attempt /\ InForce(effects[attempt], mseStatus)

LEMMA NewEffect == New \in Effect /\ ~New.aborted /\ ~New.reader /\ New.pump = "none"
  BY DEF New, Effect

LEMMA VideoInvSound == VideoInv => VideoSound
<1> SUFFICES ASSUME VideoInv PROVE VideoSound
  OBVIOUS
<1>1. StatusOfAttempt /\ Watched
  BY DEF VideoInv, InForce, StatusOfAttempt, Watched
<1>2. NoStreamLeft
  <2> SUFFICES ASSUME NEW i \in 1 .. started, i # attempt
               PROVE  ~effects[i].reader /\ (effects[i].pump \in {"none", "over"} \/ effects[i].cancelled)
    BY DEF NoStreamLeft
  <2>1. i \in Attempt /\ i <= started
    BY VideoAssumption DEF VideoInv, VideoTypeOK, Attempt
  <2>2. QED
    BY <2>1 DEF VideoInv, VideoTypeOK, GivenUp
<1>3. QED
  BY <1>1, <1>2 DEF VideoSound

\* One effect moves.
LEMMA EffectMoves ==
    ASSUME VideoInv, NEW i \in Attempt, i <= started, NEW e \in Effect,
           effects' = [effects EXCEPT ![i] = e], UNCHANGED <<attempt, started>>,
           mseStatus' \in {"loading", "playing", "error"},
           e.aborted = effects[i].aborted,
           e.aborted => GivenUp(e) /\ mseStatus' = mseStatus,
           ~e.aborted => InForce(e, mseStatus')
    PROVE  VideoInv'
<1>1. VideoTypeOK'
  BY DEF VideoInv, VideoTypeOK
<1>2. \A j \in Attempt : effects'[j] = IF j = i THEN e ELSE effects[j]
  BY DEF VideoInv, VideoTypeOK
<1>3. \A j \in Attempt : j > started => effects'[j] = New
  BY <1>2 DEF VideoInv, VideoTypeOK, Attempt
<1>4. i # attempt => e.aborted
  BY DEF VideoInv
<1>5. i = attempt => ~e.aborted
  BY DEF VideoInv, InForce, VideoTypeOK, Attempt
<1>6. \A j \in Attempt : j <= started /\ j # attempt => effects'[j].aborted /\ GivenUp(effects'[j])
  BY <1>2, <1>4 DEF VideoInv
<1>7. attempt # 0 => attempt \in Attempt /\ InForce(effects'[attempt], mseStatus')
  BY <1>2, <1>4, <1>5 DEF VideoInv
<1>8. QED
  BY <1>1, <1>3, <1>6, <1>7 DEF VideoInv

\* What there is to know of an effect that moves.
LEMMA EffectFacts ==
    ASSUME VideoInv, NEW i \in Attempt
    PROVE  /\ effects[i] \in Effect
           /\ effects[i].aborted => GivenUp(effects[i])
           /\ i <= started /\ ~effects[i].aborted => InForce(effects[i], mseStatus)
           /\ i > started => effects[i] = New
           /\ mseStatus \in {"loading", "playing", "error"}
<1>1. effects[i] \in Effect /\ i \in Nat /\ started \in Nat
  BY DEF VideoInv, VideoTypeOK, Attempt
<1>2. i > started => effects[i] = New
  BY DEF VideoInv
<1>3. effects[i].aborted => i <= started
  BY <1>1, <1>2, NewEffect
<1>4. i <= started /\ ~effects[i].aborted => i = attempt
  BY DEF VideoInv
<1>5. i = attempt => ~effects[i].aborted
  BY DEF VideoInv, InForce, Attempt
<1>6. QED
  BY <1>1, <1>2, <1>3, <1>4, <1>5 DEF VideoInv, VideoTypeOK, Attempt

\* fail() gives the effect up, and only the one in force tells.
LEMMA FailsKeeps ==
    ASSUME VideoInv, NEW i \in Attempt, i <= started, NEW e \in Effect, Fails(i, e),
           e.aborted = effects[i].aborted
    PROVE  VideoInv'
<1> DEFINE s == Stopped(e)
<1>1. s \in Effect /\ s.aborted = e.aborted /\ ~s.watchdog /\ ~s.reader /\ s.pump = e.pump
      /\ s.cancelled = (e.pump # "none")
  BY DEF Stopped, Effect
<1>2. effects' = [effects EXCEPT ![i] = s] /\ UNCHANGED <<attempt, started>>
      /\ mseStatus' = IF e.aborted THEN mseStatus ELSE "error"
  BY DEF Fails
<1>3. GivenUp(s)
  BY <1>1 DEF GivenUp
<1> HIDE DEF s
<1>4. ~s.aborted => InForce(s, mseStatus')
  BY <1>1, <1>2, <1>3 DEF InForce
<1>5. mseStatus' \in {"loading", "playing", "error"}
  BY <1>2, EffectFacts
<1>6. QED
  BY <1>1, <1>2, <1>3, <1>4, <1>5, EffectMoves

LEMMA BecomesKeeps ==
    ASSUME VideoInv, NEW i \in Attempt, i <= started, NEW e \in Effect, Becomes(i, e),
           e.aborted = effects[i].aborted,
           e.aborted => GivenUp(e),
           ~e.aborted => InForce(e, mseStatus)
    PROVE  VideoInv'
<1>1. effects' = [effects EXCEPT ![i] = e] /\ UNCHANGED <<attempt, started, mseStatus>>
  BY DEF Becomes
<1>2. QED
  BY <1>1, EffectFacts, EffectMoves

LEMMA AppendsKeeps ==
    ASSUME VideoInv, NEW i \in Attempt, i <= started, NEW e \in Effect, Appends(i, e),
           e.aborted = effects[i].aborted, e.reader = effects[i].reader, e.watchdog
    PROVE  VideoInv'
<1>1. CASE Fails(i, [e EXCEPT !.pump = "over"])
  <2> DEFINE f == [e EXCEPT !.pump = "over"]
  <2>1. f \in Effect /\ f.aborted = e.aborted
    BY DEF Effect
  <2> HIDE DEF f
  <2>2. Fails(i, f)
    BY <1>1 DEF f
  <2>3. QED
    BY <2>1, <2>2, FailsKeeps
<1>2. CASE ~Fails(i, [e EXCEPT !.pump = "over"])
  <2> DEFINE f == [e EXCEPT !.pump = "reading", !.updating = TRUE, !.appended = TRUE]
  <2>1. f \in Effect /\ f.aborted = e.aborted /\ f.appended /\ f.watchdog
    BY DEF Effect
  <2>2. /\ e.reader /\ effects' = [effects EXCEPT ![i] = f]
        /\ mseStatus' = IF mseStatus = "error" THEN mseStatus ELSE "playing"
        /\ UNCHANGED <<attempt, started>>
    BY <1>2 DEF Appends
  <2> HIDE DEF f
  <2>3. ~e.aborted /\ mseStatus # "error"
    BY <2>2, EffectFacts DEF GivenUp, InForce
  <2>4. InForce(f, mseStatus')
    BY <2>1, <2>2, <2>3 DEF InForce
  <2>5. mseStatus' \in {"loading", "playing", "error"}
    BY <2>2, EffectFacts
  <2>6. QED
    BY <2>1, <2>2, <2>3, <2>4, <2>5, EffectMoves
<1>3. QED
  BY <1>1, <1>2

LEMMA EffectStepKeeps ==
    ASSUME VideoInv, NEW i \in Attempt,
           SourceOpens(i) \/ Fetched(i) \/ Chunk(i) \/ ReadEnds(i) \/ UpdateEnds(i) \/ WatchdogFires(i)
    PROVE  VideoInv'
<1> DEFINE e == effects[i]
<1> USE EffectFacts
<1>0. e \in Effect /\ (e # New => i <= started)
  BY DEF VideoInv, VideoTypeOK, Attempt
<1>1. CASE SourceOpens(i)
  <2>1. i <= started /\ e.pump = "none" /\ ~e.aborted /\ mseStatus # "error"
    BY <1>1 DEF SourceOpens
  <2>2. CASE Fails(i, e)
    BY <1>0, <2>1, <2>2, FailsKeeps
  <2>3. CASE Becomes(i, [e EXCEPT !.pump = "fetching", !.watchdog = TRUE])
    <3> DEFINE f == [e EXCEPT !.pump = "fetching", !.watchdog = TRUE]
    <3>1. f \in Effect /\ f.aborted = e.aborted /\ f.watchdog /\ f.appended = e.appended
      BY <1>0 DEF Effect
    <3>2. InForce(f, mseStatus)
      BY <2>1, <3>1 DEF InForce
    <3> HIDE DEF f
    <3>3. Becomes(i, f)
      BY <2>3 DEF f
    <3>4. QED
      BY <2>1, <3>1, <3>2, <3>3, BecomesKeeps
  <2>4. QED
    BY <1>1, <2>2, <2>3 DEF SourceOpens
<1>2. CASE Fetched(i)
  <2>1. e.pump = "fetching" /\ i <= started
    BY <1>0, <1>2, NewEffect DEF Fetched
  <2>2. CASE Fails(i, [e EXCEPT !.pump = "over"])
    <3> DEFINE f == [e EXCEPT !.pump = "over"]
    <3>1. f \in Effect /\ f.aborted = e.aborted
      BY <1>0 DEF Effect
    <3> HIDE DEF f
    <3>2. Fails(i, f)
      BY <2>2 DEF f
    <3>3. QED
      BY <2>1, <3>1, <3>2, FailsKeeps
  <2>3. CASE ~e.cancelled /\ Becomes(i, [e EXCEPT !.pump = "reading", !.reader = TRUE, !.watchdog = TRUE])
    <3> DEFINE f == [e EXCEPT !.pump = "reading", !.reader = TRUE, !.watchdog = TRUE]
    <3>1. f \in Effect /\ f.aborted = e.aborted /\ f.watchdog /\ f.appended = e.appended
      BY <1>0 DEF Effect
    <3>2. ~e.aborted /\ mseStatus # "error"
      BY <2>1, <2>3 DEF GivenUp, InForce
    <3>3. InForce(f, mseStatus)
      BY <2>1, <3>1, <3>2 DEF InForce
    <3> HIDE DEF f
    <3>4. Becomes(i, f)
      BY <2>3 DEF f
    <3>5. QED
      BY <2>1, <3>1, <3>2, <3>3, <3>4, BecomesKeeps
  <2>4. QED
    BY <1>2, <2>2, <2>3 DEF Fetched
<1>3. CASE Chunk(i)
  <2> DEFINE w == [e EXCEPT !.watchdog = TRUE]
  <2>1. w \in Effect /\ w.aborted = e.aborted /\ w.watchdog /\ w.reader = e.reader
        /\ w.pump = e.pump /\ w.appended = e.appended
    BY <1>0 DEF Effect
  <2>2. w.pump = "reading" /\ w.reader /\ (Becomes(i, [w EXCEPT !.pump = "updating"]) \/ Appends(i, w))
    BY <1>3 DEF Chunk
  <2> HIDE DEF w
  <2>3. i <= started
    BY <1>0, <2>1, <2>2, NewEffect
  <2>4. CASE Appends(i, w)
    BY <2>1, <2>3, <2>4, AppendsKeeps
  <2>5. CASE Becomes(i, [w EXCEPT !.pump = "updating"])
    <3> DEFINE f == [w EXCEPT !.pump = "updating"]
    <3>1. f \in Effect /\ f.aborted = w.aborted /\ f.watchdog /\ f.appended = w.appended
      BY <2>1 DEF Effect
    <3>2. ~e.aborted /\ mseStatus # "error"
      BY <2>1, <2>2, <2>3 DEF GivenUp, InForce
    <3>3. InForce(f, mseStatus)
      BY <2>1, <2>3, <3>1, <3>2 DEF InForce
    <3> HIDE DEF f
    <3>4. Becomes(i, f)
      BY <2>5 DEF f
    <3>5. QED
      BY <2>1, <2>3, <3>1, <3>2, <3>3, <3>4, BecomesKeeps
  <2>6. QED
    BY <2>2, <2>4, <2>5
<1>4. CASE ReadEnds(i)
  <2> DEFINE f == [e EXCEPT !.pump = "over"]
  <2>1. f \in Effect /\ f.aborted = e.aborted
    BY <1>0 DEF Effect
  <2>2. Fails(i, f) /\ e.pump = "reading"
    BY <1>4 DEF ReadEnds
  <2> HIDE DEF f
  <2>3. QED
    BY <1>0, <2>1, <2>2, NewEffect, FailsKeeps
<1>5. CASE UpdateEnds(i)
  <2> DEFINE u == [e EXCEPT !.updating = FALSE]
  <2>1. u \in Effect /\ u.aborted = e.aborted /\ u.watchdog = e.watchdog /\ u.reader = e.reader
        /\ u.pump = e.pump /\ u.appended = e.appended /\ u.cancelled = e.cancelled
    BY <1>0 DEF Effect
  <2>2. /\ e.updating
        /\ IF u.pump # "updating" THEN Becomes(i, u)
           ELSE IF u.aborted THEN Becomes(i, [u EXCEPT !.pump = "over"])
           ELSE Appends(i, u)
    BY <1>5 DEF UpdateEnds
  <2> HIDE DEF u
  <2>3. i <= started
    BY <1>0, <2>2 DEF New
  <2>4. CASE u.pump # "updating"
    <3>1. Becomes(i, u)
      BY <2>2, <2>4
    <3>2. u.aborted => GivenUp(u)
      BY <2>1 DEF GivenUp
    <3>3. ~u.aborted => InForce(u, mseStatus)
      BY <2>1, <2>3 DEF InForce, GivenUp
    <3>4. QED
      BY <2>1, <2>3, <3>1, <3>2, <3>3, BecomesKeeps
  <2>5. CASE u.pump = "updating" /\ u.aborted
    <3> DEFINE f == [u EXCEPT !.pump = "over"]
    <3>1. f \in Effect /\ f.aborted = u.aborted /\ f.reader = u.reader /\ f.pump = "over"
      BY <2>1 DEF Effect
    <3>2. GivenUp(f)
      BY <2>1, <2>5, <3>1 DEF GivenUp
    <3> HIDE DEF f
    <3>3. Becomes(i, f)
      BY <2>2, <2>5 DEF f
    <3>4. QED
      BY <2>1, <2>3, <2>5, <3>1, <3>2, <3>3, BecomesKeeps
  <2>6. CASE u.pump = "updating" /\ ~u.aborted
    <3>1. Appends(i, u)
      BY <2>2, <2>6
    <3>2. CASE u.watchdog
      BY <2>1, <2>3, <3>1, <3>2, AppendsKeeps
    <3>3. CASE ~u.watchdog
      <4>1. ~u.reader
        BY <2>1, <2>3, <2>6, <3>3 DEF InForce, GivenUp
      <4> DEFINE f == [u EXCEPT !.pump = "over"]
      <4>2. f \in Effect /\ f.aborted = u.aborted
        BY <2>1 DEF Effect
      <4>3. Fails(i, f)
        BY <3>1, <4>1 DEF Appends
      <4> HIDE DEF f
      <4>4. QED
        BY <2>1, <2>3, <4>2, <4>3, FailsKeeps
    <3>4. QED
      BY <3>2, <3>3
  <2>7. QED
    BY <2>4, <2>5, <2>6
<1>6. CASE WatchdogFires(i)
  <2>1. e.watchdog /\ i <= started
    BY <1>0, <1>6 DEF WatchdogFires, New
  <2>2. CASE ~e.aborted
    BY <1>0, <1>6, <2>1, <2>2, FailsKeeps DEF WatchdogFires
  <2>3. CASE e.aborted
    <3> DEFINE f == [e EXCEPT !.watchdog = FALSE]
    <3>1. f \in Effect /\ f.aborted = e.aborted /\ f.reader = e.reader /\ f.pump = e.pump
          /\ f.cancelled = e.cancelled
      BY <1>0 DEF Effect
    <3>2. GivenUp(f)
      BY <2>3, <3>1 DEF GivenUp
    <3>3. Becomes(i, f)
      BY <1>6, <2>3 DEF WatchdogFires
    <3> HIDE DEF f
    <3>4. QED
      BY <2>1, <2>3, <3>1, <3>2, <3>3, BecomesKeeps
  <2>4. QED
    BY <2>2, <2>3
<1>7. QED
  BY <1>1, <1>2, <1>3, <1>4, <1>5, <1>6

\* The cleanup of the effect in force.
LEMMA ReplacedFacts ==
    ASSUME VideoInv
    PROVE  /\ Replaced \in [Attempt -> Effect]
           /\ \A i \in Attempt : i > started => Replaced[i] = New
           /\ \A i \in Attempt : i <= started => Replaced[i].aborted /\ GivenUp(Replaced[i])
<1>1. CASE attempt = 0
  BY <1>1 DEF Replaced, VideoInv, VideoTypeOK, Attempt
<1>2. CASE attempt # 0
  <2> DEFINE c == CleanedUp(effects[attempt])
  <2>1. attempt \in Attempt /\ effects[attempt] \in Effect /\ attempt <= started
    BY <1>2 DEF VideoInv, VideoTypeOK
  <2>2. c \in Effect /\ c.aborted /\ GivenUp(c)
    BY <2>1 DEF CleanedUp, Effect, GivenUp
  <2>3. Replaced = [effects EXCEPT ![attempt] = c]
    BY <1>2 DEF Replaced
  <2> HIDE DEF c
  <2>4. effects \in [Attempt -> Effect]
    BY DEF VideoInv, VideoTypeOK
  <2>5. \A i \in Attempt : Replaced[i] = IF i = attempt THEN c ELSE effects[i]
    BY <2>1, <2>3, <2>4
  <2>6. \A i \in Attempt : i > started => Replaced[i] = New
    BY <2>1, <2>5 DEF VideoInv, VideoTypeOK, Attempt
  <2>7. QED
    BY <2>2, <2>3, <2>4, <2>5, <2>6 DEF VideoInv
<1>3. QED
  BY <1>1, <1>2

LEMMA StartEffectKeeps ==
    ASSUME VideoInv, StartEffect
    PROVE  VideoInv'
<1>1. /\ started < MaxAttempts /\ started' = started + 1 /\ attempt' = started + 1
      /\ effects' = Replaced /\ mseStatus' = "loading"
  BY DEF StartEffect
<1>2. started \in Nat
  BY DEF VideoInv, VideoTypeOK
<1>3. VideoTypeOK'
  BY <1>1, <1>2, ReplacedFacts, VideoAssumption DEF VideoTypeOK
<1>4. attempt' \in Attempt
  BY <1>1, <1>2, VideoAssumption DEF Attempt
<1>5. \A i \in Attempt : i > started' => effects'[i] = New
  BY <1>1, <1>2, ReplacedFacts DEF Attempt
<1>6. \A i \in Attempt : i <= started' /\ i # attempt' => effects'[i].aborted /\ GivenUp(effects'[i])
  BY <1>1, <1>2, ReplacedFacts DEF Attempt
<1>7. InForce(effects'[attempt'], mseStatus')
  <2>1. effects'[attempt'] = New
    BY <1>1, <1>2, <1>4, ReplacedFacts
  <2>2. QED
    BY <1>1, <2>1, NewEffect DEF InForce
<1>8. QED
  BY <1>3, <1>4, <1>5, <1>6, <1>7 DEF VideoInv

LEMMA VideoInitInv == VideoInit => VideoInv
  BY NewEffect, VideoAssumption DEF VideoInit, VideoInv, VideoTypeOK, Attempt

LEMMA VideoStepKeeps == VideoInv /\ [VideoNext]_videoVars => VideoInv'
<1> SUFFICES ASSUME VideoInv, [VideoNext]_videoVars PROVE VideoInv'
  OBVIOUS
<1>1. CASE ShowTopic \/ Retry
  BY <1>1, StartEffectKeeps DEF ShowTopic, Retry
<1>2. CASE LeavePage
  <2>1. attempt' = 0 /\ mseStatus' = "loading" /\ effects' = Replaced /\ started' = started
    BY <1>2 DEF LeavePage
  <2>2. VideoTypeOK'
    BY <2>1, ReplacedFacts DEF VideoInv, VideoTypeOK
  <2>3. QED
    BY <2>1, <2>2, ReplacedFacts DEF VideoInv
<1>3. CASE \E i \in Attempt : SourceOpens(i) \/ Fetched(i) \/ Chunk(i) \/ ReadEnds(i) \/ UpdateEnds(i)
                                 \/ WatchdogFires(i)
  BY <1>3, EffectStepKeeps
<1>4. CASE UNCHANGED videoVars
  BY <1>4 DEF videoVars, VideoInv, VideoTypeOK, InForce, GivenUp
<1>5. QED
  BY <1>1, <1>2, <1>3, <1>4 DEF VideoNext

-----------------------------------------------------------------------------
(* All that runs.                                                          *)

PageInvs == EditorInv /\ FormInv /\ StreamInv /\ VideoInv

LEMMA PagesInitInv == Init => PageInvs
<1> SUFFICES ASSUME Init PROVE PageInvs
  OBVIOUS
<1>1. EditorInit /\ FormInit /\ StreamInit /\ VideoInit
  BY DEF Init
<1>2. QED
  BY <1>1, EditorInitInv, FormInitInv, StreamInitInv, VideoInitInv DEF PageInvs

\* One page takes a step of its own and the others stand still.
LEMMA PartsStep ==
    ASSUME [Next]_vars
    PROVE  /\ [EditorNext]_editorVars /\ [FormNext]_formVars
           /\ [StreamNext]_streamVars /\ [VideoNext]_videoVars
           /\ part' = part
<1>1. CASE Web /\ part' = part
  BY <1>1 DEF Web
<1>2. CASE UNCHANGED <<part, webVars>>
  BY <1>2 DEF webVars
<1>3. QED
  BY <1>1, <1>2 DEF Next, vars

LEMMA PagesStepKeeps ==
    ASSUME PageInvs, [Next]_vars
    PROVE  PageInvs'
BY PartsStep, EditorStepKeeps, FormStepKeeps, StreamStepKeeps, VideoStepKeeps DEF PageInvs

LEMMA PageInvsSound == PageInvs => PagesSound
BY EditorInvSound, FormInvSound, StreamInvSound, VideoInvSound DEF PageInvs, PagesSound

\* What the map page takes for saved is saved and what was typed in the settings page is
\* kept; no subscription and no stream of video is lost or left behind. For any markers,
\* formulas, settings, topics and slots, and any order of answers, failures and clicks
\* (mapSlice, saveMap, useSettingsConfig, useTopicSubscription, useMseStream).
THEOREM PagesAlwaysSound == Spec => []PagesSound
<1>1. Init => PageInvs
  BY PagesInitInv
<1>2. PageInvs /\ [Next]_vars => PageInvs'
  BY PagesStepKeeps
<1>3. PageInvs => PagesSound
  BY PageInvsSound
<1>4. QED
  BY <1>1, <1>2, <1>3, PTL DEF Spec

-----------------------------------------------------------------------------
(* The LED strip.                                                          *)

USE LedAssumption DEF LedRequest

LEMMA LedMessageFields ==
    ASSUME NEW m \in LedMessage
    PROVE  /\ m.id \in LedRequest /\ m.fits \in BOOLEAN /\ m.ends \in BOOLEAN
           /\ m.kind \in {"frame", "solid", "blink", "rainbow", "unknown"}
<1>1. CASE \E id \in LedRequest, fits \in BOOLEAN : m = Frame(id, fits)
  BY <1>1 DEF Frame
<1>2. CASE \E id \in LedRequest, ends \in BOOLEAN, kind \in {"solid", "blink", "rainbow", "unknown"} :
               m = Animated(id, kind, ends)
  BY <1>2 DEF Animated
<1>3. QED
  BY <1>1, <1>2 DEF LedMessage

Animations == [id : LedRequest \cup {0}, kind : {"none", "solid", "blink", "rainbow"},
               ends : BOOLEAN, over : BOOLEAN, drawn : BOOLEAN]
Strips == {Black} \cup [id : LedRequest, by : {"frame", "animation"}]

LEMMA NoAnimationType == NoAnimation \in Animations
  BY DEF NoAnimation, Animations

\* What the driver holds beside its queue.
PartsOK ==
    /\ ledDevice \in {"ready", "failed", "none"}
    /\ ledLife \in {"up", "ended", "undefined"}
    /\ animation \in Animations
    /\ strip \in Strips
    /\ recent \in BOOLEAN /\ ledMissed \in BOOLEAN
    /\ ledEnd \in {"none", "frame", "start", "tick"}
QueueOK ==
    /\ ledInbox \in Seq(LedMessage) /\ Len(ledInbox) <= LedInboxSize
    /\ ledSent \in 0 .. MaxLedRequests

LEMMA LedTypeParts == LedTypeOK <=> PartsOK /\ QueueOK
  BY DEF LedTypeOK, PartsOK, QueueOK, Animations, Strips

LEMMA StepParts == PartsOK' /\ QueueOK' /\ DarkAfterAnimation' /\ EndedByFrame' => StripAccountedFor'
  BY DEF StripAccountedFor, LedTypeOK, PartsOK, QueueOK, Animations, Strips

LEMMA LedInitSound == LedInit => StripAccountedFor
<1> SUFFICES ASSUME LedInit PROVE StripAccountedFor
  OBVIOUS
<1>1. PartsOK
  BY NoAnimationType DEF LedInit, PartsOK, Strips
<1>2. QueueOK
  BY DEF LedInit, QueueOK
<1>3. DarkAfterAnimation /\ EndedByFrame
  BY DEF LedInit, DarkAfterAnimation, EndedByFrame, Black
<1>4. QED
  BY <1>1, <1>2, <1>3, LedTypeParts DEF StripAccountedFor

\* Taking a request makes room.
LEMMA TakenQueue ==
    ASSUME QueueOK, ledInbox # <<>>, ledInbox' = Tail(ledInbox), UNCHANGED ledSent
    PROVE  QueueOK' /\ Head(ledInbox) \in LedMessage
  BY DEF QueueOK

\* base_device::write() on a device that failed.
LEMMA UndefinedKeeps ==
    ASSUME StripAccountedFor, ledDevice = "failed", NEW what \in {"frame", "tick"}, Undefined(what)
    PROVE  PartsOK' /\ DarkAfterAnimation' /\ EndedByFrame'
  BY LedTypeParts DEF StripAccountedFor, PartsOK, DarkAfterAnimation, EndedByFrame, Undefined

LEMMA OnFrameKeeps ==
    ASSUME StripAccountedFor, Working, NEW m \in LedMessage, OnFrame(m), UNCHANGED ledDevice
    PROVE  PartsOK' /\ DarkAfterAnimation' /\ EndedByFrame'
<1> DEFINE blackened == animation # NoAnimation /\ ~recent
           refused == ~Accepts(m.fits, recent \/ blackened)
<1>1. /\ animation' = NoAnimation
      /\ strip' = IF ~refused THEN [id |-> m.id, by |-> "frame"] ELSE IF blackened THEN Black ELSE strip
      /\ recent' = (recent \/ blackened \/ ~refused)
      /\ ledMissed' = (animation # NoAnimation /\ recent)
      /\ ledLife' = IF refused THEN "ended" ELSE ledLife
      /\ ledEnd' = IF refused THEN "frame" ELSE ledEnd
  BY DEF OnFrame
<1>2. PartsOK /\ EndedByFrame /\ ledLife = "up"
  BY LedTypeParts DEF StripAccountedFor, Working
<1> HIDE DEF blackened, refused
<1>3. animation' \in Animations /\ ledMissed' \in BOOLEAN /\ recent' \in BOOLEAN
  BY <1>1, NoAnimationType DEF refused, blackened
<1>4. strip' \in Strips
  BY <1>1, <1>2, LedMessageFields DEF Strips, PartsOK
<1>5. ledLife' \in {"up", "ended", "undefined"} /\ ledEnd' \in {"none", "frame", "start", "tick"}
  BY <1>1, <1>2 DEF PartsOK
<1>6. PartsOK'
  BY <1>2, <1>3, <1>4, <1>5 DEF PartsOK
<1>7. DarkAfterAnimation'
  BY <1>1 DEF DarkAfterAnimation
<1>8. EndedByFrame'
  BY <1>1, <1>2 DEF EndedByFrame
<1>9. QED
  BY <1>6, <1>7, <1>8

LEMMA TakeFrameKeeps == StripAccountedFor /\ TakeFrame => StripAccountedFor'
<1> SUFFICES ASSUME StripAccountedFor, TakeFrame PROVE StripAccountedFor'
  OBVIOUS
<1>1. ledInbox # <<>> /\ ledInbox' = Tail(ledInbox) /\ Working
  BY DEF TakeFrame
<1>2. QueueOK' /\ Head(ledInbox) \in LedMessage
  <2>1. UNCHANGED ledSent
    BY DEF TakeFrame, Undefined
  <2>2. QED
    BY <1>1, <2>1, TakenQueue, LedTypeParts DEF StripAccountedFor
<1>3. PartsOK' /\ DarkAfterAnimation' /\ EndedByFrame'
  <2> DEFINE m == Head(ledInbox)
  <2>1. CASE ledDevice = "ready"
    BY <1>1, <1>2, <2>1, OnFrameKeeps DEF TakeFrame
  <2>2. CASE ledDevice = "failed" /\ Undefined("frame")
    BY <2>2, UndefinedKeeps
  <2>3. CASE /\ ledLife' = "ended" /\ ledEnd' = "frame"
             /\ UNCHANGED <<ledDevice, animation, strip, recent, ledSent, ledMissed>>
    BY <2>3, LedTypeParts DEF StripAccountedFor, PartsOK, DarkAfterAnimation, EndedByFrame
  <2>4. CASE UNCHANGED <<ledDevice, ledLife, animation, strip, recent, ledSent, ledMissed, ledEnd>>
    BY <2>4, LedTypeParts DEF StripAccountedFor, PartsOK, DarkAfterAnimation, EndedByFrame
  <2>5. \/ ledDevice = "ready"
        \/ ledDevice = "failed" /\ Undefined("frame")
        \/ /\ ledLife' = "ended" /\ ledEnd' = "frame"
           /\ UNCHANGED <<ledDevice, animation, strip, recent, ledSent, ledMissed>>
        \/ UNCHANGED <<ledDevice, ledLife, animation, strip, recent, ledSent, ledMissed, ledEnd>>
    BY <1>2, LedMessageFields DEF TakeFrame
  <2>6. QED
    BY <2>1, <2>2, <2>3, <2>4, <2>5
<1>4. QED
  BY <1>2, <1>3, StepParts

LEMMA TakeStartKeeps == StripAccountedFor /\ TakeStart => StripAccountedFor'
<1> SUFFICES ASSUME StripAccountedFor, TakeStart PROVE StripAccountedFor'
  OBVIOUS
<1> DEFINE m == Head(ledInbox)
<1>1. QueueOK' /\ m \in LedMessage
  BY TakenQueue, LedTypeParts DEF StripAccountedFor, TakeStart
<1>2. /\ m.kind # "frame"
      /\ UNCHANGED <<ledDevice, ledLife, ledEnd, strip, recent, ledMissed>>
      /\ \/ UNCHANGED animation
         \/ /\ m.kind # "unknown"
            /\ animation' = [NoAnimation EXCEPT !.id = m.id, !.kind = m.kind, !.ends = m.ends]
  BY DEF TakeStart, StartAnimation
<1>3. CASE UNCHANGED animation
  <2>1. PartsOK' /\ DarkAfterAnimation' /\ EndedByFrame'
    BY <1>2, <1>3, LedTypeParts DEF StripAccountedFor, PartsOK, DarkAfterAnimation, EndedByFrame
  <2>2. QED
    BY <1>1, <2>1, StepParts
<1>4. CASE /\ m.kind # "unknown"
           /\ animation' = [NoAnimation EXCEPT !.id = m.id, !.kind = m.kind, !.ends = m.ends]
  <2> HIDE DEF m
  <2>1. animation' = [id |-> m.id, kind |-> m.kind, ends |-> m.ends, over |-> FALSE, drawn |-> FALSE]
    BY <1>4 DEF NoAnimation
  <2>2. animation' \in Animations
    <3>1. /\ m.id \in LedRequest /\ m.ends \in BOOLEAN
          /\ m.kind \in {"solid", "blink", "rainbow"}
      BY <1>1, <1>2, <1>4, LedMessageFields
    <3>2. QED
      BY <2>1, <3>1 DEF Animations
  <2>3. animation' # NoAnimation
    BY <1>1, <2>1, LedMessageFields DEF NoAnimation
  <2>4. PartsOK' /\ DarkAfterAnimation' /\ EndedByFrame'
    BY <1>2, <2>2, <2>3, LedTypeParts DEF StripAccountedFor, PartsOK, DarkAfterAnimation, EndedByFrame
  <2>5. QED
    BY <1>1, <2>4, StepParts
<1>5. QED
  BY <1>2, <1>3, <1>4

LEMMA DrawTypes ==
    ASSUME PartsOK, NEW content \in Strips, Draw(content)
    PROVE  strip' \in Strips /\ recent' \in BOOLEAN
  BY DEF PartsOK, Draw

\* An animation that runs was asked for.
RequestKnown == animation # NoAnimation => animation.id \in LedRequest

LEMMA TickKeeps == StripAccountedFor /\ RequestKnown /\ Tick => StripAccountedFor'
<1> SUFFICES ASSUME StripAccountedFor, RequestKnown, Tick PROVE StripAccountedFor'
  OBVIOUS
<1>1. PartsOK /\ QueueOK /\ animation # NoAnimation
  BY LedTypeParts DEF StripAccountedFor, Tick
<1>2. UNCHANGED <<ledInbox, ledSent>>
  BY DEF Tick, Undefined
<1>3. QueueOK'
  BY <1>1, <1>2 DEF QueueOK
<1>4. Black \in Strips
  BY DEF Strips
<1>5. CASE ledDevice = "failed"
  <2>1. PartsOK' /\ DarkAfterAnimation' /\ EndedByFrame'
    BY <1>5, UndefinedKeeps DEF Tick
  <2>2. QED
    BY <1>3, <2>1, StepParts
<1>6. CASE ledDevice # "failed" /\ animation.over
  <2>1. Finish /\ UNCHANGED <<ledDevice, ledLife, ledEnd>>
    BY <1>6 DEF Tick
  <2>2. PartsOK'
    <3>1. strip' \in Strips /\ recent' \in BOOLEAN
      BY <1>1, <1>4, <2>1, DrawTypes DEF Finish
    <3>2. animation' \in Animations
      BY <2>1, NoAnimationType DEF Finish
    <3>3. ledMissed' \in BOOLEAN
      BY <1>1, <2>1 DEF Finish, PartsOK
    <3>4. QED
      BY <1>1, <2>1, <3>1, <3>2, <3>3 DEF PartsOK
  <2>3. DarkAfterAnimation' /\ EndedByFrame'
    BY <2>1 DEF StripAccountedFor, DarkAfterAnimation, EndedByFrame, Finish, Draw, Black
  <2>4. QED
    BY <1>3, <2>2, <2>3, StepParts
<1>7. CASE ledDevice # "failed" /\ ~animation.over
  <2>1. Advance /\ UNCHANGED <<ledDevice, ledLife, ledEnd, ledMissed>>
    BY <1>7 DEF Tick
  <2>2. /\ animation' \in Animations /\ animation' # NoAnimation
        /\ strip' \in Strips /\ recent' \in BOOLEAN
    <3>1. CASE UNCHANGED <<animation, strip, recent>>
      BY <1>1, <3>1 DEF PartsOK
    <3>2. CASE /\ animation' = [animation EXCEPT !.drawn = TRUE]
               /\ \/ Draw([id |-> animation.id, by |-> "animation"])
                  \/ Draw(Black)
      <4>1. [id |-> animation.id, by |-> "animation"] \in Strips
        BY <1>1 DEF RequestKnown, Strips
      <4>2. animation' \in Animations /\ animation'.drawn = TRUE
        BY <1>1, <3>2 DEF PartsOK, Animations
      <4>3. animation' # NoAnimation
        BY <4>2 DEF NoAnimation
      <4>4. strip' \in Strips /\ recent' \in BOOLEAN
        BY <1>1, <1>4, <3>2, <4>1, DrawTypes
      <4>5. QED
        BY <4>2, <4>3, <4>4
    <3>3. QED
      BY <2>1, <3>1, <3>2 DEF Advance
  <2>3. PartsOK' /\ DarkAfterAnimation' /\ EndedByFrame'
    BY <1>1, <2>1, <2>2 DEF StripAccountedFor, PartsOK, DarkAfterAnimation, EndedByFrame
  <2>4. QED
    BY <1>3, <2>3, StepParts
<1>8. QED
  BY <1>5, <1>6, <1>7

LEMMA DurationKeeps == StripAccountedFor /\ DurationPasses => StripAccountedFor'
<1> SUFFICES ASSUME StripAccountedFor, DurationPasses PROVE StripAccountedFor'
  OBVIOUS
<1>1. PartsOK /\ QueueOK
  BY LedTypeParts DEF StripAccountedFor
<1>2. animation' = [animation EXCEPT !.over = TRUE]
  BY DEF DurationPasses
<1>3. animation' \in Animations /\ animation'.over = TRUE
  BY <1>1, <1>2 DEF PartsOK, Animations
<1>4. animation' # NoAnimation /\ animation # NoAnimation
  BY <1>3 DEF NoAnimation, DurationPasses
<1>5. PartsOK' /\ QueueOK'
  BY <1>1, <1>3 DEF PartsOK, QueueOK, DurationPasses
<1>6. DarkAfterAnimation' /\ EndedByFrame'
  BY <1>4 DEF StripAccountedFor, DarkAfterAnimation, EndedByFrame, DurationPasses
<1>7. QED
  BY <1>5, <1>6, StepParts

LEMMA SendsKeeps ==
    ASSUME StripAccountedFor, NEW m \in LedMessage, Sends(m)
    PROVE  StripAccountedFor'
<1>1. PartsOK /\ QueueOK
  BY LedTypeParts DEF StripAccountedFor
<1>2. QueueOK'
  <2>1. ledSent' \in 0 .. MaxLedRequests
    BY LedMessageFields DEF Sends
  <2>2. ledInbox' \in Seq(LedMessage) /\ Len(ledInbox') <= LedInboxSize
    BY <1>1 DEF Sends, QueueOK
  <2>3. QED
    BY <2>1, <2>2 DEF QueueOK
<1>3. PartsOK' /\ DarkAfterAnimation' /\ EndedByFrame'
  BY <1>1 DEF StripAccountedFor, PartsOK, DarkAfterAnimation, EndedByFrame, Sends
<1>4. QED
  BY <1>2, <1>3, StepParts

LEMMA AskedStep ==
    ASSUME StripAccountedFor, RequestKnown, [LedNext]_ledVars
    PROVE  RequestKnown'
<1>1. QueueOK /\ animation \in Animations
  BY LedTypeParts DEF StripAccountedFor, PartsOK
<1>2. CASE UNCHANGED animation \/ animation' = NoAnimation
  BY <1>2 DEF RequestKnown
<1>3. CASE TakeStart
  <2>1. Head(ledInbox) \in LedMessage
    BY <1>1, <1>3 DEF QueueOK, TakeStart
  <2>2. UNCHANGED animation \/ animation'.id = Head(ledInbox).id
    BY <1>3 DEF TakeStart, StartAnimation, NoAnimation
  <2>3. QED
    BY <1>2, <2>1, <2>2, LedMessageFields DEF RequestKnown
<1>4. CASE Tick
  <2>1. \/ UNCHANGED animation \/ animation' = NoAnimation
        \/ animation' = [animation EXCEPT !.drawn = TRUE]
    BY <1>4 DEF Tick, Undefined, Finish, Advance
  <2>2. animation # NoAnimation
    BY <1>4 DEF Tick
  <2>3. QED
    BY <1>1, <1>2, <2>1, <2>2 DEF RequestKnown, Animations
<1>5. CASE DurationPasses
  <2>1. animation # NoAnimation
    BY <1>5 DEF DurationPasses, NoAnimation
  <2>2. animation'.id = animation.id
    BY <1>1, <1>5 DEF DurationPasses, Animations
  <2>3. QED
    BY <2>1, <2>2 DEF RequestKnown
<1>6. CASE TakeFrame
  BY <1>2, <1>6 DEF TakeFrame, OnFrame, Undefined
<1>7. CASE FramePeriodPasses \/ (\E m \in LedMessage : Sends(m)) \/ UNCHANGED ledVars
  BY <1>2, <1>7 DEF FramePeriodPasses, Sends, ledVars
<1>8. QED
  BY <1>3, <1>4, <1>5, <1>6, <1>7 DEF LedNext, LedStep

LEMMA StripStep ==
    ASSUME StripAccountedFor, RequestKnown, [LedNext]_ledVars
    PROVE  StripAccountedFor'
<1> USE DEF StripAccountedFor, LedTypeOK, DarkAfterAnimation, EndedByFrame
<1>1. CASE FramePeriodPasses
  <2>1. UNCHANGED <<ledDevice, ledLife, ledInbox, animation, strip, ledSent, ledMissed, ledEnd>>
    BY <1>1 DEF FramePeriodPasses
  <2>2. recent' \in BOOLEAN
    BY <1>1 DEF FramePeriodPasses
  <2>3. PartsOK' /\ DarkAfterAnimation' /\ EndedByFrame'
    BY <2>1, <2>2, LedTypeParts DEF PartsOK
  <2>4. QueueOK'
    BY <2>1, LedTypeParts DEF QueueOK
  <2>5. QED
    BY <2>3, <2>4, StepParts
<1>2. CASE UNCHANGED ledVars
  BY <1>2 DEF ledVars
<1>3. CASE LedNext /\ ~FramePeriodPasses
  BY <1>3, TakeFrameKeeps, TakeStartKeeps, TickKeeps, DurationKeeps, SendsKeeps DEF LedNext, LedStep
<1>4. QED
  BY <1>1, <1>2, <1>3

LEMMA AnimationRequested ==
    ASSUME NEW id \in LedRequest, NEW ends \in BOOLEAN,
           NEW kind \in {"solid", "blink", "rainbow", "unknown"}
    PROVE  Animated(id, kind, ends) \in LedMessage
BY DEF LedMessage

\* The driver takes a step of its own, is sent a request, or stands still.
LEMMA StripPart ==
    ASSUME StripAccountedFor, [Next]_vars
    PROVE  [LedNext]_ledVars
<1>1. CASE CallAnimation
  <2>1. CASE Sends(Animated(ledSent + 1, "blink", TRUE))
    <3>1. ledSent + 1 \in LedRequest
      BY <2>1 DEF StripAccountedFor, LedTypeOK, Sends
    <3>2. QED
      BY <2>1, <3>1, AnimationRequested DEF LedNext
  <2>2. QED
    BY <1>1, <2>1 DEF CallAnimation
<1>2. CASE LedStep \/ LedNext \/ UNCHANGED ledVars
  BY <1>2 DEF LedNext
<1>3. Here => CallAnimation \/ LedStep \/ LedNext \/ UNCHANGED ledVars
  BY DEF Here, React
<1>4. ~Here => UNCHANGED ledVars
  BY DEF Next, vars, hereVars
<1>5. QED
  BY <1>1, <1>2, <1>3, <1>4

\* What is left on the strip and what ends the driver, for any requests in any order, the
\* notification node's among them (driver::on_frame, animation_server::tick and cancel).
THEOREM StripAlwaysAccountedFor == Spec => []StripAccountedFor
<1>1. Init => StripAccountedFor /\ RequestKnown
  BY LedInitSound DEF Init, LedInit, RequestKnown
<1>2. StripAccountedFor /\ RequestKnown /\ [Next]_vars => StripAccountedFor' /\ RequestKnown'
  BY StripPart, StripStep, AskedStep
<1>3. QED
  BY <1>1, <1>2, PTL DEF Spec

-----------------------------------------------------------------------------
(* The notification node.                                                  *)

\* Of each status that is looked at, the last one is remembered.
KnowsLast ==
    \A n \in StatusName \ Ignored :
        \/ previous[n] = NoStatus /\ \A j \in DOMAIN received : received[j].name # n
        \/ \E j \in DOMAIN received :
               /\ previous[n] = received[j] /\ received[j].name = n
               /\ \A k \in DOMAIN received : received[k].name = n => k <= j

NotificationInv == NotificationTypeOK /\ KnowsLast /\ ChangesAreTold /\ InvertedOnlyForAlert

Done == [held : SUBSET {"cpu", "temperature"}, screen : Screen, asked : Seq(Notices)]
SystemNotices == {e \in Notices : e.source = "system" /\ e.name \in {"cpu", "temperature"}}

LEMMA DisplayProcessTyped ==
    ASSUME NEW s \in Screen, NEW e \in Notices
    PROVE  DisplayProcess(s, e) \in Screen
<1> DEFINE l == Label(e)
           shown == [s EXCEPT ![l] = e.message]
           due == IF e.priority = "ok" THEN s.alerts \ {l} ELSE s.alerts \cup {l}
<1>1. l \in {"cpu", "temp"} /\ e.message \in Text \cup {NoText}
  BY DEF Label, Notices
<1>2. shown \in Screen /\ shown.alerts = s.alerts
  <2>1. CASE l = "cpu"
    BY <1>1, <2>1 DEF Screen
  <2>2. CASE l = "temp"
    BY <1>1, <2>2 DEF Screen
  <2>3. QED BY <1>1, <2>1, <2>2
<1>3. due \in SUBSET {"cpu", "temp"}
  BY <1>1 DEF Screen
<1>4. [shown EXCEPT !.alerts = due] \in Screen
  <2> HIDE DEF shown, due, l
  <2>1. QED BY <1>2, <1>3 DEF Screen
<1>5. DisplayProcess(s, e) = IF e.source # "system" THEN s ELSE [shown EXCEPT !.alerts = due]
  BY <1>2 DEF DisplayProcess
<1>6. QED BY <1>4, <1>5

\* One event: the throttle knows system events only, and what is asked for grows by that
\* event or not at all.
LEMMA CallbackTold ==
    ASSUME NEW soFar \in Done, NEW e \in Notices,
           e.source = "system" => e.name \in {"cpu", "temperature"}
    PROVE  LET d == ProviderCallback(soFar, e)
           IN  /\ d \in Done
               /\ d.asked \in {soFar.asked, Append(soFar.asked, e)}
               /\ e.source = "diagnostics" =>
                      d.asked = IF "led" \in outputs /\ e.name \in Reacting
                                THEN Append(soFar.asked, e) ELSE soFar.asked
<1> DEFINE h == IF e.source = "system" THEN soFar.held \cup {e.name} ELSE soFar.held
           s == IF "display" \in outputs THEN DisplayProcess(soFar.screen, e) ELSE soFar.screen
           a == IF "led" \in outputs THEN LedProcess(soFar.asked, e) ELSE soFar.asked
           d == [held |-> h, screen |-> s, asked |-> a]
<1>1. /\ soFar.held \in SUBSET {"cpu", "temperature"} /\ soFar.screen \in Screen
      /\ soFar.asked \in Seq(Notices)
  BY DEF Done
<1>2. h \in SUBSET {"cpu", "temperature"}
  BY <1>1
<1>3. s \in Screen
  BY <1>1, DisplayProcessTyped
<1>4. /\ a \in Seq(Notices) /\ a \in {soFar.asked, Append(soFar.asked, e)}
      /\ a = IF "led" \in outputs /\ e.name \in Reacting THEN Append(soFar.asked, e) ELSE soFar.asked
  BY <1>1 DEF LedProcess
<1>5. ProviderCallback(soFar, e) = IF ~ShouldForward(e, soFar.held) THEN soFar ELSE d
  BY DEF ProviderCallback
<1> HIDE DEF h, s, a
<1>6. d \in Done /\ d.asked = a
  BY <1>2, <1>3, <1>4 DEF Done
<1> HIDE DEF d
<1>7. e.source = "diagnostics" => ShouldForward(e, soFar.held)
  BY DEF ShouldForward
<1>8. QED BY <1>4, <1>5, <1>6, <1>7

\* What else is asked for because of system events changes nothing that is told.
SameTold(after) ==
    /\ after \in Seq(Notices) /\ Len(asked) <= Len(after)
    /\ \A i \in 1 .. Len(asked) : after[i] = asked[i]
    /\ \A i \in 1 .. Len(after) : i > Len(asked) => after[i].source = "system"

LEMMA SystemEventAdds ==
    ASSUME asked \in Seq(Notices), NEW after, NEW e \in SystemNotices,
           after \in {asked, Append(asked, e)}
    PROVE  SameTold(after) /\ Len(after) <= Len(asked) + 1
<1>1. e \in Notices /\ e.source = "system"
  BY DEF SystemNotices
<1>2. CASE after = asked
  BY <1>2 DEF SameTold
<1>3. CASE after = Append(asked, e)
  <2>1. /\ after \in Seq(Notices) /\ Len(after) = Len(asked) + 1 /\ after[Len(asked) + 1] = e
        /\ \A i \in 1 .. Len(asked) : after[i] = asked[i]
    BY <1>1, <1>3
  <2>2. \A i \in 1 .. Len(after) : i > Len(asked) => i = Len(asked) + 1
    BY <2>1
  <2>3. \A i \in 1 .. Len(after) : i > Len(asked) => after[i].source = "system"
    BY <1>1, <2>1, <2>2
  <2>4. QED BY <2>1, <2>3 DEF SameTold
<1>4. QED BY <1>2, <1>3

\* A status that has nothing new to say about its own.
LEMMA SystemStatusTold ==
    ASSUME NotificationTypeOK, NEW s \in Status
    PROVE  LET d == ProcessSystemStatus(SoFar, s)
           IN  d \in Done /\ SameTold(d.asked) /\ Len(d.asked) <= Len(asked) + 1
<1> DEFINE name == IF s.name \in CpuStatus THEN "cpu" ELSE "temperature"
           e == Event(s.level, "system", name, s.value)
<1>1. SoFar \in Done /\ SoFar.asked = asked /\ asked \in Seq(Notices)
  BY DEF NotificationTypeOK, SoFar, Done
<1>2. CASE s.value = NoText \/ s.name \notin CpuStatus \cup SensorStatus
  <2>1. ProcessSystemStatus(SoFar, s) = SoFar
    BY <1>2 DEF ProcessSystemStatus
  <2>2. SameTold(asked)
    BY <1>1 DEF SameTold
  <2>3. QED BY <1>1, <2>1, <2>2
<1>3. CASE ~(s.value = NoText \/ s.name \notin CpuStatus \cup SensorStatus)
  <2>1. e \in Notices /\ e \in SystemNotices /\ e.source = "system" /\ e.name \in {"cpu", "temperature"}
    BY DEF Event, Status, Notices, SystemNotices
  <2>2. ProcessSystemStatus(SoFar, s) = ProviderCallback(SoFar, e)
    BY <1>3 DEF ProcessSystemStatus
  <2> HIDE DEF e
  <2>3. /\ ProviderCallback(SoFar, e) \in Done
        /\ ProviderCallback(SoFar, e).asked \in {SoFar.asked, Append(SoFar.asked, e)}
    BY <1>1, <2>1, CallbackTold
  <2>4. QED BY <1>1, <2>1, <2>2, <2>3, SystemEventAdds
<1>4. QED BY <1>2, <1>3

LEMMA ToldSame ==
    ASSUME NEW after, SameTold(after), asked \in Seq(Notices)
    PROVE  {i \in DOMAIN after : after[i].source = "diagnostics"} = Told
<1>1. /\ DOMAIN after = 1 .. Len(after) /\ DOMAIN asked = 1 .. Len(asked)
      /\ Len(after) \in Nat /\ Len(asked) \in Nat /\ Len(asked) <= Len(after)
      /\ \A i \in 1 .. Len(asked) : after[i] = asked[i]
      /\ \A i \in 1 .. Len(after) : i > Len(asked) => after[i].source = "system"
  BY DEF SameTold
<1>2. ASSUME NEW i \in DOMAIN after, after[i].source = "diagnostics"
      PROVE  i \in Told
  <2>1. i \in 1 .. Len(asked)
    BY <1>1, <1>2
  <2>2. QED BY <1>1, <1>2, <2>1 DEF Told
<1>3. ASSUME NEW i \in Told
      PROVE  i \in DOMAIN after /\ after[i].source = "diagnostics"
  <2>1. i \in 1 .. Len(asked) /\ asked[i].source = "diagnostics"
    BY <1>1 DEF Told
  <2>2. i \in 1 .. Len(after)
    BY <1>1, <2>1
  <2>3. QED BY <1>1, <2>1, <2>2
<1>4. QED BY <1>2, <1>3

\* The witness: which status each told change is about.
TellsAbout(about) ==
    /\ about \in [Told -> WorthTelling]
    /\ \A j \in WorthTelling : \E i \in Told : about[i] = j
    /\ \A i, k \in Told : about[i] = about[k] => i = k
    /\ \A i \in Told : LET s == received[about[i]]
                       IN  asked[i] = Event(s.level, "diagnostics", s.name, s.message)

LEMMA AboutTold == ChangesAreTold <=> ("led" \in outputs => \E about : TellsAbout(about))
  BY DEF ChangesAreTold, TellsAbout

LEMMA NothingToTell ==
    ASSUME ChangesAreTold, asked \in Seq(Notices), SameTold(asked'), UNCHANGED outputs,
           WorthTelling' = WorthTelling, \A j \in WorthTelling : received'[j] = received[j]
    PROVE  ChangesAreTold'
<1> SUFFICES ASSUME "led" \in outputs' PROVE \E about : TellsAbout(about)'
  BY AboutTold DEF ChangesAreTold, TellsAbout
<1>1. PICK about : TellsAbout(about)
  BY AboutTold
<1>2. Told' = Told
  BY ToldSame DEF Told
<1>3. \A i \in Told : asked'[i] = asked[i]
  BY DEF Told, SameTold
<1>4. \A i \in Told : about[i] \in WorthTelling
  BY <1>1 DEF TellsAbout
<1>5. \A i \in Told : received'[about[i]] = received[about[i]]
  BY <1>4
<1>6. TellsAbout(about)'
  BY <1>1, <1>2, <1>3, <1>5 DEF TellsAbout
<1>7. QED BY <1>6

-----------------------------------------------------------------------------
(* A status is received.                                                   *)

\* What was worth telling stays so.
LEMMA WorthKept ==
    ASSUME received \in Seq(Status), NEW s \in Status, received' = Append(received, s),
           NEW n, n = Len(received) + 1
    PROVE  /\ \A i \in DOMAIN received : received'[i] = received[i] /\ (Worth(i)' <=> Worth(i))
           /\ received'[n] = s /\ DOMAIN received' = DOMAIN received \cup {n}
           /\ n \notin DOMAIN received
<1>1. /\ DOMAIN received = 1 .. Len(received) /\ Len(received) \in Nat /\ n = Len(received) + 1
      /\ DOMAIN received' = 1 .. n /\ received'[n] = s
      /\ \A i \in 1 .. Len(received) : received'[i] = received[i]
  OBVIOUS
<1>2. ASSUME NEW i \in DOMAIN received
      PROVE  Worth(i)' <=> Worth(i)
  <2>1. ~LastBefore(n, i)'
    BY <1>1 DEF LastBefore
  <2>2. \A j \in DOMAIN received : LastBefore(j, i)' <=> LastBefore(j, i)
    <3> TAKE j \in DOMAIN received
    <3>1. \A k \in j + 1 .. i - 1 : k \in 1 .. Len(received)
      BY <1>1
    <3>2. QED BY <1>1, <3>1 DEF LastBefore
  <2>3. \A j \in DOMAIN received' : j \in DOMAIN received \/ j = n
    BY <1>1
  <2>4. \A j \in DOMAIN received : j \in DOMAIN received'
    BY <1>1
  <2>5. QED BY <1>1, <2>1, <2>2, <2>3, <2>4 DEF Worth
<1>3. DOMAIN received' = DOMAIN received \cup {n}
  BY <1>1
<1>4. QED BY <1>1, <1>2, <1>3

\* What was not worth telling would have said nothing new of its own, and the other way
\* round.
LEMMA WorthNew ==
    ASSUME received \in Seq(Status), KnowsLast, "none" \notin StatusName,
           NEW s \in Status, received' = Append(received, s), NEW n, n = Len(received) + 1
    PROVE  Worth(n)' <=>
               s.name \notin Ignored /\ s.name \in Reacting /\ s.level # "ok" /\ Changed(s, previous)
<1>1. /\ DOMAIN received = 1 .. Len(received) /\ Len(received) \in Nat /\ n = Len(received) + 1
      /\ DOMAIN received' = 1 .. n /\ received'[n] = s /\ s.name \in StatusName
      /\ \A i \in 1 .. Len(received) : received'[i] = received[i] /\ received[i] \in Status
  <2>1. s.name \in StatusName
    BY DEF Status
  <2>2. QED BY <2>1
<1>2. \A j \in 1 .. n : LastBefore(j, n)' <=>
          /\ j < n /\ received[j].name = s.name
          /\ \A k \in j + 1 .. n - 1 : received[k].name # s.name
  <2> TAKE j \in 1 .. n
  <2>1. \A k \in j + 1 .. n - 1 : k \in 1 .. Len(received)
    BY <1>1
  <2>2. j < n => j \in 1 .. Len(received)
    BY <1>1
  <2>3. QED BY <1>1, <2>1, <2>2 DEF LastBefore
<1>3. CASE s.name \in Ignored
  BY <1>1, <1>3 DEF Worth
<1>4. CASE s.name \notin Ignored /\ previous[s.name] = NoStatus
                                /\ \A j \in DOMAIN received : received[j].name # s.name
  <2>1. Changed(s, previous)
    BY <1>4 DEF Changed, NoStatus
  <2>2. \A j \in 1 .. n : ~LastBefore(j, n)'
    <3> TAKE j \in 1 .. n
    <3>1. j < n => j \in 1 .. Len(received)
      BY <1>1
    <3>2. QED BY <1>1, <1>2, <1>4, <3>1
  <2>3. QED BY <1>1, <1>4, <2>1, <2>2 DEF Worth
<1>5. CASE /\ s.name \notin Ignored
           /\ \E j \in DOMAIN received :
                  /\ previous[s.name] = received[j] /\ received[j].name = s.name
                  /\ \A k \in DOMAIN received : received[k].name = s.name => k <= j
  <2>1. PICK j \in DOMAIN received :
            /\ previous[s.name] = received[j] /\ received[j].name = s.name
            /\ \A k \in DOMAIN received : received[k].name = s.name => k <= j
    BY <1>5
  <2>2. LastBefore(j, n)'
    <3>1. \A k \in j + 1 .. n - 1 : k \in DOMAIN received /\ ~(k <= j)
      BY <1>1
    <3>2. \A k \in j + 1 .. n - 1 : received[k].name # s.name
      BY <2>1, <3>1
    <3>3. j \in 1 .. n /\ j < n
      BY <1>1
    <3>4. QED BY <1>2, <2>1, <3>2, <3>3
  <2>3. ASSUME NEW k \in 1 .. n, LastBefore(k, n)'
        PROVE  k = j
    <3>1. k < n /\ received[k].name = s.name /\ \A l \in k + 1 .. n - 1 : received[l].name # s.name
      BY <1>2, <2>3
    <3>2. k \in DOMAIN received
      BY <1>1, <3>1
    <3>3. k <= j
      BY <2>1, <3>1, <3>2
    <3>4. ~(j \in k + 1 .. n - 1)
      BY <2>1, <3>1
    <3>5. QED BY <1>1, <3>2, <3>3, <3>4
  <2>4. /\ received'[j] = received[j] /\ j \in 1 .. n /\ received[j].name # "none"
        /\ Changed(s, previous) <=> received[j].level # s.level \/ received[j].message # s.message
    BY <1>1, <2>1 DEF Changed
  <2>5. (\A k \in DOMAIN received' :
            LastBefore(k, n)' => received'[k].level # s.level \/ received'[k].message # s.message)
            <=> Changed(s, previous)
    BY <1>1, <2>2, <2>3, <2>4
  <2>6. QED BY <1>1, <1>5, <2>5 DEF Worth
<1>6. QED BY <1>1, <1>3, <1>4, <1>5 DEF KnowsLast

LEMMA KnowsLastKept ==
    ASSUME NotificationTypeOK, KnowsLast, NEW s \in Status, received' = Append(received, s),
           previous' = Remember(s, previous), NEW n, n = Len(received) + 1
    PROVE  KnowsLast'
<1>1. /\ DOMAIN received = 1 .. Len(received) /\ Len(received) \in Nat
      /\ DOMAIN received' = 1 .. n /\ received'[n] = s
      /\ \A i \in 1 .. Len(received) : received'[i] = received[i]
  BY DEF NotificationTypeOK
<1>2. s.name \in StatusName /\ previous \in [StatusName -> Status \cup {NoStatus}]
  BY DEF Status, NotificationTypeOK
<1>3. \A j \in 1 .. n : j = n \/ j \in 1 .. Len(received)
  BY <1>1
<1> SUFFICES ASSUME NEW m \in StatusName \ Ignored
             PROVE  \/ previous'[m] = NoStatus /\ \A j \in DOMAIN received' : received'[j].name # m
                    \/ \E j \in DOMAIN received' :
                           /\ previous'[m] = received'[j] /\ received'[j].name = m
                           /\ \A k \in DOMAIN received' : received'[k].name = m => k <= j
  BY DEF KnowsLast
<1>4. CASE m = s.name
  <2>1. previous'[m] = s
    BY <1>2, <1>4 DEF Remember
  <2>2. \A k \in DOMAIN received' : k <= n
    BY <1>1
  <2>3. n \in DOMAIN received'
    BY <1>1
  <2>4. QED BY <1>1, <1>4, <2>1, <2>2, <2>3
<1>5. CASE m # s.name
  <2>1. previous'[m] = previous[m]
    BY <1>2, <1>5 DEF Remember
  <2>2. CASE previous[m] = NoStatus /\ \A j \in DOMAIN received : received[j].name # m
    BY <1>1, <1>3, <1>5, <2>1, <2>2
  <2>3. CASE \E j \in DOMAIN received :
                 /\ previous[m] = received[j] /\ received[j].name = m
                 /\ \A k \in DOMAIN received : received[k].name = m => k <= j
    <3>1. PICK j \in DOMAIN received :
              /\ previous[m] = received[j] /\ received[j].name = m
              /\ \A k \in DOMAIN received : received[k].name = m => k <= j
      BY <2>3
    <3>2. j \in DOMAIN received' /\ received'[j] = received[j]
      BY <1>1
    <3>3. \A k \in DOMAIN received' : received'[k].name = m => k <= j
      BY <1>1, <1>3, <1>5, <3>1
    <3>4. QED BY <2>1, <3>1, <3>2, <3>3
  <2>4. QED BY <2>2, <2>3 DEF KnowsLast
<1>6. QED BY <1>4, <1>5

\* A change that is told is the last thing asked for.
LEMMA ChangeTold ==
    ASSUME ChangesAreTold, asked \in Seq(Notices), NEW mid, SameTold(mid), NEW s \in Status,
           asked' = Append(mid, Event(s.level, "diagnostics", s.name, s.message)),
           UNCHANGED outputs, "led" \in outputs, NEW n, n \notin WorthTelling, n \in Nat,
           WorthTelling' = WorthTelling \cup {n}, received'[n] = s,
           \A j \in WorthTelling : j \in Nat /\ j < n /\ received'[j] = received[j]
    PROVE  ChangesAreTold'
<1> DEFINE e == Event(s.level, "diagnostics", s.name, s.message)
<1>1. PICK about : TellsAbout(about)
  BY AboutTold
<1>2. PICK last \in Nat : last = Len(mid) + 1
  BY DEF SameTold
<1>3. e \in Notices /\ e.source = "diagnostics"
  BY DEF Event, Status, Notices
<1> HIDE DEF e
<1>4. /\ DOMAIN asked = 1 .. Len(asked) /\ Len(asked) \in Nat /\ Len(mid) \in Nat
      /\ mid \in Seq(Notices) /\ Len(asked) <= Len(mid) /\ DOMAIN mid = 1 .. Len(mid)
      /\ \A i \in 1 .. Len(asked) : mid[i] = asked[i]
  BY DEF SameTold
<1>5. /\ DOMAIN asked' = 1 .. last /\ asked'[last] = e
      /\ \A i \in 1 .. Len(mid) : asked'[i] = mid[i]
  BY <1>2, <1>3, <1>4 DEF e
<1>6. {i \in DOMAIN mid : mid[i].source = "diagnostics"} = Told
  BY ToldSame
<1>7. \A i \in Told : i \in Nat /\ i < last /\ asked'[i] = asked[i]
  <2> TAKE i \in Told
  <2>1. i \in 1 .. Len(asked)
    BY <1>4 DEF Told
  <2>2. i \in 1 .. Len(mid) /\ i < last
    BY <1>2, <1>4, <2>1
  <2>3. QED BY <1>4, <1>5, <2>1, <2>2
<1>8. Told' = Told \cup {last}
  <2>1. \A i \in 1 .. last : i = last \/ i \in 1 .. Len(mid)
    BY <1>2, <1>4
  <2>2. \A i \in 1 .. Len(mid) : i \in 1 .. last
    BY <1>2, <1>4
  <2>3. last \in 1 .. last
    BY <1>2, <1>4
  <2>4. Told' = {i \in 1 .. last : asked'[i].source = "diagnostics"}
    BY <1>5 DEF Told
  <2>5. Told = {i \in 1 .. Len(mid) : mid[i].source = "diagnostics"}
    BY <1>4, <1>6
  <2>6. QED BY <1>3, <1>5, <2>1, <2>2, <2>3, <2>4, <2>5
<1>9. last \notin Told
  BY <1>7
<1> DEFINE of == [i \in Told' |-> IF i \in Told THEN about[i] ELSE n]
<1>10. \A i \in Told : of[i] = about[i] /\ of[i] \in WorthTelling
  BY <1>1, <1>8 DEF TellsAbout
<1>11. of[last] = n
  BY <1>8, <1>9
<1>12. of \in [Told' -> WorthTelling']
  BY <1>8, <1>10, <1>11
<1> HIDE DEF of
<1>13. \A j \in WorthTelling' : \E i \in Told' : of[i] = j
  BY <1>1, <1>8, <1>10, <1>11 DEF TellsAbout
<1>14. \A i, k \in Told' : of[i] = of[k] => i = k
  <2> SUFFICES ASSUME NEW i \in Told', NEW k \in Told', of[i] = of[k] PROVE i = k
    OBVIOUS
  <2>1. CASE i \in Told /\ k \in Told
    BY <1>1, <1>10, <2>1 DEF TellsAbout
  <2>2. CASE i = last \/ k = last
    BY <1>8, <1>10, <1>11, <2>2
  <2>3. QED BY <1>8, <2>1, <2>2
<1>15. ASSUME NEW i \in Told'
       PROVE  LET t == received'[of[i]]
              IN  asked'[i] = Event(t.level, "diagnostics", t.name, t.message)
  <2>1. CASE i \in Told
    <3>1. of[i] = about[i] /\ about[i] \in WorthTelling /\ asked'[i] = asked[i]
      BY <1>7, <1>10, <2>1
    <3>2. received'[of[i]] = received[about[i]]
      BY <3>1
    <3>3. LET t == received[about[i]]
          IN  asked[i] = Event(t.level, "diagnostics", t.name, t.message)
      BY <1>1, <2>1 DEF TellsAbout
    <3>4. QED BY <3>1, <3>2, <3>3
  <2>2. CASE i = last
    BY <1>5, <1>11, <2>2 DEF e
  <2>3. QED BY <1>8, <2>1, <2>2
<1>16. QED BY <1>12, <1>13, <1>14, <1>15 DEF ChangesAreTold

LEMMA DiagnoseKeeps ==
    ASSUME NotificationInv, Diagnose
    PROVE  NotificationInv'
<1> DEFINE s == Head(diagnosed)
           sys == ProcessSystemStatus(SoFar, s)
           e == Event(s.level, "diagnostics", s.name, s.message)
           d == ProcessStatus(SoFar, s, previous)
<1>1. /\ s \in Status /\ Tail(diagnosed) \in Seq(Status) /\ Len(Tail(diagnosed)) <= TopicDepth
      /\ received \in Seq(Status) /\ asked \in Seq(Notices) /\ Len(received) \in Nat
      /\ Len(asked) \in Nat /\ readings \in Nat /\ Len(asked) <= 2 * Len(received) + readings
  BY NotificationAssumption DEF NotificationInv, NotificationTypeOK, Diagnose
<1>2. /\ held' = d.held /\ screen' = d.screen /\ asked' = d.asked
      /\ previous' = Remember(s, previous) /\ received' = Append(received, s)
      /\ diagnosed' = Tail(diagnosed) /\ UNCHANGED <<outputs, display, displayed, readings>>
  BY DEF Diagnose, Become
<1>3. sys \in Done /\ SameTold(sys.asked) /\ Len(sys.asked) <= Len(asked) + 1
  BY <1>1, SystemStatusTold DEF NotificationInv
<1>4. e \in Notices /\ e.source = "diagnostics" /\ e.name = s.name
  BY <1>1 DEF Event, Status, Notices
<1> DEFINE new == s.name \notin Ignored /\ Changed(s, previous) /\ s.level # "ok"
<1>5. d = IF new THEN ProviderCallback(sys, e) ELSE sys
  BY DEF ProcessStatus
<1> DEFINE tells == new /\ s.name \in Reacting /\ "led" \in outputs
<1>6. /\ d \in Done /\ d.asked = IF tells THEN Append(sys.asked, e) ELSE sys.asked
  <2>1. /\ ProviderCallback(sys, e) \in Done
        /\ ProviderCallback(sys, e).asked = IF "led" \in outputs /\ s.name \in Reacting
                                            THEN Append(sys.asked, e) ELSE sys.asked
    <3> HIDE DEF e, sys, s
    <3>1. QED BY <1>3, <1>4, CallbackTold
  <2>2. QED BY <1>3, <1>5, <2>1
<1> HIDE DEF d, sys
<1>7. /\ held' \subseteq {"cpu", "temperature"} /\ screen' \in Screen /\ asked' \in Seq(Notices)
  BY <1>2, <1>6 DEF Done
<1>8. Len(asked') <= Len(sys.asked) + 1 /\ Len(sys.asked) \in Nat
  <2>1. sys.asked \in Seq(Notices)
    BY <1>3 DEF Done
  <2>2. Len(sys.asked) \in Nat /\ Len(Append(sys.asked, e)) = Len(sys.asked) + 1
    BY <1>4, <2>1
  <2>3. asked' \in {sys.asked, Append(sys.asked, e)}
    BY <1>2, <1>6
  <2>4. QED BY <2>2, <2>3
<1>9. previous' \in [StatusName -> Status \cup {NoStatus}]
  BY <1>1, <1>2 DEF NotificationInv, NotificationTypeOK, Remember
<1>10. NotificationTypeOK'
  <2>1. received' \in Seq(Status) /\ Len(received') = Len(received) + 1
    BY <1>1, <1>2
  <2>2. Len(asked') <= 2 * Len(received') + readings'
    <3>1. Len(asked') \in Nat
      BY <1>7
    <3>2. QED BY <1>1, <1>2, <1>3, <1>8, <2>1, <3>1
  <2>3. QED BY <1>1, <1>2, <1>7, <1>9, <2>1, <2>2 DEF NotificationInv, NotificationTypeOK
<1>11. PICK n \in Nat : n = Len(received) + 1
  BY <1>1
<1>12. KnowsLast'
  BY <1>1, <1>2, <1>11, KnowsLastKept DEF NotificationInv
<1>13. /\ \A i \in DOMAIN received : received'[i] = received[i] /\ (Worth(i)' <=> Worth(i))
       /\ received'[n] = s /\ DOMAIN received' = DOMAIN received \cup {n}
       /\ n \notin DOMAIN received
  BY <1>1, <1>2, <1>11, WorthKept
<1>14. Worth(n)' <=> new /\ s.name \in Reacting
  BY <1>1, <1>2, <1>11, WorthNew, NotificationAssumption DEF NotificationInv
<1>15. ChangesAreTold'
  <2>1. CASE tells
    <3>1. WorthTelling' = WorthTelling \cup {n} /\ n \notin WorthTelling
      BY <1>13, <1>14, <2>1 DEF WorthTelling
    <3>2. \A j \in WorthTelling : j \in Nat /\ j < n /\ received'[j] = received[j]
      <4>1. \A j \in DOMAIN received : j \in Nat /\ j < n
        BY <1>1, <1>11
      <4>2. QED BY <1>13, <4>1 DEF WorthTelling
    <3>3. asked' = Append(sys.asked, e)
      BY <1>2, <1>6, <2>1
    <3>4. ChangesAreTold
      BY DEF NotificationInv
    <3>5. QED BY <1>1, <1>2, <1>3, <1>11, <1>13, <2>1, <3>1, <3>2, <3>3, <3>4, ChangeTold
  <2>2. CASE ~tells
    <3>1. CASE "led" \notin outputs
      BY <1>2, <3>1 DEF ChangesAreTold
    <3>2. CASE "led" \in outputs
      <4>1. ~Worth(n)'
        BY <1>14, <2>2, <3>2
      <4>2. WorthTelling' = WorthTelling
        BY <1>13, <4>1 DEF WorthTelling
      <4>3. \A j \in WorthTelling : received'[j] = received[j]
        BY <1>13 DEF WorthTelling
      <4>4. SameTold(asked')
        <5>1. asked' = sys.asked
          BY <1>2, <1>6, <2>2
        <5>2. QED BY <1>3, <5>1
      <4>5. QED BY <1>1, <1>2, <4>2, <4>3, <4>4, NothingToTell DEF NotificationInv
    <3>3. QED BY <3>1, <3>2
  <2>3. QED BY <2>1, <2>2
<1>16. InvertedOnlyForAlert'
  BY <1>2 DEF NotificationInv, InvertedOnlyForAlert
<1>17. QED BY <1>10, <1>12, <1>15, <1>16 DEF NotificationInv

LEMMA TemperatureKeeps ==
    ASSUME NotificationInv, TemperatureUpdate
    PROVE  NotificationInv'
<1>1. /\ readings' = readings + 1 /\ readings < MaxReadings
      /\ UNCHANGED <<outputs, diagnosed, previous, display, displayed, received>>
  BY DEF TemperatureUpdate
<1>2. /\ received \in Seq(Status) /\ asked \in Seq(Notices) /\ Len(received) \in Nat
      /\ Len(asked) \in Nat /\ readings \in Nat /\ MaxReadings \in Nat
      /\ Len(asked) <= 2 * Len(received) + readings
  BY NotificationAssumption DEF NotificationInv, NotificationTypeOK
<1>3. PICK e \in SystemNotices : Become(ProviderCallback(SoFar, e))
  <2>1. \A text \in Text : Event(Severity[text], "system", "temperature", text) \in SystemNotices
    BY NotificationAssumption DEF Event, SystemNotices, Notices, Level
  <2>2. Event("stale", "system", "temperature", NoText) \in SystemNotices
    BY DEF Event, SystemNotices, Notices, Level
  <2>3. QED BY <2>1, <2>2 DEF TemperatureUpdate
<1> DEFINE d == ProviderCallback(SoFar, e)
<1>4. held' = d.held /\ screen' = d.screen /\ asked' = d.asked
  BY <1>3 DEF Become
<1>5. d \in Done /\ d.asked \in {asked, Append(asked, e)}
  <2>1. SoFar \in Done /\ SoFar.asked = asked
    BY DEF NotificationInv, NotificationTypeOK, SoFar, Done
  <2>2. e \in Notices /\ (e.source = "system" => e.name \in {"cpu", "temperature"})
    BY DEF SystemNotices
  <2>3. QED BY <2>1, <2>2, CallbackTold
<1> HIDE DEF d
<1>6. SameTold(asked') /\ Len(asked') <= Len(asked) + 1
  BY <1>2, <1>4, <1>5, SystemEventAdds
<1>7. held' \subseteq {"cpu", "temperature"} /\ screen' \in Screen /\ asked' \in Seq(Notices)
  BY <1>4, <1>5 DEF Done
<1>8. NotificationTypeOK'
  <2>1. Len(asked') <= 2 * Len(received') + readings' /\ readings' \in 0 .. MaxReadings
    <3>1. Len(asked') \in Nat
      BY <1>7
    <3>2. QED BY <1>1, <1>2, <1>6, <3>1
  <2>2. QED BY <1>1, <1>7, <2>1 DEF NotificationInv, NotificationTypeOK
<1>9. KnowsLast'
  BY <1>1 DEF NotificationInv, KnowsLast
<1>10. WorthTelling' = WorthTelling
  BY <1>1 DEF WorthTelling, Worth, LastBefore
<1>11. ChangesAreTold'
  BY <1>1, <1>2, <1>6, <1>10, NothingToTell DEF NotificationInv
<1>12. InvertedOnlyForAlert'
  BY <1>1 DEF NotificationInv, InvertedOnlyForAlert
<1>13. QED BY <1>8, <1>9, <1>11, <1>12 DEF NotificationInv

\* What is neither received nor asked for leaves what was told as it is.
LEMMA OthersTellNothing ==
    ASSUME NotificationInv, UNCHANGED <<outputs, previous, received, asked>>
    PROVE  KnowsLast' /\ ChangesAreTold'
<1>1. KnowsLast'
  BY DEF NotificationInv, KnowsLast
<1>2. WorthTelling' = WorthTelling /\ Told' = Told
  BY DEF WorthTelling, Worth, LastBefore, Told
<1>3. ChangesAreTold'
  BY <1>2 DEF NotificationInv, ChangesAreTold
<1>4. QED BY <1>1, <1>3

LEMMA DrawKeeps ==
    ASSUME NotificationInv, RenderAndSend
    PROVE  NotificationInv'
<1>1. /\ "display" \in outputs /\ screen' = Render(screen)
      /\ display' = (IF displayed THEN display ELSE screen') /\ displayed' = TRUE
      /\ UNCHANGED <<outputs, diagnosed, previous, held, received, readings, asked>>
  BY DEF RenderAndSend, OnImage
<1>2. screen' \in Screen /\ (screen'.inverted => screen'.alerts # {})
  BY <1>1 DEF Render, NotificationInv, NotificationTypeOK, Screen
<1>3. NotificationTypeOK'
  BY <1>1, <1>2 DEF NotificationInv, NotificationTypeOK
<1>4. InvertedOnlyForAlert'
  BY <1>1, <1>2 DEF NotificationInv, InvertedOnlyForAlert
<1>5. QED BY <1>1, <1>3, <1>4, OthersTellNothing DEF NotificationInv

LEMMA PublishKeeps ==
    ASSUME NotificationInv, NEW s \in Published, Publish(s)
    PROVE  NotificationInv'
<1>1. /\ diagnosed' = Append(IF Len(diagnosed) < TopicDepth THEN diagnosed ELSE Tail(diagnosed), s)
      /\ UNCHANGED <<outputs, previous, held, screen, display, displayed, received, readings, asked>>
  BY DEF Publish
<1>2. diagnosed' \in Seq(Status) /\ Len(diagnosed') <= TopicDepth
  <2>1. /\ diagnosed \in Seq(Status) /\ Len(diagnosed) \in Nat /\ Len(diagnosed) <= TopicDepth
        /\ TopicDepth \in Nat \ {0} /\ s \in Status
    BY NotificationAssumption DEF NotificationInv, NotificationTypeOK
  <2>2. CASE Len(diagnosed) < TopicDepth
    BY <1>1, <2>1, <2>2
  <2>3. CASE ~(Len(diagnosed) < TopicDepth)
    BY <1>1, <2>1, <2>3
  <2>4. QED BY <2>2, <2>3
<1>3. NotificationTypeOK' /\ InvertedOnlyForAlert'
  BY <1>1, <1>2 DEF NotificationInv, NotificationTypeOK, InvertedOnlyForAlert
<1>4. QED BY <1>1, <1>3, OthersTellNothing DEF NotificationInv

LEMMA PeriodsKeep ==
    ASSUME NotificationInv, SystemEventPeriodPasses \/ DisplayPeriodPasses
    PROVE  NotificationInv'
<1>1. /\ UNCHANGED <<outputs, diagnosed, previous, screen, display, received, readings, asked>>
      /\ held' \subseteq held /\ displayed' \in {displayed, FALSE}
  BY DEF SystemEventPeriodPasses, DisplayPeriodPasses
<1>2. NotificationTypeOK' /\ InvertedOnlyForAlert'
  BY <1>1 DEF NotificationInv, NotificationTypeOK, InvertedOnlyForAlert
<1>3. QED BY <1>1, <1>2, OthersTellNothing DEF NotificationInv

LEMMA NotificationStarts == NotificationInit => NotificationInv
<1> SUFFICES ASSUME NotificationInit PROVE NotificationInv
  OBVIOUS
<1>1. <<>> \in Seq(Status) /\ <<>> \in Seq(Notices)
  OBVIOUS
<1>2. BlankScreen \in Screen /\ ~BlankScreen.inverted /\ BlankScreen.alerts = {}
  BY DEF BlankScreen, Screen
<1>3. NotificationTypeOK
  <2>1. previous \in [StatusName -> Status \cup {NoStatus}]
    BY DEF NotificationInit
  <2>2. /\ Len(<<>>) = 0 /\ 0 \in 0 .. MaxReadings /\ 0 <= TopicDepth /\ 0 <= 2 * 0 + 0
    BY NotificationAssumption
  <2>3. outputs \subseteq {"led", "display"} /\ held \subseteq {"cpu", "temperature"}
    BY DEF NotificationInit
  <2>4. Len(diagnosed) <= TopicDepth /\ Len(asked) <= 2 * Len(received) + readings
    BY <2>2 DEF NotificationInit
  <2>5. readings \in 0 .. MaxReadings /\ displayed \in BOOLEAN
    BY <2>2 DEF NotificationInit
  <2>6. screen \in Screen /\ display \in Screen
    BY <1>2 DEF NotificationInit
  <2>7. diagnosed \in Seq(Status) /\ asked \in Seq(Notices) /\ received \in Seq(Status)
    BY <1>1 DEF NotificationInit
  <2>8. QED BY <2>1, <2>3, <2>4, <2>5, <2>6, <2>7 DEF NotificationTypeOK
<1>4. KnowsLast
  <2>1. \A n \in StatusName : previous[n] = NoStatus
    BY DEF NotificationInit
  <2>2. \A j \in DOMAIN received : FALSE
    BY DEF NotificationInit
  <2>3. QED BY <2>1, <2>2 DEF KnowsLast
<1>5. Told = {} /\ WorthTelling = {}
  BY DEF NotificationInit, Told, WorthTelling
<1>6. ChangesAreTold
  <2>1. [i \in Told |-> i] \in [Told -> WorthTelling]
    BY <1>5
  <2>2. QED BY <1>5, <2>1 DEF ChangesAreTold
<1>7. InvertedOnlyForAlert
  BY <1>2 DEF NotificationInit, InvertedOnlyForAlert
<1>8. QED BY <1>3, <1>4, <1>6, <1>7 DEF NotificationInv

\* Each turn of a status for the worse is told, once and as what it was, whatever is
\* forgotten, repeated or throttled between (process_status, should_forward_event,
\* push2queue, display_screen::render).
THEOREM EventsAlwaysReachOutputs == NotificationSpec => []EventsReachOutputs
<1>1. NotificationInv /\ [NotificationNext]_notificationVars => NotificationInv'
  <2> SUFFICES ASSUME NotificationInv, [NotificationNext]_notificationVars PROVE NotificationInv'
    OBVIOUS
  <2>1. CASE NotificationNext
    BY <2>1, DiagnoseKeeps, TemperatureKeeps, DrawKeeps, PublishKeeps, PeriodsKeep
       DEF NotificationNext
  <2>2. CASE UNCHANGED notificationVars
    <3>1. NotificationTypeOK' /\ InvertedOnlyForAlert'
      BY <2>2 DEF NotificationInv, NotificationTypeOK, InvertedOnlyForAlert, notificationVars
    <3>2. QED BY <2>2, <3>1, OthersTellNothing DEF NotificationInv, notificationVars
  <2>3. QED BY <2>1, <2>2
<1>2. NotificationInv => EventsReachOutputs
  BY DEF NotificationInv, EventsReachOutputs
<1>3. QED BY <1>1, <1>2, NotificationStarts, PTL DEF NotificationSpec
=============================================================================
