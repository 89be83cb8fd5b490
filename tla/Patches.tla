------------------------------ MODULE Patches ------------------------------
(***************************************************************************)
(* apply_patches.py: the patches of a directory, applied to a repository   *)
(* in the order of their names. When one does not apply, those applied     *)
(* before it are taken back.                                               *)
(***************************************************************************)
EXTENDS Naturals, SequencesExt

CONSTANT PatchCount \* patches there are; patch i is the i-th by name

ASSUME PatchAssumption == PatchCount \in Nat

Patch == 1 .. PatchCount

VARIABLES
    touches,  \* patch -> the patches whose lines it changes, and that it stands on
    bad,      \* the patches that do not fit what is in the repository
    tree,     \* the patches the repository has, in the order they were applied
    found,    \* the tree the script began with
    applied,  \* applied_patch_list: newest first
    listed,   \* the patches still to apply
    script    \* "applying", "unwinding", or how it ended: "done", "refused", "broken"

patchVars == <<touches, bad, tree, found, applied, listed, script>>

Held == {tree[i] : i \in DOMAIN tree}

PatchInit ==
    /\ touches \in {f \in [Patch -> SUBSET Patch] : \A p \in Patch : f[p] \subseteq 1 .. (p - 1)}
    /\ bad \in SUBSET Patch
    /\ tree \in {<<>>, <<1>>} /\ found = tree
    /\ applied = <<>>
    /\ listed = [i \in Patch |-> i]
    /\ script = "applying"

\* git apply changes all the files of a patch or none.
GitApplies(p) == p \notin bad /\ p \notin Held /\ touches[p] \subseteq Held
GitReverts(p) == p \in Held /\ \A q \in Held : p \notin touches[q]

ApplyPatch ==
    /\ script = "applying" /\ listed # <<>>
    /\ LET p == Head(listed)
       IN IF GitApplies(p)
          THEN /\ tree' = Append(tree, p)
               /\ applied' = <<p>> \o applied
               /\ listed' = Tail(listed)
               /\ UNCHANGED script
          ELSE script' = "unwinding" /\ UNCHANGED <<tree, applied, listed>>
    /\ UNCHANGED <<touches, bad, found>>

\* patches_unwind()
Unwind ==
    /\ script = "unwinding" /\ applied # <<>>
    /\ LET p == Head(applied)
       IN IF GitReverts(p)
          THEN /\ \E i \in DOMAIN tree : tree[i] = p /\ tree' = RemoveAt(tree, i)
               /\ applied' = Tail(applied)
               /\ UNCHANGED script
          ELSE script' = "broken" /\ UNCHANGED <<tree, applied>>
    /\ UNCHANGED <<touches, bad, found, listed>>

FinishPatches ==
    /\ \/ script = "applying" /\ listed = <<>> /\ script' = "done"
       \/ script = "unwinding" /\ applied = <<>> /\ script' = "refused"
    /\ UNCHANGED <<touches, bad, tree, found, applied, listed>>

PatchNext == ApplyPatch \/ Unwind \/ FinishPatches

\* The script applies all the patches or leaves the repository as it found it, whatever
\* stands on what: unwinding never fails (apply_patches, patches_unwind).
AllOrNone ==
    /\ script # "broken"
    /\ script = "done" => tree = found \o [i \in Patch |-> i]
    /\ script = "refused" => tree = found
=============================================================================
