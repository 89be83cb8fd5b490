------------------------------ MODULE Releases ------------------------------
(***************************************************************************)
(* Versions of the project: the release workflow, which asks the version   *)
(* tool for the next version, commits it, and pushes the commit and its    *)
(* tag one after the other. One job runs at a time; another waits, and is  *)
(* replaced by a newer one. A job works on the commit it was dispatched    *)
(* at, however far master has gone since.                                  *)
(***************************************************************************)
EXTENDS Naturals, Sequences

CONSTANTS
    Package,    \* the packages with a version of their own
    Reference,  \* the package whose version is the project's
    Bump,       \* the fields a release may bump
    MaxMerges,  \* bound on what developers merge
    MaxJobs     \* bound on the jobs dispatched

ASSUME ReleasesAssumption ==
    /\ Reference \in Package /\ Bump \subseteq {"major", "minor", "patch"}
    /\ MaxMerges \in Nat /\ MaxJobs \in Nat

VARIABLES
    master,     \* origin/master: the versions of the packages at every commit
    tags,       \* the tags of origin, in the order they were pushed
    waiting,    \* the job that waits, NoJob for none
    job,        \* the job under way, NoJob for none
    dispatched  \* jobs there have been

releaseVars == <<master, tags, waiting, job, dispatched>>

\* What the workflow is asked for: a release or a candidate, and the tag to promote, 0 for
\* none. Nothing keeps a tag to promote out of a request for a candidate.
Requests == [channel : {"stable", "pre-release"}, bump : Bump, from : {0} \cup DOMAIN tags]

NoJob == [step |-> "none"]

\* A stable version is one whose rc is 0.
Version(base, rc) == [base |-> base, rc |-> rc]
Stable(base) == Version(base, 0)

BaseLess(a, b) ==
    \E i \in 1 .. 3 : a[i] < b[i] /\ \A j \in 1 .. (i - 1) : a[j] = b[j]
Less(v, w) ==
    \/ BaseLess(v.base, w.base)
    \/ v.base = w.base /\ v.rc # 0 /\ (w.rc = 0 \/ v.rc < w.rc)

Bumped(base, field) ==
    CASE field = "major" -> <<base[1] + 1, 0, 0>>
      [] field = "minor" -> <<base[1], base[2] + 1, 0>>
      [] field = "patch" -> <<base[1], base[2], base[3] + 1>>

Tagged == {tags[i].version : i \in DOMAIN tags}

ReleaseInit ==
    /\ master = <<[p \in Package |-> <<0, 1, 0>>]>>
    /\ tags \in {<<>>, <<[version |-> Stable(<<0, 1, 0>>), commit |-> master[1], on |-> 1, from |-> 0]>>}
    /\ waiting = NoJob /\ job = NoJob /\ dispatched = 0

-----------------------------------------------------------------------------
\* A developer's merge. A new package may come with a version of its own.
Merge ==
    /\ Len(master) - 1 < MaxMerges
    /\ \E p \in Package \ {Reference} :
           \E base \in {<<0, 0, 0>>, master[Len(master)][p]} :
               master' = Append(master, [master[Len(master)] EXCEPT ![p] = base])
    /\ UNCHANGED <<tags, waiting, job, dispatched>>

\* A new job, at the head of master, or one of before run again.
Dispatch ==
    /\ dispatched < MaxJobs
    /\ dispatched' = dispatched + 1
    /\ \E at \in DOMAIN master, r \in Requests :
           waiting' = [step |-> "waiting", at |-> at, request |-> r]
    /\ UNCHANGED <<master, tags, job>>

\* write_all()
Written(base) == [p \in Package |-> base]

Prepared(tag, base, changed) ==
    job' = [step |-> "prepared", at |-> waiting.at, from |-> waiting.request.from,
            tag |-> tag, changed |-> changed,
            work |-> IF changed THEN Written(base) ELSE master[waiting.at]]

\* bump()
PrepareStable(base) ==
    /\ waiting.request.channel = "stable" /\ waiting.request.from = 0
    /\ LET next == Bumped(base, waiting.request.bump) IN Prepared(Stable(next), next, TRUE)

\* The numbers of the candidates there are of a version.
Candidates(base) == {v.rc : v \in {t \in Tagged : t.base = base}} \ {0}

\* bump_rc(): the next of the candidates there are, the first of a version not released
\* yet, or the first of the next version. The tag to promote has no say.
PrepareCandidate(base) ==
    /\ waiting.request.channel = "pre-release"
    /\ LET rcs == Candidates(base)
           next == Bumped(base, waiting.request.bump)
       IN CASE rcs # {} -> Prepared(Version(base, 1 + CHOOSE n \in rcs : \A k \in rcs : k <= n), base, FALSE)
            [] rcs = {} /\ Stable(base) \in Tagged -> Prepared(Version(next, 1), next, TRUE)
            [] OTHER -> Prepared(Version(base, 1), base, FALSE)

\* compose(): the version of a tag is the tag's, with its suffix, so that the job ends at
\* the tag there is already.
PreparePromotion(base) ==
    /\ waiting.request.channel = "stable" /\ waiting.request.from # 0
    /\ Prepared(tags[waiting.request.from].version, base, FALSE)

\* The job checks its commit out, with the tags there are, and finds the next version in
\* its checkout. Tags are pushed by jobs alone.
Prepare ==
    /\ job = NoJob /\ waiting # NoJob
    /\ waiting' = NoJob
    /\ LET base == master[waiting.at][Reference]
       IN PrepareStable(base) \/ PrepareCandidate(base) \/ PreparePromotion(base)
    /\ UNCHANGED <<master, tags, dispatched>>

\* A tag that exists ends the job.
CommitAndTag ==
    /\ job.step = "prepared"
    /\ job' = IF job.tag \in Tagged THEN NoJob ELSE [job EXCEPT !.step = "tagged"]
    /\ UNCHANGED <<master, tags, waiting, dispatched>>

\* Refused when master is not where the job found it.
PushMaster ==
    /\ job.step = "tagged"
    /\ IF job.at = Len(master)
       THEN /\ master' = IF job.changed THEN Append(master, job.work) ELSE master
            /\ job' = [job EXCEPT !.step = "pushed"]
       ELSE job' = NoJob /\ UNCHANGED master
    /\ UNCHANGED <<tags, waiting, dispatched>>

\* The head of the job's checkout: its release commit, or the commit it was dispatched at.
JobHead == IF job.changed THEN job.at + 1 ELSE job.at

\* The tag goes on the commit of the tag to promote whenever one was named, and otherwise
\* on the job's own.
PushTag ==
    /\ job.step = "pushed"
    /\ tags' = Append(tags,
           IF job.from = 0
           THEN [version |-> job.tag, commit |-> job.work, on |-> JobHead, from |-> 0]
           ELSE [tags[job.from] EXCEPT !.version = job.tag, !.from = job.from])
    /\ job' = NoJob
    /\ UNCHANGED <<master, waiting, dispatched>>

\* The runner is lost, or a push fails.
JobDies ==
    /\ job # NoJob
    /\ job' = NoJob
    /\ UNCHANGED <<master, tags, waiting, dispatched>>

ReleaseNext ==
    Merge \/ Dispatch \/ Prepare \/ CommitAndTag \/ PushMaster \/ PushTag \/ JobDies

-----------------------------------------------------------------------------
\* Every tag is newer than those before it, jobs that died half-way and jobs run again
\* included (release.yml, bump, bump_rc).
TagsAscend == \A i, j \in DOMAIN tags : i < j => Less(tags[i].version, tags[j].version)

\* What is tagged is on master, and no tag names a version older than the packages have
\* there. Where the tag is on the job's own commit they have the very version: all of them
\* when the release bumped it (write_all), the reference for a candidate. A candidate for
\* which a tag to promote was named is on that tag's commit, which need not have its
\* version (release.yml, PROMOTE_FROM).
TagsTrue ==
    \A i \in DOMAIN tags :
        LET t == tags[i]
        IN /\ t.on \in DOMAIN master /\ master[t.on] = t.commit
           /\ ~BaseLess(t.version.base, t.commit[Reference])
           /\ t.from = 0 =>
                  /\ t.commit[Reference] = t.version.base
                  /\ t.version.rc = 0 => t.commit = Written(t.version.base)

ReleasesSound == TagsAscend /\ TagsTrue
=============================================================================
