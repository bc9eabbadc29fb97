------------------------- MODULE WorkspaceDelivery -------------------------
(***************************************************************************)
(* How a run's changes reach a pull request: the prepared worktree         *)
(* (core/nodes, cli/workspaces.go), the commit, push and pull-request      *)
(* nodes (cli/workflow_delivery.go) over the Git adapter and the GitHub    *)
(* CLI adapter.  Every node visit pins its intent before it acts; the      *)
(* daemon may stop between any two commands, an answer may be lost, and a  *)
(* repeated visit has to find out what already happened.  The worktree,    *)
(* the remote branch and the pull requests may change under it.            *)
(***************************************************************************)
EXTENDS Naturals, Sequences, FiniteSets, SequencesExt

CONSTANTS Trees,        \* what the files may hold
          Plan,         \* the run's nodes in order: "prepare", "edit", "commit", "push", "pr"
          MaxCrashes, MaxLost, MaxStray, MaxRemote  \* bounds

VARIABLES stage,        \* the node of the plan that is next
          job,          \* the attempt at work: [at] and what it holds in memory
          main,         \* the project's base branch
          record,       \* workflow_workspaces: [base, head] or Unset
          work,         \* the branch and its worktree: [at, head, index, files]
          sealed,       \* what the last edit left, sealed as its changeset
          intent,       \* workflow_delivery_intents: stage -> what was pinned
          published,    \* workflow_publications: the tip last pushed
          accepted,     \* stage -> the commit a commit node answered with
          remote,       \* the branch at the remote
          pulls,        \* the pull requests of the branch: [owner, rev, head, state]
          crashes, lost, stray, foreign

vars == <<stage, job, main, record, work, sealed, intent, published, accepted, remote, pulls, crashes, lost, stray, foreign>>
bounds == <<crashes, lost, stray, foreign>>
local == <<main, record, work>>
github == <<remote, pulls>>

\* A commit is its history, first parent first: what it holds and who made it.
Made(tree, op) == [tree |-> tree, op |-> op]
Base == <<Made("t0", 0)>>
Unset == <<>>
TreeOf(c) == Last(c).tree
Idle == [at |-> "idle", seen |-> Unset, next |-> Unset]

Init ==
    /\ stage = 1 /\ job = Idle /\ main = Base /\ record = [base |-> Unset, head |-> Unset]
    /\ work = [at |-> "absent", head |-> Unset, index |-> "t0", files |-> "t0"]
    /\ sealed = "t0" /\ intent = [s \in {} |-> Unset] /\ published = Unset /\ accepted = [s \in {} |-> Unset]
    /\ remote = Unset /\ pulls = {} /\ crashes = 0 /\ lost = 0 /\ stray = 0 /\ foreign = 0

-----------------------------------------------------------------------------
Node == IF stage <= Len(Plan) THEN Plan[stage] ELSE "over"
Goes(at) == job' = [job EXCEPT !.at = at]
\* The attempt fails; the run's owner may have it tried again, as the same visit.
Fails == job' = Idle
Done == stage' = stage + 1 /\ job' = Idle
Pin(value) == intent' = [s \in DOMAIN intent \cup {stage} |-> IF s = stage THEN value ELSE intent[s]]
Pinned == stage \in DOMAIN intent
Start ==
    /\ job.at = "idle" /\ Node \in {"prepare", "commit", "push", "pr"} /\ Goes("start")
    /\ UNCHANGED <<stage, local, sealed, intent, published, accepted, github, bounds>>

\* resolveDeliveryWorkspace: the worktree is there, at the recorded head unless
\* a commit is being recovered.
Expected == IF record.head = Unset THEN record.base ELSE record.head
Resolved(recovering) == work.at = "ready" /\ (recovering \/ work.head = Expected)
\* candidateTree: all files, through an index of its own.
Snapshot == work.files
\* CaptureCandidate: there is something to commit, on that parent.
Dirty == Snapshot # TreeOf(work.head)
Candidate == [parent |-> work.head, tree |-> Snapshot]
OnParent(c) == work.head = c.parent

\* PrepareWorkspace: the base is resolved once and recorded.
PrepareRecord ==
    /\ Node = "prepare" /\ job.at = "start" /\ record.base = Unset
    /\ record' = [record EXCEPT !.base = main]
    /\ UNCHANGED <<stage, job, main, work, sealed, intent, published, accepted, github, bounds>>
\* Attach: git makes the branch, then the worktree.  A branch without its
\* worktree is somebody else's.
AttachBranch ==
    /\ Node = "prepare" /\ job.at = "start" /\ record.base # Unset /\ ~Resolved(FALSE)
    /\ IF work.at = "absent"
       THEN work' = [work EXCEPT !.at = "branch", !.head = record.base] /\ Goes("attach")
       ELSE Fails /\ UNCHANGED work
    /\ UNCHANGED <<stage, main, record, sealed, intent, published, accepted, github, bounds>>
AttachWorktree ==
    /\ job.at = "attach" /\ Goes("start")
    /\ work' = [work EXCEPT !.at = "ready", !.index = TreeOf(work.head), !.files = TreeOf(work.head)]
    /\ UNCHANGED <<stage, main, record, sealed, intent, published, accepted, github, bounds>>
Prepared ==
    /\ Node = "prepare" /\ job.at = "start" /\ Resolved(FALSE) /\ Done
    /\ UNCHANGED <<local, sealed, intent, published, accepted, github, bounds>>

\* (external) The implementation node: an agent writes and its changeset is sealed.
Edit ==
    /\ Node = "edit" /\ work.at = "ready"
    /\ \E t \in Trees \ {TreeOf(work.head)} : work' = [work EXCEPT !.files = t] /\ sealed' = t
    /\ Done /\ UNCHANGED <<main, record, intent, published, accepted, github, bounds>>

-----------------------------------------------------------------------------
\* CaptureCandidate, pinned: the tree as it is, on the recorded head.
CommitPlan ==
    /\ Node = "commit" /\ job.at = "start"
    /\ IF Pinned THEN Goes("check") /\ UNCHANGED intent
       ELSE IF Resolved(FALSE) /\ Dirty
       THEN Pin(Candidate) /\ Goes("check")
       ELSE Fails /\ UNCHANGED intent
    /\ UNCHANGED <<stage, local, sealed, published, accepted, github, bounds>>
\* (A mutant of CommitCheck.)
CommitCheckNothing ==
    /\ Node = "commit" /\ job.at = "check"
    /\ IF Resolved(TRUE) THEN job' = [job EXCEPT !.at = "capture", !.seen = record.head] ELSE Fails
    /\ UNCHANGED <<stage, local, sealed, intent, published, accepted, github, bounds>>
\* The files are those of the sealed changeset, and the pinned candidate names the
\* files the changeset names, which another tree may do or not; the record is read again.
CommitCheck ==
    /\ Node = "commit" /\ job.at = "check"
    /\ \/ /\ Resolved(TRUE) /\ work.files = sealed
          /\ job' = [job EXCEPT !.at = "capture", !.seen = record.head]
       \/ /\ ~Resolved(TRUE) \/ work.files # sealed \/ intent[stage].tree # sealed
          /\ Fails
    /\ UNCHANGED <<stage, local, sealed, intent, published, accepted, github, bounds>>
\* commitCandidateMessage: the candidate has not changed since it was pinned, or
\* the branch has moved and the commit may be there already.
CommitCapture ==
    /\ job.at = "capture"
    /\ LET c == intent[stage]
       IN  IF ~OnParent(c) THEN Goes("reconcile")
           ELSE IF Snapshot = c.tree THEN job' = [job EXCEPT !.at = "update", !.next = Append(c.parent, Made(c.tree, stage))]
           ELSE Fails
    /\ UNCHANGED <<stage, local, sealed, intent, published, accepted, github, bounds>>
\* update-ref, a compare-and-swap against the parent.
UpdateRef ==
    /\ job.at = "update"
    /\ IF OnParent(intent[stage]) THEN work' = [work EXCEPT !.head = job.next] /\ Goes("sync")
       ELSE Goes("reconcile") /\ UNCHANGED work
    /\ UNCHANGED <<stage, main, record, sealed, intent, published, accepted, github, bounds>>
\* (A mutant of Reconcile.)
ReconcileHead ==
    /\ job.at = "reconcile" /\ job' = [job EXCEPT !.at = "sync", !.next = work.head]
    /\ UNCHANGED <<stage, local, sealed, intent, published, accepted, github, bounds>>
\* reconcilePointCommit: the commit of this very operation on that parent.
Reconcile ==
    /\ job.at = "reconcile"
    /\ LET c == intent[stage]
           mine == Append(c.parent, Made(c.tree, stage))
       IN  IF IsPrefix(mine, work.head)
           THEN job' = [job EXCEPT !.at = IF work.head = mine THEN "sync" ELSE "accept", !.next = mine] ELSE Fails
    /\ UNCHANGED <<stage, local, sealed, intent, published, accepted, github, bounds>>
\* synchronizeCommittedWorktree.
CommitSync ==
    /\ job.at = "sync" /\ work' = [work EXCEPT !.index = TreeOf(job.next)]
    /\ IF work.head = job.next /\ work.files = TreeOf(job.next) THEN Goes("accept") ELSE Fails
    /\ UNCHANGED <<stage, main, record, sealed, intent, published, accepted, github, bounds>>
\* The accepted head is never rolled back.
CommitAccept ==
    /\ job.at = "accept"
    /\ IF job.seen \in {Unset, intent[stage].parent, job.next} /\ work.head = job.next
       THEN /\ record' = [record EXCEPT !.head = job.next]
            /\ accepted' = [s \in DOMAIN accepted \cup {stage} |-> IF s = stage THEN job.next ELSE accepted[s]]
            /\ Done
       ELSE Fails /\ UNCHANGED <<stage, record, accepted>>
    /\ UNCHANGED <<main, work, sealed, intent, published, github, bounds>>

-----------------------------------------------------------------------------
\* push: the connected commit is the recorded head; what was published before
\* is the expectation.
PushPlan ==
    /\ Node = "push" /\ job.at = "start"
    /\ IF ~Resolved(FALSE) THEN Fails /\ UNCHANGED intent
       ELSE Goes("observe") /\ (IF Pinned THEN UNCHANGED intent ELSE Pin(published))
    /\ UNCHANGED <<stage, local, sealed, published, accepted, github, bounds>>
\* reconcilePublicationPrecondition: the branch is as this run left it.
AsExpected == remote = intent[stage]
PushObserve ==
    /\ Node = "push" /\ job.at = "observe"
    /\ IF remote = record.head THEN Goes("record")
       ELSE IF AsExpected /\ (remote # Unset => IsPrefix(remote, record.head)) THEN Goes("send")
       ELSE Fails
    /\ UNCHANGED <<stage, local, sealed, intent, published, accepted, github, bounds>>
\* (A mutant of PushSend.)
PushSendForce ==
    /\ job.at = "send" /\ remote' = record.head /\ Goes("record")
    /\ UNCHANGED <<stage, local, sealed, intent, published, accepted, pulls, bounds>>
\* git push with a lease on the expected tip; its answer may be lost, and then
\* the remote is looked at again.
PushSend ==
    /\ job.at = "send"
    /\ \/ AsExpected /\ remote' = record.head /\ Goes("record") /\ UNCHANGED lost
       \/ AsExpected /\ remote' = record.head /\ Goes("look") /\ lost < MaxLost /\ lost' = lost + 1
       \/ ~AsExpected /\ Goes("look") /\ UNCHANGED <<remote, lost>>
       \/ lost < MaxLost /\ lost' = lost + 1 /\ Goes("look") /\ UNCHANGED remote
    /\ UNCHANGED <<stage, local, sealed, intent, published, accepted, pulls, crashes, stray, foreign>>
PushLook ==
    /\ job.at = "look" /\ (IF remote = record.head THEN Goes("record") ELSE Fails)
    /\ UNCHANGED <<stage, local, sealed, intent, published, accepted, github, bounds>>
PushRecord ==
    /\ job.at = "record" /\ published' = record.head /\ Done
    /\ UNCHANGED <<local, sealed, intent, accepted, github, bounds>>

-----------------------------------------------------------------------------
\* createPR: the published tip is the recorded head.
PullPlan ==
    /\ Node = "pr" /\ job.at = "start"
    /\ IF Resolved(FALSE) /\ (Pinned \/ published = record.head)
       THEN Goes("find") /\ (IF Pinned THEN UNCHANGED intent ELSE Pin(published)) ELSE Fails /\ UNCHANGED intent
    /\ UNCHANGED <<stage, local, sealed, published, accepted, github, bounds>>
\* (A mutant of Matching.)
MatchingOpen == {p \in pulls : p.state = "open"}
\* FindChangeRequests: every pull request of the branch, whatever its state.
Matching == pulls
\* reconcileChangeRequest.
Owned(p) == p.owner = "darkstar"
Ours(p) == Owned(p) /\ p.rev = stage /\ p.state \in {"open", "merged"}
\* verifyChangeRequestBranches.
HeadStands == remote = record.head
PullFind ==
    /\ Node = "pr" /\ job.at \in {"find", "reread"}
    /\ IF Cardinality(Matching) = 1 /\ (\A p \in Matching : Ours(p)) THEN Done
       ELSE IF Matching = {} /\ job.at = "find" /\ HeadStands THEN Goes("create") /\ UNCHANGED stage
       ELSE Fails /\ UNCHANGED stage
    /\ UNCHANGED <<local, sealed, intent, published, accepted, github, bounds>>
\* The POST; GitHub refuses a second open one for the same branches.  Whatever
\* it answers, the pull requests are read again.
PullCreate ==
    /\ job.at = "create" /\ Goes("reread")
    /\ \/ /\ \A p \in pulls : p.state # "open"
          /\ pulls' = pulls \cup {[owner |-> "darkstar", rev |-> stage, head |-> remote, state |-> "open", n |-> Cardinality(pulls)]}
          /\ UNCHANGED lost
       \/ (\E p \in pulls : p.state = "open") /\ UNCHANGED <<pulls, lost>>
       \/ lost < MaxLost /\ lost' = lost + 1 /\ UNCHANGED pulls
    /\ UNCHANGED <<stage, local, sealed, intent, published, accepted, remote, crashes, stray, foreign>>

-----------------------------------------------------------------------------
Crash ==
    /\ job.at # "idle" /\ crashes < MaxCrashes /\ crashes' = crashes + 1 /\ job' = Idle
    /\ UNCHANGED <<stage, local, sealed, intent, published, accepted, github, lost, stray, foreign>>
\* Somebody writes into the worktree, commits in it, or moves the base branch.
Stray ==
    /\ stray < MaxStray /\ stray' = stray + 1
    /\ \/ /\ work.at = "ready" /\ \E t \in Trees : work' = [work EXCEPT !.files = t]
          /\ UNCHANGED main
       \/ /\ work.at = "ready" /\ work' = [work EXCEPT !.head = Append(@, Made(work.files, 0)), !.index = work.files]
          /\ UNCHANGED main
       \/ main' = Append(main, Made("t0", 0)) /\ UNCHANGED work
    /\ UNCHANGED <<stage, job, record, sealed, intent, published, accepted, github, crashes, lost, foreign>>
\* Somebody adds to the remote branch, or opens, merges or closes a pull request.
Foreign ==
    /\ foreign < MaxRemote /\ foreign' = foreign + 1
    /\ \/ remote' = Append(IF remote = Unset THEN Base ELSE remote, Made("t0", 0)) /\ UNCHANGED pulls
       \/ /\ remote # Unset /\ \A p \in pulls : p.state # "open"
          /\ pulls' = pulls \cup {[owner |-> "other", rev |-> 0, head |-> remote, state |-> "open", n |-> Cardinality(pulls)]}
          /\ UNCHANGED remote
       \/ \E p \in pulls, s \in {"merged", "closed"} :
             p.state = "open" /\ pulls' = (pulls \ {p}) \cup {[p EXCEPT !.state = s]} /\ UNCHANGED remote
    /\ UNCHANGED <<stage, job, local, sealed, intent, published, accepted, crashes, lost, stray>>

Next ==
    \/ Start \/ PrepareRecord \/ AttachBranch \/ AttachWorktree \/ Prepared \/ Edit
    \/ CommitPlan \/ CommitCheck \/ CommitCapture \/ UpdateRef \/ Reconcile \/ CommitSync \/ CommitAccept
    \/ PushPlan \/ PushObserve \/ PushSend \/ PushLook \/ PushRecord \/ PullPlan \/ PullFind \/ PullCreate
    \/ Crash \/ Stray \/ Foreign
Spec == Init /\ [][Next]_vars

-----------------------------------------------------------------------------
\* Every variable has its type.
TypeOK ==
    /\ stage \in 1..(Len(Plan) + 1) /\ work.at \in {"absent", "branch", "ready"} /\ work.files \in Trees
    /\ job.at \in {"idle", "start", "attach", "check", "capture", "update", "reconcile", "sync", "accept", "observe",
                   "send", "look", "record", "find", "create", "reread"}
    /\ \A p \in pulls : p.state \in {"open", "merged", "closed"}

\* The commits a run delivers are one chain from the recorded base: each holds
\* one node's changes on top of the previous delivered commit, once, and nothing
\* of anybody else, however often the node was tried.
DeliveredIsAChain ==
    \A s \in DOMAIN accepted :
        LET earlier == {q \in DOMAIN accepted : q < s}
            parent == IF earlier = {} THEN record.base ELSE accepted[CHOOSE q \in earlier : \A r \in earlier : r <= q]
        IN  Len(accepted[s]) = Len(parent) + 1 /\ IsPrefix(parent, accepted[s]) /\ Last(accepted[s]).op = s
\* What a commit node answers with holds the changeset that was sealed for it, if
\* fewer than three edits come from outside: the pin, the check against the sealed
\* digest and the capture read the files at three different times.
SealedIsCommitted == \A s \in DOMAIN accepted : s = stage - 1 => TreeOf(accepted[s]) = sealed
\* A publication adds to the remote branch: it never takes away what it holds,
\* though the tip was read before it was replaced.
RemoteOnlyGrows == [][remote = Unset \/ IsPrefix(remote, remote')]_vars
\* A visit leaves one pull request, though the answer to its creation may have
\* been lost and the first one closed or merged since.
OnePullRequest == \A p, q \in pulls : p.owner = "darkstar" /\ q.owner = "darkstar" => p = q

-----------------------------------------------------------------------------
(* The inductive invariant.  What a visit pinned is about the head that is *)
(* recorded as long as the visit lasts, and the job follows what is pinned *)
(* and not what it finds in the worktree.                                  *)

\* Plans name nodes, and the files of the base are files.
PlanKnown == Plan \in Seq({"prepare", "edit", "commit", "push", "pr"}) /\ "t0" \in Trees

Commits == [tree : Trees, op : Nat]
Histories == Seq(Commits)
JobSteps == {"idle", "start", "attach", "check", "capture", "update", "reconcile", "sync", "accept", "observe",
             "send", "look", "record", "find", "create", "reread"}
Jobs == [at : JobSteps, seen : Histories, next : Histories]
Worktrees == [at : {"absent", "branch", "ready"}, head : Histories, index : Trees, files : Trees]
Pulls == [owner : {"darkstar", "other"}, rev : Nat, head : Histories, state : {"open", "merged", "closed"}, n : Nat]
DeliveryTypes ==
    /\ stage \in 1..(Len(Plan) + 1) /\ job \in Jobs /\ work \in Worktrees
    /\ main \in Histories /\ main # Unset /\ record \in [base : Histories, head : Histories]
    /\ remote \in Histories /\ published \in Histories
    /\ pulls \subseteq Pulls /\ IsFiniteSet(pulls)
    /\ DOMAIN intent \subseteq 1..stage /\ DOMAIN accepted \subseteq 1..(stage - 1)

\* Where the job is tells the node it belongs to.
Places ==
    /\ job.at = "start" => Node \in {"prepare", "commit", "push", "pr"}
    /\ job.at = "attach" => Node = "prepare" /\ work.at = "branch"
    /\ job.at \in {"check", "capture", "update", "reconcile", "sync", "accept"} => Node = "commit" /\ Pinned
    /\ job.at \in {"observe", "send", "look", "record"} => Node = "push"
    /\ job.at \in {"find", "create", "reread"} => Node = "pr"
    /\ work.at # "absent" => work.head # Unset /\ record.base # Unset

\* The commit a job makes is the pinned one, on the recorded head.
Mine(s) == Append(intent[s].parent, Made(intent[s].tree, s))
OnRecord ==
    /\ Node = "commit" /\ Pinned => /\ intent[stage].parent \in Histories /\ intent[stage].tree \in Trees
                                   /\ intent[stage].parent = Expected /\ record.base # Unset
    /\ job.at \in {"update", "sync", "accept"} => job.next = Mine(stage)

\* The recorded head is the last delivered commit, and each has one before it or is the first.
LastIsRecorded ==
    /\ record.head = Unset <=> DOMAIN accepted = {}
    /\ DOMAIN accepted # {} =>
          \E q \in DOMAIN accepted : record.head = accepted[q] /\ \A r \in DOMAIN accepted : r <= q
    /\ \A s \in DOMAIN accepted :
          LET earlier == {q \in DOMAIN accepted : q < s}
          IN  earlier # {} => \E q \in earlier : \A r \in earlier : r <= q
    /\ DOMAIN accepted # {} => record.base # Unset

\* A job that sends or creates found nothing it could destroy or repeat.
MayAct ==
    /\ job.at = "send" => intent[stage] = Unset \/ IsPrefix(intent[stage], record.head)
    /\ job.at = "create" => \A p \in pulls : ~Owned(p)

DeliveryInv ==
    DeliveryTypes /\ Places /\ OnRecord /\ LastIsRecorded /\ DeliveredIsAChain /\ MayAct /\ OnePullRequest
=============================================================================
