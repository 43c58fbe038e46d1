------------------------------ MODULE RepoIndex ------------------------------
(***************************************************************************)
(* ingestion/indexer.py over the arq jobs index_repo and reindex_repo:     *)
(* the chunks and the status of one repository, what the jobs of its       *)
(* installation and of its pushes do to them an awaited call at a time,    *)
(* and the repository on GitHub they read.                                 *)
(*                                                                         *)
(* A file's content is the commit that last wrote it; all chunks of a path *)
(* come and go together, so a path has rows of one content or none.  The   *)
(* write of a job is a database transaction and one step.  Times, token    *)
(* counts and chunk_count are left out.                                    *)
(***************************************************************************)
EXTENDS Naturals

CONSTANTS
    Paths,          \* files of the repository
    Jobs,           \* index jobs, numbered in the order they are enqueued
    Lists,          \* the added and modified, and the removed paths of a push
    MaxCommits,     \* bound: commits pushed
    MaxTries,       \* WorkerSettings.max_tries
    MaxFaults,      \* bound: how often something goes wrong
    Absent, Blank,  \* no such file; a file without chunks: empty, binary, ...
    None,
    Faults          \* what goes wrong around the jobs

\* error       a call fails before the write
\* lost_reply  the write is committed and raises all the same
\* db_down     mark_failed fails too
\* cancel      job_timeout cancels the job
\* crash       the worker dies, or is shut down, and the job is run again
\* branch      a branch that is not the default one, or is rewound, is pushed to
FaultKinds == {"error", "lost_reply", "db_down", "cancel", "crash", "branch"}

ASSUME IndexAssumption ==
    /\ Jobs \subseteq Nat
    /\ Lists \subseteq [reembed : SUBSET Paths, removed : SUBSET Paths]
    /\ MaxCommits \in Nat
    /\ MaxTries \in Nat \ {0}
    /\ MaxFaults \in Nat
    /\ {Absent, Blank, None} \cap Nat = {}
    /\ Blank # Absent
    /\ Faults \subseteq FaultKinds

VARIABLES
    commits,        \* how many commits there are; commit 0 is the first
    tree,           \* the files at each commit
    head,           \* the commit the default branch points to
    job,            \* what each job was enqueued with
    pc,             \* the await each job is at, or how it ended
    job_try,        \* arq's job_try
    commit,         \* commit_sha in the run's memory
    existing,       \* existing_paths in the run's memory
    chunks,         \* code_chunks: the content each path has rows of
    status,         \* repo_index_state.status
    indexed,        \* repo_index_state.last_indexed_commit
    straight,       \* history: every job ran in its turn, to its end, and for
                    \* the default branch, which only moved forward
    faults          \* how often something went wrong

repo_vars == <<commits, tree, head>>
run_vars == <<job_try, commit, existing>>
state_vars == <<chunks, status, indexed>>
vars == <<repo_vars, job, pc, run_vars, state_vars, straight, faults>>

Contents == {Absent, Blank} \cup 0..MaxCommits
Waits == {"resolve", "download", "existing", "write", "mark_failed"}
Ended == {"done", "failed", "abandoned"}   \* abandoned: nothing was marked

TypeOK ==
    /\ commits \in 0..MaxCommits
    /\ tree \in [0..MaxCommits -> [Paths -> Contents]]
    /\ head \in 0..commits
    /\ job \in [Jobs -> [kind : {"none", "full", "incremental"}, after : 0..MaxCommits,
                         reembed : SUBSET Paths, removed : SUBSET Paths]]
    /\ pc \in [Jobs -> {"idle", "queued"} \cup Waits \cup Ended]
    /\ job_try \in [Jobs -> 0..MaxTries]
    /\ commit \in [Jobs -> 0..MaxCommits]
    /\ existing \in [Jobs -> SUBSET Paths]
    /\ chunks \in [Paths -> 0..MaxCommits \cup {None}]
    /\ status \in {"absent", "pending", "done", "failed"}
    /\ indexed \in 0..MaxCommits \cup {None}
    /\ straight \in BOOLEAN
    /\ faults \in 0..MaxFaults

NoJob == [kind |-> "none", after |-> 0, reembed |-> {}, removed |-> {}]

Init ==
    /\ commits = 0 /\ head = 0
    /\ tree \in [0..MaxCommits -> [Paths -> {0}]]
    /\ job = [j \in Jobs |-> NoJob]
    /\ pc = [j \in Jobs |-> "idle"]
    /\ job_try = [j \in Jobs |-> 0]
    /\ commit = [j \in Jobs |-> 0]
    /\ existing = [j \in Jobs |-> {}]
    /\ chunks = [p \in Paths |-> None]
    /\ status = "absent"
    /\ indexed = None
    /\ straight = TRUE
    /\ faults = 0

Fault(kind) ==
    /\ kind \in Faults
    /\ faults < MaxFaults
    /\ faults' = faults + 1

Running(j) == pc[j] \in Waits
Goto(j, label) == pc' = [pc EXCEPT ![j] = label]

-----------------------------------------------------------------------------
(* GitHub and the webhook receiver *)

\* receive_webhook marks the repository pending, then enqueues the job.
MarkAndEnqueue(j, what) ==
    /\ pc[j] = "idle" /\ \A k \in Jobs : k < j => pc[k] # "idle"
    /\ job' = [job EXCEPT ![j] = what]
    /\ Goto(j, "queued")
    /\ status' = "pending"
    /\ UNCHANGED <<run_vars, chunks, indexed>>

\* The app is installed on the repository.
Install(j) ==
    /\ MarkAndEnqueue(j, [NoJob EXCEPT !.kind = "full"])
    /\ UNCHANGED <<repo_vars, straight, faults>>

\* A push: its commits touch the paths they add, modify and remove; a path may
\* be in several of the lists, and the last commit decides what becomes of it.
\* The handler takes a push to any branch, and a forced one, for one more
\* commit on top of what is indexed.
Push(j, list) ==
    /\ commits < MaxCommits
    /\ \E base \in 0..commits, new \in [list.reembed \cup list.removed -> {Absent, Blank, commits + 1}] :
         /\ \A p \in DOMAIN new :
              p \in (IF new[p] = Absent THEN list.removed ELSE list.reembed)
         /\ tree' = [tree EXCEPT ![commits + 1] =
                       [p \in Paths |-> IF p \in DOMAIN new THEN new[p] ELSE tree[base][p]]]
         /\ \/ base = head /\ head' = commits + 1 /\ UNCHANGED <<straight, faults>>
            \/ /\ Fault("branch") /\ straight' = FALSE
               /\ head' = head \/ (base # head /\ head' = commits + 1)
    /\ commits' = commits + 1
    /\ MarkAndEnqueue(j, [kind |-> "incremental", after |-> commits + 1,
                          reembed |-> list.reembed, removed |-> list.removed])

-----------------------------------------------------------------------------
(* arq *)

\* The job leaves the worker; nothing of the run stays in memory.
Leave(j, state) ==
    /\ Goto(j, state)
    /\ commit' = [commit EXCEPT ![j] = 0]
    /\ existing' = [existing EXCEPT ![j] = {}]
    /\ UNCHANGED job_try

\* Mutant: a push that adds and modifies nothing has nothing to do.
Start_NothingToEmbed(j) ==
    /\ pc[j] = "queued"
    /\ job_try[j] < MaxTries
    /\ job_try' = [job_try EXCEPT ![j] = @ + 1]
    /\ Goto(j, IF job[j].kind = "full" THEN "resolve"
               ELSE IF job[j].reembed = {} THEN "done" ELSE "download")
    /\ commit' = [commit EXCEPT ![j] = job[j].after]
    /\ UNCHANGED existing
    /\ straight' = (straight /\ \A k \in Jobs : k < j => pc[k] = "done")
    /\ UNCHANGED <<repo_vars, job, state_vars, faults>>

\* The job starts; arq runs several at a time and not always in their order.
Start(j) ==
    /\ pc[j] = "queued"
    /\ job_try[j] < MaxTries
    /\ job_try' = [job_try EXCEPT ![j] = @ + 1]
    /\ Goto(j, IF job[j].kind = "full" THEN "resolve"
               ELSE IF job[j].reembed = {} THEN "write" ELSE "download")
    /\ commit' = [commit EXCEPT ![j] = job[j].after]
    /\ UNCHANGED existing
    /\ straight' = (straight /\ \A k \in Jobs : k < j => pc[k] = "done")
    /\ UNCHANGED <<repo_vars, job, state_vars, faults>>

GiveUp(j) ==
    /\ pc[j] = "queued"
    /\ job_try[j] = MaxTries
    /\ Leave(j, "abandoned")
    /\ straight' = FALSE
    /\ UNCHANGED <<repo_vars, job, state_vars, faults>>

WorkerDies(j) ==
    /\ Fault("crash")
    /\ Running(j)
    /\ Leave(j, "queued")
    /\ UNCHANGED <<repo_vars, job, state_vars, straight>>

\* CancelledError is not an Exception: nothing is marked.
Cancelled(j) ==
    /\ Fault("cancel")
    /\ Running(j)
    /\ Leave(j, "abandoned")
    /\ straight' = FALSE
    /\ UNCHANGED <<repo_vars, job, state_vars>>

\* Mutant: the exception is only raised.
Fails_Unmarked(j) ==
    /\ Fault("error")
    /\ Running(j) /\ pc[j] # "mark_failed"
    /\ Leave(j, "failed")
    /\ straight' = FALSE
    /\ UNCHANGED <<repo_vars, job, state_vars>>

\* A call of the job raises: the except clause marks the repository failed.
Fails(j) ==
    /\ Fault("error")
    /\ Running(j) /\ pc[j] # "mark_failed"
    /\ Leave(j, "mark_failed")
    /\ straight' = FALSE
    /\ UNCHANGED <<repo_vars, job, state_vars>>

-----------------------------------------------------------------------------
(* Indexer *)

\* Vendored, binary, oversized, unreadable and blank files are skipped.
HasChunks(file) == file \notin {Absent, Blank}

\* chunk_repo: the content of the files that have chunks.
chunk_repo(files, only) == [p \in {q \in only : HasChunks(files[q])} |-> files[p]]

\* fetch_tarball of HEAD: its commit first, then the tree at that commit.  The
\* commit of a push is known, and the look-up of it changes nothing.
Resolve(j) ==
    /\ pc[j] = "resolve"
    /\ commit' = [commit EXCEPT ![j] = head]
    /\ Goto(j, "download")
    /\ UNCHANGED <<repo_vars, job, job_try, existing, state_vars, straight, faults>>

\* Download, chunk and embed; nothing of it is shared.
Download(j) ==
    /\ pc[j] = "download"
    /\ Goto(j, IF job[j].kind = "full" THEN "existing" ELSE "write")
    /\ UNCHANGED <<repo_vars, job, run_vars, state_vars, straight, faults>>

ReadExisting(j) ==
    /\ pc[j] = "existing"
    /\ existing' = [existing EXCEPT ![j] = {p \in Paths : chunks[p] # None}]
    /\ Goto(j, "write")
    /\ UNCHANGED <<repo_vars, job, job_try, commit, state_vars, straight, faults>>

\* What the job embedded, and the paths it deletes besides.
Embedded(j) == chunk_repo(tree[commit[j]], IF job[j].kind = "full" THEN Paths ELSE job[j].reembed)
Deleted(j) == IF job[j].kind = "full" THEN existing[j] \ DOMAIN Embedded(j) ELSE job[j].removed

\* Mutant: a full index deletes nothing.
Chunks_KeepStale(j) ==
    [p \in Paths |-> IF p \in DOMAIN Embedded(j) THEN Embedded(j)[p]
                     ELSE IF p \in job[j].removed THEN None ELSE chunks[p]]

\* code_chunks after _write: deletions, then the embedded chunks.
Chunks(j) ==
    [p \in Paths |-> IF p \in DOMAIN Embedded(j) THEN Embedded(j)[p]
                     ELSE IF p \in Deleted(j) THEN None ELSE chunks[p]]

RecordDone(j) == status' = "done" /\ indexed' = commit[j]

\* The transaction is committed; it may raise all the same.
Write(j) ==
    /\ pc[j] = "write"
    /\ chunks' = Chunks(j)
    /\ RecordDone(j)
    /\ \/ Leave(j, "done") /\ UNCHANGED <<straight, faults>>
       \/ Fault("lost_reply") /\ Leave(j, "mark_failed") /\ straight' = FALSE
    /\ UNCHANGED <<repo_vars, job>>

RecordFailed == status' = "failed"

MarkFailed(j) ==
    /\ pc[j] = "mark_failed"
    /\ \/ RecordFailed /\ Leave(j, "failed") /\ UNCHANGED faults
       \/ Fault("db_down") /\ Leave(j, "abandoned") /\ UNCHANGED status
    /\ UNCHANGED <<repo_vars, job, chunks, indexed, straight>>

-----------------------------------------------------------------------------
Step(j) ==
    \/ Start(j) \/ GiveUp(j) \/ Resolve(j) \/ Download(j)
    \/ ReadExisting(j) \/ Write(j) \/ MarkFailed(j)

Next == \E j \in Jobs :
    \/ Install(j)
    \/ \E list \in Lists : Push(j, list)
    \/ Step(j) \/ WorkerDies(j) \/ Cancelled(j) \/ Fails(j)

Spec == Init /\ [][Next]_vars

\* A worker runs the jobs of its queue, and every call it awaits has a timeout.
FairSpec == Spec /\ \A j \in Jobs : WF_vars(Step(j))

-----------------------------------------------------------------------------
\* A write shows the files of one commit, and records which: all of them after
\* a full index, but for paths another job wrote since existing_paths was read,
\* and those of the push after an incremental one, but for files that have no
\* chunks any more.  HEAD may move between any two of the job's calls.
AWriteShowsItsCommit ==
    [][\A j \in Jobs :
         pc[j] = "write" /\ pc'[j] = "done" =>
            /\ indexed' = commit[j]
            /\ \A p \in Paths :
                 LET file == tree[commit[j]][p] IN
                 \/ file \in Nat /\ chunks'[p] = file
                 \/ file \notin Nat /\ chunks'[p] = None
                 \/ /\ chunks'[p] = chunks[p]
                    /\ IF job[j].kind = "full"
                       THEN file \notin Nat /\ p \notin existing[j]
                       ELSE p \notin job[j].removed /\ (file = Blank \/ p \notin job[j].reembed)]_vars

\* When the repository was indexed in full and every job since ran in its turn
\* to its end, the index is that of HEAD, whatever HEAD was while they ran.
\* The one exception: a file that lost its last chunk keeps its old ones.
CaughtUp ==
    /\ straight
    /\ \A j \in Jobs : pc[j] \in {"idle", "done"}
    /\ \E j \in Jobs : job[j].kind = "full"

CaughtUpIsHead ==
    CaughtUp =>
        /\ status = "done"
        /\ \A p \in Paths :
             LET file == tree[head][p] IN
             /\ file \in Nat => chunks[p] = file
             /\ file = Absent => chunks[p] = None

\* The dashboard does not show a repository as pending for ever, whatever call
\* of its jobs fails, unless a job was left without a mark: cancelled, given up
\* after max_tries, or its mark_failed failed too.
PendingIsAnswered ==
    status = "pending" ~> status # "pending" \/ \E j \in Jobs : pc[j] = "abandoned"

-----------------------------------------------------------------------------
(* The inductive invariant *)

Touches(j, p) == p \in job[j].reembed \cup job[j].removed

\* A push's lists say what its last commit left of a path.
JobInv(j) ==
    /\ pc[j] = "idle" <=> job[j].kind = "none"
    /\ job[j].kind # "incremental" => job[j].after = 0 /\ \A p \in Paths : ~Touches(j, p)
    /\ job[j].kind = "incremental" => job[j].after # 0
    /\ job[j].after <= commits
    /\ \A p \in Paths :
         /\ p \in job[j].reembed /\ tree[job[j].after][p] = Absent => p \in job[j].removed
         /\ p \in job[j].removed \ job[j].reembed => tree[job[j].after][p] = Absent

RunInv(j) ==
    /\ commit[j] <= commits
    /\ pc[j] \in {"resolve", "existing"} => job[j].kind = "full"
    /\ job[j].kind = "incremental" /\ pc[j] \in {"download", "write"} => commit[j] = job[j].after

\* Jobs are enqueued in the order of the commits.
OrderInv ==
    \A j, k \in Jobs : k < j =>
        /\ pc[k] = "idle" => pc[j] = "idle"
        /\ job[j].after # 0 => job[k].after < job[j].after

\* While every job runs in its turn, one runs at a time, with all before it done.
TurnInv ==
    /\ head = commits
    /\ \A j \in Jobs : pc[j] \notin {"mark_failed", "failed", "abandoned"}
    /\ \A j, k \in Jobs : k < j /\ pc[j] \in Waits \cup {"done"} => pc[k] = "done"

\* A path that a commit changed is in the lists of a later push.
HistoryInv ==
    \A c \in 0..commits, p \in Paths :
        tree[c][p] # tree[head][p] => \E j \in Jobs : job[j].after > c /\ Touches(j, p)

\* What a full index resolved or read is only outdated by jobs after it.
FullInv(j) ==
    job[j].kind = "full" =>
        /\ pc[j] \in {"download", "existing", "write"}
             => \A k \in Jobs : job[k].after > commit[j] => j < k
        /\ pc[j] = "write" => existing[j] = {p \in Paths : chunks[p] # None}

Matches(p) ==
    LET file == tree[head][p] IN
    /\ file \in Nat => chunks[p] = file
    /\ file = Absent => chunks[p] = None

\* Once the repository was indexed in full, only the jobs still to come stand
\* between the index and HEAD.
IndexInv ==
    (\E j \in Jobs : job[j].kind = "full" /\ pc[j] = "done") =>
        \A p \in Paths : Matches(p) \/ \E j \in Jobs : pc[j] # "done" /\ Touches(j, p)

StatusInv ==
    (\A j \in Jobs : pc[j] \in {"idle", "done"}) /\ (\E j \in Jobs : pc[j] = "done")
        => status = "done"

IInv ==
    /\ TypeOK
    /\ \A j \in Jobs : JobInv(j) /\ RunInv(j)
    /\ OrderInv
    /\ straight =>
         /\ TurnInv
         /\ HistoryInv
         /\ \A j \in Jobs : FullInv(j)
         /\ IndexInv
         /\ StatusInv
=============================================================================
