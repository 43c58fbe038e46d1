--------------------------- MODULE RepoIndexProofs ---------------------------
(***************************************************************************)
(* Proofs about RepoIndex for any repository, any number of jobs, pushes   *)
(* and tries, and any faults.                                              *)
(***************************************************************************)
EXTENDS RepoIndex, TLAPS

LEMMA IndexInit == Init => IInv
<1> SUFFICES ASSUME Init PROVE IInv
  OBVIOUS
<1> USE IndexAssumption DEF Init, NoJob
<1>1. TypeOK
  BY DEF TypeOK, Contents
<1>2. \A j \in Jobs : JobInv(j) /\ RunInv(j)
  BY DEF JobInv, RunInv, Touches
<1>3. OrderInv /\ TurnInv
  BY DEF OrderInv, TurnInv, Waits
<1>4. HistoryInv
  BY DEF HistoryInv
<1>5. \A j \in Jobs : FullInv(j)
  BY DEF FullInv
<1>6. IndexInv /\ StatusInv
  BY DEF IndexInv, StatusInv
<1> QED BY <1>1, <1>2, <1>3, <1>4, <1>5, <1>6 DEF IInv

-----------------------------------------------------------------------------
(* Pushes *)

\* The files at the commit a push adds, and at the ones before it.
LEMMA PushTree ==
    ASSUME TypeOK, NEW base \in 0..commits, NEW list \in Lists, commits < MaxCommits,
           NEW new \in [list.reembed \cup list.removed -> {Absent, Blank, commits + 1}],
           tree' = [tree EXCEPT ![commits + 1] =
                      [p \in Paths |-> IF p \in DOMAIN new THEN new[p] ELSE tree[base][p]]]
    PROVE  /\ tree' \in [0..MaxCommits -> [Paths -> Contents]]
           /\ \A c \in 0..commits : tree'[c] = tree[c]
           /\ \A p \in Paths : tree'[commits + 1][p] =
                IF p \in list.reembed \cup list.removed THEN new[p] ELSE tree[base][p]
<1>1. /\ commits \in Nat /\ commits + 1 \in 0..MaxCommits /\ base \in 0..MaxCommits
      /\ list.reembed \cup list.removed \subseteq Paths
      /\ tree \in [0..MaxCommits -> [Paths -> Contents]]
  BY IndexAssumption DEF TypeOK
<1> DEFINE files == [p \in Paths |-> IF p \in DOMAIN new THEN new[p] ELSE tree[base][p]]
<1>2. {Absent, Blank, commits + 1} \subseteq Contents
  BY <1>1 DEF Contents
<1>3. files \in [Paths -> Contents]
  BY <1>1, <1>2
<1>4. tree'[commits + 1] = files /\ \A c \in 0..commits : tree'[c] = tree[c]
  BY <1>1
<1>5. \A p \in Paths : files[p] =
        IF p \in list.reembed \cup list.removed THEN new[p] ELSE tree[base][p]
  OBVIOUS
<1> HIDE DEF files
<1> QED BY <1>1, <1>3, <1>4, <1>5

-----------------------------------------------------------------------------
(* Steps of a job that leave the index alone *)

Moves(j, label) ==
    /\ Goto(j, label)
    /\ pc[j] \notin {"idle", "done"}
    /\ \A k \in Jobs \ {j} : commit'[k] = commit[k] /\ existing'[k] = existing[k]
    /\ UNCHANGED <<repo_vars, job, chunks>>

LEMMA MovesKeep ==
    ASSUME IInv, NEW j \in Jobs, NEW label \in {"queued", "failed", "abandoned"} \cup Waits,
           Moves(j, label), TypeOK', RunInv(j)',
           straight' => /\ straight /\ label \notin {"mark_failed", "failed", "abandoned"}
                        /\ label \in Waits => \A k \in Jobs : k < j => pc[k] = "done"
                        /\ FullInv(j)'
    PROVE  IInv'
<1> USE DEF Moves, repo_vars
<1>1. /\ TypeOK /\ pc'[j] = label /\ label \notin {"idle", "done"}
      /\ \A k \in Jobs \ {j} : pc'[k] = pc[k]
  BY DEF IInv, TypeOK, Goto, Waits
<1>2. \A k \in Jobs : /\ pc'[k] = "idle" <=> pc[k] = "idle"
                      /\ pc'[k] = "done" <=> pc[k] = "done"
  BY <1>1
<1>3. \A k \in Jobs : JobInv(k)'
  BY <1>2 DEF IInv, JobInv, Touches
<1>4. \A k \in Jobs : RunInv(k)'
  BY <1>1 DEF IInv, RunInv
<1>5. OrderInv'
  BY <1>2 DEF IInv, OrderInv
<1>6. ASSUME straight'
      PROVE  (TurnInv /\ HistoryInv /\ (\A k \in Jobs : FullInv(k)) /\ IndexInv /\ StatusInv)'
  <2>1. /\ TurnInv /\ HistoryInv /\ (\A k \in Jobs : FullInv(k)) /\ IndexInv
        /\ label \notin {"mark_failed", "failed", "abandoned"} /\ FullInv(j)'
        /\ label \in Waits => \A k \in Jobs : k < j => pc[k] = "done"
    BY <1>6 DEF IInv
  <2>2. TurnInv'
    BY <1>1, <1>2, <2>1 DEF TurnInv
  <2>3. HistoryInv'
    BY <2>1 DEF HistoryInv, Touches
  <2>4. \A k \in Jobs : FullInv(k)'
    BY <1>1, <2>1 DEF FullInv
  <2>5. IndexInv'
    BY <1>2, <2>1 DEF IndexInv, Matches, Touches
  <2>6. StatusInv'
    BY <1>1 DEF StatusInv
  <2> QED BY <2>2, <2>3, <2>4, <2>5, <2>6
<1> QED BY <1>3, <1>4, <1>5, <1>6 DEF IInv

\* Nothing of a run stays in memory when its job leaves the worker.
LEMMA LeaveTyped ==
    ASSUME TypeOK, NEW j \in Jobs, NEW label \in {"queued", "mark_failed"} \cup Ended, Leave(j, label)
    PROVE  /\ pc' \in [Jobs -> {"idle", "queued"} \cup Waits \cup Ended]
           /\ job_try' \in [Jobs -> 0..MaxTries]
           /\ commit' \in [Jobs -> 0..MaxCommits]
           /\ existing' \in [Jobs -> SUBSET Paths]
           /\ pc'[j] = label /\ commit'[j] = 0
           /\ \A k \in Jobs \ {j} : commit'[k] = commit[k] /\ existing'[k] = existing[k]
  BY IndexAssumption DEF TypeOK, Leave, Goto, Waits, Ended

LEMMA FaultTyped ==
    ASSUME TypeOK, NEW kind, Fault(kind)
    PROVE  faults' \in 0..MaxFaults
  BY IndexAssumption DEF TypeOK, Fault

LEMMA LeaveStep ==
    ASSUME IInv, NEW j \in Jobs, NEW label \in {"queued", "mark_failed", "failed", "abandoned"},
           Leave(j, label), pc[j] \notin {"idle", "done"},
           UNCHANGED <<repo_vars, job, chunks, indexed>>,
           status' \in {"absent", "pending", "done", "failed"}, straight' \in BOOLEAN,
           faults' \in 0..MaxFaults,
           straight' => straight /\ label = "queued"
    PROVE  IInv'
<1>1. /\ TypeOK /\ label \in {"queued", "failed", "abandoned"} \cup Waits
      /\ label \in {"queued", "mark_failed"} \cup Ended /\ commits \in Nat
  BY DEF IInv, TypeOK, Waits, Ended
<1>2. TypeOK'
  BY <1>1, LeaveTyped DEF TypeOK, repo_vars
<1>3. Moves(j, label) /\ pc'[j] = label /\ commit'[j] = 0
  BY <1>1, LeaveTyped DEF Moves, Leave
<1>4. RunInv(j)'
  BY <1>1, <1>3 DEF RunInv, repo_vars
<1>5. straight' => /\ straight /\ label \notin {"mark_failed", "failed", "abandoned"}
                   /\ label \notin Waits /\ FullInv(j)'
  BY <1>3 DEF FullInv, Waits
<1> QED BY <1>1, <1>2, <1>3, <1>4, <1>5, MovesKeep

\* A job that gives up, fails, is cancelled or is run again.
LEMMA EndsStep ==
    ASSUME IInv, NEW j \in Jobs,
           GiveUp(j) \/ WorkerDies(j) \/ Cancelled(j) \/ Fails(j) \/ MarkFailed(j)
    PROVE  IInv'
<1>1. TypeOK
  BY DEF IInv
<1>2. CASE GiveUp(j)
  BY <1>1, <1>2, LeaveStep DEF GiveUp, state_vars, TypeOK
<1>3. CASE WorkerDies(j)
  BY <1>1, <1>3, LeaveStep, FaultTyped DEF WorkerDies, Running, Waits, state_vars, TypeOK
<1>4. CASE Cancelled(j)
  BY <1>1, <1>4, LeaveStep, FaultTyped DEF Cancelled, Running, Waits, state_vars, TypeOK
<1>5. CASE Fails(j)
  BY <1>1, <1>5, LeaveStep, FaultTyped DEF Fails, Running, Waits, state_vars, TypeOK
<1>6. CASE MarkFailed(j)
  <2>1. PICK label \in {"failed", "abandoned"} :
          /\ Leave(j, label) /\ (UNCHANGED status \/ RecordFailed)
          /\ faults' \in 0..MaxFaults
    BY <1>1, <1>6, FaultTyped DEF MarkFailed, TypeOK
  <2>2. ~straight
    BY <1>6 DEF IInv, TurnInv, MarkFailed
  <2> QED BY <1>1, <1>6, <2>1, <2>2, LeaveStep DEF MarkFailed, RecordFailed, TypeOK
<1> QED BY <1>2, <1>3, <1>4, <1>5, <1>6

LEMMA StartStep ==
    ASSUME IInv, NEW j \in Jobs, Start(j)
    PROVE  IInv'
<1>1. /\ TypeOK /\ JobInv(j) /\ pc[j] = "queued" /\ job_try[j] < MaxTries
      /\ job_try' = [job_try EXCEPT ![j] = @ + 1]
      /\ commit' = [commit EXCEPT ![j] = job[j].after]
      /\ UNCHANGED <<repo_vars, job, existing, state_vars, faults>>
      /\ straight' \in BOOLEAN
      /\ straight' => straight /\ \A k \in Jobs : k < j => pc[k] = "done"
  BY DEF Start, IInv
<1>2. PICK label \in {"resolve", "download", "write"} :
        /\ Goto(j, label)
        /\ label = "resolve" <=> job[j].kind = "full"
  BY DEF Start
<1>3. label \in {"queued", "failed", "abandoned"} \cup Waits /\ pc'[j] = label
      /\ commit'[j] = job[j].after
  BY <1>1, <1>2 DEF Waits, Goto, TypeOK
<1>4. job[j].after \in 0..MaxCommits /\ job[j].after <= commits
  BY <1>1 DEF TypeOK, JobInv
<1>5. TypeOK'
  <2>1. pc' \in [Jobs -> {"idle", "queued"} \cup Waits \cup Ended]
    BY <1>1, <1>2 DEF TypeOK, Goto, Waits
  <2>2. commit' \in [Jobs -> 0..MaxCommits]
    BY <1>1, <1>4 DEF TypeOK
  <2>3. job_try' \in [Jobs -> 0..MaxTries]
    <3>1. job_try[j] + 1 \in 0..MaxTries
      BY <1>1, IndexAssumption DEF TypeOK
    <3> QED BY <1>1, <3>1 DEF TypeOK
  <2> QED BY <1>1, <2>1, <2>2, <2>3 DEF TypeOK, repo_vars, state_vars
<1>6. Moves(j, label)
  BY <1>1, <1>2 DEF Moves, TypeOK, state_vars
<1>7. RunInv(j)'
  BY <1>1, <1>2, <1>3, <1>4 DEF RunInv, repo_vars
<1>8. FullInv(j)'
  BY <1>1, <1>2, <1>3 DEF FullInv
<1> QED BY <1>1, <1>2, <1>3, <1>5, <1>6, <1>7, <1>8, MovesKeep

\* Between Start and Write a job is at one of its awaited calls, in its turn.
LEMMA GoesOn ==
    ASSUME IInv, NEW j \in Jobs, NEW label \in {"download", "existing", "write"},
           Goto(j, label), pc[j] \in Waits,
           UNCHANGED <<repo_vars, job, job_try, state_vars, straight, faults>>,
           commit' \in [Jobs -> 0..MaxCommits], existing' \in [Jobs -> SUBSET Paths],
           \A k \in Jobs \ {j} : commit'[k] = commit[k] /\ existing'[k] = existing[k],
           RunInv(j)', straight => FullInv(j)'
    PROVE  IInv'
<1>1. TypeOK /\ label \in Waits
  BY DEF IInv, Waits
<1>2. TypeOK'
  BY <1>1 DEF TypeOK, Goto, Waits, repo_vars, state_vars
<1>3. Moves(j, label)
  BY DEF Moves, Waits, state_vars
<1>4. straight => \A k \in Jobs : k < j => pc[k] = "done"
  BY DEF IInv, TurnInv
<1> QED BY <1>1, <1>2, <1>3, <1>4, MovesKeep

LEMMA ResolveStep ==
    ASSUME IInv, NEW j \in Jobs, Resolve(j)
    PROVE  IInv'
<1>1. /\ TypeOK /\ RunInv(j) /\ pc[j] = "resolve" /\ pc[j] \in Waits
      /\ Goto(j, "download") /\ commit' = [commit EXCEPT ![j] = head]
      /\ UNCHANGED <<repo_vars, job, job_try, existing, state_vars, straight, faults>>
  BY DEF IInv, Resolve, Waits
<1>2. pc'[j] = "download" /\ commit'[j] = head /\ head \in 0..MaxCommits /\ head <= commits
  BY <1>1, IndexAssumption DEF TypeOK, Goto
<1>3. /\ commit' \in [Jobs -> 0..MaxCommits] /\ existing' \in [Jobs -> SUBSET Paths]
      /\ \A k \in Jobs \ {j} : commit'[k] = commit[k] /\ existing'[k] = existing[k]
  BY <1>1, <1>2 DEF TypeOK
<1>4. RunInv(j)'
  BY <1>1, <1>2 DEF RunInv, repo_vars
<1>5. straight => FullInv(j)'
  <2> SUFFICES ASSUME straight, NEW k \in Jobs PROVE ~(job'[k].after > commit'[j])
    BY <1>2 DEF FullInv
  <2>1. head = commits /\ job[k].after <= commits /\ job[k].after \in Nat /\ commits \in Nat
    BY <1>1 DEF IInv, TurnInv, JobInv, TypeOK
  <2> QED BY <1>1, <1>2, <2>1
<1> QED BY <1>1, <1>3, <1>4, <1>5, GoesOn

LEMMA DownloadStep ==
    ASSUME IInv, NEW j \in Jobs, Download(j)
    PROVE  IInv'
<1>1. /\ TypeOK /\ RunInv(j) /\ pc[j] = "download" /\ pc[j] \in Waits
      /\ UNCHANGED <<repo_vars, job, job_try, commit, existing, state_vars, straight, faults>>
  BY DEF IInv, Download, Waits, run_vars
<1>2. PICK label \in {"existing", "write"} :
        Goto(j, label) /\ pc'[j] = label /\ (label = "existing" <=> job[j].kind = "full")
  BY <1>1 DEF Download, Goto, TypeOK
<1>3. RunInv(j)'
  BY <1>1, <1>2 DEF RunInv, repo_vars
<1>4. straight => FullInv(j)'
  BY <1>1, <1>2 DEF IInv, FullInv
<1> QED BY <1>1, <1>2, <1>3, <1>4, GoesOn DEF TypeOK

LEMMA ReadExistingStep ==
    ASSUME IInv, NEW j \in Jobs, ReadExisting(j)
    PROVE  IInv'
<1>1. /\ TypeOK /\ RunInv(j) /\ pc[j] = "existing" /\ pc[j] \in Waits /\ Goto(j, "write")
      /\ existing' = [existing EXCEPT ![j] = {p \in Paths : chunks[p] # None}]
      /\ UNCHANGED <<repo_vars, job, job_try, commit, state_vars, straight, faults>>
  BY DEF IInv, ReadExisting, Waits
<1>2. pc'[j] = "write" /\ existing'[j] = {p \in Paths : chunks[p] # None}
  BY <1>1 DEF TypeOK, Goto
<1>3. existing' \in [Jobs -> SUBSET Paths] /\ \A k \in Jobs \ {j} : existing'[k] = existing[k]
  BY <1>1 DEF TypeOK
<1>4. RunInv(j)'
  BY <1>1, <1>2 DEF RunInv, repo_vars
<1>5. straight => FullInv(j)'
  BY <1>1, <1>2 DEF IInv, FullInv, state_vars
<1> QED BY <1>1, <1>3, <1>4, <1>5, GoesOn DEF TypeOK

-----------------------------------------------------------------------------
(* The write *)

\* What a write leaves of a path, as AWriteShowsItsCommit has it.
Shows(j, p) ==
    LET file == tree[commit[j]][p] IN
    \/ file \in Nat /\ chunks'[p] = file
    \/ file \notin Nat /\ chunks'[p] = None
    \/ /\ chunks'[p] = chunks[p]
       /\ IF job[j].kind = "full"
          THEN file \notin Nat /\ p \notin existing[j]
          ELSE p \notin job[j].removed /\ (file = Blank \/ p \notin job[j].reembed)

LEMMA WriteShows ==
    ASSUME IInv, NEW j \in Jobs, Write(j), NEW p \in Paths
    PROVE  Shows(j, p) /\ chunks'[p] \in 0..MaxCommits \cup {None}
<1> DEFINE file == tree[commit[j]][p]
           only == IF job[j].kind = "full" THEN Paths ELSE job[j].reembed
<1>1. /\ TypeOK /\ JobInv(j) /\ RunInv(j) /\ pc[j] = "write" /\ chunks' = Chunks(j)
      /\ only \subseteq Paths /\ file \in Contents
  BY DEF IInv, Write, TypeOK
<1>2. /\ DOMAIN Embedded(j) = {q \in only : HasChunks(tree[commit[j]][q])}
      /\ p \in DOMAIN Embedded(j) => Embedded(j)[p] = file
  BY DEF Embedded, chunk_repo
<1>3. /\ p \in DOMAIN Embedded(j) => chunks'[p] = file
      /\ p \notin DOMAIN Embedded(j) /\ p \in Deleted(j) => chunks'[p] = None
      /\ p \notin DOMAIN Embedded(j) /\ p \notin Deleted(j) => chunks'[p] = chunks[p]
  BY <1>1, <1>2 DEF Chunks
<1>4. p \in DOMAIN Embedded(j) <=> p \in only /\ file \notin {Absent, Blank}
  BY <1>2 DEF HasChunks
<1>5. file \in 0..MaxCommits <=> file \notin {Absent, Blank}
  BY <1>1, IndexAssumption DEF Contents
<1>6. file \in Nat <=> file \in 0..MaxCommits
  BY <1>5, IndexAssumption
<1> HIDE DEF file
<1>7. CASE job[j].kind = "full"
  <2>1. Deleted(j) = existing[j] \ DOMAIN Embedded(j) /\ p \in only
    BY <1>7 DEF Deleted
  <2> QED BY <1>1, <1>3, <1>4, <1>5, <1>6, <1>7, <2>1 DEF Shows, file, TypeOK
<1>8. CASE job[j].kind # "full"
  <2>1. Deleted(j) = job[j].removed /\ only = job[j].reembed
    BY <1>8 DEF Deleted
  <2>2. /\ p \in job[j].reembed /\ file = Absent => p \in job[j].removed
        /\ p \in job[j].removed \ job[j].reembed => file = Absent
    <3>1. CASE job[j].kind = "incremental"
      BY <1>1, <3>1 DEF JobInv, RunInv, file
    <3>2. CASE job[j].kind # "incremental"
      BY <1>1, <3>2 DEF JobInv, Touches
    <3> QED BY <3>1, <3>2
  <2> QED BY <1>1, <1>3, <1>4, <1>5, <1>6, <1>8, <2>1, <2>2 DEF Shows, file, TypeOK
<1> QED BY <1>7, <1>8

LEMMA WriteTyped ==
    ASSUME IInv, NEW j \in Jobs, Write(j)
    PROVE  /\ TypeOK' /\ UNCHANGED <<repo_vars, job>>
           /\ \A k \in Jobs \ {j} : /\ pc'[k] = pc[k]
                                    /\ commit'[k] = commit[k] /\ existing'[k] = existing[k]
           /\ status' = "done"
           /\ pc'[j] \in {"done", "mark_failed"} /\ commit'[j] = 0
           /\ straight' => straight /\ pc'[j] = "done"
<1>1. TypeOK /\ pc[j] = "write" /\ UNCHANGED <<repo_vars, job>>
  BY DEF IInv, Write
<1>2. PICK label \in {"done", "mark_failed"} :
        /\ Leave(j, label) /\ straight' \in BOOLEAN /\ faults' \in 0..MaxFaults
        /\ straight' => straight /\ label = "done"
  <2>1. CASE Leave(j, "done") /\ UNCHANGED <<straight, faults>>
    BY <1>1, <2>1 DEF TypeOK
  <2>2. CASE Fault("lost_reply") /\ Leave(j, "mark_failed") /\ straight' = FALSE
    <3>1. faults' \in 0..MaxFaults
      BY <1>1, <2>2, FaultTyped
    <3> QED BY <2>2, <3>1
  <2> QED BY <2>1, <2>2 DEF Write
<1>3. /\ label \in {"queued", "mark_failed"} \cup Ended /\ status' = "done"
      /\ indexed' = commit[j]
  BY DEF Ended, Write, RecordDone
<1>4. chunks' \in [Paths -> 0..MaxCommits \cup {None}]
  <2>1. chunks' = [p \in Paths |-> chunks'[p]]
    BY DEF Write, Chunks
  <2> QED BY <2>1, WriteShows
<1>5. TypeOK'
  BY <1>1, <1>2, <1>3, <1>4, LeaveTyped DEF TypeOK, repo_vars
<1> QED BY <1>1, <1>2, <1>3, <1>5, LeaveTyped DEF Leave, Goto, TypeOK

\* The job writes the files of its commit; every path a later push changed is
\* in the lists of a job that is still to come.
LEMMA WriteIndex ==
    ASSUME IInv, NEW j \in Jobs, Write(j), straight, pc'[j] = "done", NEW p \in Paths,
           \A k \in Jobs : pc'[k] # "done" => ~Touches(k, p),
           \E k \in Jobs : job[k].kind = "full" /\ pc'[k] = "done"
    PROVE  Matches(p)'
<1>1. /\ TypeOK /\ JobInv(j) /\ RunInv(j) /\ OrderInv /\ TurnInv /\ HistoryInv
      /\ FullInv(j) /\ IndexInv /\ pc[j] = "write"
      /\ \A k \in Jobs : JobInv(k) /\ job[k].after \in Nat
      /\ commit[j] \in 0..commits /\ commits \in Nat
  BY DEF IInv, Write, RunInv, TypeOK
<1>2. /\ UNCHANGED <<repo_vars, job>> /\ \A k \in Jobs \ {j} : pc'[k] = pc[k]
      /\ Shows(j, p)
  BY WriteTyped, WriteShows
<1>3. \A k \in Jobs : j < k => pc'[k] # "done"
  <2> SUFFICES ASSUME NEW k \in Jobs, j < k, pc'[k] = "done" PROVE FALSE
    OBVIOUS
  <2>1. pc[k] = "done"
    BY <1>2, IndexAssumption
  <2> QED BY <1>1, <2>1 DEF TurnInv
<1>4. Blank \notin Nat /\ Absent \notin Nat /\ Blank # Absent
  BY IndexAssumption
<1>5. CASE job[j].kind = "full"
  <2>1. \A k \in Jobs : job[k].after > commit[j] => ~Touches(k, p)
    BY <1>1, <1>3, <1>5 DEF FullInv
  <2>2. tree[commit[j]][p] = tree[head][p]
    BY <1>1, <2>1 DEF HistoryInv
  <2>3. p \notin existing[j] => chunks[p] = None
    BY <1>1, <1>5 DEF FullInv
  <2> QED BY <1>2, <1>4, <1>5, <2>2, <2>3 DEF Shows, Matches, repo_vars
<1>6. CASE job[j].kind = "incremental" /\ Touches(j, p)
  <2>1. commit[j] = job[j].after
    BY <1>1, <1>6 DEF RunInv
  <2>2. \A k \in Jobs : job[k].after > commit[j] => j < k
    <3> SUFFICES ASSUME NEW k \in Jobs, job[k].after > job[j].after, ~(j < k) PROVE FALSE
      BY <2>1
    <3>1. k < j \/ k = j
      BY IndexAssumption
    <3>2. k < j => job[k].after < job[j].after
      BY <1>1, <1>6 DEF OrderInv, JobInv
    <3> QED BY <1>1, <3>1, <3>2
  <2>3. \A k \in Jobs : job[k].after > commit[j] => ~Touches(k, p)
    BY <1>3, <2>2
  <2>4. tree[commit[j]][p] = tree[head][p]
    BY <1>1, <2>3 DEF HistoryInv
  <2> QED BY <1>2, <1>4, <1>6, <2>4 DEF Shows, Matches, Touches, repo_vars
<1>7. CASE job[j].kind # "full" /\ ~Touches(j, p)
  <2>1. chunks'[p] = chunks[p]
    <3>1. p \notin DOMAIN Embedded(j) /\ p \notin Deleted(j)
      BY <1>7 DEF Embedded, chunk_repo, Deleted, Touches
    <3> QED BY <3>1 DEF Write, Chunks
  <2>2. \E k \in Jobs : job[k].kind = "full" /\ pc[k] = "done"
    BY <1>2, <1>7
  <2>3. \A k \in Jobs : pc[k] # "done" => ~Touches(k, p)
    BY <1>2, <1>7
  <2>4. Matches(p)
    BY <1>1, <2>2, <2>3 DEF IndexInv
  <2> QED BY <1>2, <2>1, <2>4 DEF Matches, repo_vars
<1>8. job[j].kind # "full" /\ Touches(j, p) => job[j].kind = "incremental"
  BY <1>1 DEF JobInv
<1> QED BY <1>5, <1>6, <1>7, <1>8

LEMMA WriteStep ==
    ASSUME IInv, NEW j \in Jobs, Write(j)
    PROVE  IInv'
<1>1. /\ TypeOK' /\ UNCHANGED <<repo_vars, job>>
      /\ \A k \in Jobs \ {j} : /\ pc'[k] = pc[k]
                               /\ commit'[k] = commit[k] /\ existing'[k] = existing[k]
      /\ status' = "done"
      /\ pc'[j] \in {"done", "mark_failed"} /\ commit'[j] = 0
      /\ straight' => straight /\ pc'[j] = "done"
  BY WriteTyped
<1>2. /\ pc[j] = "write" /\ TypeOK /\ OrderInv /\ commits \in Nat
      /\ \A k \in Jobs : JobInv(k) /\ RunInv(k)
      /\ \A k \in Jobs : pc'[k] = "idle" <=> pc[k] = "idle"
  BY <1>1 DEF IInv, Write, TypeOK
<1>3. \A k \in Jobs : JobInv(k)'
  BY <1>1, <1>2 DEF JobInv, Touches, repo_vars
<1>4. ASSUME NEW k \in Jobs PROVE RunInv(k)'
  <2>1. CASE k = j
    BY <1>1, <1>2, <2>1 DEF RunInv, repo_vars
  <2>2. CASE k # j
    BY <1>1, <1>2, <2>2 DEF RunInv, repo_vars
  <2> QED BY <2>1, <2>2
<1>5. OrderInv'
  BY <1>1, <1>2 DEF OrderInv
<1>6. ASSUME straight'
      PROVE  (TurnInv /\ HistoryInv /\ (\A k \in Jobs : FullInv(k)) /\ IndexInv /\ StatusInv)'
  <2>1. TurnInv /\ HistoryInv /\ (\A k \in Jobs : FullInv(k)) /\ pc'[j] = "done" /\ straight
    BY <1>1, <1>6 DEF IInv
  <2>2. TurnInv'
    BY <1>1, <1>2, <2>1 DEF TurnInv, Waits, repo_vars
  <2>3. HistoryInv'
    BY <1>1, <2>1 DEF HistoryInv, Touches, repo_vars
  <2>4. ASSUME NEW k \in Jobs PROVE FullInv(k)'
    <3>1. CASE k = j
      BY <2>1, <3>1 DEF FullInv
    <3>2. CASE k # j
      <4>1. pc[k] # "write"
        BY <1>2, <2>1, <3>2, IndexAssumption DEF TurnInv, Waits
      <4> QED BY <1>1, <2>1, <3>2, <4>1 DEF FullInv
    <3> QED BY <3>1, <3>2
  <2>5. IndexInv'
    <3> SUFFICES ASSUME \E k \in Jobs : job[k].kind = "full" /\ pc'[k] = "done",
                        NEW p \in Paths, \A k \in Jobs : pc'[k] # "done" => ~Touches(k, p)
                 PROVE  Matches(p)'
      BY <1>1 DEF IndexInv, Touches
    <3> QED BY <2>1, WriteIndex
  <2>6. StatusInv'
    BY <1>1 DEF StatusInv
  <2> QED BY <2>2, <2>3, <2>4, <2>5, <2>6
<1> QED BY <1>1, <1>3, <1>4, <1>5, <1>6 DEF IInv

-----------------------------------------------------------------------------
(* New jobs *)

\* The new job is the last one, of a commit that no other job knows of.
LEMMA EnqueueKeeps ==
    ASSUME IInv, NEW j \in Jobs, NEW what, MarkAndEnqueue(j, what), TypeOK',
           what.kind # "none", what.after = 0 \/ what.after > commits,
           commits <= commits', \A c \in 0..commits : tree'[c] = tree[c],
           JobInv(j)',
           straight' =>
             /\ straight /\ head' = commits' /\ HistoryInv'
             /\ \A p \in Paths : tree'[head'][p] = tree[head][p] \/ p \in what.reembed \cup what.removed
    PROVE  IInv'
<1>1. /\ TypeOK /\ OrderInv /\ commits \in Nat /\ commits' \in Nat
      /\ \A k \in Jobs : JobInv(k) /\ RunInv(k) /\ job[k].after \in Nat
      /\ pc[j] = "idle" /\ \A k \in Jobs : k < j => pc[k] # "idle"
      /\ UNCHANGED <<run_vars, chunks, indexed>>
  BY DEF IInv, MarkAndEnqueue, TypeOK
<1>2. /\ pc'[j] = "queued" /\ job'[j] = what
      /\ \A k \in Jobs \ {j} : pc'[k] = pc[k] /\ job'[k] = job[k]
  BY <1>1 DEF MarkAndEnqueue, Goto, TypeOK
<1>3. what.after \in Nat
  BY <1>2 DEF TypeOK
<1>4. \A k \in Jobs : j < k => pc[k] = "idle" /\ job[k].after = 0
  BY <1>1 DEF OrderInv, JobInv
<1>5. \A k \in Jobs : pc[k] # "idle" => k < j
  <2> SUFFICES ASSUME NEW k \in Jobs, pc[k] # "idle" PROVE k < j
    OBVIOUS
  <2>1. k # j /\ ~(j < k)
    BY <1>1, <1>4
  <2> QED BY <2>1, IndexAssumption
<1>6. ASSUME NEW k \in Jobs PROVE JobInv(k)'
  <2>1. CASE k # j
    <3>1. job[k].after \in 0..commits /\ tree'[job[k].after] = tree[job[k].after]
      BY <1>1 DEF JobInv
    <3> QED BY <1>1, <1>2, <2>1, <3>1 DEF JobInv, Touches
  <2> QED BY <2>1
<1>7. ASSUME NEW k \in Jobs PROVE RunInv(k)'
  <2>1. commit[k] <= commits' /\ commit'[k] = commit[k]
    BY <1>1 DEF RunInv, run_vars, TypeOK
  <2>2. CASE k = j
    BY <1>2, <2>1, <2>2 DEF RunInv
  <2>3. CASE k # j
    BY <1>1, <1>2, <2>1, <2>3 DEF RunInv
  <2> QED BY <2>2, <2>3
<1>8. OrderInv'
  <2> SUFFICES ASSUME NEW l \in Jobs, NEW k \in Jobs, k < l
               PROVE  /\ pc'[k] = "idle" => pc'[l] = "idle"
                      /\ job'[l].after # 0 => job'[k].after < job'[l].after
    BY DEF OrderInv
  <2>1. CASE l = j
    <3>1. k # j
      BY <2>1, IndexAssumption
    <3>2. job[k].after <= commits
      BY <1>1 DEF JobInv
    <3> QED BY <1>1, <1>2, <1>3, <2>1, <3>1, <3>2
  <2>2. CASE k = j
    <3>1. l # j
      BY <2>2, IndexAssumption
    <3> QED BY <1>2, <1>4, <2>2, <3>1
  <2>3. CASE l # j /\ k # j
    BY <1>1, <1>2, <2>3 DEF OrderInv
  <2> QED BY <2>1, <2>2, <2>3
<1>9. ASSUME straight'
      PROVE  (TurnInv /\ HistoryInv /\ (\A k \in Jobs : FullInv(k)) /\ IndexInv /\ StatusInv)'
  <2>1. /\ TurnInv /\ (\A k \in Jobs : FullInv(k)) /\ IndexInv
        /\ head' = commits' /\ HistoryInv'
        /\ \A p \in Paths : tree'[head'][p] = tree[head][p] \/ p \in what.reembed \cup what.removed
    BY <1>9 DEF IInv
  <2>2. TurnInv'
    <3>1. \A k \in Jobs : j < k => pc'[k] = "idle"
      BY <1>2, <1>4, IndexAssumption
    <3> QED BY <1>2, <2>1, <3>1, IndexAssumption DEF TurnInv, Waits
  <2>3. ASSUME NEW k \in Jobs PROVE FullInv(k)'
    <3>1. CASE k = j
      BY <1>2, <3>1 DEF FullInv
    <3>2. CASE k # j
      <4>1. pc[k] \in {"download", "existing", "write"} => k < j
        BY <1>5
      <4> QED BY <1>1, <1>2, <2>1, <3>2, <4>1 DEF FullInv, run_vars
    <3> QED BY <3>1, <3>2
  <2>4. IndexInv'
    <3> SUFFICES ASSUME \E k \in Jobs : job'[k].kind = "full" /\ pc'[k] = "done",
                        NEW p \in Paths
                 PROVE  Matches(p)' \/ \E k \in Jobs : pc'[k] # "done" /\ Touches(k, p)'
      BY DEF IndexInv
    <3>1. \E k \in Jobs : job[k].kind = "full" /\ pc[k] = "done"
      BY <1>2
    <3>2. Matches(p) \/ \E k \in Jobs : pc[k] # "done" /\ Touches(k, p)
      BY <2>1, <3>1 DEF IndexInv
    <3>3. ASSUME NEW k \in Jobs, pc[k] # "done", Touches(k, p)
          PROVE  pc'[k] # "done" /\ Touches(k, p)'
      <4>1. k # j
        BY <1>1, <3>3 DEF JobInv
      <4> QED BY <1>2, <3>3, <4>1 DEF Touches
    <3>4. CASE p \in what.reembed \cup what.removed
      BY <1>2, <3>4 DEF Touches
    <3>5. CASE Matches(p) /\ tree'[head'][p] = tree[head][p]
      BY <1>1, <3>5 DEF Matches
    <3> QED BY <2>1, <3>2, <3>3, <3>4, <3>5
  <2>5. StatusInv'
    BY <1>2 DEF StatusInv
  <2> QED BY <2>1, <2>2, <2>3, <2>4, <2>5
<1> QED BY <1>6, <1>7, <1>8, <1>9 DEF IInv

LEMMA InstallStep ==
    ASSUME IInv, NEW j \in Jobs, Install(j)
    PROVE  IInv'
<1> DEFINE what == [NoJob EXCEPT !.kind = "full"]
<1>1. /\ TypeOK /\ MarkAndEnqueue(j, what) /\ UNCHANGED <<repo_vars, straight, faults>>
      /\ pc[j] = "idle"
  BY DEF IInv, Install, MarkAndEnqueue
<1>2. what = [kind |-> "full", after |-> 0, reembed |-> {}, removed |-> {}]
  BY DEF NoJob
<1> HIDE DEF what
<1>3. TypeOK'
  BY <1>1, <1>2, IndexAssumption DEF TypeOK, MarkAndEnqueue, Goto, run_vars, repo_vars
<1>4. job'[j] = what /\ pc'[j] = "queued"
  BY <1>1 DEF TypeOK, MarkAndEnqueue, Goto
<1>5. JobInv(j)'
  BY <1>1, <1>2, <1>4 DEF JobInv, Touches, TypeOK, repo_vars
<1>6. straight' => straight /\ head' = commits' /\ HistoryInv'
  <2>1. HistoryInv => HistoryInv'
    <3> SUFFICES ASSUME HistoryInv, NEW c \in 0..commits, NEW p \in Paths,
                        tree[c][p] # tree[head][p]
                 PROVE  \E k \in Jobs : job'[k].after > c /\ Touches(k, p)'
      BY <1>1 DEF HistoryInv, repo_vars
    <3>1. PICK k \in Jobs : job[k].after > c /\ Touches(k, p)
      BY DEF HistoryInv
    <3>2. k # j
      BY <1>1, <3>1 DEF IInv, JobInv
    <3>3. job'[k] = job[k]
      BY <1>1, <3>2 DEF TypeOK, MarkAndEnqueue
    <3> QED BY <3>1, <3>3 DEF Touches
  <2> QED BY <1>1, <2>1 DEF IInv, TurnInv, repo_vars
<1>7. /\ what.kind # "none" /\ what.after = 0 /\ commits <= commits'
      /\ \A c \in 0..commits : tree'[c] = tree[c]
      /\ straight' => \A p \in Paths : tree'[head'][p] = tree[head][p]
  BY <1>1, <1>2 DEF repo_vars, TypeOK
<1> QED BY <1>1, <1>3, <1>5, <1>6, <1>7, EnqueueKeeps

LEMMA PushStep ==
    ASSUME IInv, NEW j \in Jobs, NEW list \in Lists, Push(j, list)
    PROVE  IInv'
<1> DEFINE what == [kind |-> "incremental", after |-> commits + 1,
                    reembed |-> list.reembed, removed |-> list.removed]
<1>1. /\ TypeOK /\ MarkAndEnqueue(j, what) /\ commits < MaxCommits /\ commits' = commits + 1
      /\ commits \in Nat /\ head \in 0..commits /\ pc[j] = "idle"
      /\ list \in [reembed : SUBSET Paths, removed : SUBSET Paths]
  BY IndexAssumption DEF IInv, Push, MarkAndEnqueue, TypeOK
<1>2. PICK base \in 0..commits, new \in [list.reembed \cup list.removed -> {Absent, Blank, commits + 1}] :
         /\ \A p \in DOMAIN new :
              p \in (IF new[p] = Absent THEN list.removed ELSE list.reembed)
         /\ tree' = [tree EXCEPT ![commits + 1] =
                       [p \in Paths |-> IF p \in DOMAIN new THEN new[p] ELSE tree[base][p]]]
         /\ \/ base = head /\ head' = commits + 1 /\ UNCHANGED <<straight, faults>>
            \/ /\ Fault("branch") /\ straight' = FALSE
               /\ head' = head \/ (base # head /\ head' = commits + 1)
  BY DEF Push
<1>3. /\ tree' \in [0..MaxCommits -> [Paths -> Contents]]
      /\ \A c \in 0..commits : tree'[c] = tree[c]
      /\ \A p \in Paths : tree'[commits + 1][p] =
           IF p \in list.reembed \cup list.removed THEN new[p] ELSE tree[base][p]
  <2>1. TypeOK /\ commits < MaxCommits
    BY <1>1
  <2>2. /\ new \in [list.reembed \cup list.removed -> {Absent, Blank, commits + 1}]
        /\ tree' = [tree EXCEPT ![commits + 1] =
                      [p \in Paths |-> IF p \in DOMAIN new THEN new[p] ELSE tree[base][p]]]
    BY <1>2
  <2> QED BY ONLY <2>1, <2>2, PushTree, base \in 0..commits, list \in Lists
<1>4. /\ straight' \in BOOLEAN /\ faults' \in 0..MaxFaults /\ head' \in 0..commits'
      /\ straight' => straight /\ base = head /\ head' = commits + 1
  <2>1. head' = head \/ head' = commits + 1
    BY <1>2
  <2>2. faults' \in 0..MaxFaults
    BY <1>1, <1>2, FaultTyped DEF TypeOK
  <2>3. straight' \in BOOLEAN
    BY <1>1, <1>2 DEF TypeOK
  <2>4. straight' => straight /\ base = head /\ head' = commits + 1
    BY <1>2
  <2> QED BY <1>1, <2>1, <2>2, <2>3, <2>4
<1>5. /\ what \in [kind : {"none", "full", "incremental"}, after : 0..MaxCommits,
                   reembed : SUBSET Paths, removed : SUBSET Paths]
      /\ commits' \in 0..MaxCommits
      /\ what.kind = "incremental" /\ what.after = commits + 1
      /\ what.reembed = list.reembed /\ what.removed = list.removed
  BY <1>1, IndexAssumption
<1> HIDE DEF what
<1>6. /\ job' = [job EXCEPT ![j] = what] /\ pc' = [pc EXCEPT ![j] = "queued"]
      /\ status' = "pending" /\ UNCHANGED <<run_vars, chunks, indexed>>
  BY <1>1 DEF MarkAndEnqueue, Goto
<1>7. TypeOK'
  BY <1>1, <1>3, <1>4, <1>5, <1>6 DEF TypeOK, run_vars
<1>8. job'[j] = what /\ pc'[j] = "queued" /\ \A k \in Jobs \ {j} : job'[k] = job[k]
  BY <1>1, <1>6 DEF TypeOK
<1>9. JobInv(j)'
  <2>1. \A p \in list.reembed \cup list.removed :
          p \in (IF new[p] = Absent THEN list.removed ELSE list.reembed)
    BY <1>2
  <2> QED BY <1>1, <1>3, <1>5, <1>8, <2>1 DEF JobInv
<1>10. straight' =>
         \A p \in Paths : tree'[head'][p] = tree[head][p] \/ p \in what.reembed \cup what.removed
  BY <1>3, <1>4, <1>5
<1>11. ASSUME straight' PROVE HistoryInv'
  <2> SUFFICES ASSUME NEW c \in 0..commits + 1, NEW p \in Paths, tree'[c][p] # tree'[head'][p]
               PROVE  \E k \in Jobs : job'[k].after > c /\ Touches(k, p)'
    BY <1>1 DEF HistoryInv
  <2>1. c \in 0..commits /\ tree'[c] = tree[c] /\ HistoryInv
    BY <1>1, <1>3, <1>4, <1>11 DEF IInv
  <2>2. CASE p \in what.reembed \cup what.removed
    BY <1>1, <1>5, <1>8, <2>1, <2>2 DEF Touches
  <2>3. CASE tree[c][p] # tree[head][p]
    <3>1. PICK k \in Jobs : job[k].after > c /\ Touches(k, p)
      BY <2>1, <2>3 DEF HistoryInv
    <3>2. k # j
      BY <1>1, <3>1 DEF IInv, JobInv
    <3> QED BY <1>8, <3>1, <3>2 DEF Touches
  <2> QED BY <1>10, <1>11, <2>1, <2>2, <2>3
<1> QED BY <1>1, <1>3, <1>4, <1>5, <1>7, <1>9, <1>10, <1>11, EnqueueKeeps

-----------------------------------------------------------------------------
(* The theorems *)

LEMMA IndexNext == IInv /\ [Next]_vars => IInv'
<1> SUFFICES ASSUME IInv, [Next]_vars PROVE IInv'
  OBVIOUS
<1>1. ASSUME NEW j \in Jobs,
             \/ Install(j) \/ \E list \in Lists : Push(j, list)
             \/ Step(j) \/ WorkerDies(j) \/ Cancelled(j) \/ Fails(j)
      PROVE  IInv'
  BY <1>1, InstallStep, PushStep, StartStep, EndsStep, ResolveStep, DownloadStep,
     ReadExistingStep, WriteStep DEF Step
<1>2. CASE UNCHANGED vars
  <2> USE <1>2 DEF vars, repo_vars, run_vars, state_vars
  <2>1. TypeOK'
    BY DEF IInv, TypeOK
  <2>2. \A j \in Jobs : JobInv(j)' /\ RunInv(j)'
    BY DEF IInv, JobInv, RunInv, Touches
  <2>3. OrderInv'
    BY DEF IInv, OrderInv
  <2>4. straight' => (TurnInv /\ HistoryInv /\ (\A j \in Jobs : FullInv(j)) /\ IndexInv /\ StatusInv)'
    BY DEF IInv, TurnInv, HistoryInv, FullInv, IndexInv, StatusInv, Matches, Touches
  <2> QED BY <2>1, <2>2, <2>3, <2>4 DEF IInv
<1> QED BY <1>1, <1>2 DEF Next

\* The repository, its jobs and its index together, through every fault.
THEOREM IndexInvariant == Spec => []IInv
<1> QED BY IndexInit, IndexNext, PTL DEF Spec

\* Jobs, runs, chunks and status keep their types.
THEOREM IndexTypeCorrect == Spec => []TypeOK
<1>1. IInv => TypeOK
  BY DEF IInv
<1> QED BY <1>1, IndexInvariant, PTL

\* full_index and incremental_index write what they read at one commit, and the
\* commit they record is that one: for any pushes, forced ones and those to
\* other branches among them, and any jobs that run at the same time.
THEOREM AWriteShowsItsCommitAlways == Spec => AWriteShowsItsCommit
<1>1. IInv /\ [Next]_vars =>
        [\A j \in Jobs :
           pc[j] = "write" /\ pc'[j] = "done" =>
             indexed' = commit[j] /\ \A p \in Paths : Shows(j, p)]_vars
  <2> SUFFICES ASSUME IInv, Next, NEW j \in Jobs, pc[j] = "write", pc'[j] = "done"
               PROVE  indexed' = commit[j] /\ \A p \in Paths : Shows(j, p)
    OBVIOUS
  <2>1. pc \in [Jobs -> {"idle", "queued"} \cup Waits \cup Ended]
    BY DEF IInv, TypeOK
  <2>2. PICK k \in Jobs : \/ Install(k) \/ \E list \in Lists : Push(k, list)
                          \/ Step(k) \/ WorkerDies(k) \/ Cancelled(k) \/ Fails(k)
    BY DEF Next
  <2>3. \E label : pc' = [pc EXCEPT ![k] = label]
    BY <2>2 DEF Install, Push, MarkAndEnqueue, Step, Start, GiveUp, Resolve, Download,
       ReadExisting, Write, MarkFailed, WorkerDies, Cancelled, Fails, Leave, Goto
  <2>4. k = j
    BY <2>1, <2>3
  <2>5. Write(j)
    BY <2>1, <2>2, <2>4 DEF Install, Push, MarkAndEnqueue, Step, Start, GiveUp, Resolve,
       Download, ReadExisting, MarkFailed, WorkerDies, Cancelled, Fails, Leave, Goto
  <2> QED BY <2>5, WriteShows DEF Write, RecordDone
<1>2. [\A j \in Jobs :
         pc[j] = "write" /\ pc'[j] = "done" =>
           indexed' = commit[j] /\ \A p \in Paths : Shows(j, p)]_vars
      <=> [\A j \in Jobs :
         pc[j] = "write" /\ pc'[j] = "done" =>
            /\ indexed' = commit[j]
            /\ \A p \in Paths :
                 LET file == tree[commit[j]][p] IN
                 \/ file \in Nat /\ chunks'[p] = file
                 \/ file \notin Nat /\ chunks'[p] = None
                 \/ /\ chunks'[p] = chunks[p]
                    /\ IF job[j].kind = "full"
                       THEN file \notin Nat /\ p \notin existing[j]
                       ELSE p \notin job[j].removed /\ (file = Blank \/ p \notin job[j].reembed)]_vars
  BY DEF Shows
<1> QED BY <1>1, <1>2, IndexInvariant, PTL DEF Spec, AWriteShowsItsCommit

\* Where every job ran in its turn, the incremental updates add up: the index is
\* that of HEAD, although no job looked at more than its own push.
THEOREM CaughtUpIsHeadAlways == Spec => []CaughtUpIsHead
<1>1. IInv => CaughtUpIsHead
  <2> SUFFICES ASSUME IInv, CaughtUp
               PROVE  status = "done" /\ \A p \in Paths : Matches(p)
    BY DEF CaughtUpIsHead, Matches
  <2>1. /\ IndexInv /\ StatusInv /\ \A j \in Jobs : pc[j] \in {"idle", "done"} /\ JobInv(j)
        /\ \E j \in Jobs : job[j].kind = "full"
    BY DEF IInv, CaughtUp
  <2>2. \E j \in Jobs : job[j].kind = "full" /\ pc[j] = "done"
    BY <2>1 DEF JobInv
  <2>3. ASSUME NEW p \in Paths, NEW j \in Jobs, pc[j] # "done" PROVE ~Touches(j, p)
    BY <2>1, <2>3 DEF JobInv
  <2> QED BY <2>1, <2>2, <2>3 DEF IndexInv, StatusInv
<1> QED BY <1>1, IndexInvariant, PTL
=============================================================================
