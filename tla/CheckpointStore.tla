-------------------------- MODULE CheckpointStore ---------------------------
(***************************************************************************)
(* orchestrator/redis_checkpointer.py: what a run of the review graph      *)
(* leaves in Redis for a later run of the same thread.                     *)
(*                                                                         *)
(* A thread has a list of checkpoint ids; aget_tuple reads the last one    *)
(* and the pending writes filed under it.  Two runs of a thread share the  *)
(* writes of the checkpoint they both started from, and each checkpoint a  *)
(* run puts becomes the last of the list.  A slot holds the checkpoints    *)
(* one job put: its stage, and the specialists' writes filed under it.     *)
(* Redis keeps nothing across a restart (docker-compose.yml mounts no      *)
(* volume for it).                                                         *)
(***************************************************************************)
EXTENDS FindingGate, ReviewDomain

VARIABLES
    latest,         \* whose checkpoint is last in the thread's list
    slot            \* slot[w]: stage and writes of the checkpoint w put last

Stages == {"none", "fan_out", "joined", "finished"}

NoWrites == [a \in Specialists |-> Missing]

EmptySlot == [stage |-> "none", writes |-> NoWrites]

checkpoint_vars == <<latest, slot>>

CheckpointTypeOK ==
    /\ latest \in [Deliveries -> Jobs \cup {None}]
    /\ slot \in [Jobs -> [stage : Stages, writes : Reports]]

CheckpointInit ==
    /\ latest = [d \in Deliveries |-> None]
    /\ slot = [w \in Jobs |-> EmptySlot]

\* aget_tuple: the thread's last checkpoint, with its pending writes.
HasCheckpoint(d) == latest[d] # None
aget_tuple(d) == slot[latest[d]]

\* aput: the checkpoint is stored and its id pushed on the thread's list.
aput(d, w, stage, writes) ==
    /\ slot' = [slot EXCEPT ![w] = [stage |-> stage, writes |-> writes]]
    /\ latest' = [latest EXCEPT ![d] = w]

\* aput_writes, under the checkpoint the task runs from.  A write is made once
\* per task; the HKEYS that looks for an earlier one and the HSET are two
\* commands, so of two runs that write the same task either may prevail.
aput_writes(w, a, value) ==
    /\ \E kept \in ({slot[w].writes[a]} \ {Missing}) \cup {value} :
          slot' = [slot EXCEPT ![w].writes[a] = kept]
    /\ UNCHANGED latest

\* A restart of Redis: every key is gone.
ForgetCheckpoints ==
    /\ latest' = [d \in Deliveries |-> None]
    /\ slot' = [w \in Jobs |-> EmptySlot]
=============================================================================
