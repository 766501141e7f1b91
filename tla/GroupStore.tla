------------------------------ MODULE GroupStore ------------------------------
(***************************************************************************)
(* What a batch of rollouts promises the trainer, with nothing said of     *)
(* how: each session of a prompt ends once, with some number of            *)
(* trajectories; a prompt's group, all trajectories of all its sessions,   *)
(* is published at once, with a status that says if it has any; and the    *)
(* trainer reads all that is published, as often as it likes.  There is no *)
(* queue that is written piece by piece and no task; a group is published, *)
(* and read, whole or not at all.  RolloutBatch implements this module.    *)
(***************************************************************************)
EXTENDS Integers

CONSTANTS Prompts,  \* the uids of the batch
          Sessions  \* of each prompt

VARIABLES over,   \* the sessions of each prompt that have ended
          output, \* how many trajectories each of them has
          status, \* each group: "running", then "finished" or "failure"
          group,  \* its trajectories, none before it is published
          replica \* status and group of each prompt, as the trainer read them last

storeVars == <<over, output, status, group, replica>>

StoreInit ==
    /\ over = [p \in Prompts |-> {}]
    /\ output = [p \in Prompts |-> [i \in Sessions |-> 0]]
    /\ status = [p \in Prompts |-> "running"]
    /\ group = [p \in Prompts |-> {}]
    /\ replica = [p \in Prompts |-> [status |-> "running", group |-> {}]]

(* A session ends, with trajectories or without.                           *)
EndSession(p, i) ==
    /\ i \in Sessions \ over[p]
    /\ over' = [over EXCEPT ![p] = @ \cup {i}]
    /\ output'[p][i] \in Nat
    /\ output' = [output EXCEPT ![p][i] = output'[p][i]]
    /\ UNCHANGED <<status, group, replica>>

Trajectories(p) ==
    UNION {{<<p, i, j>> : j \in 0 .. output[p][i] - 1} : i \in Sessions}

(* The group is there, all of it.                                          *)
Publish(p) ==
    /\ status[p] = "running" /\ over[p] = Sessions
    /\ group' = [group EXCEPT ![p] = Trajectories(p)]
    /\ status' = [status EXCEPT ![p] = IF Trajectories(p) = {} THEN "failure" ELSE "finished"]
    /\ UNCHANGED <<over, output, replica>>

Read ==
    /\ replica' = [p \in Prompts |-> [status |-> status[p], group |-> group[p]]]
    /\ UNCHANGED <<over, output, status, group>>

StoreNext ==
    \/ \E p \in Prompts, i \in Sessions : EndSession(p, i)
    \/ \E p \in Prompts : Publish(p)
    \/ Read

StoreSpec == StoreInit /\ [][StoreNext]_storeVars
===============================================================================
