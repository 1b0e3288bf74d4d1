------------------------------ MODULE TaskQueue ------------------------------
(***************************************************************************)
(* What openland-module-workers promises to the code that calls pushWork,  *)
(* without leases, locks, indexes or processes.                            *)
(*                                                                         *)
(* A transactional queue runs the handler of a task in the transaction     *)
(* that removes the task: once.  An external queue runs the handler at     *)
(* least once before it removes the task, and perhaps again later.  A task *)
(* is given up only when the queue limits its attempts.                    *)
(* BetterWorkerQueue is shown to implement this module.                    *)
(***************************************************************************)
EXTENDS Naturals

CONSTANTS Tasks, Retries    \* Retries: "limited" or "infinite"

VARIABLES
    type,    \* "transactional" or "external"
    stage,   \* "new", "open", "done" or "dropped"
    runs     \* handler runs of each task that took effect

vars == <<type, stage, runs>>

InStage(st) == {id \in Tasks : stage[id] = st}

Init ==
    /\ type \in {"transactional", "external"}
    /\ stage = [id \in Tasks |-> "new"]
    /\ runs = [id \in Tasks |-> 0]

Move(S, st) == stage' = [id \in Tasks |-> IF id \in S THEN st ELSE stage[id]]
CountRun(S) == runs' = [id \in Tasks |-> IF id \in S THEN runs[id] + 1 ELSE runs[id]]

Push(id) ==
    /\ id \in InStage("new")
    /\ Move({id}, "open")
    /\ UNCHANGED <<type, runs>>

\* A transactional run: the effect and the removal are one step.
Perform(S) ==
    /\ type = "transactional"
    /\ S \subseteq InStage("open")
    /\ Move(S, "done")
    /\ CountRun(S)
    /\ UNCHANGED type

\* An external run: a process that lost its lease may run a settled task.
Run(S) ==
    /\ type = "external"
    /\ S \cap InStage("new") = {}
    /\ CountRun(S)
    /\ UNCHANGED <<type, stage>>

Confirm(S) ==
    /\ type = "external"
    /\ \A id \in S : stage[id] = "open" /\ runs[id] > 0
    /\ Move(S, "done")
    /\ UNCHANGED <<type, runs>>

GiveUp(S) ==
    /\ Retries = "limited"
    /\ S \subseteq InStage("open")
    /\ Move(S, "dropped")
    /\ UNCHANGED <<type, runs>>

Next ==
    \/ \E id \in Tasks : Push(id)
    \/ \E S \in SUBSET Tasks : Perform(S) \/ Run(S) \/ Confirm(S) \/ GiveUp(S)

Spec == Init /\ [][Next]_vars
=============================================================================
