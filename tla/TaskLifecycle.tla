---------------------------- MODULE TaskLifecycle ----------------------------
(***************************************************************************)
(* What the pipeline promises about a task, without queue, markers,        *)
(* retries, sweeps or clocks: a work item that one worker at a time may    *)
(* hold.  It is claimed only while pending, finished or given back only by *)
(* its holder, rescued only when nobody holds it, and final once           *)
(* completed.  This is the life of a task the README draws:                *)
(* pending -> processing -> completed, processing -> pending on a failure. *)
(***************************************************************************)
CONSTANTS
    Task,    \* work items
    Worker   \* those who may hold one

VARIABLES
    state,   \* state of each item
    holders  \* workers that hold a claim on each item and can still act on it

lifecycleVars == <<state, holders>>

LifecycleInit ==
    /\ state = [t \in Task |-> "absent"]
    /\ holders = [t \in Task |-> {}]

Submit(t) ==
    /\ state[t] = "absent"
    /\ state' = [state EXCEPT ![t] = "pending"]
    /\ UNCHANGED holders

TakeUp(w, t) ==
    /\ state[t] = "pending"
    /\ holders[t] = {}
    /\ state' = [state EXCEPT ![t] = "processing"]
    /\ holders' = [holders EXCEPT ![t] = {w}]

\* The holder ends its claim: with the work done, or for another attempt.
Settle(w, t) ==
    /\ state[t] = "processing"
    /\ holders[t] = {w}
    /\ \E s \in {"completed", "pending"} : state' = [state EXCEPT ![t] = s]
    /\ holders' = [holders EXCEPT ![t] = {}]

\* Claims end without a word: workers die, run out of time or lose their call.
Abandon(lost) ==
    /\ holders' = [t \in Task |-> IF t \in lost THEN {} ELSE holders[t]]
    /\ UNCHANGED state

Rescue(t) ==
    /\ state[t] = "processing"
    /\ holders[t] = {}
    /\ state' = [state EXCEPT ![t] = "pending"]
    /\ UNCHANGED holders

\* Removal does not wait for the holder, who will find nothing to write to.
Remove(t) ==
    /\ state[t] \notin {"absent", "deleted"}
    /\ state' = [state EXCEPT ![t] = "deleted"]
    /\ UNCHANGED holders

LifecycleNext ==
    \/ \E t \in Task : Submit(t) \/ Rescue(t) \/ Remove(t)
    \/ \E w \in Worker, t \in Task : TakeUp(w, t) \/ Settle(w, t)
    \/ \E lost \in SUBSET Task : Abandon(lost)

LifecycleSpec == LifecycleInit /\ [][LifecycleNext]_lifecycleVars
=============================================================================
