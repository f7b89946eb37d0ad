----------------------------- MODULE RunManager -----------------------------
(***************************************************************************)
(* What a run manager promises the program that uses it (the contract of    *)
(* RunManagerAbstract: initialize or reinitialize, add_run, run, and then   *)
(* get_run and get_failed_run_ids).  The program queues a set of runs and   *)
(* calls run; every run ends up finished or given up, and run does not      *)
(* return before that, unless the user has asked it to stop.                *)
(*                                                                         *)
(* An outcome only moves forward.  A result that arrives after the run was  *)
(* given up is still taken, and between two calls of run what agents still  *)
(* had to say about the last group may arrive; but once the next group is   *)
(* queued, none of its runs changes before run is called, except that the   *)
(* program may supply the result of one itself (update_run).                *)
(***************************************************************************)
EXTENDS Naturals

CONSTANT Runs

VARIABLES outcome,   \* what became of each run of the group
          phase,     \* "open": between groups; "queued"; "running": inside run
          stopped    \* the user has asked run to stop

vars == <<outcome, phase, stopped>>

Outcome == {"todo", "failed", "done"}

TypeOK ==
  /\ outcome \in [Runs -> Outcome]
  /\ phase \in {"open", "queued", "running"}
  /\ stopped \in BOOLEAN

Init ==
  /\ outcome = [r \in Runs |-> "todo"]
  /\ phase = "open" /\ stopped = FALSE

Queue ==
  /\ phase = "open" /\ phase' = "queued"
  /\ outcome' = [r \in Runs |-> "todo"]
  /\ UNCHANGED stopped

Supply ==
  /\ phase = "queued"
  /\ \E r \in Runs : outcome' = [outcome EXCEPT ![r] = "done"]
  /\ UNCHANGED <<phase, stopped>>

Start == phase = "queued" /\ phase' = "running" /\ UNCHANGED <<outcome, stopped>>

Forward(o) == CASE o = "todo" -> Outcome [] o = "failed" -> {"failed", "done"} [] o = "done" -> {"done"}

Settle ==
  /\ phase # "queued"
  /\ \A r \in Runs : outcome'[r] \in Forward(outcome[r])
  /\ DOMAIN outcome' = Runs
  /\ UNCHANGED <<phase, stopped>>

Return ==
  /\ phase = "running" /\ phase' = "open"
  /\ stopped \/ \A r \in Runs : outcome[r] # "todo"
  /\ UNCHANGED <<outcome, stopped>>

Stop == phase = "running" /\ stopped' = TRUE /\ UNCHANGED <<outcome, phase>>
Resume == phase = "open" /\ stopped' = FALSE /\ UNCHANGED <<outcome, phase>>

Next == Queue \/ Supply \/ Start \/ Settle \/ Return \/ Stop \/ Resume

Spec == Init /\ [][Next]_vars
=============================================================================
