-------------------------- MODULE RunManagerSerial --------------------------
(***************************************************************************)
(* The serial run manager: run takes the outstanding runs one after the     *)
(* other, pass after pass, until each has a result or has failed            *)
(* max_run_failures times.  Each run is a run thread of ModelInterface,     *)
(* which is watched without pause.                                          *)
(***************************************************************************)
EXTENDS ModelInterface, Integers

CONSTANTS Runs,          \* the runs of a group
          MaxRunFail     \* max_run_failures

ASSUME MaxRunFailAssumption == MaxRunFail \in Nat \ {0}

VARIABLES manager,   \* the next statement of run, or "open", "queued"
          pass,      \* run_id_vec: runs of this pass not yet taken
          cur,       \* the run that is being made, as a set
          status,    \* the status byte of each run in the storage, an int8_t
          stop       \* pest.stp is there

serialVars == <<manager, pass, cur, status, stop>>
ManagerGoes(l) == manager' = l
OnlySerial == UNCHANGED runVars

Outstanding == {r \in Runs : status[r] <= 0 /\ status[r] > -MaxRunFail}

(* reinitialize and add_run. *)
Queue ==
  /\ manager = "open" /\ ManagerGoes("queued")
  /\ status' = [r \in Runs |-> 0]
  /\ OnlySerial /\ UNCHANGED <<pass, cur, stop>>

Run ==
  /\ manager = "queued" /\ ManagerGoes("next")
  /\ pass' = Outstanding
  /\ OnlySerial /\ UNCHANGED <<cur, status, stop>>

(* A mutant: one pass only. *)
OnePass ==
  /\ manager = "next" /\ pass = {} /\ ManagerGoes("open")
  /\ OnlySerial /\ UNCHANGED <<pass, cur, status, stop>>

NextPass ==
  /\ manager = "next" /\ pass = {}
  /\ IF Outstanding = {} THEN ManagerGoes("open") ELSE ManagerGoes("next")
  /\ pass' = Outstanding
  /\ OnlySerial /\ UNCHANGED <<cur, status, stop>>

Byte(x) == ((x + 128) % 256) - 128                \* int8_t

(* update_run_failed: the byte of a pending run goes down by one, and at its     *)
(* lower end wraps to a positive value, which reads as a finished run.           *)
Failed(r) == status' = [status EXCEPT ![r] = IF @ < 1 THEN Byte(@ - 1) ELSE @]

TakeRun(r) ==
  /\ manager = "next" /\ r \in pass /\ pass' = pass \ {r}
  /\ IF stop
     THEN Failed(r) /\ OnlySerial /\ UNCHANGED <<manager, cur>>
     ELSE Spawn /\ ManagerGoes("exception") /\ cur' = {r} /\ UNCHANGED status
  /\ UNCHANGED stop

LookAtException ==
  /\ manager = "exception"
  /\ IF exception THEN AskToEnd /\ ManagerGoes("join early")
     ELSE OnlySerial /\ ManagerGoes("finished")
  /\ UNCHANGED <<pass, cur, status, stop>>

LookAtFinished ==
  /\ manager = "finished" /\ ManagerGoes(IF finished THEN "join" ELSE "stop")
  /\ OnlySerial /\ UNCHANGED <<pass, cur, status, stop>>

(* A mutant: pest.stp is not looked for while a model runs. *)
LookForNothing ==
  /\ manager = "stop" /\ ManagerGoes("exception")
  /\ OnlySerial /\ UNCHANGED <<pass, cur, status, stop>>

LookForStop ==
  /\ manager = "stop"
  /\ IF stop THEN AskToEnd /\ ManagerGoes("join early")
     ELSE OnlySerial /\ ManagerGoes("exception")
  /\ UNCHANGED <<pass, cur, status, stop>>

RunFails == \E r \in cur : Failed(r)
Settles == ManagerGoes("next") /\ cur' = {} /\ UNCHANGED <<pass, stop>>
Settled(failed) ==
  IF failed THEN RunFails ELSE \E r \in cur : status' = [status EXCEPT ![r] = 1]

(* A mutant: behind the loop a thread is joined only if it still can be. *)
JoinOnce ==
  /\ manager = "join early" /\ JoinThread /\ Settles /\ Settled(exception)

(* The thread has been joined in the loop: joining it again throws, and the run *)
(* fails, also when it has just got its result.                                *)
JoinTwice ==
  /\ manager = "join early" /\ JoinThread /\ Settles /\ RunFails

JoinLast ==
  /\ manager = "join" /\ JoinThread /\ Settles /\ Settled(exception)

Watch == LookAtException \/ LookAtFinished \/ LookForStop \/ JoinTwice \/ JoinLast
SerialStep == NextPass \/ (\E r \in Runs : TakeRun(r)) \/ Watch

CreateStop ==
  /\ ~stop /\ manager # "open" /\ stop' = TRUE
  /\ OnlySerial /\ UNCHANGED <<manager, pass, cur, status>>

RemoveStop ==
  /\ stop /\ manager = "open" /\ stop' = FALSE
  /\ OnlySerial /\ UNCHANGED <<manager, pass, cur, status>>

SerialNext == Queue \/ Run \/ SerialStep \/ CreateStop \/ RemoveStop

SerialInit ==
  /\ manager = "open" /\ pass = {} /\ cur = {}
  /\ status = [r \in Runs |-> 0] /\ stop = FALSE

(* n_run_failures_exceeded: -100 and below are reserved for cancelled runs. *)
Exceeded(r) == status[r] <= -MaxRunFail /\ status[r] > -100

(* What the program sees: module RunManager. *)
Contract == INSTANCE RunManager WITH
  outcome <- [r \in Runs |-> IF status[r] > 0 THEN "done"
                             ELSE IF Exceeded(r) THEN "failed" ELSE "todo"],
  phase <- IF manager \in {"open", "queued"} THEN manager ELSE "running",
  stopped <- FALSE
=============================================================================
