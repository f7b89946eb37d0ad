------------------------------ MODULE AgentRun ------------------------------
(***************************************************************************)
(* PANTHERAgent::run_model: the agent's main thread while a model runs.  It *)
(* listens to the master and looks at the flags of the run thread, and in   *)
(* the end decides what to tell the master about the run.  Module           *)
(* PantherAgent has the rest of the agent.                                  *)
(***************************************************************************)
EXTENDS ModelInterface

CONSTANT RestartOnError     \* restart_on_error

ASSUME RestartAssumption == RestartOnError \in BOOLEAN

VARIABLES agent,    \* the main thread's next statement
          done,     \* one last message is waited for
          result    \* final_run_status

agentVars == <<agent, done, result>>
AgentGoes(l) == agent' = l
OnlyAgent == UNCHANGED runVars

(* After a message out of place the agent ends or starts afresh. *)
StartRun ==
  /\ agent \in {"idle", "reported"} /\ Spawn
  /\ result = "CORRUPT_MESG" => RestartOnError
  /\ AgentGoes("exception") /\ done' = FALSE /\ result' = "RUN_FAILED"

LookException ==
  /\ agent = "exception" /\ AgentGoes("finished")
  /\ done' = (done \/ exception)
  /\ OnlyAgent /\ UNCHANGED result

LookFinished ==
  /\ agent = "finished" /\ AgentGoes("receive")
  /\ done' = (done \/ finished)
  /\ OnlyAgent /\ UNCHANGED result

(* The time-out, and a ping that is answered. *)
ReceiveNothing ==
  /\ agent = "receive"
  /\ IF done THEN AgentGoes("join") /\ result' = "RUN_FINISHED"
     ELSE AgentGoes("exception") /\ UNCHANGED result
  /\ OnlyAgent /\ UNCHANGED done

(* A kill request, TERMINATE, and a message that is out of place. *)
Receive(status) ==
  /\ agent = "receive" /\ AskToEnd
  /\ AgentGoes("join") /\ result' = status
  /\ UNCHANGED done

Requests == {"RUN_KILLED", "TERMINATE", "CORRUPT_MESG"}

(* The master cannot be reached: terminate_or_restart sleeps, and then ends the *)
(* process, or throws while the run thread has not been joined.                *)
LoseMaster ==
  /\ agent = "receive" /\ AskToEnd
  /\ AgentGoes("leaving") /\ UNCHANGED <<done, result>>

Leave ==
  /\ agent = "leaving" /\ AgentGoes(IF RestartOnError THEN "aborted" ELSE "exited")
  /\ OnlyAgent /\ UNCHANGED <<done, result>>

JoinRun ==
  /\ agent = "join" /\ JoinThread /\ AgentGoes("last look")
  /\ UNCHANGED <<done, result>>

(* The exception may have come after the finished flag, and it overrides what   *)
(* was decided.  The agent that was told to terminate does so all the same.     *)
Report ==
  /\ agent = "last look" /\ AgentGoes(IF result = "TERMINATE" THEN "exited" ELSE "reported")
  /\ result' = IF exception THEN "RUN_FAILED" ELSE result
  /\ OnlyAgent /\ UNCHANGED done

AgentStep ==
  \/ LookException \/ LookFinished \/ ReceiveNothing \/ JoinRun \/ Report \/ Leave
AgentNext ==
  \/ AgentStep \/ StartRun \/ LoseMaster \/ (\E s \in Requests : Receive(s))

AgentInit == agent = "idle" /\ done = FALSE /\ result = "RUN_FAILED"
Alive == agent \notin {"exited", "aborted"}
=============================================================================
