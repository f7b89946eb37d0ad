---------------------------- MODULE PantherAgent ----------------------------
(***************************************************************************)
(* The agents (class PANTHERAgent): what start_impl does with a message of  *)
(* the master and what run_model makes of a model run.  One agent process   *)
(* is behind each connected socket.                                         *)
(***************************************************************************)
EXTENDS PantherNet

CONSTANTS MaxJoin,     \* bound: how many agents connect
          Reliable     \* sockets whose agent never goes away

ASSUME MaxJoinAssumption == MaxJoin \in Nat
ASSUME ReliableAssumption == Reliable \subseteq Agents

VARIABLES proc,        \* what the agent process behind each socket does
          joins        \* how many agents have connected

agentVars == <<proc, joins>>

(* "idle": blocked in recv_message; "running": in run_model; "sent": the      *)
(* result is sent, files are being transferred, READY is not sent yet.        *)
Idle == [st |-> "idle", run |-> NoRun, grp |-> 0]
ProcState == {Idle} \cup [st : {"running", "sent"}, run : Runs, grp : Groups]

Send(a, m) == toMaster' = [toMaster EXCEPT ![a] = Append(@, m)]
Inbox(a, t) == toAgent[a] # <<>> /\ Head(toAgent[a]).type = t
Consume(a) == toAgent' = [toAgent EXCEPT ![a] = Tail(@)]

Connect(a) ==
  /\ link[a] = "none" /\ joins < MaxJoin
  /\ link' = [link EXCEPT ![a] = "pending"]
  /\ joins' = joins + 1
  /\ UNCHANGED <<toAgent, toMaster, proc>>

Answer(a) ==
  /\ Up(a) /\ proc[a].st = "idle"
  /\ \/ Inbox(a, "REQ_RUNDIR")  /\ Send(a, Plain("RUNDIR"))
     \/ Inbox(a, "NAMES")       /\ UNCHANGED toMaster
     \/ Inbox(a, "REQ_LINPACK") /\ Send(a, Plain("LINPACK"))
     \/ Inbox(a, "REQ_KILL")    /\ UNCHANGED toMaster    \* "run already finished"
  /\ Consume(a)
  /\ UNCHANGED <<link, agentVars>>

StartRun(a) ==
  /\ Up(a) /\ proc[a].st = "idle" /\ Inbox(a, "START_RUN")
  /\ LET m == Head(toAgent[a])
     IN  proc' = [proc EXCEPT ![a] = [st |-> "running", run |-> m.run, grp |-> m.grp]]
  /\ Consume(a)
  /\ UNCHANGED <<link, toMaster, joins>>

SendResult(a, t) ==
  /\ Send(a, Msg(t, proc[a].run, proc[a].grp))
  /\ proc' = [proc EXCEPT ![a].st = "sent"]
  /\ UNCHANGED <<link, joins>>

(* run_model: the model ends, with or without an error. *)
ModelEnds(a) ==
  /\ Up(a) /\ proc[a].st = "running"
  /\ \E t \in {"RUN_FINISHED", "RUN_FAILED"} : SendResult(a, t)
  /\ UNCHANGED toAgent

(* run_model: a kill request arrives first.  An exception of the run thread,  *)
(* say because the model process had ended, still makes it a failed run.      *)
ModelKilled(a) ==
  /\ Up(a) /\ proc[a].st = "running" /\ Inbox(a, "REQ_KILL")
  /\ \E t \in {"RUN_KILLED", "RUN_FAILED"} : SendResult(a, t)
  /\ Consume(a)

SendReady(a) ==
  /\ Up(a) /\ proc[a].st = "sent"
  /\ Send(a, Plain("READY"))
  /\ proc' = [proc EXCEPT ![a] = Idle]
  /\ UNCHANGED <<link, toAgent, joins>>

(* The agent exits, freezes, restarts or loses its connection: some of what   *)
(* it sent still arrives.                                                     *)
Disappear(a) ==
  /\ Up(a) /\ a \notin Reliable
  /\ link' = [link EXCEPT ![a] = "down"]
  /\ \E k \in 0 .. Len(toMaster[a]) :
       toMaster' = [toMaster EXCEPT ![a] = Append(SubSeq(@, 1, k), Plain("EOF"))]
  /\ toAgent' = [toAgent EXCEPT ![a] = <<>>]
  /\ proc' = [proc EXCEPT ![a] = Idle]
  /\ UNCHANGED joins

AgentInit == proc = [a \in Agents |-> Idle] /\ joins = 0

AgentStep(a) == Answer(a) \/ StartRun(a) \/ ModelEnds(a) \/ ModelKilled(a) \/ SendReady(a)
AgentNext == \E a \in Agents : Connect(a) \/ AgentStep(a) \/ Disappear(a)

AgentTypeOK == proc \in [Agents -> ProcState] /\ joins \in Nat
=============================================================================
