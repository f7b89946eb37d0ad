----------------------------- MODULE PantherNet -----------------------------
(***************************************************************************)
(* The sockets between the PANTHER run manager ("the master") and its       *)
(* agents: NetPackage messages on TCP connections.                          *)
(*                                                                         *)
(* An element of Agents is a socket of the master (the key of               *)
(* socket_to_iter_map).  When a connection is closed its descriptor is free *)
(* and the next agent that connects may get it, so the same element then    *)
(* stands for a different agent: that is what the operating system does and *)
(* what failure_map, whose values are descriptors, is exposed to.           *)
(*                                                                         *)
(* TCP delivers in order and does not duplicate.  When an agent goes away   *)
(* the master may still read some prefix of what the agent had sent and     *)
(* then reads EOF.  EOF stands for everything that makes process_message    *)
(* call close_agent and nothing else: a receive error, a closed connection, *)
(* a corrupt message, TERMINATE, CORRUPT_MESG, IO_ERROR, DEBUG_FAIL_FREEZE  *)
(* and a corrupt RUNDIR.                                                    *)
(***************************************************************************)
EXTENDS Naturals, Sequences

CONSTANTS Agents,     \* the sockets of the master
          NRuns,      \* the number of runs a program queues in one group
          MaxGroup    \* bound: the number of run groups

ASSUME NRunsAssumption == NRuns \in Nat \ {0}
ASSUME MaxGroupAssumption == MaxGroup \in Nat \ {0}

Runs == 1 .. NRuns
NoRun == 0            \* AgentInfoRec::UNKNOWN_ID, and the run id of a message about no run
Groups == 0 .. MaxGroup

VARIABLES link,       \* the state of each connection
          toAgent,    \* messages sent by the master that the agent has not read
          toMaster    \* messages sent by the agent that the master has not read

netVars == <<link, toAgent, toMaster>>

LinkState == {"none", "pending", "up", "down"}

Msg(t, r, g) == [type |-> t, run |-> r, grp |-> g]
Plain(t) == Msg(t, NoRun, 0)

OrderType == {"REQ_RUNDIR", "NAMES", "REQ_LINPACK", "REQ_KILL"}
ResultType == {"RUN_FINISHED", "RUN_FAILED", "RUN_KILLED"}
ReplyType == {"RUNDIR", "LINPACK", "READY", "EOF"}

(* Only START_RUN and its answer name a run and a group. *)
AgentMsg == {Plain(t) : t \in OrderType} \cup [type : {"START_RUN"}, run : Runs, grp : Groups]
MasterMsg == {Plain(t) : t \in ReplyType} \cup [type : ResultType, run : Runs, grp : Groups]

NetTypeOK ==
  /\ link \in [Agents -> LinkState]
  /\ toAgent \in [Agents -> Seq(AgentMsg)]
  /\ toMaster \in [Agents -> Seq(MasterMsg)]

Up(a) == link[a] = "up"
Down == {a \in Agents : link[a] = "down"}

(***************************************************************************)
(* NetPackage::send to a peer that is there succeeds.  To a peer that has   *)
(* gone it may still succeed (the kernel takes the bytes) or fail: a caller *)
(* picks ok, the gone peers for which it succeeds.                          *)
(***************************************************************************)
SendOk(a, ok) == Up(a) \/ a \in ok

(* The inboxes of the agents after the master sends msgs[a] to every agent a. *)
Sending(msgs) == [a \in Agents |-> IF Up(a) THEN toAgent[a] \o msgs[a] ELSE toAgent[a]]
=============================================================================
