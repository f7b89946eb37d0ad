----------------------------- MODULE PantherPing -----------------------------
(***************************************************************************)
(* How the master pings one agent: ping and listen, which both threads of   *)
(* the master call in turn, and the agent's answer.  Agents are pinged      *)
(* independently of one another.  The agent's record is in state "ACTIVE"   *)
(* while it has a run, in "WAITING" when it may get one, and in "COMPLETE"  *)
(* while its result is being dealt with, when it is not pinged; the states  *)
(* of an agent that is being killed are treated like "ACTIVE".              *)
(***************************************************************************)
EXTENDS Naturals

CONSTANTS MaxFailedPings,    \* MAX_FAILED_PINGS
          MaxUnread          \* bound: messages on the wire, each way

VARIABLES state,         \* the agent's state in the master's record, or "closed"
          ping,          \* get_ping: a request has been sent
          failed,        \* get_failed_pings
          agent,         \* "alive", "frozen" (its connection stays) or "gone"
          toAgent,       \* how many messages the agent, and the master,
          toMaster,      \* have not read yet
          unanswered     \* history: requests sent since the agent was last heard

record == <<state, ping, failed>>
wires == <<toAgent, toMaster>>
vars == <<record, agent, wires, unanswered>>

Open == {"WAITING", "ACTIVE", "COMPLETE"}
Pinged == {"WAITING", "ACTIVE"}

-----------------------------------------------------------------------------
(* The socket is in the set of all sockets from add_agent to close_agent. *)
InMaster == state # "closed"
NotHeard == ~InMaster /\ ping

CloseAgent ==
  /\ state' = "closed" /\ toAgent' = 0 /\ toMaster' = 0 /\ unanswered' = 0
  /\ UNCHANGED <<ping, failed, agent>>

Missed == IF NotHeard THEN failed + 1 ELSE failed
TooMany(n) == n >= MaxFailedPings

DropSilent ==
  /\ state \in Pinged /\ NotHeard /\ TooMany(Missed)
  /\ CloseAgent

Goes == state \in Pinged /\ ~(NotHeard /\ TooMany(Missed))

NotYetDue ==
  /\ Goes /\ failed' = Missed
  /\ UNCHANGED <<state, ping, agent, wires, unanswered>>

SendPing ==
  /\ Goes /\ toAgent < MaxUnread
  /\ ping' = TRUE /\ failed' = Missed
  /\ toAgent' = toAgent + 1 /\ unanswered' = unanswered + 1
  /\ UNCHANGED <<state, agent, toMaster>>

SendFails ==
  /\ Goes /\ agent = "gone"
  /\ \/ TooMany(Missed + 1) /\ CloseAgent
     \/ /\ ~TooMany(Missed + 1) /\ failed' = Missed + 1
        /\ UNCHANGED <<state, ping, agent, wires, unanswered>>

(* listen: whatever the agent says answers the request, and may change its state. *)
Listen ==
  /\ InMaster /\ toMaster > 0
  /\ ping' = FALSE /\ failed' = 0 /\ state' \in Open
  /\ toMaster' = toMaster - 1 /\ unanswered' = 0
  /\ UNCHANGED <<agent, toAgent>>

ListenLost == InMaster /\ toMaster = 0 /\ agent = "gone" /\ CloseAgent

-----------------------------------------------------------------------------
(* The agent answers a request and has things to say of its own, until it hangs *)
(* or goes.                                                                    *)
AnswerPing ==
  /\ agent = "alive" /\ toAgent > 0 /\ toMaster < MaxUnread
  /\ toAgent' = toAgent - 1 /\ toMaster' = toMaster + 1
  /\ UNCHANGED <<record, agent, unanswered>>

Speak ==
  /\ agent = "alive" /\ InMaster /\ toMaster < MaxUnread
  /\ toMaster' = toMaster + 1
  /\ UNCHANGED <<record, agent, toAgent, unanswered>>

Stops ==
  /\ agent = "alive" /\ agent' \in {"frozen", "gone"}
  /\ UNCHANGED <<record, wires, unanswered>>

Init ==
  /\ state = "WAITING" /\ ping = FALSE /\ failed = 0
  /\ agent = "alive" /\ toAgent = 0 /\ toMaster = 0 /\ unanswered = 0

MasterNext == DropSilent \/ NotYetDue \/ SendPing \/ SendFails \/ Listen \/ ListenLost
AgentNext == AnswerPing \/ Speak \/ Stops
Next == MasterNext \/ AgentNext
Spec == Init /\ [][Next]_vars

(* SilentAgentIsDropped: the code counts a failed ping "if the agent hasn't      *)
(* communicated since the last ping request" and closes the agent after          *)
(* MAX_FAILED_PINGS of them; so an agent that hangs and of which nothing is left  *)
(* to read is not sent more requests than that, and does not keep its run.        *)
SilentAgentIsDropped ==
  InMaster /\ agent = "frozen" /\ toMaster = 0 => unanswered <= MaxFailedPings
=============================================================================
