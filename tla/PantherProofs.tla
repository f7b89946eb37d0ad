---------------------------- MODULE PantherProofs ----------------------------
(***************************************************************************)
(* Theorems about the run manager and its agents, for any set of sockets,   *)
(* any number of runs and groups, and any setting of the options.           *)
(***************************************************************************)
EXTENDS Panther, TLAPS, FiniteSetTheorems, SequenceTheorems

-----------------------------------------------------------------------------
(* Type correctness.  First the operators the actions are built from.       *)

(* Sending messages to agents keeps the inboxes well-typed.                  *)
LEMMA SendingType ==
  ASSUME NetTypeOK, NEW msgs \in [Agents -> Seq(AgentMsg)]
  PROVE  Sending(msgs) \in [Agents -> Seq(AgentMsg)]
<1> SUFFICES ASSUME NEW a \in Agents
             PROVE  toAgent[a] \o msgs[a] \in Seq(AgentMsg)
  BY DEF Sending, NetTypeOK
<1> QED BY ConcatProperties DEF NetTypeOK

(* Orders and replies that name no run are messages.                         *)
LEMMA PlainType ==
  /\ \A t \in OrderType : Plain(t) \in AgentMsg
  /\ \A t \in ReplyType : Plain(t) \in MasterMsg
BY DEF AgentMsg, MasterMsg

(* kill_run makes no agent ACTIVE.                                           *)
LEMMA KillType ==
  ASSUME NEW V, NEW ok, JobTypeOK, AgentInfoTypeOK
  PROVE  /\ StateAfterKill(V, ok) \in [Agents -> AgentState]
         /\ \A a \in Agents : StateAfterKill(V, ok)[a] = "ACTIVE" => astate[a] = "ACTIVE"
         /\ KillRequests(V) \in [Agents -> Seq(AgentMsg)]
         /\ ActiveWithout(V) \subseteq Runs \X Agents
<1>1. <<Plain("REQ_KILL")>> \in Seq(AgentMsg) /\ <<>> \in Seq(AgentMsg)
  BY PlainType DEF OrderType
<1> QED
  BY <1>1 DEF StateAfterKill, KillRequests, ActiveWithout, JobTypeOK, AgentInfoTypeOK, AgentState

(* Counting failures keeps their records well-typed.                         *)
LEMMA ChargeType ==
  ASSUME JobTypeOK, NEW r \in Runs, NEW S, S \subseteq Agents, Charge(r, S)
  PROVE  /\ failure_map' \in [Runs -> [n : Nat, socks : SUBSET Agents]]
         /\ status' \in [Runs -> Int]
<1> DEFINE Rec == [n : Nat, socks : SUBSET Agents]
           new == [n |-> failure_map[r].n + Cardinality(S), socks |-> failure_map[r].socks \cup S]
           st == IF status[r] < 1 THEN status[r] - Cardinality(S) ELSE status[r]
<1>1. Cardinality(S) \in Nat
  BY AgentsAssumption, FS_Subset, FS_CardinalityType
<1>2. failure_map \in [Runs -> Rec] /\ status \in [Runs -> Int]
  BY DEF JobTypeOK
<1>3. failure_map[r].n \in Nat /\ failure_map[r].socks \in SUBSET Agents
  BY <1>2
<1>4. failure_map[r].n + Cardinality(S) \in Nat
  BY <1>1, <1>3
<1>5. new \in Rec
  BY <1>3, <1>4
<1>6. status[r] \in Int
  BY <1>2
<1>7. st \in Int
  BY <1>1, <1>6
<1>8. failure_map' = [failure_map EXCEPT ![r] = new] /\ status' = [status EXCEPT ![r] = st]
  BY DEF Charge
<1> HIDE DEF Rec, new, st
<1>9. failure_map' \in [Runs -> Rec] /\ status' \in [Runs -> Int]
  BY <1>2, <1>5, <1>7, <1>8
<1> QED BY <1>9 DEF Rec

(* init_agents makes no agent ACTIVE.                                        *)
LEMMA HandshakeType ==
  ASSUME AgentInfoTypeOK, NEW a \in Agents, NEW sent
  PROVE  /\ HandshakeNext(astate[a], sent) \in AgentState
         /\ HandshakeNext(astate[a], sent) = "ACTIVE" => astate[a] = "ACTIVE"
         /\ HandshakeMsg(astate[a]) \in Seq(AgentMsg)
<1>1. \A t \in OrderType : <<Plain(t)>> \in Seq(AgentMsg)
  BY PlainType
<1>2. <<>> \in Seq(AgentMsg)
  OBVIOUS
<1>3. /\ HandshakeNext(astate[a], sent) \in AgentState
      /\ HandshakeNext(astate[a], sent) = "ACTIVE" => astate[a] = "ACTIVE"
  BY DEF AgentInfoTypeOK, HandshakeNext, AgentState
<1>4. HandshakeMsg(astate[a]) \in Seq(AgentMsg)
  BY <1>1, <1>2 DEF HandshakeMsg, OrderType
<1> QED BY <1>3, <1>4
-----------------------------------------------------------------------------
(* What the handlers and loops do to the runs, the agents and the messages.   *)

SharedTypeOK == JobTypeOK /\ AgentInfoTypeOK /\ NetTypeOK

(* close_agent keeps the types.                                              *)
LEMMA CloseAgentType ==
  ASSUME SharedTypeOK, NEW a \in Agents, CloseAgent(a)
  PROVE  SharedTypeOK'
<1> USE DEF SharedTypeOK
<1>1. waiting' \in Seq(Runs)
  <2>1. CASE arun[a] # NoRun
    <3>1. <<arun[a]>> \in Seq(Runs)
      BY <2>1 DEF AgentInfoTypeOK
    <3>2. <<arun[a]>> \o waiting \in Seq(Runs)
      BY <3>1, ConcatProperties DEF JobTypeOK
    <3> QED BY <3>2 DEF CloseAgent, JobTypeOK
  <2>2. CASE arun[a] = NoRun
    BY <2>2 DEF CloseAgent, JobTypeOK
  <2> QED BY <2>1, <2>2
<1>2. JobTypeOK'
  BY <1>1 DEF CloseAgent, JobTypeOK, ActiveWithout
<1>3. AgentInfoTypeOK'
  BY DEF CloseAgent, SetState, AgentInfoTypeOK, AgentState
<1>4. NetTypeOK'
  BY DEF CloseAgent, NetTypeOK, LinkState
<1> QED BY <1>2, <1>3, <1>4

(* So does closing agents that have nothing to do.                           *)
LEMMA CloseFreeType ==
  ASSUME SharedTypeOK, NEW S, CloseFree(S)
  PROVE  SharedTypeOK'
<1> USE DEF SharedTypeOK
<1>1. JobTypeOK'
  BY DEF CloseFree, JobTypeOK, ActiveWithout
<1>2. AgentInfoTypeOK'
  BY DEF CloseFree, AgentInfoTypeOK, AgentState
<1>3. NetTypeOK'
  BY DEF CloseFree, NetTypeOK, LinkState
<1> QED BY <1>1, <1>2, <1>3

(* schedule_run gives an agent a run.                                        *)
LEMMA StartOnType ==
  ASSUME SharedTypeOK, NEW r \in Runs, NEW a \in Agents, StartOn(r, a)
  PROVE  /\ active' \subseteq Runs \X Agents
         /\ AgentInfoTypeOK'
         /\ toAgent' \in [Agents -> Seq(AgentMsg)]
<1> USE DEF SharedTypeOK
<1> DEFINE msgs == [b \in Agents |-> IF b = a THEN <<Msg("START_RUN", r, group)>> ELSE <<>>]
<1>1. Msg("START_RUN", r, group) \in AgentMsg
  BY DEF Msg, AgentMsg, JobTypeOK
<1>2. msgs \in [Agents -> Seq(AgentMsg)]
  BY <1>1
<1>3. toAgent' = Sending(msgs)
  BY DEF StartOn
<1>4. toAgent' \in [Agents -> Seq(AgentMsg)]
  BY <1>2, <1>3, SendingType
<1>5. active' \subseteq Runs \X Agents
  BY DEF StartOn, JobTypeOK
<1>6. AgentInfoTypeOK'
  BY DEF StartOn, SetState, AgentInfoTypeOK, AgentState
<1> QED BY <1>4, <1>5, <1>6

(* init_agents keeps the types.                                              *)
LEMMA InitAgentsType ==
  ASSUME SharedTypeOK, InitAgents
  PROVE  SharedTypeOK'
<1> USE DEF SharedTypeOK
<1>1. JobTypeOK'
  BY DEF InitAgents, jobVars, JobTypeOK
<1>2. AgentInfoTypeOK'
  <2>1. PICK ok \in SUBSET Down :
          astate' = [a \in Agents |-> HandshakeNext(astate[a], SendOk(a, ok))]
    BY DEF InitAgents
  <2>2. /\ astate' \in [Agents -> AgentState]
        /\ \A a \in Agents : astate'[a] = "ACTIVE" => astate[a] = "ACTIVE"
    BY <2>1, HandshakeType
  <2> QED BY <2>2 DEF InitAgents, AgentInfoTypeOK
<1>3. NetTypeOK'
  <2>1. [a \in Agents |-> HandshakeMsg(astate[a])] \in [Agents -> Seq(AgentMsg)]
    BY HandshakeType
  <2>2. toAgent' \in [Agents -> Seq(AgentMsg)]
    BY <2>1, SendingType DEF InitAgents
  <2> QED BY <2>2 DEF InitAgents, NetTypeOK
<1> QED BY <1>1, <1>2, <1>3

(* add_agent keeps the types.                                                *)
LEMMA AddAgentType ==
  ASSUME SharedTypeOK, NEW a \in Agents, AddAgent(a)
  PROVE  SharedTypeOK'
BY DEF SharedTypeOK, AddAgent, SetState, jobVars, JobTypeOK, AgentInfoTypeOK, AgentState,
       NetTypeOK, LinkState

(* The next message of an agent, and the inboxes once it is read. *)
LEMMA HeadType ==
  ASSUME NetTypeOK, NEW a \in Agents, toMaster[a] # <<>>
  PROVE  /\ Head(toMaster[a]) \in MasterMsg
         /\ Read(a) => toMaster' \in [Agents -> Seq(MasterMsg)]
         /\ Head(toMaster[a]).type \in ResultType =>
              Head(toMaster[a]).run \in Runs /\ Head(toMaster[a]).grp \in Groups
<1>1. toMaster[a] \in Seq(MasterMsg)
  BY DEF NetTypeOK
<1>2. Head(toMaster[a]) \in MasterMsg /\ Tail(toMaster[a]) \in Seq(MasterMsg)
  BY <1>1
<1>3. Read(a) => toMaster' \in [Agents -> Seq(MasterMsg)]
  BY <1>2 DEF Read, NetTypeOK
<1> QED
  BY <1>2, <1>3 DEF MasterMsg, Plain, Msg, ReplyType, ResultType

(* process_message, a reply of the handshake.                                *)
LEMMA OnHandshakeType ==
  ASSUME SharedTypeOK, NEW a \in Agents, OnHandshake(a)
  PROVE  SharedTypeOK'
<1>1. toMaster' \in [Agents -> Seq(MasterMsg)]
  BY HeadType DEF SharedTypeOK, OnHandshake, HeadIs
<1> QED
  BY <1>1 DEF SharedTypeOK, OnHandshake, SetState, jobVars, JobTypeOK, AgentInfoTypeOK,
              AgentState, NetTypeOK

(* process_message, RUN_FINISHED.                                            *)
LEMMA OnFinishedType ==
  ASSUME SharedTypeOK, NEW a \in Agents, OnFinished(a)
  PROVE  SharedTypeOK'
<1> USE DEF SharedTypeOK
<1> DEFINE r == Head(toMaster[a]).run
           others == {b \in Agents : <<r, b>> \in ActiveWithout({a})}
<1>1. toMaster' \in [Agents -> Seq(MasterMsg)] /\ r \in Runs
  BY HeadType DEF OnFinished, IsResult, HeadIs, ResultType
<1>2. active' = ActiveWithout({a} \cup others)
  BY DEF OnFinished
<1>3. active' \subseteq Runs \X Agents
  BY <1>2, KillType
<1>4. PICK ok \in SUBSET Down : astate' = [StateAfterKill(others, ok) EXCEPT ![a] = "COMPLETE"]
  BY DEF OnFinished
<1>5. /\ astate' \in [Agents -> AgentState]
      /\ \A b \in Agents : astate'[b] = "ACTIVE" => astate[b] = "ACTIVE"
  <2>1. /\ StateAfterKill(others, ok) \in [Agents -> AgentState]
        /\ \A b \in Agents : StateAfterKill(others, ok)[b] = "ACTIVE" => astate[b] = "ACTIVE"
    BY KillType
  <2> QED BY <1>4, <2>1 DEF AgentState
<1>6. toAgent' \in [Agents -> Seq(AgentMsg)]
  <2>1. KillRequests(others) \in [Agents -> Seq(AgentMsg)]
    BY KillType
  <2> QED BY <2>1, SendingType DEF OnFinished
<1>7. status' \in [Runs -> Int]
  <2>1. status' = [status EXCEPT ![r] = 1]
    BY DEF OnFinished
  <2>2. status \in [Runs -> Int]
    BY DEF JobTypeOK
  <2> HIDE DEF r
  <2> QED BY <1>1, <2>1, <2>2
<1>8. JobTypeOK'
  BY <1>3, <1>7 DEF OnFinished, JobTypeOK
<1>9. AgentInfoTypeOK'
  BY <1>5 DEF OnFinished, AgentInfoTypeOK
<1>10. NetTypeOK'
  BY <1>1, <1>6 DEF OnFinished, NetTypeOK
<1> QED BY <1>8, <1>9, <1>10

(* process_message, RUN_FAILED.                                              *)
LEMMA OnFailedType ==
  ASSUME SharedTypeOK, NEW a \in Agents, OnFailed(a)
  PROVE  SharedTypeOK'
<1> USE DEF SharedTypeOK
<1> DEFINE r == Head(toMaster[a]).run
<1>1. toMaster' \in [Agents -> Seq(MasterMsg)] /\ r \in Runs
  BY HeadType DEF OnFailed, IsResult, HeadIs, ResultType
<1>2. failure_map' \in [Runs -> [n : Nat, socks : SUBSET Agents]] /\ status' \in [Runs -> Int]
  BY <1>1, ChargeType DEF OnFailed
<1>3. waiting' \in Seq(Runs)
  <2>1. <<r>> \in Seq(Runs)
    BY <1>1
  <2>2. <<r>> \o waiting \in Seq(Runs)
    BY <2>1, ConcatProperties DEF JobTypeOK
  <2>3. waiting' = <<r>> \o waiting \/ waiting' = waiting
    BY DEF OnFailed
  <2> QED BY <2>2, <2>3 DEF JobTypeOK
<1>4. JobTypeOK'
  BY <1>2, <1>3 DEF OnFailed, JobTypeOK, ActiveWithout
<1>5. AgentInfoTypeOK'
  BY DEF OnFailed, agentInfo, AgentInfoTypeOK
<1>6. NetTypeOK'
  BY <1>1 DEF OnFailed, NetTypeOK
<1> QED BY <1>4, <1>5, <1>6

(* process_message keeps the types, whatever the message.                    *)
LEMMA ProcessMessageType ==
  ASSUME SharedTypeOK, NEW a \in Agents, ProcessMessage(a)
  PROVE  SharedTypeOK'
<1>1. CASE OnLost(a)
  BY <1>1, CloseAgentType DEF OnLost
<1>2. CASE OnHandshake(a)
  BY <1>2, OnHandshakeType
<1>3. CASE OnOldResult(a)
  <2>1. toMaster' \in [Agents -> Seq(MasterMsg)]
    BY <1>3, HeadType DEF SharedTypeOK, OnOldResult
  <2> QED
    BY <1>3, <2>1 DEF SharedTypeOK, OnOldResult, jobVars, agentInfo, JobTypeOK,
                      AgentInfoTypeOK, NetTypeOK
<1>4. CASE OnFinished(a)
  BY <1>4, OnFinishedType
<1>5. CASE OnResultOfFinishedRun(a)
  <2>1. toMaster' \in [Agents -> Seq(MasterMsg)]
    BY <1>5, HeadType DEF SharedTypeOK, OnResultOfFinishedRun, IsResult, HeadIs
  <2> QED
    BY <1>5, <2>1 DEF SharedTypeOK, OnResultOfFinishedRun, jobVars, agentInfo, JobTypeOK,
                      AgentInfoTypeOK, NetTypeOK
<1>6. CASE OnFailed(a)
  BY <1>6, OnFailedType
<1>7. CASE OnKilled(a)
  <2>1. toMaster' \in [Agents -> Seq(MasterMsg)]
    BY <1>7, HeadType DEF SharedTypeOK, OnKilled, IsResult, HeadIs
  <2> QED
    BY <1>7, <2>1 DEF SharedTypeOK, OnKilled, agentInfo, ActiveWithout, JobTypeOK,
                      AgentInfoTypeOK, NetTypeOK
<1> QED
  BY <1>1, <1>2, <1>3, <1>4, <1>5, <1>6, <1>7 DEF ProcessMessage

(* Killing copies keeps the types.                                           *)
LEMMA KillAgentsType ==
  ASSUME SharedTypeOK, NEW V, KillAgents(V)
  PROVE  /\ active' \subseteq Runs \X Agents
         /\ astate' \in [Agents -> AgentState]
         /\ \A a \in Agents : astate'[a] = "ACTIVE" => astate[a] = "ACTIVE"
         /\ toAgent' \in [Agents -> Seq(AgentMsg)]
<1> USE DEF SharedTypeOK
<1>1. active' = ActiveWithout(V) /\ toAgent' = Sending(KillRequests(V))
  BY DEF KillAgents
<1>2. PICK ok \in SUBSET Down : astate' = StateAfterKill(V, ok)
  BY DEF KillAgents
<1>3. /\ active' \subseteq Runs \X Agents
      /\ astate' \in [Agents -> AgentState]
      /\ \A a \in Agents : astate'[a] = "ACTIVE" => astate[a] = "ACTIVE"
  BY <1>1, <1>2, KillType
<1>4. toAgent' \in [Agents -> Seq(AgentMsg)]
  BY <1>1, KillType, SendingType
<1> QED BY <1>3, <1>4

(* Where the master is, and the variables of its loops. *)
ControlTypeOK == LoopTypeOK /\ CallTypeOK

(* Steps that change no run, agent or socket keep their types.               *)
LEMMA SharedUnchanged ==
  ASSUME SharedTypeOK, UNCHANGED <<jobVars, agentInfo, netVars>>
  PROVE  SharedTypeOK'
BY DEF SharedTypeOK, jobVars, agentInfo, netVars, JobTypeOK, AgentInfoTypeOK, NetTypeOK

(* A queue from which an entry is removed is a queue.                        *)
LEMMA RemoveAtType ==
  ASSUME NEW s \in Seq(Runs), NEW i \in 1 .. Len(s)
  PROVE  RemoveAt(s, i) \in Seq(Runs)
<1>1. SubSeq(s, 1, i - 1) \in Seq(Runs) /\ SubSeq(s, i + 1, Len(s)) \in Seq(Runs)
  BY SubSeqProperties
<1> QED BY <1>1, ConcatProperties DEF RemoveAt

(* schedule_runs, the loop over the waiting runs.                            *)
LEMMA AssignType ==
  ASSUME SharedTypeOK, ControlTypeOK,
         AssignNotNeeded \/ AssignStart \/ AssignLater \/ AssignDone
  PROVE  SharedTypeOK' /\ ControlTypeOK'
<1>1. ASSUME AtWaiting
      PROVE  RemoveAt(waiting, cursor) \in Seq(Runs) /\ waiting[cursor] \in Runs
  <2>1. waiting \in Seq(Runs) /\ cursor \in 1 .. Len(waiting)
    <3>1. waiting \in Seq(Runs) /\ Len(waiting) \in Nat
      BY DEF SharedTypeOK, JobTypeOK
    <3>2. cursor \in Nat /\ cursor >= 1 /\ cursor <= Len(waiting)
      BY <1>1 DEF AtWaiting, ControlTypeOK, LoopTypeOK
    <3> QED BY <3>1, <3>2
  <2> QED BY <2>1, RemoveAtType
<1>2. CASE AssignNotNeeded
  <2>1. waiting' \in Seq(Runs)
    BY <1>1, <1>2 DEF AssignNotNeeded
  <2>2. SharedTypeOK'
    BY <1>2, <2>1 DEF AssignNotNeeded, SharedTypeOK, agentInfo, netVars, JobTypeOK,
                      AgentInfoTypeOK, NetTypeOK
  <2>3. ControlTypeOK'
    BY <1>2 DEF AssignNotNeeded, loopVars, envVars, ControlTypeOK, LoopTypeOK, CallTypeOK
  <2> QED BY <2>2, <2>3
<1>3. CASE AssignStart
  <2>1. PICK a \in Candidates(waiting[cursor]) : StartOn(waiting[cursor], a)
    BY <1>3 DEF AssignStart
  <2>2. a \in Agents
    BY DEF Candidates, Free
  <2>3. waiting' \in Seq(Runs) /\ waiting[cursor] \in Runs
    BY <1>1, <1>3 DEF AssignStart
  <2>4. /\ active' \subseteq Runs \X Agents
        /\ AgentInfoTypeOK'
        /\ toAgent' \in [Agents -> Seq(AgentMsg)]
    BY <2>1, <2>2, <2>3, StartOnType
  <2>5. JobTypeOK'
    BY <1>3, <2>3, <2>4 DEF AssignStart, SharedTypeOK, JobTypeOK
  <2>6. NetTypeOK'
    BY <1>3, <2>4 DEF AssignStart, SharedTypeOK, NetTypeOK
  <2>7. ControlTypeOK'
    BY <1>3 DEF AssignStart, loopVars, envVars, ControlTypeOK, LoopTypeOK, CallTypeOK
  <2> QED BY <2>4, <2>5, <2>6, <2>7 DEF SharedTypeOK
<1>4. CASE AssignLater
  <2>1. SharedTypeOK'
    BY <1>4, SharedUnchanged DEF AssignLater
  <2>2. cursor' \in Nat /\ cursor' >= 1
    <3>1. cursor \in Nat /\ cursor >= 1 /\ cursor' = cursor + 1
      BY <1>4 DEF AssignLater, ControlTypeOK, LoopTypeOK
    <3> QED BY <3>1
  <2>3. ControlTypeOK'
    BY <1>4, <2>2 DEF AssignLater, envVars, ControlTypeOK, LoopTypeOK, CallTypeOK
  <2> QED BY <2>1, <2>3
<1>5. CASE AssignDone
  <2>1. SharedTypeOK'
    BY <1>5, SharedUnchanged DEF AssignDone
  <2>2. todo' \subseteq Agents /\ late' \subseteq Agents
    BY <1>5 DEF AssignDone, Connected, ControlTypeOK, LoopTypeOK
  <2>3. CallTypeOK'
    BY <1>5 DEF AssignDone, ToListen, ControlTypeOK, CallTypeOK, PC, ListenRet
  <2>4. cursor' \in Nat /\ cursor' >= 1
    BY <1>5 DEF AssignDone
  <2>5. ControlTypeOK'
    BY <1>5, <2>2, <2>3, <2>4 DEF AssignDone, envVars, ControlTypeOK, LoopTypeOK
  <2> QED BY <2>1, <2>5
<1> QED BY <1>2, <1>3, <1>4, <1>5

(* An agent that the overdue loop visits has a run.                          *)
LEMMA VisitType ==
  ASSUME SharedTypeOK, ControlTypeOK, NEW a \in Agents, Visit(a)
  PROVE  /\ arun[a] \in Runs
         /\ UNCHANGED <<waiting, group, arun, timed, link, toMaster>>
         /\ pc' = "resched" /\ resched' = arun[a] => ControlTypeOK'
         /\ UNCHANGED <<pc, resched>> => ControlTypeOK'
<1>1. arun[a] \in Runs
  BY DEF Visit, ToVisit, SharedTypeOK, AgentInfoTypeOK
<1>2. UNCHANGED <<waiting, group, arun, timed, link, toMaster>>
  BY DEF Visit
<1>3. LoopTypeOK'
  BY DEF Visit, envVars, ControlTypeOK, LoopTypeOK
<1>4. pc' = "resched" /\ resched' = arun[a] => CallTypeOK'
  BY <1>1 DEF Visit, ControlTypeOK, CallTypeOK, PC
<1>5. UNCHANGED <<pc, resched>> => CallTypeOK'
  BY DEF Visit, ControlTypeOK, CallTypeOK
<1> QED BY <1>1, <1>2, <1>3, <1>4, <1>5 DEF ControlTypeOK

(* schedule_runs, the overdue loop.                                          *)
LEMMA OverdueType ==
  ASSUME SharedTypeOK, ControlTypeOK, NEW a \in Agents,
         GiveUpRun(a) \/ RestartRun(a) \/ KillOverdue(a) \/ LeaveOrDuplicate(a)
  PROVE  SharedTypeOK' /\ ControlTypeOK'
<1>1. Visit(a)
  BY DEF GiveUpRun, RestartRun, KillOverdue, LeaveOrDuplicate
<1>2. /\ arun[a] \in Runs
      /\ UNCHANGED <<waiting, group, arun, timed, link, toMaster>>
      /\ pc' = "resched" /\ resched' = arun[a] => ControlTypeOK'
      /\ UNCHANGED <<pc, resched>> => ControlTypeOK'
  BY <1>1, VisitType
<1>3. ControlTypeOK'
  BY <1>2 DEF GiveUpRun, RestartRun, KillOverdue, LeaveOrDuplicate
<1>4. ASSUME NEW V \in SUBSET Agents, KillAgents(V), Charge(arun[a], V)
      PROVE  SharedTypeOK'
  <2> HIDE DEF KillAgents, Charge
  <2>1. /\ active' \subseteq Runs \X Agents
        /\ astate' \in [Agents -> AgentState]
        /\ \A b \in Agents : astate'[b] = "ACTIVE" => astate[b] = "ACTIVE"
        /\ toAgent' \in [Agents -> Seq(AgentMsg)]
    BY <1>4, KillAgentsType
  <2>2. /\ failure_map' \in [Runs -> [n : Nat, socks : SUBSET Agents]]
        /\ status' \in [Runs -> Int]
    BY <1>2, <1>4, ChargeType DEF SharedTypeOK
  <2> QED
    BY <1>2, <2>1, <2>2 DEF SharedTypeOK, JobTypeOK, AgentInfoTypeOK, NetTypeOK
<1>5. CASE GiveUpRun(a) \/ RestartRun(a) \/ KillOverdue(a)
  <2>1. PICK V \in SUBSET Agents : KillAgents(V) /\ Charge(arun[a], V)
    <3>1. CASE GiveUpRun(a) \/ RestartRun(a)
      <4>1. Copies(arun[a]) \in SUBSET Agents
        BY DEF Copies
      <4> QED BY <3>1, <4>1 DEF GiveUpRun, RestartRun, KillCopies
    <3>2. CASE KillOverdue(a)
      BY <3>2 DEF KillOverdue
    <3> QED BY <1>5, <3>1, <3>2
  <2> QED BY <1>3, <1>4, <2>1
<1>6. CASE LeaveOrDuplicate(a)
  BY <1>2, <1>3, <1>6 DEF LeaveOrDuplicate, SharedTypeOK, JobTypeOK, AgentInfoTypeOK, NetTypeOK
<1> QED BY <1>5, <1>6

(* schedule_runs, another copy of a run.                                     *)
LEMMA RescheduleType ==
  ASSUME SharedTypeOK, ControlTypeOK, Reschedule
  PROVE  SharedTypeOK' /\ ControlTypeOK'
<1>1. resched \in Runs
  BY DEF Reschedule, ControlTypeOK, CallTypeOK
<1>2. waiting' \in Seq(Runs)
  <2>1. <<resched>> \o waiting \in Seq(Runs)
    BY <1>1, ConcatProperties DEF SharedTypeOK, JobTypeOK
  <2>2. waiting' = <<resched>> \o waiting \/ waiting' = waiting
    BY DEF Reschedule
  <2> QED BY <2>1, <2>2 DEF SharedTypeOK, JobTypeOK
<1>3. /\ active' \subseteq Runs \X Agents
      /\ AgentInfoTypeOK'
      /\ toAgent' \in [Agents -> Seq(AgentMsg)]
  <2>1. CASE \E a \in Candidates(resched) : StartOn(resched, a)
    <3>1. PICK a \in Agents : StartOn(resched, a)
      BY <2>1 DEF Candidates, Free
    <3> QED BY <1>1, <3>1, StartOnType
  <2>2. CASE UNCHANGED <<active, agentInfo, toAgent>>
    BY <2>2 DEF agentInfo, SharedTypeOK, JobTypeOK, AgentInfoTypeOK, NetTypeOK
  <2> QED BY <2>1, <2>2 DEF Reschedule
<1>4. JobTypeOK' /\ NetTypeOK'
  BY <1>2, <1>3 DEF Reschedule, SharedTypeOK, JobTypeOK, NetTypeOK
<1>5. ControlTypeOK'
  <2>1. LoopTypeOK'
    BY DEF Reschedule, envVars, ControlTypeOK, LoopTypeOK
  <2>2. CallTypeOK'
    BY DEF Reschedule, ControlTypeOK, CallTypeOK, PC
  <2> QED BY <2>1, <2>2 DEF ControlTypeOK
<1> QED BY <1>3, <1>4, <1>5 DEF SharedTypeOK

(* Steps that only decide what the master does next.                         *)
LEMMA MoveOnType ==
  ASSUME SharedTypeOK, ControlTypeOK,
         OverdueDone \/ Listen \/ Drain \/ DrainCheckStop \/ AllRunsComplete \/ StopBeforePass
           \/ CreateStop \/ RemoveStop
  PROVE  SharedTypeOK' /\ ControlTypeOK'
<1>1. SharedTypeOK'
  <2>1. UNCHANGED <<jobVars, agentInfo, netVars>>
    BY DEF OverdueDone, Listen, Drain, DrainCheckStop, AllRunsComplete, StopBeforePass,
           CreateStop, RemoveStop
  <2> QED BY <2>1, SharedUnchanged
<1>2. LoopTypeOK'
  <2> USE DEF ControlTypeOK, LoopTypeOK
  <2>1. CASE OverdueDone \/ DrainCheckStop \/ AllRunsComplete
    BY <2>1 DEF OverdueDone, DrainCheckStop, AllRunsComplete, CallKillAll, envVars
  <2>2. CASE Listen
    <3>1. readable' \subseteq Agents
      BY <2>2 DEF Listen, Readable, Pending
    <3>2. tries' \in Nat
      <4>1. tries' = 0 \/ tries' = tries
        BY <2>2 DEF Listen, EndListen
      <4> QED BY <4>1
    <3>3. quiet' \in BOOLEAN
      <4>1. CASE readable' = {}
        BY <2>2, <4>1 DEF Listen
      <4>2. CASE readable' # {}
        BY <2>2, <4>2 DEF Listen
      <4> QED BY <4>1, <4>2
    <3> QED BY <2>2, <3>1, <3>2, <3>3 DEF Listen, envVars
  <2>3. CASE StopBeforePass
    BY <2>3 DEF StopBeforePass, CallKillAll
  <2>4. CASE CreateStop \/ RemoveStop
    BY <2>4 DEF CreateStop, RemoveStop, loopVars
  <2>5. CASE Drain
    <3>1. /\ quiet' \in BOOLEAN /\ tries' \in Nat
      BY <2>5 DEF Drain, CallKillAll
    <3> QED BY <2>5, <3>1 DEF Drain, envVars
  <2> QED BY <2>1, <2>2, <2>3, <2>4, <2>5
<1>3. CallTypeOK'
  <2> USE DEF ControlTypeOK, CallTypeOK, PC, KillRet, ListenRet
  <2>1. CASE OverdueDone
    BY <2>1 DEF OverdueDone, ToListen
  <2>2. CASE Listen
    BY <2>2 DEF Listen, EndListen
  <2>3. CASE Drain
    BY <2>3 DEF Drain, CallKillAll, GoTo
  <2>4. CASE DrainCheckStop
    BY <2>4 DEF DrainCheckStop, CallKillAll, GoTo
  <2>5. CASE AllRunsComplete
    BY <2>5 DEF AllRunsComplete, CallKillAll, GoTo
  <2>6. CASE StopBeforePass
    BY <2>6 DEF StopBeforePass, CallKillAll
  <2>7. CASE CreateStop \/ RemoveStop
    BY <2>7 DEF CreateStop, RemoveStop, loopVars
  <2> QED BY <2>1, <2>2, <2>3, <2>4, <2>5, <2>6, <2>7
<1> QED BY <1>1, <1>2, <1>3 DEF ControlTypeOK

(* listen, one message.                                                      *)
LEMMA ReadOneType ==
  ASSUME SharedTypeOK, ControlTypeOK, ReadOne
  PROVE  SharedTypeOK' /\ ControlTypeOK'
<1>1. PICK a \in readable : (ProcessMessage(a) \/ AddAgent(a)) /\ readable' = readable \ {a}
  BY DEF ReadOne
<1>2. a \in Agents
  BY DEF ControlTypeOK, LoopTypeOK
<1>3. SharedTypeOK'
  BY <1>1, <1>2, ProcessMessageType, AddAgentType
<1>4. LoopTypeOK'
  <2>1. tries' = 0 \/ tries' = tries
    BY DEF ReadOne, EndListen
  <2>2. tries' \in Nat
    BY <2>1 DEF ControlTypeOK, LoopTypeOK
  <2> QED BY <1>1, <2>2 DEF ReadOne, envVars, ControlTypeOK, LoopTypeOK
<1>5. CallTypeOK'
  BY DEF ReadOne, EndListen, ControlTypeOK, CallTypeOK, PC, KillRet, ListenRet
<1> QED BY <1>3, <1>4, <1>5 DEF ControlTypeOK

(* kill_all_active_runs, one round.                                          *)
LEMMA KillRoundType ==
  ASSUME SharedTypeOK, ControlTypeOK, KillRound
  PROVE  SharedTypeOK' /\ ControlTypeOK'
<1> DEFINE V == {a \in Agents : Killable(a)}
           msgs == [a \in Agents |-> IF a \in V THEN KillRequests(V)[a] ELSE HandshakeMsg(astate[a])]
<1>1. PICK ok \in SUBSET Down :
        astate' = [a \in Agents |-> IF a \in V THEN StateAfterKill(V, ok)[a]
                                    ELSE HandshakeNext(astate[a], SendOk(a, ok))]
  BY DEF KillRound
<1>2. toAgent' = Sending(msgs) /\ active' = ActiveWithout(V)
  BY DEF KillRound
<1> HIDE DEF V
<1>3. /\ astate' \in [Agents -> AgentState]
      /\ \A a \in Agents : astate'[a] = "ACTIVE" => astate[a] = "ACTIVE"
  <2>1. /\ StateAfterKill(V, ok) \in [Agents -> AgentState]
        /\ \A a \in Agents : StateAfterKill(V, ok)[a] = "ACTIVE" => astate[a] = "ACTIVE"
    BY KillType DEF SharedTypeOK
  <2>2. \A a \in Agents :
          /\ HandshakeNext(astate[a], SendOk(a, ok)) \in AgentState
          /\ HandshakeNext(astate[a], SendOk(a, ok)) = "ACTIVE" => astate[a] = "ACTIVE"
    BY HandshakeType DEF SharedTypeOK
  <2> QED BY <1>1, <2>1, <2>2
<1>4. msgs \in [Agents -> Seq(AgentMsg)]
  <2>1. KillRequests(V) \in [Agents -> Seq(AgentMsg)]
    BY KillType DEF SharedTypeOK
  <2>2. \A a \in Agents : HandshakeMsg(astate[a]) \in Seq(AgentMsg)
    BY HandshakeType DEF SharedTypeOK
  <2> QED BY <2>1, <2>2
<1> HIDE DEF msgs
<1>5. toAgent' \in [Agents -> Seq(AgentMsg)] /\ active' \subseteq Runs \X Agents
  BY <1>2, <1>4, SendingType, KillType DEF SharedTypeOK
<1>6. SharedTypeOK'
  BY <1>3, <1>5 DEF KillRound, SharedTypeOK, JobTypeOK, AgentInfoTypeOK, NetTypeOK
<1>7. LoopTypeOK'
  <2>1. tries' \in Nat
    BY DEF KillRound, ControlTypeOK, LoopTypeOK
  <2> QED BY <2>1 DEF KillRound, envVars, ControlTypeOK, LoopTypeOK
<1>8. CallTypeOK'
  BY DEF KillRound, GoTo, ControlTypeOK, CallTypeOK, PC, KillRet, ListenRet
<1> QED BY <1>6, <1>7, <1>8 DEF ControlTypeOK

(* The other steps of run_until and of the idle thread.                      *)
LEMMA StepType ==
  ASSUME SharedTypeOK, ControlTypeOK, StartPass \/ CloseSurplus \/ Return \/ IdleStep
  PROVE  SharedTypeOK' /\ ControlTypeOK'
<1>1. CASE StartPass
  <2>1. SharedTypeOK'
    BY <1>1, InitAgentsType DEF StartPass
  <2>2. LoopTypeOK'
    BY <1>1 DEF StartPass, envVars, ControlTypeOK, LoopTypeOK
  <2>3. CallTypeOK'
    BY <1>1 DEF StartPass, GoTo, ControlTypeOK, CallTypeOK, PC, ListenRet
  <2> QED BY <2>1, <2>2, <2>3 DEF ControlTypeOK
<1>2. CASE CloseSurplus
  <2>1. SharedTypeOK'
    BY <1>2, CloseFreeType, SharedUnchanged DEF CloseSurplus
  <2>2. LoopTypeOK'
    BY <1>2 DEF CloseSurplus, envVars, ControlTypeOK, LoopTypeOK
  <2>3. CallTypeOK'
    BY <1>2 DEF CloseSurplus, ControlTypeOK, CallTypeOK, PC, ListenRet
  <2> QED BY <2>1, <2>2, <2>3 DEF ControlTypeOK
<1>3. CASE Return
  <2>1. SharedTypeOK'
    BY <1>3, CloseFreeType, SharedUnchanged DEF Return
  <2>2. LoopTypeOK'
    BY <1>3 DEF Return, loopVars, ControlTypeOK, LoopTypeOK
  <2>3. CallTypeOK'
    BY <1>3 DEF Return, GoTo, loopVars, ControlTypeOK, CallTypeOK, PC
  <2> QED BY <2>1, <2>2, <2>3 DEF ControlTypeOK
<1>4. CASE IdleStep
  <2>1. SharedTypeOK'
    <3>1. CASE IdleInit
      BY <3>1, InitAgentsType DEF IdleInit
    <3>2. ASSUME NEW a \in Agents, IdleRead(a)
          PROVE  SharedTypeOK'
      BY <3>2, ProcessMessageType, AddAgentType DEF IdleRead
    <3> QED BY <1>4, <3>1, <3>2 DEF IdleStep
  <2>2. UNCHANGED <<loopVars, pc, quiet, envVars>>
    BY <1>4 DEF IdleStep, IdleInit, IdleRead
  <2>3. ControlTypeOK'
    BY <2>2 DEF loopVars, envVars, ControlTypeOK, LoopTypeOK, CallTypeOK
  <2> QED BY <2>1, <2>3
<1> QED BY <1>1, <1>2, <1>3, <1>4

(* Steps that set up or clear the queue.                                     *)
LEMMA QueueType ==
  ASSUME SharedTypeOK, ControlTypeOK,
         MarkWaitingFailed \/ NewGroup \/ (\E r \in Runs : UpdateRun(r)) \/ RunUntil
  PROVE  SharedTypeOK' /\ ControlTypeOK'
<1> USE DEF SharedTypeOK
<1>1. CASE MarkWaitingFailed
  <2> DEFINE times(r) == Cardinality({i \in DOMAIN waiting : waiting[i] = r})
  <2>1. \A r \in Runs : times(r) \in Nat
    <3>1. waiting \in Seq(Runs) /\ DOMAIN waiting = 1 .. Len(waiting) /\ Len(waiting) \in Nat
      BY DEF JobTypeOK
    <3>2. IsFiniteSet(DOMAIN waiting)
      BY <3>1, FS_Interval
    <3> QED BY <3>2, FS_Subset, FS_CardinalityType
  <2>2. status' = [r \in Runs |-> IF status[r] < 1 THEN status[r] - times(r) ELSE status[r]]
    BY <1>1 DEF MarkWaitingFailed
  <2> HIDE DEF times
  <2>3. status' \in [Runs -> Int]
    BY <2>1, <2>2 DEF JobTypeOK
  <2>4. SharedTypeOK'
    BY <1>1, <2>3 DEF MarkWaitingFailed, agentInfo, netVars, JobTypeOK, AgentInfoTypeOK, NetTypeOK
  <2>5. LoopTypeOK'
    BY <1>1 DEF MarkWaitingFailed, loopVars, envVars, ControlTypeOK, LoopTypeOK
  <2>6. CallTypeOK'
    BY <1>1 DEF MarkWaitingFailed, GoTo, loopVars, ControlTypeOK, CallTypeOK, PC
  <2> QED BY <2>4, <2>5, <2>6 DEF ControlTypeOK
<1>2. CASE NewGroup
  <2>1. waiting' \in Seq(Runs)
    BY <1>2, NRunsAssumption DEF NewGroup, Runs
  <2>2. group' \in Groups
    BY <1>2, MaxGroupAssumption DEF NewGroup, JobTypeOK, Groups
  <2>3. failure_map' \in [Runs -> [n : Nat, socks : SUBSET Agents]] /\ status' \in [Runs -> Int]
    BY <1>2 DEF NewGroup, NoFailure
  <2>4. JobTypeOK'
    BY <1>2, <2>1, <2>2, <2>3 DEF NewGroup, JobTypeOK
  <2>5. AgentInfoTypeOK' /\ NetTypeOK'
    BY <1>2 DEF NewGroup, agentInfo, netVars, AgentInfoTypeOK, NetTypeOK
  <2>6. LoopTypeOK'
    BY <1>2 DEF NewGroup, loopVars, envVars, ControlTypeOK, LoopTypeOK
  <2>7. CallTypeOK'
    BY <1>2 DEF NewGroup, GoTo, loopVars, ControlTypeOK, CallTypeOK, PC
  <2> QED BY <2>4, <2>5, <2>6, <2>7 DEF ControlTypeOK
<1>3. CASE RunUntil
  <2>1. failure_map' \in [Runs -> [n : Nat, socks : SUBSET Agents]]
    BY <1>3 DEF RunUntil, NoFailure
  <2>2. SharedTypeOK'
    BY <1>3, <2>1 DEF RunUntil, netVars, JobTypeOK, AgentInfoTypeOK, NetTypeOK
  <2>3. LoopTypeOK'
    BY <1>3 DEF RunUntil, loopVars, envVars, ControlTypeOK, LoopTypeOK
  <2>4. CallTypeOK'
    BY <1>3 DEF RunUntil, GoTo, loopVars, ControlTypeOK, CallTypeOK, PC
  <2> QED BY <2>2, <2>3, <2>4 DEF ControlTypeOK
<1>4. ASSUME NEW r \in Runs, UpdateRun(r)
      PROVE  SharedTypeOK' /\ ControlTypeOK'
  <2>1. waiting' \in Seq(Runs)
    <3>1. PICK i \in DOMAIN waiting : waiting' = RemoveAt(waiting, i)
      BY <1>4 DEF UpdateRun
    <3>2. waiting \in Seq(Runs) /\ i \in 1 .. Len(waiting)
      BY DEF JobTypeOK
    <3> QED BY <3>1, <3>2, RemoveAtType
  <2>2. status' \in [Runs -> Int]
    <3>1. status' = [status EXCEPT ![r] = 1] /\ status \in [Runs -> Int]
      BY <1>4 DEF UpdateRun, JobTypeOK
    <3> QED BY <3>1
  <2>3. /\ active' \subseteq Runs \X Agents
        /\ astate' \in [Agents -> AgentState]
        /\ \A a \in Agents : astate'[a] = "ACTIVE" => astate[a] = "ACTIVE"
        /\ toAgent' \in [Agents -> Seq(AgentMsg)]
    <3>1. KillAgents(Copies(r))
      BY <1>4 DEF UpdateRun
    <3> HIDE DEF KillAgents
    <3> QED BY <3>1, KillAgentsType
  <2>4. UNCHANGED <<failure_map, group, arun, timed, loopVars, pc, quiet, envVars, link, toMaster>>
    BY <1>4 DEF UpdateRun
  <2>5. SharedTypeOK'
    BY <2>1, <2>2, <2>3, <2>4 DEF JobTypeOK, AgentInfoTypeOK, NetTypeOK
  <2>6. ControlTypeOK'
    BY <2>4 DEF loopVars, envVars, ControlTypeOK, LoopTypeOK, CallTypeOK
  <2> QED BY <2>5, <2>6
<1> QED BY <1>1, <1>2, <1>3, <1>4

(* Every step of the master keeps the types.                                 *)
LEMMA MasterStepType ==
  ASSUME TypeOK, MasterNext, UNCHANGED agentVars
  PROVE  TypeOK'
<1>1. SharedTypeOK /\ ControlTypeOK
  BY DEF TypeOK, MasterTypeOK, SharedTypeOK, ControlTypeOK
<1> SUFFICES SharedTypeOK' /\ ControlTypeOK'
  BY DEF TypeOK, MasterTypeOK, SharedTypeOK, ControlTypeOK, AgentTypeOK, agentVars
<1>2. CASE RunStep
  <2>1. CASE AssignNotNeeded \/ AssignStart \/ AssignLater \/ AssignDone
    BY <1>1, <2>1, AssignType
  <2>2. ASSUME NEW a \in Agents,
               GiveUpRun(a) \/ RestartRun(a) \/ KillOverdue(a) \/ LeaveOrDuplicate(a)
        PROVE  SharedTypeOK' /\ ControlTypeOK'
    BY <1>1, <2>2, OverdueType
  <2>3. CASE Reschedule
    BY <1>1, <2>3, RescheduleType
  <2>4. CASE OverdueDone \/ Listen \/ Drain \/ DrainCheckStop \/ AllRunsComplete \/ StopBeforePass
    BY <1>1, <2>4, MoveOnType
  <2>5. CASE ReadOne
    BY <1>1, <2>5, ReadOneType
  <2>6. CASE KillRound
    BY <1>1, <2>6, KillRoundType
  <2>7. CASE StartPass \/ CloseSurplus \/ Return
    BY <1>1, <2>7, StepType
  <2>8. CASE MarkWaitingFailed
    BY <1>1, <2>8, QueueType
  <2> QED BY <1>2, <2>1, <2>2, <2>3, <2>4, <2>5, <2>6, <2>7, <2>8 DEF RunStep
<1>3. CASE ProgramStep
  <2>1. CASE NewGroup \/ (\E r \in Runs : UpdateRun(r)) \/ RunUntil
    BY <1>1, <2>1, QueueType
  <2>2. CASE RemoveStop
    BY <1>1, <2>2, MoveOnType
  <2> QED BY <1>3, <2>1, <2>2 DEF ProgramStep
<1>4. CASE IdleStep
  BY <1>1, <1>4, StepType
<1>5. CASE CreateStop
  BY <1>1, <1>5, MoveOnType
<1> QED BY <1>2, <1>3, <1>4, <1>5 DEF MasterNext

-----------------------------------------------------------------------------
(* The agents. *)

(* An agent's message keeps the sockets well-typed.                          *)
LEMMA SendMessageType ==
  ASSUME NetTypeOK, NEW a \in Agents, NEW m \in MasterMsg, Send(a, m)
  PROVE  toMaster' \in [Agents -> Seq(MasterMsg)]
<1>1. Append(toMaster[a], m) \in Seq(MasterMsg)
  BY AppendProperties DEF NetTypeOK
<1> QED BY <1>1 DEF Send, NetTypeOK

(* A START_RUN that an agent reads names a run and a group.                  *)
LEMMA InboxType ==
  ASSUME NetTypeOK, NEW a \in Agents, NEW t, Inbox(a, t)
  PROVE  /\ Consume(a) => toAgent' \in [Agents -> Seq(AgentMsg)]
         /\ t = "START_RUN" => Head(toAgent[a]).run \in Runs /\ Head(toAgent[a]).grp \in Groups
<1>1. toAgent[a] \in Seq(AgentMsg) /\ toAgent[a] # <<>>
  BY DEF NetTypeOK, Inbox
<1>2. Head(toAgent[a]) \in AgentMsg /\ Tail(toAgent[a]) \in Seq(AgentMsg)
  BY <1>1
<1>3. Consume(a) => toAgent' \in [Agents -> Seq(AgentMsg)]
  BY <1>2 DEF Consume, NetTypeOK
<1>4. t = "START_RUN" => Head(toAgent[a]).run \in Runs /\ Head(toAgent[a]).grp \in Groups
  BY <1>2 DEF Inbox, AgentMsg, Plain, Msg, OrderType
<1> QED BY <1>3, <1>4

(* An agent that sends a result keeps the types.                             *)
LEMMA SendResultType ==
  ASSUME NetTypeOK, AgentTypeOK, NEW a \in Agents, proc[a].st = "running",
         NEW t \in ResultType, SendResult(a, t)
  PROVE  AgentTypeOK' /\ toMaster' \in [Agents -> Seq(MasterMsg)]
<1>1. proc[a] \in [st : {"running", "sent"}, run : Runs, grp : Groups]
  BY DEF AgentTypeOK, ProcState, Idle
<1>2. Msg(t, proc[a].run, proc[a].grp) \in MasterMsg
  BY <1>1 DEF Msg, MasterMsg
<1>3. toMaster' \in [Agents -> Seq(MasterMsg)]
  BY <1>2, SendMessageType DEF SendResult
<1>4. [proc[a] EXCEPT !.st = "sent"] \in ProcState
  BY <1>1 DEF ProcState
<1>5. AgentTypeOK'
  BY <1>4 DEF SendResult, AgentTypeOK
<1> QED BY <1>3, <1>5

(* An agent that is there keeps the types.                                   *)
LEMMA AgentStepType ==
  ASSUME TypeOK, NEW a \in Agents, AgentStep(a)
  PROVE  NetTypeOK' /\ AgentTypeOK'
<1> USE DEF TypeOK
<1>1. CASE Answer(a)
  <2>1. toAgent' \in [Agents -> Seq(AgentMsg)]
    BY <1>1, InboxType DEF Answer
  <2>2. toMaster' \in [Agents -> Seq(MasterMsg)]
    BY <1>1, SendMessageType, PlainType DEF Answer, ReplyType, NetTypeOK
  <2> QED BY <1>1, <2>1, <2>2 DEF Answer, NetTypeOK, AgentTypeOK, agentVars
<1>2. CASE StartRun(a)
  <2>1. toAgent' \in [Agents -> Seq(AgentMsg)]
    BY <1>2, InboxType DEF StartRun
  <2>2. Head(toAgent[a]).run \in Runs /\ Head(toAgent[a]).grp \in Groups
    BY <1>2, InboxType DEF StartRun
  <2>3. AgentTypeOK'
    BY <1>2, <2>2 DEF StartRun, AgentTypeOK, ProcState
  <2> QED BY <1>2, <2>1, <2>3 DEF StartRun, NetTypeOK
<1>3. CASE ModelEnds(a)
  <2>1. PICK t \in ResultType : SendResult(a, t)
    BY <1>3 DEF ModelEnds, ResultType
  <2>2. AgentTypeOK' /\ toMaster' \in [Agents -> Seq(MasterMsg)]
    BY <1>3, <2>1, SendResultType DEF ModelEnds
  <2> QED BY <1>3, <2>1, <2>2 DEF ModelEnds, SendResult, NetTypeOK
<1>4. CASE ModelKilled(a)
  <2>1. PICK t \in ResultType : SendResult(a, t)
    BY <1>4 DEF ModelKilled, ResultType
  <2>2. AgentTypeOK' /\ toMaster' \in [Agents -> Seq(MasterMsg)]
    BY <1>4, <2>1, SendResultType DEF ModelKilled
  <2>3. toAgent' \in [Agents -> Seq(AgentMsg)]
    BY <1>4, InboxType DEF ModelKilled
  <2> QED BY <2>1, <2>2, <2>3 DEF SendResult, NetTypeOK
<1>5. CASE SendReady(a)
  <2>1. toMaster' \in [Agents -> Seq(MasterMsg)]
    BY <1>5, SendMessageType, PlainType DEF SendReady, ReplyType
  <2> QED BY <1>5, <2>1 DEF SendReady, NetTypeOK, AgentTypeOK, ProcState
<1> QED BY <1>1, <1>2, <1>3, <1>4, <1>5 DEF AgentStep

(* Every step of an agent keeps the types.                                   *)
LEMMA AgentNextType ==
  ASSUME TypeOK, AgentNext, UNCHANGED masterVars
  PROVE  TypeOK'
<1>1. PICK a \in Agents : Connect(a) \/ AgentStep(a) \/ Disappear(a)
  BY DEF AgentNext
<1>2. MasterTypeOK'
  BY DEF TypeOK, MasterTypeOK, masterVars, jobVars, agentInfo, loopVars, envVars, JobTypeOK,
         AgentInfoTypeOK, LoopTypeOK, CallTypeOK
<1>3. NetTypeOK' /\ AgentTypeOK'
  <2>1. CASE Connect(a)
    <3>1. NetTypeOK'
      BY <2>1 DEF Connect, TypeOK, NetTypeOK, LinkState
    <3>2. AgentTypeOK'
      BY <2>1 DEF Connect, TypeOK, AgentTypeOK
    <3> QED BY <3>1, <3>2
  <2>2. CASE AgentStep(a)
    BY <2>2, AgentStepType
  <2>3. CASE Disappear(a)
    <3>1. PICK k \in 0 .. Len(toMaster[a]) :
            toMaster' = [toMaster EXCEPT ![a] = Append(SubSeq(@, 1, k), Plain("EOF"))]
      BY <2>3 DEF Disappear
    <3>2. toMaster[a] \in Seq(MasterMsg)
      BY DEF TypeOK, NetTypeOK
    <3>3. SubSeq(toMaster[a], 1, k) \in Seq(MasterMsg)
      BY <3>2, SubSeqProperties
    <3>4. Append(SubSeq(toMaster[a], 1, k), Plain("EOF")) \in Seq(MasterMsg)
      BY <3>3, PlainType, AppendProperties DEF ReplyType
    <3>5. NetTypeOK'
      BY <2>3, <3>1, <3>4 DEF Disappear, TypeOK, NetTypeOK, LinkState
    <3>6. AgentTypeOK'
      BY <2>3 DEF Disappear, TypeOK, AgentTypeOK, ProcState
    <3> QED BY <3>5, <3>6
  <2> QED BY <1>1, <2>1, <2>2, <2>3
<1> QED BY <1>2, <1>3 DEF TypeOK

(* The initial states are well-typed.                                        *)
LEMMA InitType == Init => TypeOK
<1> SUFFICES ASSUME Init PROVE TypeOK
  OBVIOUS
<1>1. JobTypeOK
  <2>1. 0 \in Groups
    BY MaxGroupAssumption DEF Groups
  <2>2. failure_map \in [Runs -> [n : Nat, socks : SUBSET Agents]]
    <3>1. failure_map = [r \in Runs |-> NoFailure]
      BY DEF Init, MasterInit
    <3> QED BY <3>1 DEF NoFailure
  <2>3. status \in [Runs -> Int]
    <3>1. status = [r \in Runs |-> 0]
      BY DEF Init, MasterInit
    <3> QED BY <3>1
  <2>4. waiting \in Seq(Runs) /\ active \subseteq Runs \X Agents /\ group = 0
    <3>1. waiting = <<>> /\ active = {} /\ group = 0
      BY DEF Init, MasterInit
    <3> QED BY <3>1
  <2> QED BY <2>1, <2>2, <2>3, <2>4 DEF JobTypeOK
<1>2. AgentInfoTypeOK
  <2>1. astate \in [Agents -> {"WAITING", "NONE"}]
    BY DEF Init, MasterInit
  <2>2. arun \in [Agents -> Runs \cup {NoRun}] /\ timed = {}
    BY DEF Init, MasterInit
  <2> QED BY <2>1, <2>2 DEF AgentInfoTypeOK, AgentState
<1>3. LoopTypeOK
  <2>1. /\ tries = 0 /\ cursor = 1 /\ todo = {} /\ late = {} /\ readable = {}
        /\ quiet = FALSE /\ idling = (Handshaken # {}) /\ stop = FALSE
    BY DEF Init, MasterInit
  <2>2. quiet \in BOOLEAN /\ idling \in BOOLEAN /\ stop \in BOOLEAN
    BY <2>1
  <2> QED BY <2>1, <2>2 DEF LoopTypeOK
<1>4. CallTypeOK
  <2>1. pc = "client" /\ killRet = "" /\ listenRet = "" /\ resched = NoRun
    BY DEF Init, MasterInit
  <2> QED BY <2>1 DEF CallTypeOK, PC
<1>5. NetTypeOK /\ AgentTypeOK
  BY DEF Init, AgentInit, NetTypeOK, LinkState, AgentTypeOK, ProcState
<1> QED BY <1>1, <1>2, <1>3, <1>4, <1>5 DEF TypeOK, MasterTypeOK

(* A stuttering step keeps the types.                                        *)
LEMMA StutterType ==
  ASSUME TypeOK, UNCHANGED vars
  PROVE  TypeOK'
<1>1. MasterTypeOK'
  BY DEF TypeOK, vars, MasterTypeOK, masterVars, jobVars, agentInfo, loopVars, envVars, JobTypeOK,
         AgentInfoTypeOK, LoopTypeOK, CallTypeOK
<1>2. NetTypeOK' /\ AgentTypeOK'
  BY DEF TypeOK, vars, netVars, agentVars, NetTypeOK, AgentTypeOK
<1> QED BY <1>1, <1>2 DEF TypeOK

(* TypeCorrect: every state of the run manager and its agents has the types    *)
(* stated by TypeOK.  Among them: an agent in state ACTIVE records a run, and   *)
(* a kill_all_active_runs or listen in progress knows where it returns to.      *)
THEOREM TypeCorrect == Spec => []TypeOK
<1>1. TypeOK /\ [Next]_vars => TypeOK'
  BY MasterStepType, AgentNextType, StutterType DEF Next
<1> QED BY <1>1, InitType, PTL DEF Spec

-----------------------------------------------------------------------------
(* The record of the runs: failure_map in memory, the status byte in storage. *)

(* What a step may do to the record, and why. *)
FinishStep(r) ==
  /\ \/ \E a \in Agents : IsResult(a, "RUN_FINISHED") /\ Head(toMaster[a]).run = r
     \/ UpdateRun(r)
  /\ status' = [status EXCEPT ![r] = 1]
  /\ UNCHANGED <<failure_map, group>>

RecordStep ==
  \/ UNCHANGED <<failure_map, status, group>>
  \/ \E r \in Runs, S \in SUBSET Agents : Charge(r, S) /\ UNCHANGED group
  \/ \E r \in Runs : FinishStep(r)
  \/ MarkWaitingFailed \/ NewGroup \/ RunUntil

(* process_message records results and failures as RecordStep says.          *)
LEMMA ProcessMessageRecord ==
  ASSUME TypeOK, NEW a \in Agents, ProcessMessage(a)
  PROVE  RecordStep
<1>1. CASE OnLost(a)
  BY <1>1 DEF OnLost, CloseAgent, RecordStep
<1>2. CASE OnHandshake(a) \/ OnOldResult(a) \/ OnResultOfFinishedRun(a)
  BY <1>2 DEF OnHandshake, OnOldResult, OnResultOfFinishedRun, jobVars, RecordStep
<1>3. CASE OnKilled(a)
  BY <1>3 DEF OnKilled, RecordStep
<1>4. CASE OnFinished(a)
  <2>1. Head(toMaster[a]).run \in Runs
    BY <1>4, HeadType DEF OnFinished, IsResult, HeadIs, ResultType, TypeOK
  <2>2. FinishStep(Head(toMaster[a]).run)
    BY <1>4 DEF OnFinished, FinishStep
  <2> QED BY <2>1, <2>2 DEF RecordStep
<1>5. CASE OnFailed(a)
  <2>1. Head(toMaster[a]).run \in Runs
    BY <1>5, HeadType DEF OnFailed, IsResult, HeadIs, ResultType, TypeOK
  <2>2. Charge(Head(toMaster[a]).run, {a}) /\ UNCHANGED group
    BY <1>5 DEF OnFailed
  <2> HIDE DEF Charge
  <2> QED BY <2>1, <2>2 DEF RecordStep
<1> QED
  BY <1>1, <1>2, <1>3, <1>4, <1>5 DEF ProcessMessage

(* So does every step of the system.                                         *)
LEMMA NextRecord ==
  ASSUME TypeOK, [Next]_vars
  PROVE  RecordStep
<1>1. CASE RunStep
  <2>1. CASE AssignNotNeeded \/ AssignStart \/ AssignLater \/ AssignDone
    BY <2>1 DEF AssignNotNeeded, AssignStart, AssignLater, AssignDone, jobVars, RecordStep
  <2>2. ASSUME NEW a \in Agents,
               GiveUpRun(a) \/ RestartRun(a) \/ KillOverdue(a) \/ LeaveOrDuplicate(a)
        PROVE  RecordStep
    <3>1. Visit(a)
      BY <2>2 DEF GiveUpRun, RestartRun, KillOverdue, LeaveOrDuplicate
    <3>2. arun[a] \in Runs /\ UNCHANGED group
      BY <3>1 DEF Visit, ToVisit, TypeOK, MasterTypeOK, AgentInfoTypeOK
    <3>3. CASE GiveUpRun(a) \/ RestartRun(a)
      <4>1. PICK S \in SUBSET Agents : Charge(arun[a], S)
        BY <3>3 DEF GiveUpRun, RestartRun, KillCopies, Copies
      <4> QED BY <3>2, <4>1 DEF RecordStep
    <3>4. CASE KillOverdue(a)
      <4>1. Charge(arun[a], {a})
        BY <3>4 DEF KillOverdue
      <4> QED BY <3>2, <4>1 DEF RecordStep
    <3>5. CASE LeaveOrDuplicate(a)
      BY <3>2, <3>5 DEF LeaveOrDuplicate, RecordStep
    <3> QED BY <2>2, <3>3, <3>4, <3>5
  <2>3. CASE Reschedule \/ CloseSurplus \/ Return \/ KillRound \/ StartPass
    BY <2>3 DEF Reschedule, CloseSurplus, Return, KillRound, StartPass, InitAgents, CloseFree,
                jobVars, RecordStep
  <2>4. CASE OverdueDone \/ Listen \/ Drain \/ DrainCheckStop \/ AllRunsComplete \/ StopBeforePass
    BY <2>4 DEF OverdueDone, Listen, Drain, DrainCheckStop, AllRunsComplete, StopBeforePass,
                jobVars, RecordStep
  <2>5. CASE ReadOne
    <3>1. PICK a \in Agents : ProcessMessage(a) \/ AddAgent(a)
      BY <2>5 DEF ReadOne, TypeOK, MasterTypeOK, LoopTypeOK
    <3>2. AddAgent(a) => RecordStep
      BY DEF AddAgent, jobVars, RecordStep
    <3> QED BY <3>1, <3>2, ProcessMessageRecord
  <2>6. CASE MarkWaitingFailed
    BY <2>6 DEF RecordStep
  <2> QED BY <1>1, <2>1, <2>2, <2>3, <2>4, <2>5, <2>6 DEF RunStep
<1>2. CASE IdleStep
  <2>1. CASE IdleInit
    BY <2>1 DEF IdleInit, InitAgents, jobVars, RecordStep
  <2>2. ASSUME NEW a \in Agents, IdleRead(a)
        PROVE  RecordStep
    <3>1. AddAgent(a) => RecordStep
      BY DEF AddAgent, jobVars, RecordStep
    <3> QED BY <2>2, <3>1, ProcessMessageRecord DEF IdleRead
  <2> QED BY <1>2, <2>1, <2>2 DEF IdleStep
<1>3. CASE ProgramStep \/ CreateStop
  <2>1. ASSUME NEW r \in Runs, UpdateRun(r)
        PROVE  RecordStep
    <3>1. FinishStep(r)
      BY <2>1 DEF FinishStep, UpdateRun
    <3> QED BY <3>1 DEF RecordStep
  <2>2. CASE NewGroup \/ RunUntil \/ RemoveStop \/ CreateStop
    BY <2>2 DEF RemoveStop, CreateStop, jobVars, RecordStep
  <2> QED BY <1>3, <2>1, <2>2 DEF ProgramStep
<1>4. CASE UNCHANGED masterVars
  BY <1>4 DEF masterVars, jobVars, RecordStep
<1> QED BY <1>1, <1>2, <1>3, <1>4 DEF Next, MasterNext, vars

(* Within a group a status byte falls, or the run is finished and stays so; a   *)
(* new group starts afresh.                                                   *)
LEMMA StatusFalls ==
  ASSUME TypeOK, [Next]_vars
  PROVE  \/ NewGroup /\ \A q \in Runs : status'[q] = 0
         \/ /\ UNCHANGED group
            /\ \A q \in Runs : \/ status'[q] = 1
                               \/ status[q] # 1 /\ status'[q] <= status[q]
<1>1. RecordStep
  BY NextRecord
<1>2. \A q \in Runs : status[q] \in Int
  BY DEF TypeOK, MasterTypeOK, JobTypeOK
<1>3. CASE UNCHANGED <<failure_map, status, group>> \/ RunUntil
  BY <1>2, <1>3 DEF RunUntil
<1>4. ASSUME NEW r \in Runs, NEW S \in SUBSET Agents, Charge(r, S), UNCHANGED group
      PROVE  \A q \in Runs : \/ status'[q] = 1
                             \/ status[q] # 1 /\ status'[q] <= status[q]
  <2> DEFINE k == Cardinality(S)
  <2>1. k \in Nat
    BY AgentsAssumption, FS_Subset, FS_CardinalityType
  <2>2. \A q \in Runs : status'[q] = IF q = r /\ status[q] < 1 THEN status[q] - k ELSE status[q]
    BY <1>4 DEF Charge, TypeOK, MasterTypeOK, JobTypeOK
  <2> HIDE DEF k
  <2> QED BY <1>2, <2>1, <2>2
<1>5. ASSUME NEW r \in Runs, FinishStep(r)
      PROVE  /\ UNCHANGED group
             /\ \A q \in Runs : \/ status'[q] = 1
                                \/ status[q] # 1 /\ status'[q] <= status[q]
  <2>1. UNCHANGED group /\ \A q \in Runs : status'[q] = IF q = r THEN 1 ELSE status[q]
    BY <1>5 DEF FinishStep, TypeOK, MasterTypeOK, JobTypeOK
  <2> QED BY <1>2, <2>1
<1>6. CASE MarkWaitingFailed
  <2> DEFINE times(r) == Cardinality({i \in DOMAIN waiting : waiting[i] = r})
  <2>1. \A r \in Runs : times(r) \in Nat
    <3>1. waiting \in Seq(Runs) /\ DOMAIN waiting = 1 .. Len(waiting) /\ Len(waiting) \in Nat
      BY DEF TypeOK, MasterTypeOK, JobTypeOK
    <3>2. IsFiniteSet(DOMAIN waiting)
      BY <3>1, FS_Interval
    <3> QED BY <3>2, FS_Subset, FS_CardinalityType
  <2>2. /\ \A r \in Runs : status'[r] = IF status[r] < 1 THEN status[r] - times(r) ELSE status[r]
        /\ UNCHANGED group
    BY <1>6 DEF MarkWaitingFailed
  <2> HIDE DEF times
  <2> QED BY <1>2, <2>1, <2>2
<1>7. CASE NewGroup
  BY <1>7 DEF NewGroup
<1> QED BY <1>1, <1>3, <1>4, <1>5, <1>6, <1>7 DEF RecordStep

(* Counting a failure lowers the status of an unfinished run as much.        *)
LEMMA ChargeRecorded ==
  ASSUME TypeOK, FailuresRecorded, NEW r \in Runs, NEW S \in SUBSET Agents, Charge(r, S)
  PROVE  FailuresRecorded'
<1> DEFINE k == Cardinality(S)
<1>1. k \in Nat
  BY AgentsAssumption, FS_Subset, FS_CardinalityType
<1>2. \A q \in Runs : status[q] \in Int /\ failure_map[q].n \in Nat
  BY DEF TypeOK, MasterTypeOK, JobTypeOK
<1>3. \A q \in Runs :
        /\ failure_map'[q].n = IF q = r THEN failure_map[q].n + k ELSE failure_map[q].n
        /\ status'[q] = IF q = r /\ status[q] < 1 THEN status[q] - k ELSE status[q]
  BY DEF Charge, TypeOK, MasterTypeOK, JobTypeOK
<1> HIDE DEF k
<1>4. ASSUME NEW q \in Runs
      PROVE  status'[q] <= 1 /\ (status'[q] < 1 => failure_map'[q].n <= -status'[q])
  <2>1. status[q] <= 1 /\ (status[q] < 1 => failure_map[q].n <= -status[q])
    BY DEF FailuresRecorded
  <2> QED BY <1>1, <1>2, <1>3, <2>1
<1> QED BY <1>4 DEF FailuresRecorded

(* Every step keeps the failure counts and the status bytes together.        *)
LEMMA FailuresRecordedStep ==
  ASSUME TypeOK, FailuresRecorded, [Next]_vars
  PROVE  FailuresRecorded'
<1>1. RecordStep
  BY NextRecord
<1>2. \A q \in Runs : status[q] \in Int /\ failure_map[q].n \in Nat
  BY DEF TypeOK, MasterTypeOK, JobTypeOK
<1>3. CASE UNCHANGED <<failure_map, status, group>>
  BY <1>3 DEF FailuresRecorded
<1>4. ASSUME NEW r \in Runs, NEW S \in SUBSET Agents, Charge(r, S)
      PROVE  FailuresRecorded'
  BY <1>4, ChargeRecorded
<1>5. ASSUME NEW r \in Runs, FinishStep(r)
      PROVE  FailuresRecorded'
  <2>1. \A q \in Runs : status'[q] = IF q = r THEN 1 ELSE status[q]
    BY <1>5 DEF FinishStep, TypeOK, MasterTypeOK, JobTypeOK
  <2>2. UNCHANGED failure_map
    BY <1>5 DEF FinishStep
  <2> QED BY <2>1, <2>2 DEF FailuresRecorded
<1>6. CASE MarkWaitingFailed
  <2> DEFINE times(r) == Cardinality({i \in DOMAIN waiting : waiting[i] = r})
  <2>1. \A r \in Runs : times(r) \in Nat
    <3>1. waiting \in Seq(Runs) /\ DOMAIN waiting = 1 .. Len(waiting) /\ Len(waiting) \in Nat
      BY DEF TypeOK, MasterTypeOK, JobTypeOK
    <3>2. IsFiniteSet(DOMAIN waiting)
      BY <3>1, FS_Interval
    <3> QED BY <3>2, FS_Subset, FS_CardinalityType
  <2>2. /\ \A r \in Runs : status'[r] = IF status[r] < 1 THEN status[r] - times(r) ELSE status[r]
        /\ UNCHANGED failure_map
    BY <1>6 DEF MarkWaitingFailed
  <2> HIDE DEF times
  <2>3. ASSUME NEW q \in Runs
        PROVE  status'[q] <= 1 /\ (status'[q] < 1 => failure_map'[q].n <= -status'[q])
    <3>1. status[q] <= 1 /\ (status[q] < 1 => failure_map[q].n <= -status[q])
      BY DEF FailuresRecorded
    <3> QED BY <1>2, <2>1, <2>2, <3>1
  <2> QED BY <2>3 DEF FailuresRecorded
<1>7. CASE NewGroup
  BY <1>7 DEF NewGroup, NoFailure, FailuresRecorded
<1>8. CASE RunUntil
  <2>1. /\ \A q \in Runs : failure_map'[q].n = 0
        /\ UNCHANGED status
    BY <1>8 DEF RunUntil, NoFailure
  <2> QED BY <1>2, <2>1 DEF FailuresRecorded
<1> QED BY <1>1, <1>3, <1>4, <1>5, <1>6, <1>7, <1>8 DEF RecordStep

(* FailuresAreRecorded: however the answers of the agents, the overdue loop and *)
(* the stop file interleave, the status byte of an unfinished run shows at      *)
(* least as many failures as run_until has counted for it.                      *)
THEOREM FailuresAreRecorded == Spec => []FailuresRecorded
<1>1. Init => FailuresRecorded
  <2> SUFFICES ASSUME Init PROVE FailuresRecorded
    OBVIOUS
  <2>1. failure_map = [r \in Runs |-> NoFailure] /\ status = [r \in Runs |-> 0]
    BY DEF Init, MasterInit
  <2> QED BY <2>1 DEF FailuresRecorded, NoFailure
<1>2. TypeOK /\ FailuresRecorded /\ [Next]_vars => FailuresRecorded'
  BY FailuresRecordedStep
<1> QED BY <1>1, <1>2, TypeCorrect, PTL DEF Spec

(* GivenUpRunsSettled: whatever option max_run_fail says, a run the master       *)
(* stops trying is not outstanding by its status byte.                          *)
THEOREM GivenUpRunsSettled == Spec => []GivenUpRunsAreSettled
<1>1. TypeOK /\ FailuresRecorded => GivenUpRunsAreSettled
  <2> SUFFICES ASSUME TypeOK, FailuresRecorded, NEW r \in Runs, GivenUp(r)
               PROVE  ~RunRequired(r)
    BY DEF GivenUpRunsAreSettled
  <2>1. status[r] \in Int /\ failure_map[r].n \in Nat /\ failure_map[r].n >= MaxRunFail
    BY DEF TypeOK, MasterTypeOK, JobTypeOK, GivenUp
  <2>2. status[r] <= 1 /\ (status[r] < 1 => failure_map[r].n <= -status[r])
    BY DEF FailuresRecorded
  <2> QED BY <2>1, <2>2, MaxRunFailAssumption DEF RunRequired
<1> QED BY <1>1, TypeCorrect, FailuresAreRecorded, PTL

-----------------------------------------------------------------------------
(* A branch of the overdue loop.                                             *)

(* The overdue loop gives a run up when its failures and its overdue copies     *)
(* reach max_n_failure, and max_concurrent_runs is no smaller than that.        *)
LEMMA TooManyOverdueIsTooManyFailures ==
  ASSUME TypeOK, NEW r \in Runs, TooManyOverdue(r)
  PROVE  TooManyFailures(r)
<1>1. PICK S : S = Overdue(r)
  OBVIOUS
<1>2. S \subseteq Agents
  BY <1>1 DEF Overdue, RunningOn
<1>3. Cardinality(S) \in Nat
  BY <1>2, AgentsAssumption, FS_Subset, FS_CardinalityType
<1>4. failure_map[r].n \in Nat /\ MaxConcurrent >= MaxRunFail /\ MaxConcurrent \in Nat
  BY MaxRunFailAssumption DEF TypeOK, MasterTypeOK, JobTypeOK, MaxConcurrent
<1>5. Cardinality(S) > MaxConcurrent
  BY <1>1 DEF TooManyOverdue
<1> QED
  BY <1>1, <1>3, <1>4, <1>5, MaxRunFailAssumption DEF TooManyFailures

(* RunsAreNeverStartedOver: the branch of schedule_runs that kills all the copies *)
(* of a run because too many of them are overdue, and begins the run again, is   *)
(* never taken: the branch before it has given the run up by then.              *)
THEOREM RunsAreNeverStartedOver == Spec => [][\A a \in Agents : ~RestartRun(a)]_vars
<1>1. TypeOK => \A a \in Agents : ~RestartRun(a)
  <2> SUFFICES ASSUME TypeOK, NEW a \in Agents, RestartRun(a)
               PROVE  FALSE
    OBVIOUS
  <2>1. arun[a] \in Runs /\ ~TooManyFailures(arun[a]) /\ TooManyOverdue(arun[a])
    BY DEF RestartRun, Visit, ToVisit, TypeOK, MasterTypeOK, AgentInfoTypeOK
  <2> QED
    BY <2>1, TooManyOverdueIsTooManyFailures
<1> QED
  BY <1>1, TypeCorrect, PTL
=============================================================================
