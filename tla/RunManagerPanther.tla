-------------------------- MODULE RunManagerPanther --------------------------
(***************************************************************************)
(* The master of the PANTHER parallel run manager: run_until and everything *)
(* it calls (class RunManagerPanther), together with the parts of           *)
(* RunManagerAbstract and RunStorage that record what became of a run.      *)
(*                                                                         *)
(* The master is one thread.  pc names the call it is about to make, so a   *)
(* step is one iteration of one of its loops and the agents move between    *)
(* two steps, as they do in reality.  Lists of agents are visited in the    *)
(* order the agents connected; the model does not keep that order and lets  *)
(* a loop visit its agents in any order.  Durations are not modelled: which *)
(* runs are overdue is chosen freely each time the code looks at a clock.   *)
(***************************************************************************)
EXTENDS PantherNet, Integers, FiniteSets, SequencesExt

CONSTANTS MaxRunFail,         \* max_n_failure, the option max_run_fail
          PersistentWorkers,  \* the option panther_persistent_workers
          Handshaken,         \* agents that an earlier run_until left connected
          MaxKillTries,       \* bound: rounds of kill_all_active_runs, 100 in the code
          MaxQueue,           \* bound: no run is called slow when waiting_runs is this long
          AllowStop           \* whether the user may create pest.stp

ASSUME AgentsAssumption == IsFiniteSet(Agents)
ASSUME MaxRunFailAssumption == MaxRunFail \in Nat \ {0}
ASSUME OptionAssumption == PersistentWorkers \in BOOLEAN /\ AllowStop \in BOOLEAN
ASSUME HandshakenAssumption == Handshaken \subseteq Agents
ASSUME BoundAssumption == MaxKillTries \in Nat \ {0} /\ MaxQueue \in Nat

VARIABLES waiting,      \* waiting_runs: the queue of runs to start
          active,       \* active_runid_to_iterset_map: pairs <<run, agent>>
          astate,       \* AgentInfoRec::state of each socket, "NONE" for a free one
          arun,         \* AgentInfoRec::run_id
          timed,        \* agents with a run time: they finished a run in this run_until
          failure_map,  \* for each run, how many failures and on which sockets
          status,       \* run status in the run storage file (RunStorage has its width)
          group         \* cur_group_id

VARIABLES pc,           \* what the master does next
          killRet,      \* where kill_all_active_runs returns to
          listenRet,    \* where listen returns to
          tries,        \* rounds of kill_all_active_runs so far
          cursor,       \* iterator of schedule_runs over waiting_runs
          todo,         \* agents the overdue loop of schedule_runs has not visited
          late,         \* agents whose run exceeds overdue_giveup_*, in this loop
          resched,      \* the run that should_schedule is about
          readable,     \* sockets that select() reported and listen has not read
          quiet,        \* n_no_ops > 0
          idling,       \* the idle thread exists and may touch the agents
          stop          \* pest.stp is there

jobVars == <<waiting, active, failure_map, status, group>>
agentInfo == <<astate, arun, timed>>
loopVars == <<killRet, listenRet, tries, cursor, todo, late, resched, readable>>
envVars == <<idling, stop>>
masterVars == <<jobVars, agentInfo, loopVars, pc, quiet, envVars>>

AgentState == {"NONE", "NEW", "CWD_REQ", "CWD_RCV", "NAMES_SENT", "LINPACK_REQ",
               "LINPACK_RCV", "WAITING", "ACTIVE", "KILLED", "KILLED_FAILED", "COMPLETE"}

(* max_concurrent_runs, set by the constructor. *)
MaxConcurrent == IF MaxRunFail > 1 THEN MaxRunFail ELSE 1

-----------------------------------------------------------------------------
(* What the master knows about its runs and agents. *)

Connected == {a \in Agents : astate[a] # "NONE"}
Free == {a \in Agents : astate[a] = "WAITING"}

(* A mutant: get_n_concurrent that looks at the agents and not at the map. *)
RunningByAgent(act, st, r) == {a \in Agents : arun[a] = r /\ st[a] = "ACTIVE"}

(* The agents that act and st record as running r. *)
RunningOn(act, st, r) == {a \in Agents : <<r, a>> \in act /\ st[a] = "ACTIVE"}
NConcurrent(r) == Cardinality(RunningOn(active, astate, r))

Finished(r) == status[r] = 1
(* A mutant: a run that is tried once more than max_n_failure says. *)
GivenUpLate(r) == failure_map[r].n > MaxRunFail
GivenUp(r) == failure_map[r].n >= MaxRunFail
(* A mutant: schedule_run that does not look whether the run is finished. *)
NotNeededIfFailed(r) == GivenUp(r)
NotNeeded(r) == Finished(r) \/ GivenUp(r)

(* What the status says to the program: n_run_failures_exceeded, run_requried. *)
FailuresExceeded(r) == status[r] <= -MaxRunFail /\ status[r] > -100
RunRequired(r) == status[r] <= 0 /\ status[r] > -MaxRunFail

NoFailure == [n |-> 0, socks |-> {}]

(* A mutant: update_run_failed called once for all the copies of a run. *)
ChargeOnce(r, S) ==
  /\ failure_map' = [failure_map EXCEPT
       ![r] = [n |-> @.n + Cardinality(S), socks |-> @.socks \cup S]]
  /\ status' = [status EXCEPT ![r] = IF @ < 1 THEN @ - 1 ELSE @]

(* update_run_failed(r, a) for every agent a of S: a pending run's status     *)
(* byte goes down by one and its failure is remembered with the socket.       *)
Charge(r, S) ==
  /\ failure_map' = [failure_map EXCEPT
       ![r] = [n |-> @.n + Cardinality(S), socks |-> @.socks \cup S]]
  /\ status' = [status EXCEPT ![r] = IF @ < 1 THEN @ - Cardinality(S) ELSE @]

(* kill_run for every agent of V, the caller's sends reaching those SendOk    *)
(* allows.  Every agent of V loses its entry in the map of active runs; only  *)
(* one that is ACTIVE or KILLED_FAILED is sent a kill request.                *)
(* Mutants: kill_run of an agent that runs nothing; no entry is erased.       *)
KillableWhenFree(a) == astate[a] \in {"WAITING", "ACTIVE", "KILLED_FAILED"}
ActiveKept(V) == active

Killable(a) == astate[a] \in {"ACTIVE", "KILLED_FAILED"}
ActiveWithout(V) == active \ {<<arun[a], a>> : a \in V}
StateAfterKill(V, ok) ==
  [a \in Agents |-> IF a \in V /\ Killable(a)
                    THEN IF SendOk(a, ok) THEN "KILLED" ELSE "KILLED_FAILED"
                    ELSE astate[a]]
KillRequests(V) ==
  [a \in Agents |-> IF a \in V /\ Killable(a) THEN <<Plain("REQ_KILL")>> ELSE <<>>]

(* A mutant: a run never returns to an agent it failed on. *)
NewCandidates(r) == Free \ failure_map[r].socks

(* The agents that may be given r now: any free one for a run that has not    *)
(* failed or has failed everywhere, else one that has not failed it before.   *)
Candidates(r) ==
  IF failure_map[r].n = 0 \/ failure_map[r].n + NConcurrent(r) >= Cardinality(Connected)
  THEN Free
  ELSE Free \ failure_map[r].socks

SetState(a, s) == astate' = [astate EXCEPT ![a] = s]

(* A mutant: schedule_run without set_run_id. *)
StartWithoutId(r, a) ==
  /\ SetState(a, "ACTIVE")
  /\ active' = active \cup {<<r, a>>}
  /\ toAgent' = Sending([b \in Agents |->
                   IF b = a THEN <<Msg("START_RUN", r, group)>> ELSE <<>>])
  /\ UNCHANGED <<arun, timed>>

(* schedule_run's send to agent a succeeds. *)
StartOn(r, a) ==
  /\ SetState(a, "ACTIVE")
  /\ arun' = [arun EXCEPT ![a] = r]
  /\ active' = active \cup {<<r, a>>}
  /\ toAgent' = Sending([b \in Agents |->
                   IF b = a THEN <<Msg("START_RUN", r, group)>> ELSE <<>>])
  /\ UNCHANGED timed

-----------------------------------------------------------------------------
(* process_message: what the master does with the next message of agent a.   *)

HeadIs(a, t) == toMaster[a] # <<>> /\ Head(toMaster[a]).type = t
Read(a) == toMaster' = [toMaster EXCEPT ![a] = Tail(@)]

(* close_agent.  The run of an agent that is ACTIVE goes back to the front of *)
(* the queue unless another copy of it is running.                            *)
CloseAgent(a) ==
  LET r == arun[a]
      act == ActiveWithout({a})
      orphaned == r # NoRun /\ astate[a] = "ACTIVE" /\ RunningOn(act, astate, r) = {}
  IN  /\ active' = act
      /\ waiting' = IF orphaned THEN <<r>> \o waiting ELSE waiting
      /\ SetState(a, "NONE")
      /\ arun' = [arun EXCEPT ![a] = NoRun]
      /\ timed' = timed \ {a}
      /\ link' = [link EXCEPT ![a] = "none"]
      /\ toAgent' = [toAgent EXCEPT ![a] = <<>>]
      /\ toMaster' = [toMaster EXCEPT ![a] = <<>>]
      /\ UNCHANGED <<failure_map, status, group>>

OnLost(a) == HeadIs(a, "EOF") /\ CloseAgent(a)

OnHandshake(a) ==
  /\ \/ HeadIs(a, "RUNDIR")  /\ SetState(a, "CWD_RCV")
     \/ HeadIs(a, "LINPACK") /\ SetState(a, "LINPACK_RCV")
     \/ HeadIs(a, "READY")   /\ SetState(a, "WAITING")
  /\ Read(a)
  /\ UNCHANGED <<jobVars, arun, timed, link, toAgent>>

(* A result of an earlier group of runs is dropped. *)
OnOldResult(a) ==
  /\ toMaster[a] # <<>> /\ Head(toMaster[a]).type \in ResultType
  /\ Head(toMaster[a]).grp # group
  /\ Read(a)
  /\ UNCHANGED <<jobVars, agentInfo, link, toAgent>>

(* A mutant: process_message that does not compare the group ids. *)
IsAnyResult(a, t) == HeadIs(a, t)
IsResult(a, t) == HeadIs(a, t) /\ Head(toMaster[a]).grp = group

(* process_model_run: the first result of a run is stored and every other     *)
(* copy of the run is killed.                                                 *)
OnFinished(a) ==
  /\ IsResult(a, "RUN_FINISHED")
  /\ LET r == Head(toMaster[a]).run
         others == {b \in Agents : <<r, b>> \in ActiveWithout({a})}
     IN  /\ ~Finished(r)
         /\ status' = [status EXCEPT ![r] = 1]
         /\ timed' = timed \cup {a}
         /\ active' = ActiveWithout({a} \cup others)
         /\ \E ok \in SUBSET Down :
              astate' = [StateAfterKill(others, ok) EXCEPT ![a] = "COMPLETE"]
         /\ toAgent' = Sending(KillRequests(others))
  /\ Read(a)
  /\ UNCHANGED <<waiting, failure_map, group, arun, link>>

(* A copy that finishes, or fails, after another one finished changes nothing. *)
OnResultOfFinishedRun(a) ==
  /\ IsResult(a, "RUN_FINISHED") \/ IsResult(a, "RUN_FAILED")
  /\ Finished(Head(toMaster[a]).run)
  /\ Read(a)
  /\ UNCHANGED <<jobVars, agentInfo, link, toAgent>>

OnFailed(a) ==
  /\ IsResult(a, "RUN_FAILED")
  /\ LET r == Head(toMaster[a]).run
         act == ActiveWithout({a})
     IN  /\ ~Finished(r)
         /\ Charge(r, {a})
         /\ active' = act
         /\ waiting' = IF RunningOn(act, astate, r) = {} /\ failure_map'[r].n < MaxRunFail
                       THEN <<r>> \o waiting ELSE waiting
  /\ Read(a)
  /\ UNCHANGED <<group, agentInfo, link, toAgent>>

OnKilled(a) ==
  /\ IsResult(a, "RUN_KILLED")
  /\ active' = ActiveWithout({a})
  /\ Read(a)
  /\ UNCHANGED <<waiting, failure_map, status, group, agentInfo, link, toAgent>>

ProcessMessage(a) ==
  \/ OnLost(a) \/ OnHandshake(a) \/ OnOldResult(a)
  \/ OnFinished(a) \/ OnResultOfFinishedRun(a) \/ OnFailed(a) \/ OnKilled(a)

(* add_agent: a connection that was waiting for accept(). *)
AddAgent(a) ==
  /\ link[a] = "pending"
  /\ link' = [link EXCEPT ![a] = "up"]
  /\ SetState(a, "NEW")
  /\ UNCHANGED <<jobVars, arun, timed, toAgent, toMaster>>

-----------------------------------------------------------------------------
(* init_agents: one step of the handshake with every agent. *)

HandshakeMsg(s) ==
  CASE s = "NEW"        -> <<Plain("REQ_RUNDIR")>>
    [] s = "CWD_RCV"    -> <<Plain("NAMES")>>
    [] s = "NAMES_SENT" -> <<Plain("REQ_LINPACK")>>
    [] OTHER            -> <<>>

(* A mutant: init_agents with the case that the code has commented out. *)
HandshakeWithComplete(s, sent) ==
  CASE s \in {"COMPLETE", "LINPACK_RCV"} -> "WAITING"
    [] s = "NEW" /\ sent                 -> "CWD_REQ"
    [] s = "CWD_RCV" /\ sent             -> "NAMES_SENT"
    [] s = "NAMES_SENT" /\ sent          -> "LINPACK_REQ"
    [] OTHER                             -> s

HandshakeNext(s, sent) ==
  CASE s = "NEW" /\ sent        -> "CWD_REQ"
    [] s = "CWD_RCV" /\ sent    -> "NAMES_SENT"
    [] s = "NAMES_SENT" /\ sent -> "LINPACK_REQ"
    [] s = "LINPACK_RCV"        -> "WAITING"
    [] OTHER                    -> s

InitAgents ==
  /\ \E ok \in SUBSET Down :
       astate' = [a \in Agents |-> HandshakeNext(astate[a], SendOk(a, ok))]
  /\ toAgent' = Sending([a \in Agents |-> HandshakeMsg(astate[a])])
  /\ UNCHANGED <<jobVars, arun, timed, link, toMaster>>

-----------------------------------------------------------------------------
(* listen: select() reports the readable sockets, then one message is read    *)
(* from each of them; a new connection makes the listening socket readable.   *)

Readable == {a \in Agents : link[a] \in {"up", "down"} /\ astate[a] # "NONE" /\ toMaster[a] # <<>>}
Pending == {a \in Agents : link[a] = "pending"}

(* n_no_ops counts the passes of a loop of run_until in which neither listen   *)
(* nor ping did anything; kill_all_active_runs listens without counting.       *)
Counting == killRet = ""

(* listen returns; in its last round kill_all_active_runs returns with it.     *)
EndListen ==
  /\ pc' = listenRet /\ listenRet' = ""
  /\ IF listenRet = killRet THEN killRet' = "" /\ tries' = 0 ELSE UNCHANGED <<killRet, tries>>

Listen ==
  /\ pc = "listen"
  /\ \E new \in SUBSET Pending :
       /\ Cardinality(new) <= 1 /\ (Pending # {} => new # {})
       /\ readable' = Readable \cup new
  /\ IF readable' = {}
     THEN EndListen /\ quiet' \in (IF Counting THEN BOOLEAN ELSE {quiet})
     ELSE /\ pc' = "read" /\ quiet' = (quiet /\ ~Counting)
          /\ UNCHANGED <<killRet, listenRet, tries>>
  /\ UNCHANGED <<jobVars, agentInfo, cursor, todo, late, resched, envVars, netVars>>

ReadOne ==
  /\ pc = "read"
  /\ \E a \in readable :
       /\ ProcessMessage(a) \/ AddAgent(a)
       /\ readable' = readable \ {a}
  /\ IF readable' = {} THEN EndListen ELSE UNCHANGED <<pc, killRet, listenRet, tries>>
  /\ UNCHANGED <<cursor, todo, late, resched, quiet, envVars>>

-----------------------------------------------------------------------------
(* schedule_runs, first part: start waiting runs on free agents. *)

AtWaiting == pc = "assign" /\ cursor <= Len(waiting) /\ Free # {}

AssignNotNeeded ==
  /\ AtWaiting /\ NotNeeded(waiting[cursor])
  /\ waiting' = RemoveAt(waiting, cursor)
  /\ UNCHANGED <<active, failure_map, status, group, agentInfo, loopVars, pc, quiet, envVars, netVars>>

AssignStart ==
  /\ AtWaiting /\ ~NotNeeded(waiting[cursor])
  /\ \E a \in Candidates(waiting[cursor]) : StartOn(waiting[cursor], a)
  /\ waiting' = RemoveAt(waiting, cursor)
  /\ UNCHANGED <<failure_map, status, group, loopVars, pc, quiet, envVars, link, toMaster>>

(* No free agent may have the run, or the send to the one chosen fails. *)
AssignLater ==
  /\ AtWaiting /\ ~NotNeeded(waiting[cursor])
  /\ LET c == Candidates(waiting[cursor]) IN c = {} \/ c \cap Down # {}
  /\ cursor' = cursor + 1
  /\ UNCHANGED <<jobVars, agentInfo, killRet, listenRet, tries, todo, late, resched, readable,
                 pc, quiet, envVars, netVars>>

(* schedule_runs has nothing more to start. *)
ToListen == IF PersistentWorkers THEN pc' = "listen" /\ listenRet' = "top"
                                 ELSE pc' = "surplus" /\ UNCHANGED listenRet

(* Second part, when nothing happened in the last pass: the overdue loop.     *)
AssignDone ==
  /\ pc = "assign" /\ (cursor > Len(waiting) \/ Free = {})
  /\ cursor' = 1
  /\ LET running == {a \in Agents : astate[a] = "ACTIVE"}
     IN  IF quiet /\ running # {}
         THEN pc' = "overdue" /\ todo' = Connected /\ late' \in SUBSET running /\ UNCHANGED listenRet
         ELSE ToListen /\ UNCHANGED <<todo, late>>
  /\ UNCHANGED <<jobVars, agentInfo, killRet, tries, resched, readable, quiet, envVars, netVars>>

(* get_overdue_runs_over_kill_threshold: with pest.stp every copy counts.     *)
Overdue(r) == {a \in RunningOn(active, astate, r) : a \in late \/ stop}

ToVisit == {a \in todo : astate[a] = "ACTIVE"}

(* kill_runs(r, charge): every copy of r is killed and, when charge is true,   *)
(* counts as a failure.                                                       *)
Copies(r) == {a \in Agents : <<r, a>> \in active}
KillAgents(V) ==
  /\ active' = ActiveWithout(V)
  /\ \E ok \in SUBSET Down : astate' = StateAfterKill(V, ok)
  /\ toAgent' = Sending(KillRequests(V))
KillCopies(r) == KillAgents(Copies(r)) /\ Charge(r, Copies(r))

Visit(a) ==
  /\ pc = "overdue" /\ a \in ToVisit
  /\ todo' = todo \ {a}
  /\ UNCHANGED <<waiting, group, arun, timed, killRet, listenRet, tries, cursor, late, readable,
                 quiet, envVars, link, toMaster>>

TooManyFailures(r) == failure_map[r].n + Cardinality(Overdue(r)) >= MaxRunFail
TooManyOverdue(r) == Cardinality(Overdue(r)) > MaxConcurrent

(* The run has failed, or is overdue, too often: give it up. *)
GiveUpRun(a) ==
  /\ Visit(a) /\ TooManyFailures(arun[a])
  /\ KillCopies(arun[a])
  /\ UNCHANGED <<pc, resched>>

(* All its concurrent copies are overdue: start over. *)
RestartRun(a) ==
  /\ Visit(a) /\ ~TooManyFailures(arun[a]) /\ TooManyOverdue(arun[a])
  /\ KillCopies(arun[a])
  /\ pc' = "resched" /\ resched' = arun[a]

(* This agent is overdue and somebody else needs it. *)
KillOverdue(a) ==
  /\ Visit(a) /\ ~TooManyFailures(arun[a]) /\ ~TooManyOverdue(arun[a])
  /\ a \in late /\ Free = {}
  /\ KillAgents({a}) /\ Charge(arun[a], {a})
  /\ IF failure_map'[arun[a]].n + Cardinality(Overdue(arun[a])) <= MaxRunFail
     THEN pc' = "resched" /\ resched' = arun[a]
     ELSE UNCHANGED <<pc, resched>>

(* The run takes longer than overdue_resched_fac allows, or it does not; there *)
(* is an average to compare with once some run has finished.                   *)
LeaveOrDuplicate(a) ==
  /\ Visit(a) /\ ~TooManyFailures(arun[a]) /\ ~TooManyOverdue(arun[a])
  /\ ~(a \in late /\ Free = {})
  /\ \/ UNCHANGED <<pc, resched>>
     \/ /\ timed # {} /\ NConcurrent(arun[a]) < MaxConcurrent /\ Len(waiting) < MaxQueue
        /\ pc' = "resched" /\ resched' = arun[a]
  /\ UNCHANGED <<active, failure_map, status, astate, toAgent>>

(* should_schedule: another copy on a free agent; with no copy running the    *)
(* run goes back to the queue.                                                *)
Reschedule ==
  /\ pc = "resched"
  /\ \/ /\ ~NotNeeded(resched)
        /\ \E a \in Candidates(resched) : StartOn(resched, a)
     \/ /\ \/ NotNeeded(resched)
           \/ Candidates(resched) = {}
           \/ Candidates(resched) \cap Down # {}
        /\ UNCHANGED <<active, agentInfo, toAgent>>
  /\ waiting' = IF RunningOn(active', astate', resched) = {}
                THEN <<resched>> \o waiting ELSE waiting
  /\ pc' = "overdue" /\ resched' = NoRun
  /\ UNCHANGED <<failure_map, status, group, killRet, listenRet, tries, cursor, todo, late,
                 readable, quiet, envVars, link, toMaster>>

OverdueDone ==
  /\ pc = "overdue" /\ ToVisit = {}
  /\ ToListen /\ todo' = {} /\ late' = {}
  /\ UNCHANGED <<jobVars, agentInfo, killRet, tries, cursor, resched, readable,
                 quiet, envVars, netVars>>

(* close_agent for the agents of S, all of them free. *)
CloseFree(S) ==
  /\ active' = ActiveWithout(S)
  /\ astate' = [a \in Agents |-> IF a \in S THEN "NONE" ELSE astate[a]]
  /\ arun' = [a \in Agents |-> IF a \in S THEN NoRun ELSE arun[a]]
  /\ timed' = timed \ S
  /\ link' = [a \in Agents |-> IF a \in S THEN "none" ELSE link[a]]
  /\ toAgent' = [a \in Agents |-> IF a \in S THEN <<>> ELSE toAgent[a]]
  /\ toMaster' = [a \in Agents |-> IF a \in S THEN <<>> ELSE toMaster[a]]
  /\ UNCHANGED <<waiting, failure_map, status, group>>

(* Third part: agents that are not persistent and have nothing to do leave.   *)
CloseSurplus ==
  /\ pc = "surplus"
  /\ IF Len(waiting) < Cardinality(Free)
     THEN \E S \in SUBSET Free :
            Cardinality(S) = Cardinality(Free) - Len(waiting) /\ CloseFree(S)
     ELSE UNCHANGED <<jobVars, agentInfo, netVars>>
  /\ pc' = "listen" /\ listenRet' = "top"
  /\ UNCHANGED <<killRet, tries, cursor, todo, late, resched, readable, quiet, envVars>>

-----------------------------------------------------------------------------
(* run_until(NORMAL): the calls of its main loop, in order. *)

(* A mutant: all_runs_complete that looks at the queue alone. *)
NothingCounts == TRUE
NothingRunning == \A p \in active : astate[p[2]] # "ACTIVE"

GoTo(l) == pc' = l
CallKillAll(ret) == pc' = "killall" /\ killRet' = ret /\ tries' = 0

(* all_runs_complete: with pest.stp everything is killed first. *)
AllRunsComplete ==
  /\ pc = "top"
  /\ IF stop
     THEN CallKillAll("stopped")
     ELSE waiting = <<>> /\ NothingRunning /\ GoTo("drain") /\ UNCHANGED <<killRet, tries>>
  /\ UNCHANGED <<jobVars, agentInfo, listenRet, cursor, todo, late, resched, readable,
                 quiet, envVars, netVars>>

(* A mutant: every run that is waiting is marked, also one that has finished. *)
MarkAllWaiting ==
  /\ pc = "stopped"
  /\ status' = [r \in Runs |-> status[r] - Cardinality({i \in DOMAIN waiting : waiting[i] = r})]
  /\ waiting' = <<>>
  /\ GoTo("drain")
  /\ UNCHANGED <<active, failure_map, group, agentInfo, loopVars, quiet, envVars, netVars>>

(* A mutant: the queue is cleared and no run marked. *)
ClearWaiting ==
  /\ pc = "stopped"
  /\ waiting' = <<>>
  /\ GoTo("drain")
  /\ UNCHANGED <<active, failure_map, status, group, agentInfo, loopVars, quiet, envVars, netVars>>

(* The rest of all_runs_complete: what is still waiting is marked as failed.  *)
MarkWaitingFailed ==
  /\ pc = "stopped"
  /\ status' = [r \in Runs |->
        LET k == Cardinality({i \in DOMAIN waiting : waiting[i] = r})
        IN  IF status[r] < 1 THEN status[r] - k ELSE status[r]]
  /\ waiting' = <<>>
  /\ GoTo("drain")
  /\ UNCHANGED <<active, failure_map, group, agentInfo, loopVars, quiet, envVars, netVars>>

RunsRemain == pc = "top" /\ ~stop /\ (waiting # <<>> \/ ~NothingRunning)

(* run_until looks for pest.stp again before it starts anything, and finds    *)
(* the file when the user has created it since all_runs_complete looked.      *)
StopBeforePass ==
  /\ RunsRemain /\ AllowStop /\ stop' = TRUE
  /\ CallKillAll("init")
  /\ UNCHANGED <<jobVars, agentInfo, listenRet, cursor, todo, late, resched, readable,
                 quiet, idling, netVars>>

StartPass ==
  /\ RunsRemain \/ pc = "init"
  /\ InitAgents
  /\ GoTo("assign") /\ cursor' = 1
  /\ UNCHANGED <<killRet, listenRet, tries, todo, late, resched, readable, quiet, envVars>>

(* One round of kill_all_active_runs: init_agents, a kill request to every    *)
(* agent that is running something, and a listen.                             *)
KillRound ==
  LET V == {a \in Agents : Killable(a)}
  IN  /\ pc = "killall"
      /\ \E ok \in SUBSET Down :
           astate' = [a \in Agents |->
                        IF a \in V THEN StateAfterKill(V, ok)[a]
                        ELSE HandshakeNext(astate[a], SendOk(a, ok))]
      /\ toAgent' = Sending([a \in Agents |->
                       IF a \in V THEN KillRequests(V)[a] ELSE HandshakeMsg(astate[a])])
      /\ active' = ActiveWithout(V)
      /\ tries' = tries + 1
      /\ GoTo("listen")
      /\ listenRet' = IF V # {} /\ tries + 1 < MaxKillTries THEN "killall" ELSE killRet
      /\ UNCHANGED <<waiting, failure_map, status, group, arun, timed, killRet, cursor, todo, late,
                     resched, readable, quiet, envVars, link, toMaster>>

(* After the main loop run_until listens until nothing is left to read, then  *)
(* kills whatever the agents are still doing and returns.  The last pass of    *)
(* this loop has listened in vain and counts as one without operations, unless *)
(* a message or ping set n_no_ops back; the next run_until begins with that.   *)
Drain ==
  /\ pc = "drain"
  /\ IF Readable \cup Pending = {}
     THEN CallKillAll("return") /\ quiet' \in BOOLEAN /\ UNCHANGED listenRet
     ELSE GoTo("listen") /\ listenRet' = "drained" /\ UNCHANGED <<killRet, tries, quiet>>
  /\ UNCHANGED <<jobVars, agentInfo, cursor, todo, late, resched, readable, envVars, netVars>>

DrainCheckStop ==
  /\ pc = "drained"
  /\ IF stop THEN CallKillAll("drain") ELSE GoTo("drain") /\ UNCHANGED <<killRet, tries>>
  /\ UNCHANGED <<jobVars, agentInfo, listenRet, cursor, todo, late, resched, readable,
                 quiet, envVars, netVars>>

Return ==
  /\ pc = "return"
  /\ IF PersistentWorkers THEN UNCHANGED <<jobVars, agentInfo, netVars>> ELSE CloseFree(Free)
  /\ idling' = TRUE
  /\ GoTo("client")
  /\ UNCHANGED <<loopVars, quiet, stop>>

-----------------------------------------------------------------------------
(* Between two calls of run_until: the program and the idle thread. *)

(* The program calls reinitialize and then add_run for every run. *)
NewGroup ==
  /\ pc = "client" /\ group < MaxGroup /\ ~stop
  /\ group' = group + 1
  /\ waiting' = [i \in 1 .. NRuns |-> i]
  /\ active' = {}
  /\ failure_map' = [r \in Runs |-> NoFailure]
  /\ status' = [r \in Runs |-> 0]
  /\ GoTo("queued")
  /\ UNCHANGED <<agentInfo, loopVars, quiet, envVars, netVars>>

(* update_run: the program has the result of a run already.  add_run has put   *)
(* the run into the queue once, so that erasing all its entries erases one.    *)
UpdateRun(r) ==
  /\ pc = "queued"
  /\ \E i \in DOMAIN waiting : waiting[i] = r /\ waiting' = RemoveAt(waiting, i)
  /\ status' = [status EXCEPT ![r] = 1]
  /\ KillAgents(Copies(r))
  /\ UNCHANGED <<failure_map, group, arun, timed, loopVars, pc, quiet, envVars, link, toMaster>>

(* The program calls run.  pause_idle has made the idle thread stand still.   *)
RunUntil ==
  /\ pc = "queued"
  /\ failure_map' = [r \in Runs |-> NoFailure]
  /\ active' = {}
  /\ timed' = {}
  /\ GoTo("top")
  /\ UNCHANGED <<waiting, status, group, astate, arun, loopVars, quiet, envVars, netVars>>

(* run_idle_async: init_agents and listen, without scheduling anything. *)
Idling == pc \in {"client", "queued"} /\ idling

IdleInit ==
  /\ Idling
  /\ InitAgents
  /\ UNCHANGED <<loopVars, pc, quiet, envVars>>

IdleRead(a) ==
  /\ Idling
  /\ (a \in Readable /\ ProcessMessage(a)) \/ AddAgent(a)
  /\ UNCHANGED <<loopVars, pc, quiet, envVars>>

(* The user creates pest.stp; the program removes it after run has returned.  *)
CreateStop ==
  /\ AllowStop /\ ~stop /\ pc \notin {"client", "queued"} /\ stop' = TRUE
  /\ UNCHANGED <<jobVars, agentInfo, loopVars, pc, quiet, idling, netVars>>

RemoveStop ==
  /\ pc = "client" /\ stop /\ stop' = FALSE
  /\ UNCHANGED <<jobVars, agentInfo, loopVars, pc, quiet, idling, netVars>>

-----------------------------------------------------------------------------
MasterInit ==
  /\ waiting = <<>> /\ active = {} /\ group = 0
  /\ astate = [a \in Agents |-> IF a \in Handshaken THEN "WAITING" ELSE "NONE"]
  /\ arun = [a \in Agents |-> NoRun] /\ timed = {}
  /\ failure_map = [r \in Runs |-> NoFailure]
  /\ status = [r \in Runs |-> 0]
  /\ pc = "client" /\ killRet = "" /\ listenRet = "" /\ tries = 0 /\ cursor = 1
  /\ todo = {} /\ late = {} /\ resched = NoRun /\ readable = {}
  /\ quiet = FALSE /\ idling = (Handshaken # {}) /\ stop = FALSE

(* One step of the thread that executes run_until. *)
RunStep ==
  \/ AllRunsComplete \/ MarkWaitingFailed \/ StopBeforePass \/ StartPass
  \/ AssignNotNeeded \/ AssignStart \/ AssignLater \/ AssignDone
  \/ (\E a \in Agents : GiveUpRun(a) \/ RestartRun(a) \/ KillOverdue(a) \/ LeaveOrDuplicate(a))
  \/ Reschedule \/ OverdueDone \/ CloseSurplus
  \/ Listen \/ ReadOne
  \/ KillRound \/ Drain \/ DrainCheckStop \/ Return

IdleStep == IdleInit \/ \E a \in Agents : IdleRead(a)

ProgramStep == NewGroup \/ (\E r \in Runs : UpdateRun(r)) \/ RunUntil \/ RemoveStop

MasterNext == RunStep \/ IdleStep \/ ProgramStep \/ CreateStop

-----------------------------------------------------------------------------
PC == {"client", "queued", "top", "stopped", "init", "assign", "overdue", "resched", "surplus",
       "listen", "read", "killall", "drain", "drained", "return"}
KillRet == {"stopped", "init", "drain", "return"}
ListenRet == {"top", "drained", "killall"} \cup KillRet

JobTypeOK ==
  /\ waiting \in Seq(Runs)
  /\ active \subseteq Runs \X Agents
  /\ failure_map \in [Runs -> [n : Nat, socks : SUBSET Agents]]
  /\ status \in [Runs -> Int]
  /\ group \in Groups

AgentInfoTypeOK ==
  /\ astate \in [Agents -> AgentState]
  /\ arun \in [Agents -> Runs \cup {NoRun}]
  /\ timed \subseteq Agents
  /\ \A a \in Agents : astate[a] = "ACTIVE" => arun[a] \in Runs

LoopTypeOK ==
  /\ tries \in Nat /\ cursor \in Nat /\ cursor >= 1
  /\ todo \subseteq Agents /\ late \subseteq Agents /\ readable \subseteq Agents
  /\ quiet \in BOOLEAN /\ idling \in BOOLEAN /\ stop \in BOOLEAN

(* A call that is in progress has somewhere to return to. *)
CallTypeOK ==
  /\ pc \in PC
  /\ killRet \in KillRet \cup {""} /\ listenRet \in ListenRet \cup {""}
  /\ resched \in Runs \cup {NoRun}
  /\ pc = "resched" => resched \in Runs
  /\ pc \in {"listen", "read"} => listenRet # ""
  /\ pc = "killall" \/ listenRet = "killall" => killRet # ""

MasterTypeOK == JobTypeOK /\ AgentInfoTypeOK /\ LoopTypeOK /\ CallTypeOK
=============================================================================
