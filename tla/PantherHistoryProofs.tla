------------------------ MODULE PantherHistoryProofs ------------------------
(***************************************************************************)
(* Theorems about what happened before a run counts as finished, how many   *)
(* failures the attempts at it may count as, and what pest.stp leaves.       *)
(***************************************************************************)
EXTENDS PantherHistory, PantherContractProofs

(* Messages of agents that report no result but those in c as finished. *)
Backed(c) == {m \in MasterMsg : m.type = "RUN_FINISHED" => <<m.grp, m.run>> \in c}

(* Every RUN_FINISHED on its way was computed by an agent. *)
AnswersAreBacked == \A a \in Agents : toMaster[a] \in Seq(Backed(computed))

ResultsInv == TypeOK /\ AnswersAreBacked /\ ResultsAreOfThisGroup

-----------------------------------------------------------------------------
(* A message about no run claims no result.                                  *)
LEMMA PlainIsBacked ==
  ASSUME NEW c
  PROVE  \A t \in ReplyType : Plain(t) \in Backed(c)
<1>1. \A t \in ReplyType : Plain(t) \in MasterMsg /\ Plain(t).type # "RUN_FINISHED"
  BY PlainType DEF Plain, Msg, ReplyType
<1>2. \A m \in MasterMsg : m.type # "RUN_FINISHED" => m \in Backed(c)
  BY DEF Backed
<1> QED BY <1>1, <1>2

(* What a computed result backs, a later one backs too.                      *)
LEMMA BackedGrows ==
  ASSUME NEW c, NEW d, c \subseteq d, NEW s \in Seq(Backed(c))
  PROVE  s \in Seq(Backed(d))
<1>1. Backed(c) \subseteq Backed(d)
  BY DEF Backed
<1> QED BY <1>1, SeqMonotone

(* The master adds no answer to a socket.                                    *)
LEMMA MasterKeepsBacked ==
  ASSUME ResultsInv, MasterNext, computed \subseteq computed'
  PROVE  AnswersAreBacked'
<1> SUFFICES ASSUME NEW a \in Agents
             PROVE  toMaster'[a] \in Seq(Backed(computed'))
  BY DEF AnswersAreBacked
<1>1. toMaster[a] \in Seq(Backed(computed)) /\ ReadOrDrop(a)
  BY MasterReads DEF ResultsInv, AnswersAreBacked
<1>2. toMaster'[a] \in Seq(Backed(computed))
  <2>1. toMaster[a] # <<>> => Tail(toMaster[a]) \in Seq(Backed(computed))
    BY <1>1
  <2>2. <<>> \in Seq(Backed(computed))
    OBVIOUS
  <2> QED BY <1>1, <2>1, <2>2 DEF ReadOrDrop
<1> QED BY <1>2, BackedGrows

(* An agent adds one answer, which is backed.                                *)
LEMMA SendKeepsBacked ==
  ASSUME ResultsInv, NEW a \in Agents, computed \subseteq computed',
         NEW m \in Backed(computed'), Send(a, m)
  PROVE  AnswersAreBacked'
<1>1. toMaster \in [Agents -> Seq(MasterMsg)] /\ \A b \in Agents : toMaster[b] \in Seq(Backed(computed'))
  BY BackedGrows DEF ResultsInv, TypeOK, NetTypeOK, AnswersAreBacked
<1>2. Append(toMaster[a], m) \in Seq(Backed(computed'))
  BY <1>1, AppendProperties
<1>3. toMaster' = [toMaster EXCEPT ![a] = Append(@, m)]
  BY DEF Send
<1> HIDE DEF Backed
<1>4. \A b \in Agents : toMaster'[b] \in Seq(Backed(computed'))
  BY <1>1, <1>2, <1>3
<1> QED BY <1>4 DEF AnswersAreBacked

(* A result that an agent sends as finished is recorded as computed. *)
LEMMA ResultIsRecorded ==
  ASSUME ResultsInv, NEW a \in Agents, proc[a].st = "running", NEW t \in ResultType,
         SendResult(a, t), FinishedNow \subseteq computed'
  PROVE  Msg(t, proc[a].run, proc[a].grp) \in Backed(computed')
<1> DEFINE m == Msg(t, proc[a].run, proc[a].grp)
<1>1. proc[a] \in [st : {"running", "sent"}, run : Runs, grp : Groups]
  BY DEF ResultsInv, TypeOK, AgentTypeOK, ProcState, Idle
<1>2. m \in MasterMsg
  BY <1>1 DEF Msg, MasterMsg
<1>3. m.type = t /\ m.run = proc[a].run /\ m.grp = proc[a].grp
  BY DEF Msg
<1>4. toMaster[a] \in Seq(MasterMsg) /\ toMaster'[a] = Append(toMaster[a], m)
  BY DEF ResultsInv, TypeOK, NetTypeOK, SendResult, Send
<1>5. Last(toMaster'[a]) = m
  <2>1. Len(Append(toMaster[a], m)) = Len(toMaster[a]) + 1
        /\ Append(toMaster[a], m)[Len(toMaster[a]) + 1] = m
    BY <1>2, <1>4, AppendProperties
  <2> HIDE DEF m
  <2> QED BY <1>4, <2>1 DEF Last
<1>6. proc'[a].st = "sent"
  BY <1>1 DEF SendResult, ResultsInv, TypeOK, AgentTypeOK
<1>7. t = "RUN_FINISHED" => <<proc[a].grp, proc[a].run>> \in computed'
  BY <1>3, <1>5, <1>6 DEF FinishedNow
<1> QED BY <1>2, <1>3, <1>7 DEF Backed

(* Every answer of an agent says what its model has done.                    *)
LEMMA AgentKeepsBacked ==
  ASSUME ResultsInv, AgentNext, computed \cup FinishedNow \subseteq computed'
  PROVE  AnswersAreBacked'
<1>1. PICK a \in Agents : Connect(a) \/ AgentStep(a) \/ Disappear(a)
  BY DEF AgentNext
<1>2. \A b \in Agents : toMaster[b] \in Seq(Backed(computed'))
  BY BackedGrows DEF ResultsInv, AnswersAreBacked
<1>3. CASE UNCHANGED toMaster
  BY <1>2, <1>3 DEF AnswersAreBacked
<1>4. CASE \E t \in ReplyType : Send(a, Plain(t))
  BY <1>4, PlainIsBacked, SendKeepsBacked
<1>5. CASE ModelEnds(a) \/ ModelKilled(a)
  <2>1. PICK t \in ResultType : proc[a].st = "running" /\ SendResult(a, t)
    BY <1>5 DEF ModelEnds, ModelKilled, ResultType
  <2>2. Msg(t, proc[a].run, proc[a].grp) \in Backed(computed')
    BY <2>1, ResultIsRecorded
  <2>3. Send(a, Msg(t, proc[a].run, proc[a].grp))
    BY <2>1 DEF SendResult
  <2> QED BY <2>2, <2>3, SendKeepsBacked
<1>6. CASE Disappear(a)
  <2>1. PICK k \in 0 .. Len(toMaster[a]) :
          toMaster' = [toMaster EXCEPT ![a] = Append(SubSeq(@, 1, k), Plain("EOF"))]
    BY <1>6 DEF Disappear
  <2>2. SubSeq(toMaster[a], 1, k) \in Seq(Backed(computed'))
    BY <1>2, PrefixType
  <2>3. Append(SubSeq(toMaster[a], 1, k), Plain("EOF")) \in Seq(Backed(computed'))
    BY <2>2, PlainIsBacked, AppendProperties DEF ReplyType
  <2>4. toMaster \in [Agents -> Seq(MasterMsg)]
    BY DEF ResultsInv, TypeOK, NetTypeOK
  <2>5. \A b \in Agents : toMaster'[b] \in Seq(Backed(computed'))
    BY <1>2, <2>1, <2>3, <2>4
  <2> QED BY <2>5 DEF AnswersAreBacked
<1> QED
  BY <1>1, <1>3, <1>4, <1>5, <1>6 DEF AgentStep, Connect, Answer, StartRun, SendReady, ReplyType

-----------------------------------------------------------------------------
(* A run becomes finished by an answer of this group, or by update_run.      *)
LEMMA ResultsStep ==
  ASSUME ResultsInv, HistNext
  PROVE  ResultsAreOfThisGroup'
<1>1. RecordStep /\ computed \subseteq computed' /\ SuppliedNow \subseteq computed'
  BY NextRecord DEF ResultsInv, HistNext
<1>2. ASSUME UNCHANGED group, \A r \in Runs : status'[r] = 1 => status[r] = 1
      PROVE  ResultsAreOfThisGroup'
  BY <1>1, <1>2 DEF ResultsInv, ResultsAreOfThisGroup, Finished
<1>3. \A r \in Runs : status[r] \in Int
  BY DEF ResultsInv, TypeOK, MasterTypeOK, JobTypeOK
<1>4. CASE UNCHANGED <<failure_map, status, group>> \/ RunUntil
  BY <1>2, <1>4 DEF RunUntil
<1>5. ASSUME NEW r \in Runs, NEW S \in SUBSET Agents, Charge(r, S), UNCHANGED group
      PROVE  ResultsAreOfThisGroup'
  <2> DEFINE k == Cardinality(S)
  <2>1. k \in Nat
    BY AgentsAssumption, FS_Subset, FS_CardinalityType
  <2>2. \A q \in Runs : status'[q] = IF q = r /\ status[q] < 1 THEN status[q] - k ELSE status[q]
    <3>1. status \in [Runs -> Int]
      BY DEF ResultsInv, TypeOK, MasterTypeOK, JobTypeOK
    <3>2. status' = [status EXCEPT ![r] = IF @ < 1 THEN @ - k ELSE @]
      BY <1>5 DEF Charge
    <3> HIDE DEF k
    <3> QED BY <3>1, <3>2
  <2> HIDE DEF k
  <2>3. \A q \in Runs : status'[q] = 1 => status[q] = 1
    BY <1>3, <2>1, <2>2
  <2> QED BY <1>2, <1>5, <2>3
<1>6. ASSUME NEW r \in Runs, FinishStep(r)
      PROVE  ResultsAreOfThisGroup'
  <2>2. ASSUME NEW a \in Agents, IsResult(a, "RUN_FINISHED"), Head(toMaster[a]).run = r
        PROVE  <<group, r>> \in computed
    <3>1. toMaster[a] \in Seq(Backed(computed)) /\ toMaster[a] # <<>>
      BY <2>2 DEF IsResult, HeadIs, ResultsInv, AnswersAreBacked
    <3>2. Head(toMaster[a]) \in Backed(computed)
      BY <3>1
    <3> QED BY <2>2, <3>2 DEF Backed, IsResult, HeadIs
  <2>3. UpdateRun(r) => <<group, r>> \in computed'
    BY <1>1 DEF SuppliedNow
  <2>4. <<group, r>> \in computed'
    BY <1>1, <1>6, <2>2, <2>3 DEF FinishStep
  <2>5. UNCHANGED group /\ \A q \in Runs : status'[q] = IF q = r THEN 1 ELSE status[q]
    BY <1>6 DEF FinishStep, ResultsInv, TypeOK, MasterTypeOK, JobTypeOK
  <2> QED BY <1>1, <2>4, <2>5 DEF ResultsInv, ResultsAreOfThisGroup, Finished
<1>7. CASE MarkWaitingFailed
  <2> DEFINE times(r) == Cardinality({i \in DOMAIN waiting : waiting[i] = r})
  <2>1. \A r \in Runs : times(r) \in Nat
    <3>1. waiting \in Seq(Runs) /\ DOMAIN waiting = 1 .. Len(waiting) /\ Len(waiting) \in Nat
      BY DEF ResultsInv, TypeOK, MasterTypeOK, JobTypeOK
    <3>2. IsFiniteSet(DOMAIN waiting)
      BY <3>1, FS_Interval
    <3> QED BY <3>2, FS_Subset, FS_CardinalityType
  <2>2. /\ \A r \in Runs : status'[r] = IF status[r] < 1 THEN status[r] - times(r) ELSE status[r]
        /\ UNCHANGED group
    BY <1>7 DEF MarkWaitingFailed
  <2> HIDE DEF times
  <2>3. \A q \in Runs : status'[q] = 1 => status[q] = 1
    BY <1>3, <2>1, <2>2
  <2> QED BY <1>2, <2>2, <2>3
<1>8. CASE NewGroup
  BY <1>8 DEF NewGroup, ResultsAreOfThisGroup, Finished
<1> QED BY <1>1, <1>4, <1>5, <1>6, <1>7, <1>8 DEF RecordStep

(* ResultsBelongToTheirGroup: no message left over from an earlier group of     *)
(* runs, from an agent that was killed, dropped or replaced on its socket, ever  *)
(* makes a run count as finished: some agent has run the model with this         *)
(* group's parameters.                                                          *)
THEOREM ResultsBelongToTheirGroup == HistSpec => []ResultsAreOfThisGroup
<1>1. HistInit => ResultsInv
  <2> SUFFICES ASSUME HistInit PROVE ResultsInv
    OBVIOUS
  <2>1. TypeOK
    BY InitType DEF HistInit
  <2>2. AnswersAreBacked
    <3>1. toMaster = [a \in Agents |-> <<>>] /\ <<>> \in Seq(Backed(computed))
      BY DEF HistInit, Init
    <3> QED BY <3>1 DEF AnswersAreBacked
  <2>3. ResultsAreOfThisGroup
    <3>1. status = [r \in Runs |-> 0]
      BY DEF HistInit, Init, MasterInit
    <3> QED BY <3>1 DEF ResultsAreOfThisGroup, Finished
  <2> QED BY <2>1, <2>2, <2>3 DEF ResultsInv
<1>2. ResultsInv /\ [HistNext]_histVars => ResultsInv'
  <2> SUFFICES ASSUME ResultsInv, [HistNext]_histVars PROVE ResultsInv'
    OBVIOUS
  <2>1. CASE HistNext
    <3>1. TypeOK'
      BY <2>1, MasterStepType, AgentNextType DEF HistNext, Next, ResultsInv
    <3>2. computed \cup FinishedNow \subseteq computed'
      BY <2>1 DEF HistNext
    <3>3. AnswersAreBacked'
      BY <2>1, <3>2, MasterKeepsBacked, AgentKeepsBacked DEF HistNext, Next
    <3>4. ResultsAreOfThisGroup'
      BY <2>1, ResultsStep
    <3> QED BY <3>1, <3>3, <3>4 DEF ResultsInv
  <2>2. CASE UNCHANGED histVars
    <3>1. TypeOK'
      BY <2>2, StutterType DEF histVars, ResultsInv
    <3>2. UNCHANGED <<toMaster, computed, status, group>>
      BY <2>2 DEF histVars, vars, netVars, masterVars, jobVars
    <3> QED
      BY <3>1, <3>2 DEF ResultsInv, AnswersAreBacked, ResultsAreOfThisGroup, Finished
  <2> QED BY <2>1, <2>2
<1>3. ResultsInv => ResultsAreOfThisGroup
  BY DEF ResultsInv
<1> QED BY <1>1, <1>2, <1>3, PTL DEF HistSpec
-----------------------------------------------------------------------------
KeptInv == TypeOK /\ kept \in [Runs -> Nat] /\ FailedRunsAreKept

(* A status byte that falls to or below -MaxRunFail leaves a record.          *)
LEMMA KeptNowCounts ==
  ASSUME TypeOK, TypeOK', NEW r \in Runs
  PROVE  /\ KeptNow(r) \in Nat
         /\ FailuresExceeded(r)' /\ status'[r] < status[r] => KeptNow(r) > 0
<1>1. status[r] \in Int /\ status'[r] \in Int
  BY DEF TypeOK, MasterTypeOK, JobTypeOK
<1> DEFINE S == {s \in status'[r] .. (status[r] - 1) : s <= -MaxRunFail /\ s > -100}
<1>2. IsFiniteSet(S)
  <2>1. IsFiniteSet(status'[r] .. (status[r] - 1))
    BY <1>1, FS_Interval
  <2>2. S \in SUBSET (status'[r] .. (status[r] - 1))
    OBVIOUS
  <2> HIDE DEF S
  <2> QED BY <2>1, <2>2, FS_Subset
<1>3. FailuresExceeded(r)' /\ status'[r] < status[r] => status'[r] \in S
  BY <1>1 DEF FailuresExceeded
<1>4. KeptNow(r) = Cardinality(S)
  BY DEF KeptNow
<1> HIDE DEF S
<1>5. Cardinality(S) \in Nat /\ (Cardinality(S) = 0 <=> S = {})
  BY <1>2, FS_CardinalityType, FS_EmptySet
<1> QED BY <1>3, <1>4, <1>5

(* A step that lowers a status past the limit adds its record to the file. *)
LEMMA KeptStep ==
  ASSUME KeptInv, HistNext, TypeOK'
  PROVE  kept' \in [Runs -> Nat] /\ FailedRunsAreKept'
<1>1. \A r \in Runs : KeptNow(r) \in Nat
  BY KeptNowCounts DEF KeptInv
<1>2. kept' = IF group' # group THEN [r \in Runs |-> 0]
              ELSE [r \in Runs |-> kept[r] + KeptNow(r)]
  BY DEF HistNext
<1>3. kept' \in [Runs -> Nat]
  BY <1>1, <1>2 DEF KeptInv
<1>4. ASSUME NEW r \in Runs, FailuresExceeded(r)'
      PROVE  kept'[r] > 0
  <2>1. status[r] \in Int /\ status'[r] \in Int /\ kept[r] \in Nat
    BY DEF KeptInv, TypeOK, MasterTypeOK, JobTypeOK
  <2>2. status'[r] <= -MaxRunFail /\ status'[r] > -100 /\ MaxRunFail \in Nat \ {0}
    BY <1>4, MaxRunFailAssumption DEF FailuresExceeded
  <2>3. UNCHANGED group /\ status'[r] <= status[r]
    BY <2>1, <2>2, StatusFalls DEF KeptInv, HistNext
  <2>4. kept'[r] = kept[r] + KeptNow(r)
    BY <1>2, <2>3
  <2>5. CASE status'[r] = status[r]
    <3>1. kept[r] > 0
      BY <2>2, <2>5 DEF KeptInv, FailedRunsAreKept, FailuresExceeded
    <3> QED BY <1>1, <2>1, <2>4, <3>1
  <2>6. CASE status'[r] < status[r]
    <3>1. KeptNow(r) > 0
      BY <1>4, <2>6, KeptNowCounts DEF KeptInv
    <3> QED BY <1>1, <2>1, <2>4, <3>1
  <2> QED BY <2>1, <2>3, <2>5, <2>6
<1> QED BY <1>3, <1>4 DEF FailedRunsAreKept

(* FailedRunsAreListed: for every max_run_fail, a run that get_failed_run_ids    *)
(* returns has a record in the failed run file, whether agents reported its     *)
(* failures, the master killed it as overdue, several copies at once, or        *)
(* pest.stp made it fail.                                                       *)
THEOREM FailedRunsAreListed == HistSpec => []FailedRunsAreKept
<1>1. HistInit => KeptInv
  <2> SUFFICES ASSUME HistInit PROVE KeptInv
    OBVIOUS
  <2>1. TypeOK /\ status = [r \in Runs |-> 0] /\ kept = [r \in Runs |-> 0]
    BY InitType DEF HistInit, Init, MasterInit
  <2> QED BY <2>1, MaxRunFailAssumption DEF KeptInv, FailedRunsAreKept, FailuresExceeded
<1>2. KeptInv /\ [HistNext]_histVars => KeptInv'
  <2> SUFFICES ASSUME KeptInv, [HistNext]_histVars PROVE KeptInv'
    OBVIOUS
  <2>1. CASE HistNext
    <3>1. TypeOK'
      BY <2>1, MasterStepType, AgentNextType DEF HistNext, Next, KeptInv
    <3> QED BY <2>1, <3>1, KeptStep DEF KeptInv
  <2>2. CASE UNCHANGED histVars
    <3>1. TypeOK'
      BY <2>2, StutterType DEF histVars, KeptInv
    <3>2. UNCHANGED <<kept, status>>
      BY <2>2 DEF histVars, vars, masterVars, jobVars
    <3> QED BY <3>1, <3>2 DEF KeptInv, FailedRunsAreKept, FailuresExceeded
  <2> QED BY <2>1, <2>2
<1>3. KeptInv => FailedRunsAreKept
  BY DEF KeptInv
<1> QED BY <1>1, <1>2, <1>3, PTL DEF HistSpec

-----------------------------------------------------------------------------
(* How many failures an attempt may count as.                               *)

(* After a round of kill_all_active_runs, and so from the end of a call on, no  *)
(* agent is ACTIVE.                                                          *)
Resting == pc \in {"stopped", "return", "client", "queued"} \/ (pc \in {"listen", "read"} /\ killRet # "")
NoneActive == \A a \in Agents : astate[a] # "ACTIVE"

Counted(r) == failure_map[r].n + Cardinality(Held(r)) + Cardinality(Owing(r, group)) <= 2 * started[r]

AttemptsInv ==
  /\ started \in [Runs -> Nat]
  /\ \A r \in Runs : Counted(r)
  /\ Resting => NoneActive

-----------------------------------------------------------------------------
(* No agent is ACTIVE after a kill round or between two calls.              *)

(* A step of the master keeps it so. *)
LEMMA RestStep ==
  ASSUME TypeOK, RunsInv, MasterNext, Resting => NoneActive
  PROVE  (Resting => NoneActive)'
<1> SUFFICES ASSUME Resting'
             PROVE  NoneActive'
  OBVIOUS
<1>1. ~BeginsRun
  BY DEF BeginsRun, Resting
<1>2. \A b \in Agents : BeginsNothing(b)
  BY <1>1, MasterBegins
<1>3. CASE Resting
  BY <1>2, <1>3 DEF NoneActive, BeginsNothing
<1>4. CASE KillRound
  BY <1>4, RoundBeginsNothing DEF NoneActive
<1>5. CASE ~Resting /\ ~KillRound
  <2>1. ~(ReadOne \/ Listen)
    <3>1. CASE ReadOne \/ Listen
      <4>1. pc \in {"listen", "read"} /\ killRet = "" /\ listenRet \in {"top", "drained"}
        BY <1>5, <3>1 DEF ReadOne, Listen, Resting, RunsInv, CallsOK
      <4>2. \/ pc' = listenRet
            \/ pc' \in {"listen", "read"} /\ killRet' = killRet
        BY <3>1, <4>1 DEF ReadOne, Listen, EndListen
      <4> QED
        BY <4>1, <4>2 DEF Resting
    <3> QED
      BY <3>1
  <2>2. pc \notin {"stopped", "return", "client", "queued"}
    BY <1>5 DEF Resting
  <2>3. CASE AllRunsComplete \/ StopBeforePass \/ Drain \/ DrainCheckStop
    <3>1. pc' \in {"killall", "drain"} \/ (pc' = "listen" /\ killRet' = "")
      BY <2>3 DEF AllRunsComplete, StopBeforePass, RunsRemain, Drain, DrainCheckStop, CallKillAll, GoTo,
                  RunsInv, CallsOK
    <3> QED
      BY <3>1 DEF Resting
  <2>4. CASE \/ MarkWaitingFailed \/ StartPass \/ AssignNotNeeded \/ AssignStart \/ AssignLater
             \/ AssignDone \/ (\E a \in Agents : \/ GiveUpRun(a) \/ RestartRun(a)
                                                \/ KillOverdue(a) \/ LeaveOrDuplicate(a))
             \/ Reschedule \/ OverdueDone \/ CloseSurplus
    <3>1. /\ pc \in {"stopped", "top", "init", "assign", "overdue", "resched", "surplus"}
          /\ pc' \in {"drain", "assign", "overdue", "resched", "surplus", "listen"}
          /\ killRet' = killRet
      BY <2>4 DEF MarkWaitingFailed, StartPass, RunsRemain, AssignNotNeeded, AssignStart, AssignLater, AtWaiting,
         AssignDone, ToListen, GiveUpRun, RestartRun, KillOverdue, LeaveOrDuplicate, Visit, Reschedule,
         OverdueDone, CloseSurplus, GoTo, loopVars
    <3>2. killRet = ""
      BY <3>1 DEF RunsInv, CallsOK
    <3> QED
      BY <3>1, <3>2 DEF Resting
  <2>5. CASE Return \/ IdleStep \/ ProgramStep
    BY <2>2, <2>5 DEF Return, IdleStep, IdleInit, IdleRead, Idling, ProgramStep, NewGroup, UpdateRun, RunUntil,
                      RemoveStop
  <2>6. CASE CreateStop
    BY <1>5, <2>6 DEF CreateStop, Resting, loopVars
  <2> QED
    BY <1>5, <2>1, <2>3, <2>4, <2>5, <2>6 DEF MasterNext, RunStep
<1> QED
  BY <1>3, <1>4, <1>5

-----------------------------------------------------------------------------
(* The steps of the count.                                                  *)

(* An attempt that is begun is one more that may be counted twice.           *)
LEMMA StartCounts ==
  ASSUME TypeOK, ProtocolInv, MasterNext, UNCHANGED agentVars, BeginsRun, NEW r \in Runs, Counted(r),
         started \in [Runs -> Nat], started' = [q \in Runs |-> started[q] + Begun(q)]
  PROVE  Counted(r)'
<1>1. PICK q \in Runs, a \in Free : StartOn(q, a)
  BY DEF BeginsRun
<1>2. /\ a \in Agents /\ astate[a] = "WAITING" /\ group \in Groups /\ r \in Runs
      /\ astate \in [Agents -> AgentState] /\ arun \in [Agents -> Runs \cup {NoRun}]
      /\ toAgent \in [Agents -> Seq(AgentMsg)] /\ failure_map[r].n \in Nat
      /\ UNCHANGED <<failure_map, group, toMaster, proc>>
  BY <1>1 DEF Free, TypeOK, NetTypeOK, MasterTypeOK, JobTypeOK, AgentInfoTypeOK, BeginsRun, agentVars
<1>3. /\ Held(r)' \subseteq Held(r) \cup {a} /\ (r # q => Held(r)' \subseteq Held(r))
      /\ Owing(r, group)' \subseteq Owing(r, group) \cup {a}
      /\ r # q => Owing(r, group)' \subseteq Owing(r, group)
  BY <1>1, StartAdds
<1>6. PICK A, B, C, D : A = Held(r) /\ B = Held(r)' /\ C = Owing(r, group) /\ D = Owing(r, group)'
  OBVIOUS
<1>7. A \subseteq Agents /\ C \subseteq Agents
  BY <1>6 DEF Held, Owing
<1>8. Begun(r) \in Nat /\ (r = q => Begun(r) >= 1)
  <2>1. PICK N : N = {b \in Agents : <<r, b>> \in active' \ active}
    OBVIOUS
  <2>2. IsFiniteSet(N) /\ Cardinality(N) \in Nat
    BY <2>1, AgentsAssumption, FS_Subset, FS_CardinalityType
  <2>3. ASSUME r = q
        PROVE  a \in N
    <3>1. <<r, a>> \in active'
      BY <1>1, <2>3 DEF StartOn
    <3>2. <<r, a>> \notin active
      BY <1>2, ExpectedActive
    <3> QED
      BY <1>2, <2>1, <3>1, <3>2
  <2>4. r = q => Cardinality(N) # 0
    BY <2>2, <2>3, FS_EmptySet
  <2> QED
    BY <2>1, <2>2, <2>4 DEF Begun
<1>9. started'[r] = started[r] + Begun(r) /\ started[r] \in Nat
  OBVIOUS
<1>10. /\ failure_map[r].n + Cardinality(A) + Cardinality(C) <= 2 * started[r]
       /\ failure_map'[r].n = failure_map[r].n /\ failure_map[r].n \in Nat
  BY <1>2, <1>6 DEF Counted
<1>11. failure_map[r].n + Cardinality(B) + Cardinality(D) <= 2 * started'[r]
  <2>1. CASE r = q
    <3>1. B \subseteq A \cup {a} /\ D \subseteq C \cup {a}
      BY <1>3, <1>6
    <3>2. /\ Cardinality(A) \in Nat /\ Cardinality(B) \in Nat /\ Cardinality(B) <= Cardinality(A) + 1
          /\ Cardinality(C) \in Nat /\ Cardinality(D) \in Nat /\ Cardinality(D) <= Cardinality(C) + 1
      BY <1>2, <1>7, <3>1, OneMore
    <3> QED
      BY ONLY <1>8, <1>9, <1>10, <2>1, <3>2
  <2>2. CASE r # q
    <3>1. B \subseteq A /\ D \subseteq C
      BY <1>3, <1>6, <2>2
    <3>2. /\ Cardinality(A) \in Nat /\ Cardinality(B) \in Nat /\ Cardinality(B) <= Cardinality(A)
          /\ Cardinality(C) \in Nat /\ Cardinality(D) \in Nat /\ Cardinality(D) <= Cardinality(C)
      BY <1>7, <3>1, AgentSets
    <3> QED
      BY ONLY <1>8, <1>9, <1>10, <3>2
  <2> QED
    BY <2>1, <2>2
<1> QED
  BY <1>2, <1>6, <1>11 DEF Counted, Held, Owing

(* In a new group nothing has been begun, counted or left to count.          *)
LEMMA GroupCounts ==
  ASSUME TypeOK, ProtocolInv, Resting => NoneActive, NewGroup, UNCHANGED agentVars, NEW r \in Runs,
         started' = [q \in Runs |-> 0]
  PROVE  Counted(r)'
<1>1. NoneActive
  BY DEF Resting, NewGroup
<1>2. Held(r)' = {}
  BY <1>1 DEF NewGroup, agentInfo, NoneActive, Held
<1>3. group \in Int /\ group' = group + 1 /\ group' \in Groups /\ LastPast = group
  BY MaxGroupAssumption DEF NewGroup, TypeOK, MasterTypeOK, JobTypeOK, Groups, LastPast
<1>4. ASSUME NEW a \in Agents
      PROVE  ~Owes(toAgent[a], proc[a], toMaster[a], r, group')
  <2>1. PICK l, st, q, in, out, p, w, P, g :
          /\ l = link[a] /\ st = astate[a] /\ q = arun[a] /\ in = toAgent[a] /\ out = toMaster[a]
          /\ p = proc[a] /\ w = Expected(a) /\ P = LastPast /\ g = group'
    OBVIOUS
  <2>2. AgentOK(l, st, q, in, out, p, w, P) /\ P \in Int /\ g \in Groups /\ g = P + 1
    BY <1>3, <2>1 DEF ProtocolInv, OK
  <2>3. Owes(in, p, out, r, g) => g <= P
    BY ONLY <2>2, r \in Runs, OwedByOK
  <2> QED
    BY <2>1, <2>2, <2>3
<1>5. Owing(r, group)' = {}
  BY <1>4 DEF NewGroup, netVars, agentVars, Owing
<1>6. failure_map'[r].n = 0 /\ started'[r] = 0
  BY DEF NewGroup, NoFailure
<1> QED
  BY <1>2, <1>5, <1>6, FS_EmptySet DEF Counted

(* Every other step takes its failures from the attempts under way.           *)
LEMMA CountKept ==
  ASSUME NEW r \in Runs, Counted(r), started \in [Runs -> Nat], TypeOK, TypeOK',
         started' = [q \in Runs |-> started[q] + Begun(q)],
         failure_map'[r].n + Cardinality(Held(r)') + Cardinality(Owing(r, group)')
           <= failure_map[r].n + Cardinality(Held(r)) + Cardinality(Owing(r, group))
  PROVE  Counted(r)'
<1>1. Begun(r) \in Nat
  <2>1. {b \in Agents : <<r, b>> \in active' \ active} \subseteq Agents
    OBVIOUS
  <2> QED
    BY <2>1, AgentsAssumption, FS_Subset, FS_CardinalityType DEF Begun
<1>2. started[r] \in Nat /\ started'[r] = started[r] + Begun(r)
  OBVIOUS
<1>3. PICK A, B, C, D : A = Held(r) /\ B = Held(r)' /\ C = Owing(r, group) /\ D = Owing(r, group)'
  OBVIOUS
<1>4. /\ Cardinality(A) \in Nat /\ Cardinality(B) \in Nat
      /\ Cardinality(C) \in Nat /\ Cardinality(D) \in Nat
  BY <1>3, AgentSets DEF Held, Owing
<1>5. failure_map[r].n \in Nat /\ failure_map'[r].n \in Nat
  BY DEF TypeOK, MasterTypeOK, JobTypeOK
<1>6. failure_map[r].n + Cardinality(A) + Cardinality(C) <= 2 * started[r]
  BY <1>3 DEF Counted
<1>7. failure_map'[r].n + Cardinality(B) + Cardinality(D) <= 2 * started'[r]
  <2>1. failure_map'[r].n + Cardinality(B) + Cardinality(D) <= failure_map[r].n + Cardinality(A) + Cardinality(C)
    BY <1>3
  <2> QED
    BY ONLY <1>1, <1>2, <1>4, <1>5, <1>6, <2>1
<1> QED
  BY <1>3, <1>7 DEF Counted

(* Every step keeps the count. *)
LEMMA AttemptsStep ==
  ASSUME TypeOK, TypeOK', ProtocolInv, RunsInv, AttemptsInv, HistNext
  PROVE  AttemptsInv'
<1>1. /\ started \in [Runs -> Nat] /\ (Resting => NoneActive)
      /\ \A r \in Runs : Counted(r)
  BY DEF AttemptsInv
<1>2. group \in Int
  BY MaxGroupAssumption DEF TypeOK, MasterTypeOK, JobTypeOK, Groups
<1>3. \A r \in Runs : Begun(r) \in Nat
  <2>1. ASSUME NEW r \in Runs
        PROVE  Begun(r) \in Nat
    <3>1. {b \in Agents : <<r, b>> \in active' \ active} \subseteq Agents
      OBVIOUS
    <3> QED
      BY <3>1, AgentsAssumption, FS_Subset, FS_CardinalityType DEF Begun
  <2> QED
    BY <2>1
<1>4. started' = IF group' # group THEN [r \in Runs |-> 0] ELSE [r \in Runs |-> started[r] + Begun(r)]
  BY DEF HistNext
<1>5. started' \in [Runs -> Nat]
  BY <1>1, <1>3, <1>4
<1>6. CASE MasterNext /\ UNCHANGED agentVars
  <2>1. (Resting => NoneActive)'
    BY <1>1, <1>6, RestStep
  <2>2. \A r \in Runs : Counted(r)'
    <3>1. CASE NewGroup
      <4>1. started' = [r \in Runs |-> 0]
        BY <1>2, <1>4, <3>1 DEF NewGroup
      <4> QED
        BY <1>1, <1>6, <3>1, <4>1, GroupCounts
    <3>2. CASE BeginsRun
      <4>1. started' = [r \in Runs |-> started[r] + Begun(r)]
        BY <1>4, <3>2 DEF BeginsRun
      <4> QED
        BY <1>1, <1>6, <3>2, <4>1, StartCounts
    <3>3. CASE ~NewGroup /\ ~BeginsRun
      <4>1. \A b \in Agents : BeginsNothing(b)
        BY <1>6, <3>3, MasterBegins
      <4>2. PaysFor /\ group' = group
        BY <1>6, <3>3, <4>1, MasterPays
      <4>3. started' = [r \in Runs |-> started[r] + Begun(r)]
        BY <1>4, <4>2
      <4> QED
        BY <1>1, <4>2, <4>3, CountKept DEF PaysFor
    <3> QED
      BY <3>1, <3>2, <3>3
  <2> QED
    BY <1>5, <2>1, <2>2 DEF AttemptsInv
<1>7. CASE AgentNext /\ UNCHANGED masterVars
  <2>1. UNCHANGED <<group, pc, killRet, astate>>
    BY <1>7 DEF masterVars, jobVars, agentInfo, loopVars
  <2>2. (Resting => NoneActive)'
    BY <1>1, <2>1 DEF Resting, NoneActive
  <2>3. started' = [r \in Runs |-> started[r] + Begun(r)]
    BY <1>4, <2>1
  <2>4. \A r \in Runs : Counted(r)'
    BY <1>1, <1>7, <2>3, AgentCounts, CountKept
  <2> QED
    BY <1>5, <2>2, <2>4 DEF AttemptsInv
<1> QED
  BY <1>6, <1>7 DEF HistNext, Next

(* So does a step of nobody. *)
LEMMA AttemptsStutter ==
  ASSUME AttemptsInv, UNCHANGED histVars
  PROVE  AttemptsInv'
BY DEF AttemptsInv, Counted, Held, Owing, Resting, NoneActive, histVars, vars, masterVars, jobVars, agentInfo,
       loopVars, netVars, agentVars

(* At first nothing is begun and nothing has failed. *)
LEMMA InitAttempts ==
  ASSUME HistInit
  PROVE  AttemptsInv
<1>1. /\ started = [r \in Runs |-> 0] /\ failure_map = [r \in Runs |-> NoFailure]
      /\ \A a \in Agents : astate[a] # "ACTIVE" /\ toAgent[a] = <<>> /\ toMaster[a] = <<>>
                          /\ proc[a].st # "running"
  BY DEF HistInit, Init, MasterInit, AgentInit, Idle
<1>2. ASSUME NEW r \in Runs
      PROVE  Counted(r)
  <2>1. Held(r) = {} /\ Owing(r, group) = {}
    BY <1>1 DEF Held, Owing, Owes, Has
  <2>2. failure_map[r].n = 0 /\ started[r] = 0
    BY <1>1 DEF NoFailure
  <2> QED
    BY <2>1, <2>2, FS_EmptySet DEF Counted
<1> QED
  BY <1>1, <1>2 DEF AttemptsInv, NoneActive

(* AttemptsBoundFailures: however attempts are killed, lost, answered late or   *)
(* repeated, one of them never counts as more than two failures: once while    *)
(* its agent is ACTIVE and once more when the agent reports that it failed.     *)
THEOREM AttemptsAreBounded == HistSpec => []AttemptsBoundFailures
<1>1. HistInit => TypeOK /\ ProtocolInv /\ RunsInv /\ AttemptsInv
  BY InitType, InitProtocol, InitRuns, InitAttempts DEF HistInit
<1>2. TypeOK /\ ProtocolInv /\ RunsInv /\ AttemptsInv /\ [HistNext]_histVars
        => (TypeOK /\ ProtocolInv /\ RunsInv /\ AttemptsInv)'
  <2> SUFFICES ASSUME TypeOK, ProtocolInv, RunsInv, AttemptsInv, [HistNext]_histVars
               PROVE  (TypeOK /\ ProtocolInv /\ RunsInv /\ AttemptsInv)'
    OBVIOUS
  <2>1. [Next]_vars
    BY DEF HistNext, histVars
  <2>2. TypeOK' /\ ProtocolInv' /\ RunsInv'
    BY <2>1, MasterStepType, AgentNextType, StutterType, NextKeepsProtocol, NextKeepsRuns DEF Next
  <2>3. AttemptsInv'
    BY <2>2, AttemptsStep, AttemptsStutter
  <2> QED
    BY <2>2, <2>3
<1>3. TypeOK /\ AttemptsInv => AttemptsBoundFailures
  <2> SUFFICES ASSUME TypeOK, AttemptsInv, NEW r \in Runs
               PROVE  failure_map[r].n <= 2 * started[r]
    BY DEF AttemptsBoundFailures
  <2>1. PICK A, C : A = Held(r) /\ C = Owing(r, group)
    OBVIOUS
  <2>2. Cardinality(A) \in Nat /\ Cardinality(C) \in Nat
    BY <2>1, AgentSets DEF Held, Owing
  <2>3. failure_map[r].n \in Nat /\ started[r] \in Nat
    BY DEF AttemptsInv, TypeOK, MasterTypeOK, JobTypeOK
  <2>4. failure_map[r].n + Cardinality(A) + Cardinality(C) <= 2 * started[r]
    BY <2>1 DEF AttemptsInv, Counted
  <2> QED
    BY <2>2, <2>3, <2>4
<1> QED
  BY <1>1, <1>2, <1>3, PTL DEF HistSpec

-----------------------------------------------------------------------------
(* What pest.stp leaves.                                                    *)

(* From here on run_until starts and marks nothing any more. *)
Settling == pc \in {"drain", "drained", "return", "client"} \/ killRet \in {"drain", "return"}
              \/ listenRet = "drained"
Left(r) == Marked(r) \/ r \in cut

StopInv ==
  group > 0 => \A r \in Runs : Left(r) \/ (IF Settling THEN NotNeeded(r) ELSE Accounted(r))

(* A step within a group unsettles no run, and unmarks one only by its result. *)
LEMMA LeftStays ==
  ASSUME TypeOK, RunsInv, RecordStep, ~NewGroup, cut \subseteq cut', NEW r \in Runs
  PROVE  /\ NotNeeded(r) => NotNeeded(r)'
         /\ Left(r) => Left(r)' \/ NotNeeded(r)'
<1>1. /\ status \in [Runs -> Int] /\ status[r] \in Int /\ failure_map[r].n \in Nat
  BY DEF TypeOK, MasterTypeOK, JobTypeOK
<1>2. CASE UNCHANGED <<failure_map, status, group>>
  BY <1>2 DEF NotNeeded, Finished, GivenUp, Left, Marked
<1>3. ASSUME NEW q \in Runs, NEW S \in SUBSET Agents, Charge(q, S)
      PROVE  /\ NotNeeded(r) => NotNeeded(r)'
             /\ Left(r) => Left(r)' \/ NotNeeded(r)'
  <2> DEFINE k == Cardinality(S)
  <2>1. StaysSettled /\ k \in Nat
        /\ failure_map'[r].n = IF r = q THEN failure_map[r].n + k ELSE failure_map[r].n
    BY <1>3, ChargeSettles
  <2>2. status'[r] = IF r = q /\ status[r] < 1 THEN status[r] - k ELSE status[r]
    <3>1. status' = [status EXCEPT ![q] = IF @ < 1 THEN @ - k ELSE @]
      BY <1>3 DEF Charge
    <3> HIDE DEF k
    <3> QED BY <1>1, <3>1
  <2> HIDE DEF k
  <2>3. Marked(r) => Marked(r)'
    <3>1. ASSUME status[r] < -failure_map[r].n
          PROVE  status'[r] < -failure_map'[r].n
      BY <1>1, <2>1, <2>2, <3>1
    <3> QED BY <3>1 DEF Marked
  <2> QED BY <2>1, <2>3 DEF StaysSettled, Left
<1>4. ASSUME NEW q \in Runs, FinishStep(q)
      PROVE  /\ NotNeeded(r) => NotNeeded(r)'
             /\ Left(r) => Left(r)' \/ NotNeeded(r)'
  <2>1. status'[r] = (IF r = q THEN 1 ELSE status[r]) /\ failure_map' = failure_map
    BY <1>1, <1>4 DEF FinishStep
  <2> QED BY <2>1 DEF NotNeeded, Finished, GivenUp, Left, Marked
<1>5. CASE MarkWaitingFailed
  <2> DEFINE k == Cardinality({i \in DOMAIN waiting : waiting[i] = r})
  <2>1. k \in Nat
    <3>1. IsFiniteSet(DOMAIN waiting)
      BY FS_Interval DEF TypeOK, MasterTypeOK, JobTypeOK
    <3> QED BY <3>1, FS_Subset, FS_CardinalityType
  <2>2. status'[r] = (IF status[r] < 1 THEN status[r] - k ELSE status[r]) /\ failure_map' = failure_map
    BY <1>5, Zenon DEF MarkWaitingFailed
  <2> HIDE DEF k
  <2>3. status[r] = 1 => status'[r] = 1
    BY <2>2
  <2>4. status[r] < -failure_map[r].n => status'[r] < -failure_map'[r].n
    BY <1>1, <2>1, <2>2
  <2> QED BY <2>2, <2>3, <2>4 DEF NotNeeded, Finished, GivenUp, Left, Marked
<1>6. CASE RunUntil
  <2>1. status' = status /\ failure_map[r].n = 0 /\ failure_map'[r].n = 0
    BY <1>6 DEF RunUntil, RunsInv, NoFailure
  <2> QED BY <2>1, MaxRunFailAssumption DEF NotNeeded, Finished, GivenUp, Left, Marked
<1> QED BY <1>2, <1>3, <1>4, <1>5, <1>6 DEF RecordStep

(* With pest.stp there a kill round takes runs off the map into the set of cut  *)
(* ones; without it there is nothing left to kill.                           *)
LEMMA KillRoundCuts ==
  ASSUME RunsInv, KillRound, CutNow \subseteq cut', NEW r \in Runs, Accounted(r)
  PROVE  r \in cut' \/ Accounted(r)'
<1>1. pc = "killall" /\ UNCHANGED <<waiting, failure_map, status>>
  BY DEF KillRound
<1>2. NotNeeded(r) => NotNeeded(r)'
  BY <1>1 DEF NotNeeded, Finished, GivenUp
<1>3. CASE ~stop
  <2>1. NotNeeded(r)
    BY <1>1, <1>3 DEF RunsInv, Ending
  <2> QED BY <1>2, <2>1 DEF Accounted, Known
<1>4. CASE stop
  <2>1. ASSUME NEW a \in Agents, <<r, a>> \in active
        PROVE  r \in cut' \/ Copied(r)'
    <3>1. CASE <<r, a>> \in active'
      BY <3>1 DEF Copied
    <3>2. CASE <<r, a>> \notin active'
      <4>1. <<r, a>> \in {q \in active \ active' : pc = "killall" /\ stop} /\ <<r, a>>[1] = r
        BY <1>1, <1>4, <2>1, <3>2
      <4> QED BY <4>1 DEF CutNow
    <3> QED BY <3>1, <3>2
  <2>2. Queued(r) => Queued(r)'
    BY <1>1 DEF Queued
  <2> QED BY <1>1, <1>2, <2>1, <2>2 DEF Accounted, Known, Copied
<1> QED BY <1>3, <1>4

(* all_runs_complete with pest.stp: after its kill rounds no copy runs, and a   *)
(* run of the queue is marked.                                               *)
LEMMA WaitingIsMarked ==
  ASSUME TypeOK, ProtocolInv, FailuresRecorded, Resting => NoneActive, MarkWaitingFailed,
         NEW r \in Runs, Accounted(r)
  PROVE  Marked(r)' \/ NotNeeded(r)'
<1>1. pc = "stopped" /\ failure_map' = failure_map
  BY DEF MarkWaitingFailed
<1>2. ~Copied(r)
  BY <1>1, ExpectedActive DEF Resting, NoneActive, Copied
<1>3. status[r] \in Int /\ failure_map[r].n \in Nat
  BY DEF TypeOK, MasterTypeOK, JobTypeOK
<1> DEFINE S == {i \in DOMAIN waiting : waiting[i] = r}
           k == Cardinality(S)
<1>4. k \in Nat /\ (S # {} => k # 0)
  <2>1. IsFiniteSet(DOMAIN waiting) /\ S \subseteq DOMAIN waiting
    BY FS_Interval DEF TypeOK, MasterTypeOK, JobTypeOK
  <2>2. IsFiniteSet(S)
    BY <2>1, FS_Subset
  <2> HIDE DEF S
  <2> QED BY <2>2, FS_CardinalityType, FS_EmptySet
<1>5. status'[r] = IF status[r] < 1 THEN status[r] - k ELSE status[r]
  BY Zenon DEF MarkWaitingFailed
<1>6. Queued(r) => S # {}
  BY DEF Queued
<1> HIDE DEF S, k
<1>7. CASE NotNeeded(r)
  <2>1. status[r] = 1 => status'[r] = 1
    BY <1>5
  <2> QED BY <1>1, <1>7, <2>1 DEF NotNeeded, Finished, GivenUp
<1>8. CASE Queued(r)
  <2>1. k >= 1
    BY <1>4, <1>6, <1>8
  <2>2. status[r] <= 1 /\ (status[r] < 1 => failure_map[r].n <= -status[r])
    BY DEF FailuresRecorded
  <2>3. status'[r] = 1 \/ status'[r] < -failure_map'[r].n
    BY <1>1, <1>3, <1>4, <1>5, <2>1, <2>2
  <2> QED BY <2>3 DEF Marked, NotNeeded, Finished
<1> QED BY <1>1, <1>2, <1>7, <1>8 DEF Accounted, Known

(* run_until sets out to return by marking the queue, or having nothing to do. *)
LEMMA SettlingBegins ==
  ASSUME TypeOK, RunsInv, [Next]_vars, ~Settling, Settling', ~MarkWaitingFailed
  PROVE  pc' = "drain" /\ ~stop'
<1>1. \/ UNCHANGED masterVars \/ MasterNext
  BY DEF Next, vars
<1>2. CASE UNCHANGED masterVars
  BY <1>2 DEF masterVars, loopVars, Settling
<1>3. CASE IdleStep \/ ProgramStep \/ CreateStop
  BY <1>3 DEF IdleStep, IdleInit, IdleRead, ProgramStep, NewGroup, UpdateRun, RunUntil, RemoveStop,
              CreateStop, GoTo, loopVars, Settling
<1>4. CASE Listen \/ ReadOne
  <2>1. /\ pc \in {"listen", "read"} /\ killRet \notin {"drain", "return"}
        /\ listenRet \in {"top", "killall", killRet}
    BY <1>4 DEF Listen, ReadOne, Settling, RunsInv, CallsOK
  <2>2. \/ pc' = listenRet /\ listenRet' = "" /\ killRet' \in {"", killRet}
        \/ pc' = "read" /\ UNCHANGED <<killRet, listenRet>>
    BY <1>4 DEF Listen, ReadOne, EndListen
  <2>3. killRet \in KillRet \cup {""}
    BY DEF TypeOK, MasterTypeOK, CallTypeOK
  <2> QED BY <2>1, <2>2, <2>3 DEF Settling, KillRet
<1>5. CASE KillRound
  BY <1>5 DEF KillRound, GoTo, Settling, TypeOK, MasterTypeOK, CallTypeOK, KillRet
<1>6. CASE Drain \/ DrainCheckStop \/ Return
  BY <1>6 DEF Drain, DrainCheckStop, Return, Settling
<1>7. CASE AllRunsComplete \/ StopBeforePass
  BY <1>7 DEF AllRunsComplete, StopBeforePass, RunsRemain, CallKillAll, GoTo, Settling, envVars
<1>8. CASE \/ StartPass \/ AssignNotNeeded \/ AssignStart \/ AssignLater
           \/ AssignDone \/ (\E a \in Agents : \/ GiveUpRun(a) \/ RestartRun(a)
                                              \/ KillOverdue(a) \/ LeaveOrDuplicate(a))
           \/ Reschedule \/ OverdueDone \/ CloseSurplus
  BY <1>8 DEF StartPass, RunsRemain, AssignNotNeeded, AssignStart, AssignLater, AtWaiting,
     AssignDone, ToListen, GiveUpRun, RestartRun, KillOverdue, LeaveOrDuplicate, Visit, Reschedule,
     OverdueDone, CloseSurplus, GoTo, loopVars, Settling
<1> QED BY <1>1, <1>2, <1>3, <1>4, <1>5, <1>6, <1>7, <1>8 DEF MasterNext, RunStep

(* Every step keeps the invariant. *)
LEMMA StopInvStep ==
  ASSUME TypeOK, ProtocolInv, RunsInv, FailuresRecorded, Resting => NoneActive, StopInv, HistNext
  PROVE  StopInv'
<1>1. [Next]_vars /\ RecordStep
  BY NextRecord DEF HistNext
<1>2. CASE NewGroup
  <2>1. waiting' = [i \in 1 .. NRuns |-> i] /\ pc' = "queued"
    BY <1>2 DEF NewGroup, GoTo
  <2>2. killRet' = "" /\ listenRet' = ""
    BY <1>2 DEF NewGroup, RunsInv, CallsOK, loopVars
  <2>3. ~Settling'
    BY <2>1, <2>2 DEF Settling
  <2>4. \A r \in Runs : Queued(r)'
    BY <2>1 DEF Queued, Runs
  <2> QED BY <2>3, <2>4 DEF StopInv, Accounted, Known
<1>3. CASE ~NewGroup
  <2>1. group' = group
    BY <1>1, <1>3 DEF RecordStep, FinishStep, MarkWaitingFailed, RunUntil
  <2>2. cut \cup CutNow \subseteq cut'
    BY <2>1 DEF HistNext
  <2> SUFFICES ASSUME group > 0, NEW r \in Runs
               PROVE  Left(r)' \/ (IF Settling' THEN NotNeeded(r)' ELSE Accounted(r)')
    BY <2>1 DEF StopInv
  <2>3. NotNeeded(r)' => Accounted(r)'
    BY DEF Accounted, Known
  <2>4. /\ NotNeeded(r) => NotNeeded(r)'
        /\ Left(r) => Left(r)' \/ NotNeeded(r)'
    BY <1>1, <1>3, <2>2, LeftStays
  <2>5. Left(r) \/ (IF Settling THEN NotNeeded(r) ELSE Accounted(r))
    BY DEF StopInv
  <2>6. CASE Left(r) \/ NotNeeded(r)
    BY <2>3, <2>4, <2>6
  <2>7. CASE ~Settling /\ Accounted(r)
    <3>1. CASE MarkWaitingFailed
      BY <2>3, <2>7, <3>1, WaitingIsMarked DEF Left
    <3>2. CASE ~MarkWaitingFailed /\ Settling'
      <4>1. pc' = "drain" /\ ~stop'
        BY <1>1, <2>7, <3>2, SettlingBegins
      <4>2. RunsInv'
        BY <1>1, NextKeepsRuns
      <4>3. Ending'
        BY <4>1 DEF Ending
      <4>4. NotNeeded(r)'
        BY <4>1, <4>2, <4>3 DEF RunsInv
      <4> QED BY <3>2, <4>4
    <3>3. CASE ~Settling' /\ KillRound
      <4>1. r \in cut' \/ Accounted(r)'
        BY <2>2, <2>7, <3>3, KillRoundCuts
      <4> QED BY <3>3, <4>1 DEF Left
    <3>4. CASE ~Settling' /\ ~KillRound /\ ~MarkWaitingFailed
      <4>1. ~(Drain \/ DrainCheckStop \/ Return)
        BY <2>7 DEF Drain, DrainCheckStop, Return, Settling
      <4>2. StaysAccounted
        BY <1>1, <3>4, <4>1, StepsAccount
      <4> QED BY <2>7, <3>4, <4>2 DEF StaysAccounted
    <3> QED BY <3>1, <3>2, <3>3, <3>4
  <2> QED BY <2>5, <2>6, <2>7
<1> QED BY <1>2, <1>3

(* StopCutsOnlyRunning: for any agents, runs and groups, a run that run_until   *)
(* leaves without a result, neither given up nor marked, is one that pest.stp    *)
(* cut off on an agent: none is forgotten between the queue and the agents while *)
(* all_runs_complete and run_until each look for the file in their own time.     *)
THEOREM StopCutsOnlyRunning == HistSpec => []StopLeavesOnlyCutRuns
<1>1. HistInit => TypeOK /\ ProtocolInv /\ RunsInv /\ AttemptsInv /\ FailuresRecorded /\ StopInv
  <2> SUFFICES ASSUME HistInit
               PROVE  TypeOK /\ ProtocolInv /\ RunsInv /\ AttemptsInv /\ FailuresRecorded /\ StopInv
    OBVIOUS
  <2>1. TypeOK /\ ProtocolInv /\ RunsInv /\ AttemptsInv
    BY InitType, InitProtocol, InitRuns, InitAttempts DEF HistInit
  <2>2. group = 0 /\ failure_map = [r \in Runs |-> NoFailure] /\ status = [r \in Runs |-> 0]
    BY DEF HistInit, Init, MasterInit
  <2>3. StopInv
    BY <2>2 DEF StopInv
  <2>4. FailuresRecorded
    BY <2>2 DEF FailuresRecorded, NoFailure
  <2> QED BY <2>1, <2>3, <2>4
<1>2. TypeOK /\ ProtocolInv /\ RunsInv /\ AttemptsInv /\ FailuresRecorded /\ StopInv /\ [HistNext]_histVars
        => (TypeOK /\ ProtocolInv /\ RunsInv /\ AttemptsInv /\ FailuresRecorded /\ StopInv)'
  <2> SUFFICES ASSUME TypeOK, ProtocolInv, RunsInv, AttemptsInv, FailuresRecorded, StopInv,
                      [HistNext]_histVars
               PROVE  (TypeOK /\ ProtocolInv /\ RunsInv /\ AttemptsInv /\ FailuresRecorded /\ StopInv)'
    OBVIOUS
  <2>1. [Next]_vars
    BY DEF HistNext, histVars
  <2>2. TypeOK' /\ ProtocolInv' /\ RunsInv'
    BY <2>1, MasterStepType, AgentNextType, StutterType, NextKeepsProtocol, NextKeepsRuns DEF Next
  <2>3. AttemptsInv'
    BY <2>2, AttemptsStep, AttemptsStutter
  <2>4. FailuresRecorded'
    BY <2>1, <2>2, FailuresRecordedStep
  <2>5. StopInv'
    <3>1. CASE HistNext
      BY <3>1, StopInvStep DEF AttemptsInv
    <3>2. CASE UNCHANGED histVars
      BY <3>2 DEF StopInv, Left, Marked, Settling, Accounted, Known, NotNeeded, Finished, GivenUp, Queued,
         Copied, histVars, vars, masterVars, jobVars, loopVars
    <3> QED BY <3>1, <3>2
  <2> QED BY <2>2, <2>3, <2>4, <2>5
<1>3. StopInv => StopLeavesOnlyCutRuns
  BY DEF StopInv, StopLeavesOnlyCutRuns, Settling, Left
<1> QED BY <1>1, <1>2, <1>3, PTL DEF HistSpec
=============================================================================
