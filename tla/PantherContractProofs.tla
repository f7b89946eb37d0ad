------------------------ MODULE PantherContractProofs ------------------------
(***************************************************************************)
(* Proofs about the module Panther: run_until and its agents implement the  *)
(* contract of RunManager.  What the agents do is no step of the contract;   *)
(* what the master reads and kills moves outcomes forward; a call returns   *)
(* when RunsInv says that nothing is left to do.                            *)
(***************************************************************************)
EXTENDS PantherProtocolProofs

(* Status bytes of -100 and below say that a run was cancelled, not how often it *)
(* failed (n_run_failures_exceeded): the contract is about runs above them.     *)
NoneReserved == \A r \in Runs : status[r] > -100

InCall == pc \notin {"client", "queued"}

ContractInv == TypeOK /\ ProtocolInv /\ RunsInv /\ FailuresRecorded /\ NoneReserved

-----------------------------------------------------------------------------
(* Outcomes.                                                                *)

(* What the status byte of a run says, case by case.                         *)
Says(o, s) ==
  /\ o \in Contract!Outcome /\ s \in Int
  /\ o = "done" <=> s = 1
  /\ o = "failed" <=> s <= -MaxRunFail

LEMMA OutcomeCases ==
  ASSUME TypeOK, NoneReserved
  PROVE  \A r \in Runs : Says(OutcomeOf(r), status[r])
<1>1. ASSUME NEW r \in Runs
      PROVE  Says(OutcomeOf(r), status[r])
  <2>1. status[r] \in Int /\ status[r] > -100
    BY DEF TypeOK, MasterTypeOK, JobTypeOK, NoneReserved
  <2>2. OutcomeOf(r) = IF status[r] = 1 THEN "done"
                       ELSE IF status[r] <= -MaxRunFail THEN "failed" ELSE "todo"
    BY <2>1, MaxRunFailAssumption DEF OutcomeOf, FailuresExceeded
  <2> QED
    BY <2>1, <2>2, MaxRunFailAssumption DEF Contract!Outcome, Says
<1> QED
  BY <1>1

(* The same after a step. *)
LEMMA OutcomeCasesNext ==
  ASSUME TypeOK', NoneReserved'
  PROVE  \A r \in Runs : Says(OutcomeOf(r)', status'[r])
<1>1. ASSUME NEW r \in Runs
      PROVE  Says(OutcomeOf(r)', status'[r])
  <2>1. status'[r] \in Int /\ status'[r] > -100
    BY DEF TypeOK, MasterTypeOK, JobTypeOK, NoneReserved
  <2>2. OutcomeOf(r)' = IF status'[r] = 1 THEN "done"
                        ELSE IF status'[r] <= -MaxRunFail THEN "failed" ELSE "todo"
    BY <2>1, MaxRunFailAssumption DEF OutcomeOf, FailuresExceeded
  <2> QED
    BY <2>1, <2>2, MaxRunFailAssumption DEF Contract!Outcome, Says
<1> QED
  BY <1>1

(* Only a new group takes an outcome back.                                   *)
LEMMA OutcomesMoveForward ==
  ASSUME TypeOK, TypeOK', NoneReserved, NoneReserved', [Next]_vars, ~NewGroup
  PROVE  \A r \in Runs : OutcomeOf(r)' \in Contract!Forward(OutcomeOf(r))
<1>1. \A r \in Runs : status'[r] = 1 \/ (status[r] # 1 /\ status'[r] <= status[r])
  <2>1. \/ NewGroup /\ \A q \in Runs : status'[q] = 0
        \/ /\ UNCHANGED group
           /\ \A q \in Runs : \/ status'[q] = 1
                              \/ status[q] # 1 /\ status'[q] <= status[q]
    BY ONLY StatusFalls, TypeOK, [Next]_vars
  <2> QED
    BY <2>1
<1>2. ASSUME NEW r \in Runs
      PROVE  OutcomeOf(r)' \in Contract!Forward(OutcomeOf(r))
  <2>1. status'[r] = 1 \/ (status[r] # 1 /\ status'[r] <= status[r])
    BY <1>1
  <2>2. PICK o : o = OutcomeOf(r)
    OBVIOUS
  <2>3. PICK n : n = OutcomeOf(r)'
    OBVIOUS
  <2>4. Says(o, status[r]) /\ Says(n, status'[r])
    BY OutcomeCases, OutcomeCasesNext, <2>2, <2>3, Zenon
  <2>5. n \in Contract!Forward(o)
    BY <2>1, <2>4, MaxRunFailAssumption DEF Says, Contract!Forward, Contract!Outcome
  <2> QED
    BY <2>2, <2>3, <2>5
<1> QED
  BY <1>2

-----------------------------------------------------------------------------
(* Phases.                                                                  *)

(* A step of run_until stays within the call until it returns; only the look    *)
(* for pest.stp changes what the program knows of the user's wish.             *)
LEMMA RunStepStays ==
  ASSUME TypeOK, RunsInv, RunStep
  PROVE  /\ InCall
         /\ ~Return => InCall'
         /\ ~StopBeforePass => stop' = stop
<1> USE DEF InCall
<1>1. CASE AllRunsComplete \/ MarkWaitingFailed \/ StopBeforePass \/ StartPass
  BY <1>1 DEF AllRunsComplete, MarkWaitingFailed, StopBeforePass, StartPass, RunsRemain, GoTo,
              CallKillAll, envVars, InitAgents
<1>2. CASE AssignNotNeeded \/ AssignStart \/ AssignLater \/ AssignDone \/ OverdueDone
  BY <1>2 DEF AssignNotNeeded, AssignStart, AssignLater, AssignDone, OverdueDone, AtWaiting, ToListen,
              envVars
<1>3. CASE \E a \in Agents : GiveUpRun(a) \/ RestartRun(a) \/ KillOverdue(a) \/ LeaveOrDuplicate(a)
  BY <1>3 DEF GiveUpRun, RestartRun, KillOverdue, LeaveOrDuplicate, Visit, envVars
<1>4. CASE Reschedule \/ CloseSurplus \/ KillRound \/ Drain \/ DrainCheckStop \/ Return
  BY <1>4 DEF Reschedule, CloseSurplus, KillRound, Drain, DrainCheckStop, Return, GoTo, CallKillAll,
              envVars
<1>5. CASE Listen \/ ReadOne
  <2>1. listenRet \in ListenRet
    BY <1>5 DEF Listen, ReadOne, TypeOK, MasterTypeOK, CallTypeOK
  <2>2. listenRet \notin {"client", "queued"}
    BY <2>1 DEF ListenRet, KillRet
  <2> QED
    BY <1>5, <2>2 DEF Listen, ReadOne, EndListen, envVars
<1> QED
  BY <1>1, <1>2, <1>3, <1>4, <1>5 DEF RunStep

(* While a group is only queued the idle thread finds no result of it.        *)
LEMMA IdleLeavesQueuedRuns ==
  ASSUME TypeOK, ProtocolInv, IdleStep, pc = "queued"
  PROVE  status' = status
<1>1. CASE IdleInit
  BY <1>1 DEF IdleInit, InitAgents, jobVars
<1>2. ASSUME NEW a \in Agents, AddAgent(a)
      PROVE  status' = status
  BY <1>2 DEF AddAgent, jobVars
<1>3. ASSUME NEW a \in Agents, ProcessMessage(a)
      PROVE  status' = status
  <2>1. ~IsResult(a, "RUN_FINISHED") /\ ~IsResult(a, "RUN_FAILED")
    <3>1. OK(a) /\ group \in Int
      BY DEF ProtocolInv, TypeOK, MasterTypeOK, JobTypeOK, Groups
    <3>2. LastPast = group - 1
      BY DEF LastPast
    <3>3. ASSUME toMaster[a] # <<>>, Head(toMaster[a]).type \in ResultType
          PROVE  Head(toMaster[a]).grp <= LastPast
      BY <3>1, <3>3, HeadAnswer
    <3> QED
      BY <3>1, <3>2, <3>3 DEF IsResult, HeadIs, ResultType
  <2> QED
    BY <1>3, <2>1 DEF ProcessMessage, OnLost, CloseAgent, OnHandshake, OnOldResult, OnFinished,
                      OnResultOfFinishedRun, OnFailed, OnKilled, jobVars
<1> QED
  BY <1>1, <1>2, <1>3 DEF IdleStep, IdleRead

-----------------------------------------------------------------------------
(* The steps of the contract.                                               *)

(* The contract begins as the run manager does.                              *)
LEMMA ContractInit ==
  ASSUME Init
  PROVE  Contract!Init
<1>1. status = [r \in Runs |-> 0] /\ pc = "client" /\ stop = FALSE
  BY DEF Init, MasterInit
<1>2. ASSUME NEW r \in Runs
      PROVE  OutcomeOf(r) = "todo"
  BY <1>1, MaxRunFailAssumption DEF OutcomeOf, FailuresExceeded
<1> QED
  BY <1>1, <1>2 DEF Contract!Init

(* What is read and killed in a call, and between two groups, is Settle.       *)
LEMMA Settles ==
  ASSUME TypeOK, TypeOK', NoneReserved, NoneReserved', [Next]_vars, ~NewGroup, stop' = stop,
         (InCall /\ InCall') \/ (pc = "client" /\ pc' = "client")
  PROVE  Contract!Settle
<1>1. \A r \in Runs : OutcomeOf(r)' \in Contract!Forward(OutcomeOf(r))
  BY OutcomesMoveForward, Zenon
<1> QED
  BY <1>1 DEF Contract!Settle, InCall

(* run_until returns when every run is settled, or pest.stp was found.         *)
LEMMA Returns ==
  ASSUME ContractInv, Return
  PROVE  Contract!Return
<1>1. pc = "return" /\ pc' = "client" /\ status' = status /\ stop' = stop
  BY DEF Return, CloseFree, GoTo, jobVars
<1>2. ASSUME ~stop, NEW r \in Runs
      PROVE  OutcomeOf(r) # "todo"
  <2>1. NotNeeded(r)
    BY <1>1, <1>2 DEF ContractInv, RunsInv, Ending
  <2>2. /\ status[r] \in Int /\ failure_map[r].n \in Nat /\ status[r] <= 1 /\ status[r] > -100
        /\ status[r] < 1 => failure_map[r].n <= -status[r]
    BY DEF ContractInv, TypeOK, MasterTypeOK, JobTypeOK, FailuresRecorded, NoneReserved
  <2>3. status[r] = 1 \/ status[r] <= -MaxRunFail
    BY <2>1, <2>2, MaxRunFailAssumption DEF NotNeeded, Finished, GivenUp
  <2> QED
    BY <2>2, <2>3, MaxRunFailAssumption DEF OutcomeOf, FailuresExceeded
<1>3. \A r \in Runs : OutcomeOf(r)' = OutcomeOf(r)
  BY <1>1 DEF OutcomeOf, FailuresExceeded
<1> QED
  BY <1>1, <1>2, <1>3 DEF Contract!Return

(* reinitialize and add_run queue a group; update_run supplies a result; run    *)
(* begins.                                                                    *)
LEMMA ProgramSteps ==
  ASSUME TypeOK, ProgramStep
  PROVE  Contract!Next
<1>1. CASE NewGroup
  <2>1. pc = "client" /\ pc' = "queued" /\ status' = [r \in Runs |-> 0] /\ stop' = stop
    BY <1>1 DEF NewGroup, GoTo, envVars
  <2>2. ASSUME NEW r \in Runs
        PROVE  OutcomeOf(r)' = "todo"
    BY <2>1, MaxRunFailAssumption DEF OutcomeOf, FailuresExceeded
  <2>3. Contract!Queue
    BY <2>1, <2>2 DEF Contract!Queue
  <2> QED
    BY <2>3 DEF Contract!Next
<1>2. ASSUME NEW r \in Runs, UpdateRun(r)
      PROVE  Contract!Next
  <2>1. pc = "queued" /\ pc' = "queued" /\ stop' = stop
    BY <1>2 DEF UpdateRun, envVars
  <2>2. \A q \in Runs : status'[q] = IF q = r THEN 1 ELSE status[q]
    BY <1>2 DEF UpdateRun, TypeOK, MasterTypeOK, JobTypeOK
  <2>3. ASSUME NEW q \in Runs
        PROVE  OutcomeOf(q)' = IF q = r THEN "done" ELSE OutcomeOf(q)
    <3>1. CASE q = r
      <4>1. status'[q] = 1
        BY <2>2, <3>1
      <4> QED
        BY <3>1, <4>1, MaxRunFailAssumption DEF OutcomeOf, FailuresExceeded
    <3>2. CASE q # r
      <4>1. status'[q] = status[q]
        BY <2>2, <3>2
      <4> QED
        BY <3>2, <4>1 DEF OutcomeOf, FailuresExceeded
    <3> QED
      BY <3>1, <3>2
  <2>4. Contract!Supply
    BY <2>1, <2>3 DEF Contract!Supply
  <2> QED
    BY <2>4 DEF Contract!Next
<1>3. CASE RunUntil
  <2>1. pc = "queued" /\ pc' = "top" /\ status' = status /\ stop' = stop
    BY <1>3 DEF RunUntil, GoTo, envVars
  <2>2. \A r \in Runs : OutcomeOf(r)' = OutcomeOf(r)
    BY <2>1 DEF OutcomeOf, FailuresExceeded
  <2>3. Contract!Start
    BY <2>1, <2>2 DEF Contract!Start
  <2> QED
    BY <2>3 DEF Contract!Next
<1>4. CASE RemoveStop
  <2>1. pc = "client" /\ pc' = "client" /\ status' = status /\ stop' = FALSE
    BY <1>4 DEF RemoveStop, jobVars
  <2>2. \A r \in Runs : OutcomeOf(r)' = OutcomeOf(r)
    BY <2>1 DEF OutcomeOf, FailuresExceeded
  <2>3. Contract!Resume
    BY <2>1, <2>2 DEF Contract!Resume
  <2> QED
    BY <2>3 DEF Contract!Next
<1> QED
  BY <1>1, <1>2, <1>3, <1>4 DEF ProgramStep

(* The user creates pest.stp, unseen or between two looks at it.               *)
LEMMA StopStep ==
  ASSUME TypeOK, CreateStop \/ StopBeforePass
  PROVE  Contract!Next
<1>1. InCall /\ InCall' /\ status' = status /\ stop' = TRUE
  BY DEF CreateStop, StopBeforePass, RunsRemain, CallKillAll, jobVars, InCall
<1>2. \A r \in Runs : OutcomeOf(r)' = OutcomeOf(r)
  BY <1>1 DEF OutcomeOf, FailuresExceeded
<1>3. Contract!Stop
  BY <1>1, <1>2 DEF Contract!Stop, InCall
<1> QED
  BY <1>3 DEF Contract!Next

(* A step that changes no status, no phase and not the stop file.             *)
LEMMA Stutters ==
  ASSUME status' = status, pc' = pc, stop' = stop
  PROVE  UNCHANGED Contract!vars
<1>1. \A r \in Runs : OutcomeOf(r)' = OutcomeOf(r)
  BY DEF OutcomeOf, FailuresExceeded
<1> QED
  BY <1>1 DEF Contract!vars

(* Every step of the run manager and its agents is one of the contract or none. *)
LEMMA ContractStep ==
  ASSUME ContractInv, ContractInv', [Next]_vars
  PROVE  [Contract!Next]_(Contract!vars)
<1> USE DEF ContractInv
<1>1. CASE UNCHANGED masterVars
  BY <1>1, Stutters DEF masterVars, jobVars, envVars
<1>2. CASE ProgramStep
  BY <1>2, ProgramSteps
<1>3. CASE CreateStop \/ StopBeforePass
  BY <1>3, StopStep
<1>4. CASE IdleStep
  <2>1. pc \in {"client", "queued"} /\ pc' = pc /\ stop' = stop
    BY <1>4 DEF IdleStep, IdleInit, IdleRead, Idling, envVars
  <2>2. CASE pc = "queued"
    BY <1>4, <2>1, <2>2, IdleLeavesQueuedRuns, Stutters
  <2>3. CASE pc = "client"
    <3>1. ~NewGroup
      BY <2>1, <2>3 DEF NewGroup, GoTo
    <3>2. Contract!Settle
      BY <2>1, <2>3, <3>1, Settles
    <3> QED
      BY <3>2 DEF Contract!Next
  <2> QED
    BY <2>1, <2>2, <2>3
<1>5. CASE RunStep /\ ~StopBeforePass
  <2>1. InCall /\ stop' = stop /\ (~Return => InCall')
    BY <1>5, RunStepStays
  <2>2. CASE Return
    BY <2>2, Returns DEF Contract!Next
  <2>3. CASE ~Return
    <3>1. ~NewGroup
      BY <2>1 DEF NewGroup, InCall
    <3>2. Contract!Settle
      BY <2>1, <2>3, <3>1, Settles
    <3> QED
      BY <3>2 DEF Contract!Next
  <2> QED
    BY <2>2, <2>3
<1> QED
  BY <1>1, <1>2, <1>3, <1>4, <1>5 DEF Next, MasterNext, vars

-----------------------------------------------------------------------------
(* PantherKeepsContract: for any set of agents that connect, fail, hang and     *)
(* vanish as they like, and any number of runs and groups, run_until implements *)
(* the contract of RunManager as long as no run fails so often that its status  *)
(* byte reaches the values reserved for cancelled runs.                        *)
THEOREM PantherKeepsContract == Spec /\ []NoneReserved => KeepsContract
<1>1. Init => Contract!Init
  BY ContractInit
<1>2. ContractInv /\ ContractInv' /\ [Next]_vars => [Contract!Next]_(Contract!vars)
  BY ContractStep
<1>3. Spec => []TypeOK
  BY TypeCorrect
<1>4. Spec => []ProtocolInv
  BY Protocol
<1>5. Spec => []RunsInv
  BY RunsAreKnown
<1>6. Spec => []FailuresRecorded
  BY FailuresAreRecorded
<1> QED
  BY <1>1, <1>2, <1>3, <1>4, <1>5, <1>6, PTL DEF Spec, KeepsContract, Contract!Spec, ContractInv

-----------------------------------------------------------------------------
(* The messages.                                                            *)

(* A sequence over a set is one over every larger set.                       *)
LEMMA SeqMonotone ==
  ASSUME NEW S, NEW T, S \subseteq T, NEW s \in Seq(S)
  PROVE  s \in Seq(T)
<1>1. Len(s) \in Nat /\ s \in [1 .. Len(s) -> S]
  BY SeqDef
<1>2. s \in [1 .. Len(s) -> T]
  BY <1>1
<1> QED BY <1>1, <1>2, SeqDef

(* A prefix of a sequence over S is a sequence over S.                       *)
LEMMA PrefixType ==
  ASSUME NEW S, NEW s \in Seq(S), NEW k \in 0 .. Len(s)
  PROVE  SubSeq(s, 1, k) \in Seq(S)
<1>1. k \in Int /\ \A i \in 1 .. k : s[i] \in S
  BY ElementOfSeq
<1> QED BY <1>1, SubSeqProperties

(* What the master does to the messages of an agent: it reads the first one,  *)
(* or drops them all with the connection.                                     *)
ReadOrDrop(a) ==
  \/ toMaster'[a] = toMaster[a]
  \/ toMaster'[a] = <<>>
  \/ toMaster[a] # <<>> /\ toMaster'[a] = Tail(toMaster[a])

(* Handling a message takes it off its socket, or closes the socket.         *)
LEMMA ProcessMessageReads ==
  ASSUME TypeOK, NEW a \in Agents, ProcessMessage(a) \/ AddAgent(a), NEW b \in Agents
  PROVE  ReadOrDrop(b)
<1>0. toMaster \in [Agents -> Seq(MasterMsg)]
  BY DEF TypeOK, NetTypeOK
<1>1. CASE OnLost(a)
  BY <1>0, <1>1 DEF OnLost, CloseAgent, ReadOrDrop
<1>2. CASE Read(a) /\ toMaster[a] # <<>>
  BY <1>0, <1>2 DEF Read, ReadOrDrop
<1>3. CASE AddAgent(a)
  BY <1>3 DEF AddAgent, ReadOrDrop
<1> QED
  BY <1>1, <1>2, <1>3 DEF ProcessMessage, OnHandshake, OnOldResult, OnFinished,
     OnResultOfFinishedRun, OnFailed, OnKilled, IsResult, HeadIs

(* So the master only ever reads or drops what agents have sent.             *)
LEMMA MasterReads ==
  ASSUME TypeOK, MasterNext, NEW b \in Agents
  PROVE  ReadOrDrop(b)
<1>1. CASE RunStep
  <2>1. CASE AssignNotNeeded \/ AssignStart \/ AssignLater \/ AssignDone
    BY <2>1 DEF AssignNotNeeded, AssignStart, AssignLater, AssignDone, netVars, ReadOrDrop
  <2>2. ASSUME NEW a \in Agents,
               GiveUpRun(a) \/ RestartRun(a) \/ KillOverdue(a) \/ LeaveOrDuplicate(a)
        PROVE  ReadOrDrop(b)
    BY <2>2 DEF GiveUpRun, RestartRun, KillOverdue, LeaveOrDuplicate, Visit, ReadOrDrop
  <2>3. CASE Reschedule \/ KillRound \/ StartPass
    BY <2>3 DEF Reschedule, KillRound, StartPass, InitAgents, ReadOrDrop
  <2>4. CASE CloseSurplus \/ Return
    BY <2>4 DEF CloseSurplus, Return, CloseFree, netVars, ReadOrDrop
  <2>5. CASE OverdueDone \/ Listen \/ Drain \/ DrainCheckStop \/ AllRunsComplete \/ StopBeforePass
               \/ MarkWaitingFailed
    BY <2>5 DEF OverdueDone, Listen, Drain, DrainCheckStop, AllRunsComplete, StopBeforePass,
                MarkWaitingFailed, netVars, ReadOrDrop
  <2>6. CASE ReadOne
    <3>1. PICK a \in Agents : ProcessMessage(a) \/ AddAgent(a)
      BY <2>6 DEF ReadOne, TypeOK, MasterTypeOK, LoopTypeOK
    <3> QED BY <3>1, ProcessMessageReads
  <2> QED BY <1>1, <2>1, <2>2, <2>3, <2>4, <2>5, <2>6 DEF RunStep
<1>2. CASE IdleStep
  <2>1. CASE IdleInit
    BY <2>1 DEF IdleInit, InitAgents, ReadOrDrop
  <2>2. ASSUME NEW a \in Agents, IdleRead(a)
        PROVE  ReadOrDrop(b)
    BY <2>2, ProcessMessageReads DEF IdleRead
  <2> QED BY <1>2, <2>1, <2>2 DEF IdleStep
<1>3. CASE ProgramStep \/ CreateStop
  BY <1>3 DEF ProgramStep, NewGroup, UpdateRun, RunUntil, RemoveStop, CreateStop, netVars, ReadOrDrop
<1> QED BY <1>1, <1>2, <1>3 DEF MasterNext

-----------------------------------------------------------------------------
(* The attempts at a run that are under way.                                *)

(* An attempt that is under way may be counted while its agent is ACTIVE, when   *)
(* the master kills it as overdue, and once more when its agent reports that it  *)
(* failed.                                                                    *)
Held(r) == {a \in Agents : astate[a] = "ACTIVE" /\ arun[a] = r}
Owes(in, p, out, r, g) ==
  \/ Has(in, Msg("START_RUN", r, g))
  \/ p = [st |-> "running", run |-> r, grp |-> g]
  \/ Has(out, Msg("RUN_FAILED", r, g))
Owing(r, g) == {a \in Agents : Owes(toAgent[a], proc[a], toMaster[a], r, g)}

(* What is in a sequence after an element was added or taken away.            *)
LEMMA HasLess ==
  ASSUME NEW S, NEW s \in Seq(S), NEW x
  PROVE  /\ s # <<>> => Has(s, Head(s)) /\ (Has(Tail(s), x) => Has(s, x))
         /\ \A k \in 0 .. Len(s) : Has(SubSeq(s, 1, k), x) => Has(s, x)
         /\ \A z \in S : Has(Append(s, z), x) => Has(s, x) \/ x = z
<1>1. ASSUME s # <<>>
      PROVE  Has(s, Head(s)) /\ (Has(Tail(s), x) => Has(s, x))
  <2>1. Len(s) \in Nat /\ Len(s) # 0 /\ Head(s) = s[1] /\ DOMAIN s = 1 .. Len(s)
    BY <1>1
  <2>2. DOMAIN Tail(s) = 1 .. Len(s) - 1 /\ \A i \in 1 .. Len(s) - 1 : Tail(s)[i] = s[i + 1]
    BY <1>1
  <2>3. \A i \in 1 .. Len(s) - 1 : i + 1 \in 1 .. Len(s)
    BY <2>1
  <2> QED
    BY <2>1, <2>2, <2>3 DEF Has
<1>2. ASSUME NEW k \in 0 .. Len(s), Has(SubSeq(s, 1, k), x)
      PROVE  Has(s, x)
  <2>1. k \in Int /\ k <= Len(s) /\ Len(s) \in Nat /\ \A i \in 1 .. k : s[i] \in S
    BY ElementOfSeq
  <2>2. DOMAIN SubSeq(s, 1, k) = 1 .. k /\ \A i \in 1 .. k : SubSeq(s, 1, k)[i] = s[i]
    BY <2>1, SubSeqProperties
  <2> QED
    BY <1>2, <2>1, <2>2 DEF Has
<1>3. ASSUME NEW z \in S, Has(Append(s, z), x)
      PROVE  Has(s, x) \/ x = z
  <2>1. /\ DOMAIN Append(s, z) = 1 .. Len(s) + 1 /\ Append(s, z)[Len(s) + 1] = z
        /\ \A i \in 1 .. Len(s) : Append(s, z)[i] = s[i]
    BY AppendProperties
  <2> QED
    BY <1>3, <2>1 DEF Has
<1> QED
  BY <1>1, <1>2, <1>3

-----------------------------------------------------------------------------
(* The agents: an attempt moves from the order to the model to the answer.     *)

Orders == {Plain(t) : t \in OrderType}
MessageNames == \A t \in OrderType \cup ReplyType, r \in Runs, g \in Groups :
  /\ Plain(t) # Msg("START_RUN", r, g)
  /\ Plain(t) # Msg("RUN_FAILED", r, g)

(* An order or a reply without a run is neither a START_RUN nor a RUN_FAILED. *)
LEMMA PlainNames == MessageNames
BY DEF MessageNames, Plain, Msg, OrderType, ReplyType

(* A step of an agent makes no agent owe an attempt it did not owe before. *)
LEMMA AgentOwesLess ==
  ASSUME TypeOK, NEW a \in Agents, Connect(a) \/ AgentStep(a) \/ Disappear(a),
         NEW b \in Agents, NEW r \in Runs, NEW g \in Groups,
         Owes(toAgent'[b], proc'[b], toMaster'[b], r, g)
  PROVE  Owes(toAgent[b], proc[b], toMaster[b], r, g)
<1>1. /\ toAgent \in [Agents -> Seq(AgentMsg)] /\ toMaster \in [Agents -> Seq(MasterMsg)]
      /\ proc \in [Agents -> ProcState]
  BY DEF TypeOK, NetTypeOK, AgentTypeOK
<1>2. CASE b # a \/ Connect(a)
  <2>1. toAgent'[b] = toAgent[b] /\ toMaster'[b] = toMaster[b] /\ proc'[b] = proc[b]
    BY <1>1, <1>2 DEF Connect, AgentStep, Answer, StartRun, ModelEnds, ModelKilled, SendReady, Disappear,
                      SendResult, Send, Consume, agentVars
  <2> QED
    BY <2>1
<1> DEFINE start == Msg("START_RUN", r, g)
           fail == Msg("RUN_FAILED", r, g)
           busy == [st |-> "running", run |-> r, grp |-> g]
<1> USE PlainNames DEF MessageNames
<1>3. CASE b = a /\ Answer(a)
  <2>1. /\ toAgent[a] # <<>> /\ toAgent'[a] = Tail(toAgent[a]) /\ proc'[a] = proc[a]
        /\ \/ toMaster'[a] = toMaster[a]
           \/ \E t \in ReplyType : toMaster'[a] = Append(toMaster[a], Plain(t))
    BY <1>1, <1>3 DEF Answer, Inbox, Consume, Send, agentVars, ReplyType
  <2>2. \A t \in ReplyType : Plain(t) \in MasterMsg
    BY DEF MasterMsg
  <2>3. Has(toAgent'[a], start) => Has(toAgent[a], start)
    BY <1>1, <2>1, HasLess
  <2>4. Has(toMaster'[a], fail) => Has(toMaster[a], fail)
    <3>1. \A z \in MasterMsg : Has(Append(toMaster[a], z), fail) => Has(toMaster[a], fail) \/ fail = z
      BY <1>1, HasLess, Zenon
    <3> QED
      BY <2>1, <2>2, <3>1
  <2> QED
    BY <1>3, <2>1, <2>3, <2>4 DEF Owes
<1>4. CASE b = a /\ StartRun(a)
  <2>1. /\ toAgent[a] # <<>> /\ toAgent'[a] = Tail(toAgent[a]) /\ toMaster'[a] = toMaster[a]
        /\ Head(toAgent[a]).type = "START_RUN" /\ Head(toAgent[a]) \in AgentMsg
        /\ proc'[a] = [st |-> "running", run |-> Head(toAgent[a]).run, grp |-> Head(toAgent[a]).grp]
    BY <1>1, <1>4 DEF StartRun, Inbox, Consume
  <2>2. proc'[a] = busy => Head(toAgent[a]) = start
    BY <2>1 DEF AgentMsg, Plain, Msg, OrderType
  <2>3. Has(toAgent'[a], start) => Has(toAgent[a], start)
    BY <1>1, <2>1, HasLess
  <2>4. Has(toAgent[a], Head(toAgent[a]))
    BY <1>1, <2>1, HasLess
  <2> QED
    BY <1>4, <2>1, <2>2, <2>3, <2>4 DEF Owes
<1>5. CASE b = a /\ (ModelEnds(a) \/ ModelKilled(a))
  <2>1. PICK t \in ResultType :
          /\ toMaster'[a] = Append(toMaster[a], Msg(t, proc[a].run, proc[a].grp))
          /\ proc[a].st = "running" /\ proc'[a].st = "sent"
          /\ toAgent'[a] = toAgent[a] \/ (toAgent[a] # <<>> /\ toAgent'[a] = Tail(toAgent[a]))
    <3>1. PICK t \in ResultType : SendResult(a, t)
      BY <1>5 DEF ModelEnds, ModelKilled, ResultType
    <3>2. /\ toMaster'[a] = Append(toMaster[a], Msg(t, proc[a].run, proc[a].grp))
          /\ proc'[a] = [proc[a] EXCEPT !.st = "sent"]
      BY <1>1, <3>1 DEF SendResult, Send
    <3>3. proc[a].st = "running" /\ proc'[a].st = "sent"
      BY <1>1, <1>5, <3>2 DEF ModelEnds, ModelKilled, ProcState, Idle
    <3>4. toAgent'[a] = toAgent[a] \/ (toAgent[a] # <<>> /\ toAgent'[a] = Tail(toAgent[a]))
      BY <1>1, <1>5 DEF ModelEnds, ModelKilled, Inbox, Consume
    <3> QED
      BY <3>2, <3>3, <3>4
  <2>2. /\ Msg(t, proc[a].run, proc[a].grp) \in MasterMsg
        /\ Msg(t, proc[a].run, proc[a].grp) = fail => proc[a] = busy
    BY <1>1, <2>1 DEF ProcState, Idle, MasterMsg, Msg
  <2>3. Has(toAgent'[a], start) => Has(toAgent[a], start)
    BY <1>1, <2>1, HasLess
  <2>4. Has(toMaster'[a], fail) => Has(toMaster[a], fail) \/ proc[a] = busy
    BY <1>1, <2>1, <2>2, HasLess
  <2> QED
    BY <1>5, <2>1, <2>3, <2>4 DEF Owes
<1>6. CASE b = a /\ SendReady(a)
  <2>1. /\ toAgent'[a] = toAgent[a] /\ proc'[a] = Idle /\ Plain("READY") \in MasterMsg
        /\ toMaster'[a] = Append(toMaster[a], Plain("READY")) /\ "READY" \in ReplyType
    BY <1>1, <1>6 DEF SendReady, Send, MasterMsg, ReplyType
  <2>2. Has(toMaster'[a], fail) => Has(toMaster[a], fail)
    BY <1>1, <2>1, HasLess
  <2> QED
    BY <1>6, <2>1, <2>2 DEF Owes, Idle
<1>7. CASE b = a /\ Disappear(a)
  <2>1. PICK k \in 0 .. Len(toMaster[a]) :
          toMaster'[a] = Append(SubSeq(toMaster[a], 1, k), Plain("EOF"))
    BY <1>1, <1>7 DEF Disappear
  <2>2. toAgent'[a] = <<>> /\ proc'[a] = Idle /\ Plain("EOF") \in MasterMsg /\ "EOF" \in ReplyType
    BY <1>1, <1>7 DEF Disappear, MasterMsg, ReplyType
  <2>3. SubSeq(toMaster[a], 1, k) \in Seq(MasterMsg)
    BY <1>1, PrefixType
  <2>4. Has(toMaster'[a], fail) => Has(SubSeq(toMaster[a], 1, k), fail)
    <3>1. \A z \in MasterMsg : Has(Append(SubSeq(toMaster[a], 1, k), z), fail)
                                 => Has(SubSeq(toMaster[a], 1, k), fail) \/ fail = z
      BY <2>3, HasLess, Zenon
    <3> QED
      BY <2>1, <2>2, <3>1
  <2>5. Has(toMaster'[a], fail) => Has(toMaster[a], fail)
    BY <1>1, <2>4, HasLess
  <2>6. ~Has(<<>>, start)
    BY DEF Has
  <2> QED
    BY <1>7, <2>2, <2>5, <2>6 DEF Owes, Idle
<1> QED
  BY <1>2, <1>3, <1>4, <1>5, <1>6, <1>7 DEF AgentStep

-----------------------------------------------------------------------------
(* The master: only schedule_run begins an attempt.                         *)

OrdersOnly(b) ==
  \/ toAgent'[b] = toAgent[b]
  \/ toAgent'[b] = <<>>
  \/ \E v \in Seq(Orders) : toAgent'[b] = toAgent[b] \o v
BeginsNothing(b) ==
  /\ OrdersOnly(b)
  /\ astate'[b] = "ACTIVE" => astate[b] = "ACTIVE" /\ arun'[b] = arun[b]
BeginsRun ==
  /\ \E r \in Runs, a \in Free : StartOn(r, a) /\ ~NotNeeded(r)
  /\ UNCHANGED <<failure_map, group, link, toMaster>>
  /\ pc' \in {"assign", "overdue"}

(* A send that carries orders only. *)
LEMMA OrdersSent ==
  ASSUME TypeOK, NEW msgs, toAgent' = Sending(msgs), NEW b \in Agents, msgs[b] \in Seq(Orders)
  PROVE  OrdersOnly(b)
BY SendingAt DEF OrdersOnly

(* Handshakes and kill requests are orders. *)
LEMMA OrderMessages ==
  /\ <<>> \in Seq(Orders) /\ <<Plain("REQ_KILL")>> \in Seq(Orders)
  /\ \A s : HandshakeMsg(s) \in Seq(Orders)
<1>1. \A t \in OrderType : <<Plain(t)>> \in Seq(Orders)
  BY DEF Orders
<1> QED
  BY <1>1 DEF HandshakeMsg, OrderType

(* kill_run begins no attempt. *)
LEMMA KillBeginsNothing ==
  ASSUME TypeOK, NEW V, KillAgents(V), UNCHANGED arun, NEW b \in Agents
  PROVE  BeginsNothing(b)
<1>1. KillRequests(V)[b] \in Seq(Orders)
  BY OrderMessages DEF KillRequests
<1>2. OrdersOnly(b)
  BY <1>1, OrdersSent DEF KillAgents
<1>3. PICK ok : astate' = StateAfterKill(V, ok)
  BY DEF KillAgents
<1>4. astate'[b] \in {astate[b], "KILLED", "KILLED_FAILED"}
  BY <1>3 DEF StateAfterKill
<1> QED
  BY <1>2, <1>4 DEF BeginsNothing

(* init_agents begins no attempt. *)
LEMMA HandshakeBeginsNothing ==
  ASSUME TypeOK, InitAgents, NEW b \in Agents
  PROVE  BeginsNothing(b)
<1>1. PICK ok : astate' = [a \in Agents |-> HandshakeNext(astate[a], SendOk(a, ok))]
  BY DEF InitAgents
<1>2. astate'[b] = HandshakeNext(astate[b], SendOk(b, ok)) /\ arun' = arun
  BY <1>1 DEF InitAgents
<1>3. astate'[b] = "ACTIVE" => astate[b] = "ACTIVE"
  BY <1>2 DEF HandshakeNext
<1>4. OrdersOnly(b)
  BY OrderMessages, OrdersSent DEF InitAgents
<1> QED
  BY <1>2, <1>3, <1>4 DEF BeginsNothing

(* A round of kill_all_active_runs begins none and leaves no agent ACTIVE. *)
LEMMA RoundBeginsNothing ==
  ASSUME TypeOK, KillRound, NEW b \in Agents
  PROVE  BeginsNothing(b) /\ astate'[b] # "ACTIVE"
<1> DEFINE V == {a \in Agents : Killable(a)}
           msgs == [a \in Agents |-> IF a \in V THEN KillRequests(V)[a] ELSE HandshakeMsg(astate[a])]
<1>1. PICK ok : astate' = [a \in Agents |-> IF a \in V THEN StateAfterKill(V, ok)[a]
                                            ELSE HandshakeNext(astate[a], SendOk(a, ok))]
  BY DEF KillRound
<1>2. astate'[b] # "ACTIVE"
  <2>1. CASE b \in V
    <3>1. astate'[b] = StateAfterKill(V, ok)[b]
      BY <1>1, <2>1
    <3> QED
      BY <2>1, <3>1 DEF StateAfterKill
  <2>2. CASE b \notin V
    <3>1. astate'[b] = HandshakeNext(astate[b], SendOk(b, ok)) /\ astate[b] # "ACTIVE"
      BY <1>1, <2>2 DEF Killable
    <3> QED
      BY <3>1 DEF HandshakeNext
  <2> QED
    BY <2>1, <2>2
<1>3. msgs[b] \in Seq(Orders)
  BY OrderMessages DEF KillRequests
<1>4. toAgent' = Sending(msgs)
  BY DEF KillRound
<1>5. OrdersOnly(b)
  <2> HIDE DEF msgs
  <2> QED
    BY <1>3, <1>4, OrdersSent
<1> QED
  BY <1>2, <1>5 DEF BeginsNothing

(* process_message and add_agent begin no attempt. *)
LEMMA MessageBeginsNothing ==
  ASSUME TypeOK, NEW a \in Agents, ProcessMessage(a) \/ AddAgent(a), NEW b \in Agents
  PROVE  BeginsNothing(b)
<1>0. astate \in [Agents -> AgentState] /\ toAgent \in [Agents -> Seq(AgentMsg)]
      /\ arun \in [Agents -> Runs \cup {NoRun}]
  BY DEF TypeOK, NetTypeOK, MasterTypeOK, AgentInfoTypeOK
<1>1. CASE OnLost(a) \/ OnHandshake(a) \/ AddAgent(a)
  BY <1>0, <1>1 DEF OnLost, CloseAgent, OnHandshake, AddAgent, SetState, BeginsNothing, OrdersOnly
<1>2. CASE OnOldResult(a) \/ OnResultOfFinishedRun(a) \/ OnFailed(a) \/ OnKilled(a)
  BY <1>2 DEF OnOldResult, OnResultOfFinishedRun, OnFailed, OnKilled, agentInfo, BeginsNothing, OrdersOnly
<1>3. CASE OnFinished(a)
  <2>1. PICK V : /\ \E ok : astate' = [StateAfterKill(V, ok) EXCEPT ![a] = "COMPLETE"]
                 /\ toAgent' = Sending(KillRequests(V)) /\ arun' = arun
    BY <1>3 DEF OnFinished
  <2>2. PICK ok : astate' = [StateAfterKill(V, ok) EXCEPT ![a] = "COMPLETE"]
    BY <2>1
  <2>3. astate'[b] \in {astate[b], "KILLED", "KILLED_FAILED", "COMPLETE"}
    BY <2>2 DEF StateAfterKill
  <2>4. KillRequests(V)[b] \in Seq(Orders)
    BY OrderMessages DEF KillRequests
  <2> QED
    BY <2>1, <2>3, <2>4, OrdersSent DEF BeginsNothing
<1> QED
  BY <1>1, <1>2, <1>3 DEF ProcessMessage

(* close_agent begins no attempt. *)
LEMMA CloseBeginsNothing ==
  ASSUME TypeOK, NEW S, CloseFree(S), NEW b \in Agents
  PROVE  BeginsNothing(b)
BY DEF CloseFree, BeginsNothing, OrdersOnly

(* Every step of the master begins one attempt or none.                      *)
LEMMA MasterBegins ==
  ASSUME TypeOK, MasterNext
  PROVE  BeginsRun \/ \A b \in Agents : BeginsNothing(b)
<1>1. CASE UNCHANGED <<astate, arun, toAgent>>
  BY <1>1 DEF BeginsNothing, OrdersOnly
<1>2. CASE AssignStart \/ Reschedule
  <2>1. CASE BeginsRun
    BY <2>1
  <2>2. CASE UNCHANGED <<astate, arun, toAgent>>
    BY <1>1, <2>2
  <2>3. Free \cap Agents = Free /\ \A q \in Runs : Candidates(q) \subseteq Free
    BY DEF Candidates, Free
  <2>4. CASE AssignStart
    <3>1. cursor \in DOMAIN waiting /\ waiting[cursor] \in Runs /\ ~NotNeeded(waiting[cursor])
      BY <2>4 DEF AssignStart, AtWaiting, TypeOK, MasterTypeOK, JobTypeOK, LoopTypeOK
    <3>2. PICK a \in Candidates(waiting[cursor]) : StartOn(waiting[cursor], a)
      BY <2>4 DEF AssignStart
    <3>3. UNCHANGED <<failure_map, group, link, toMaster>> /\ pc' = "assign"
      BY <2>4 DEF AssignStart, AtWaiting
    <3> QED
      BY <2>3, <3>1, <3>2, <3>3 DEF BeginsRun
  <2>5. CASE Reschedule
    <3>1. resched \in Runs /\ UNCHANGED <<failure_map, group, link, toMaster>> /\ pc' = "overdue"
      BY <2>5 DEF Reschedule, TypeOK, MasterTypeOK, CallTypeOK
    <3>2. CASE ~NotNeeded(resched) /\ \E a \in Candidates(resched) : StartOn(resched, a)
      BY <2>3, <3>1, <3>2 DEF BeginsRun
    <3>3. CASE UNCHANGED <<active, agentInfo, toAgent>>
      BY <1>1, <3>3 DEF agentInfo
    <3> QED
      BY <2>5, <3>2, <3>3 DEF Reschedule
  <2> QED
    BY <1>2, <2>4, <2>5
<1>3. CASE AllRunsComplete \/ MarkWaitingFailed \/ StopBeforePass \/ AssignNotNeeded \/ AssignLater
           \/ AssignDone \/ OverdueDone \/ Listen \/ Drain \/ DrainCheckStop \/ NewGroup \/ RunUntil
           \/ RemoveStop \/ CreateStop
  BY <1>1, <1>3 DEF AllRunsComplete, MarkWaitingFailed, StopBeforePass, AssignNotNeeded, AssignLater,
     AssignDone, OverdueDone, Listen, Drain, DrainCheckStop, NewGroup, RunUntil, RemoveStop, CreateStop,
     agentInfo, netVars
<1>4. ASSUME NEW a \in Agents,
             GiveUpRun(a) \/ RestartRun(a) \/ KillOverdue(a) \/ LeaveOrDuplicate(a)
      PROVE  BeginsRun \/ \A b \in Agents : BeginsNothing(b)
  <2>1. Visit(a)
    BY <1>4 DEF GiveUpRun, RestartRun, KillOverdue, LeaveOrDuplicate
  <2>2. arun' = arun
    BY <2>1 DEF Visit
  <2>3. CASE LeaveOrDuplicate(a)
    <3>1. UNCHANGED <<astate, arun, toAgent>>
      BY <2>2, <2>3 DEF LeaveOrDuplicate
    <3> QED
      BY <1>1, <3>1
  <2>4. CASE ~LeaveOrDuplicate(a)
    <3>1. PICK V : KillAgents(V)
      BY <1>4, <2>4 DEF GiveUpRun, RestartRun, KillOverdue, KillCopies
    <3> QED
      BY <2>2, <3>1, KillBeginsNothing
  <2> QED
    BY <2>3, <2>4
<1>5. CASE StartPass \/ IdleInit
  BY <1>5, HandshakeBeginsNothing DEF StartPass, IdleInit
<1>6. CASE KillRound
  BY <1>6, RoundBeginsNothing
<1>7. CASE CloseSurplus \/ Return
  <2>1. UNCHANGED <<astate, arun, toAgent>> \/ \E S : CloseFree(S)
    BY <1>7 DEF CloseSurplus, Return, agentInfo, netVars
  <2> QED
    BY <1>1, <2>1, CloseBeginsNothing
<1>8. CASE ReadOne \/ \E a \in Agents : IdleRead(a)
  <2>1. PICK a \in Agents : ProcessMessage(a) \/ AddAgent(a)
    BY <1>8 DEF ReadOne, IdleRead, TypeOK, MasterTypeOK, LoopTypeOK
  <2> QED
    BY <2>1, MessageBeginsNothing
<1>9. ASSUME NEW r \in Runs, UpdateRun(r)
      PROVE  \A b \in Agents : BeginsNothing(b)
  BY <1>9, KillBeginsNothing DEF UpdateRun
<1> QED
  BY <1>2, <1>3, <1>4, <1>5, <1>6, <1>7, <1>8, <1>9 DEF MasterNext, RunStep, IdleStep, ProgramStep

(* The master takes attempts away; what an agent owes is only ever read.        *)
LEMMA MasterOwesLess ==
  ASSUME TypeOK, MasterNext, UNCHANGED agentVars, NEW b \in Agents, OrdersOnly(b),
         NEW r \in Runs, NEW g \in Groups, Owes(toAgent'[b], proc'[b], toMaster'[b], r, g)
  PROVE  Owes(toAgent[b], proc[b], toMaster[b], r, g)
<1> DEFINE start == Msg("START_RUN", r, g)
           fail == Msg("RUN_FAILED", r, g)
<1>1. toAgent[b] \in Seq(AgentMsg) /\ toMaster[b] \in Seq(MasterMsg) /\ proc'[b] = proc[b]
  BY DEF TypeOK, NetTypeOK, agentVars
<1>2. ~Has(<<>>, start) /\ ~Has(<<>>, fail)
  BY DEF Has
<1>3. Has(toAgent'[b], start) => Has(toAgent[b], start)
  <2>1. ASSUME NEW v \in Seq(Orders), Has(toAgent[b] \o v, start)
        PROVE  Has(toAgent[b], start)
    <3>1. v \in Seq(AgentMsg) /\ ~Has(v, start)
      <4>1. Orders \subseteq AgentMsg /\ \A m \in Orders : m # start
        BY PlainNames DEF Orders, AgentMsg, MessageNames
      <4>2. \A i \in DOMAIN v : v[i] \in Orders
        BY ElementOfSeq
      <4> QED
        BY <4>1, <4>2, SeqMonotone DEF Has
    <3> QED
      BY <1>1, <2>1, <3>1, Concat
  <2> QED
    BY <1>2, <2>1 DEF OrdersOnly
<1>4. Has(toMaster'[b], fail) => Has(toMaster[b], fail)
  <2>1. toMaster[b] # <<>> /\ Has(Tail(toMaster[b]), fail) => Has(toMaster[b], fail)
    BY <1>1, HasLess
  <2>2. ReadOrDrop(b)
    BY MasterReads
  <2> QED
    BY <1>2, <2>1, <2>2 DEF ReadOrDrop
<1> QED
  BY <1>1, <1>3, <1>4 DEF Owes

(* Sets of agents are finite, and smaller ones no larger.                     *)
LEMMA AgentSets ==
  ASSUME NEW A, A \subseteq Agents, NEW B, B \subseteq A
  PROVE  /\ Cardinality(A) \in Nat /\ Cardinality(B) \in Nat /\ Cardinality(B) <= Cardinality(A)
         /\ \A S : S \subseteq A /\ B \cap S = {} => /\ Cardinality(S) \in Nat
                                                    /\ Cardinality(B) + Cardinality(S) <= Cardinality(A)
<1>1. IsFiniteSet(A) /\ IsFiniteSet(B) /\ Cardinality(B) <= Cardinality(A)
  BY AgentsAssumption, FS_Subset
<1>2. Cardinality(A) \in Nat /\ Cardinality(B) \in Nat
  BY <1>1, FS_CardinalityType
<1>3. ASSUME NEW S, S \subseteq A, B \cap S = {}
      PROVE  Cardinality(S) \in Nat /\ Cardinality(B) + Cardinality(S) <= Cardinality(A)
  <2>1. IsFiniteSet(S) /\ Cardinality(S) \in Nat
    BY <1>1, <1>3, FS_Subset, FS_CardinalityType
  <2>2. Cardinality(B \cup S) = Cardinality(B) + Cardinality(S) - Cardinality({})
    BY <1>1, <1>3, <2>1, FS_Union
  <2>3. Cardinality(B \cup S) <= Cardinality(A)
    <3>1. (B \cup S) \in SUBSET A
      BY <1>3
    <3> QED
      BY <1>1, <3>1, FS_Subset
  <2> QED
    BY <1>2, <2>1, <2>2, <2>3, FS_EmptySet
<1> QED
  BY <1>1, <1>2, <1>3

(* A set with one agent more. *)
LEMMA OneMore ==
  ASSUME NEW A, A \subseteq Agents, NEW a \in Agents, NEW B, B \subseteq A \cup {a}
  PROVE  /\ Cardinality(A) \in Nat /\ Cardinality(B) \in Nat
         /\ Cardinality(B) <= Cardinality(A) + 1
<1>1. IsFiniteSet(A) /\ IsFiniteSet(A \cup {a}) /\ Cardinality(A \cup {a}) <= Cardinality(A) + 1
      /\ Cardinality(A) \in Nat
  <2>1. IsFiniteSet(A)
    BY AgentsAssumption, FS_Subset
  <2>2. Cardinality(A) \in Nat
    BY <2>1, FS_CardinalityType
  <2> QED
    BY <2>1, <2>2, FS_AddElement
<1>2. IsFiniteSet(B) /\ Cardinality(B) <= Cardinality(A \cup {a})
  BY <1>1, FS_Subset
<1>3. Cardinality(B) \in Nat /\ Cardinality(A \cup {a}) \in Nat
  BY <1>1, <1>2, FS_CardinalityType
<1> QED
  BY <1>1, <1>2, <1>3

(* No attempt of a later group is under way, and an agent that reports a failure *)
(* owes nothing more.                                                         *)
LEMMA OwedByOK ==
  ASSUME NEW l, NEW st, NEW r, NEW in, NEW out, NEW p, NEW w, NEW P \in Int,
         AgentOK(l, st, r, in, out, p, w, P), NEW q \in Runs, NEW g \in Groups,
         Owes(in, p, out, q, g)
  PROVE  /\ g <= P
         /\ out # <<>> /\ Head(out).type \in ResultType
              => ~Owes(in, p, Tail(out), q, g)
<1> DEFINE start == Msg("START_RUN", q, g)
           fail == Msg("RUN_FAILED", q, g)
           Line(x) == out \in {<<x>>, <<x, Ready>>, <<x, Eof>>, <<x, Ready, Eof>>}
           Sent == \E x : (x.type \in ResultType => x.grp <= P) /\ Line(x)
           AtRest == ~Has(in, start) /\ p.st # "running" /\ (out = <<>> \/ Sent)
<1>1. /\ \A m \in {Plain(t) : t \in OrderType} : m # start
      /\ Kill # start /\ Ready # fail /\ Eof # fail
      /\ Ready.type \notin ResultType /\ Eof.type \notin ResultType
  BY PlainNames, Messages DEF MessageNames, Kill, Ready, Eof, OrderType, ReplyType, ResultType
<1>2. ~Has(<<>>, start) /\ ~Has(<<>>, fail)
  BY DEF Has
<1>3. in \in Kills => ~Has(in, start)
  BY <1>1 DEF Has, Kills
<1>4. ConnectingOrders(st, in) => ~Has(in, start)
  <2>1. ConnectingOrders(st, in) => \A i \in DOMAIN in : in[i] \in {Plain(t) : t \in OrderType}
    BY DEF ConnectingOrders, OrderType
  <2> QED
    BY <1>1, <2>1 DEF Has
<1>5. \A m \in Answers(r, w, P) : m.grp <= P
  BY DEF Answers
<1>6. \A m : ConnectingAnswer(st, m) => m.type \notin ResultType
  BY Messages DEF ConnectingAnswer, ResultType
<1>7. \/ AtRest
      \/ out = <<>> /\ p = Idle /\ \E h \in Groups : Told(st, r, in, h) /\ h <= P
      \/ out = <<>> /\ ~Has(in, start) /\ p.grp <= P
  <2> HIDE DEF start, fail
  <2>1. CASE l \notin {"up", "down"}
    BY <1>2, <2>1 DEF AgentOK, OffOK, Idle
  <2>2. CASE l = "down"
    <3>1. in = <<>> /\ p = Idle
      BY <2>2 DEF AgentOK, DownOK
    <3>2. Sent
      <4>1. CASE out = <<Eof>>
        BY <1>1, <4>1
      <4>2. ASSUME NEW m, ConnectingAnswer(st, m), out = <<m, Eof>>
            PROVE  Sent
        BY <1>6, <4>2
      <4>3. CASE out = <<Ready, Eof>>
        BY <1>1, <4>3
      <4>4. ASSUME NEW m \in Answers(r, w, P), out = <<m, Eof>> \/ out = <<m, Ready, Eof>>
            PROVE  Sent
        BY <1>5, <4>4
      <4> QED
        BY <2>2, <4>1, <4>2, <4>3, <4>4 DEF AgentOK, DownOK
    <3> QED
      BY <1>2, <3>1, <3>2 DEF Idle
  <2>3. CASE l = "up"
    <3>1. CASE IsConnecting(st, in, out, p)
      <4>1. ~Has(in, start) /\ p = Idle
        BY <1>2, <1>4, <3>1 DEF IsConnecting
      <4>2. out = <<>> \/ \E m : ConnectingAnswer(st, m) /\ out = <<m>>
        BY <3>1 DEF IsConnecting
      <4> QED
        BY <1>6, <4>1, <4>2 DEF Idle
    <3>2. CASE IsFree(st, in, out, p)
      BY <1>3, <3>2 DEF IsFree, Idle
    <3>3. CASE IsTold(st, r, in, out, p, w, P)
      BY <3>3 DEF IsTold
    <3>4. CASE IsRunning(st, r, in, out, p, w, P)
      BY <1>3, <3>4 DEF IsRunning
    <3>5. CASE HasAnswered(st, r, in, out, p, w, P)
      BY <1>3, <1>5, <3>5 DEF HasAnswered
    <3>6. CASE IsReady(st, r, in, out, p, w, P)
      BY <1>1, <1>3, <1>5, <3>6 DEF IsReady, Idle
    <3> QED
      BY <2>3, <3>1, <3>2, <3>3, <3>4, <3>5, <3>6 DEF AgentOK, UpOK, IsWorking
  <2> QED
    BY <2>1, <2>2, <2>3
<1>8. CASE AtRest
  <2>1. Has(out, fail)
    BY <1>8 DEF Owes
  <2>2. Sent
    BY <1>2, <1>8, <2>1
  <2>3. PICK x : (x.type \in ResultType => x.grp <= P) /\ Line(x)
    BY <2>2
  <2>4. x = fail /\ ~Has(Tail(out), fail)
    <3>1. /\ Tail(<<x>>) = <<>> /\ Tail(<<x, Ready>>) = <<Ready>> /\ Tail(<<x, Eof>>) = <<Eof>>
          /\ Tail(<<x, Ready, Eof>>) = <<Ready, Eof>>
      BY Short
    <3>2. ~Has(<<Ready>>, fail) /\ ~Has(<<Eof>>, fail) /\ ~Has(<<Ready, Eof>>, fail)
      BY <1>1 DEF Has
    <3>3. x # fail => /\ ~Has(<<x>>, fail) /\ ~Has(<<x, Ready>>, fail) /\ ~Has(<<x, Eof>>, fail)
                      /\ ~Has(<<x, Ready, Eof>>, fail)
      BY <1>1 DEF Has
    <3> HIDE DEF fail
    <3> QED
      BY <1>2, <2>1, <2>3, <3>1, <3>2, <3>3
  <2>5. fail.type \in ResultType /\ fail.grp = g
    BY DEF Msg, ResultType
  <2> QED
    BY <1>8, <2>3, <2>4, <2>5 DEF Owes
<1>9. CASE out = <<>> /\ p = Idle /\ \E h \in Groups : Told(st, r, in, h) /\ h <= P
  <2>1. PICK h \in Groups : Told(st, r, in, h) /\ h <= P
    BY <1>9
  <2>2. Has(in, start)
    BY <1>2, <1>9 DEF Owes, Idle
  <2>3. PICK j \in 1 .. Len(in) : /\ in[j] = Msg("START_RUN", r, h)
                                  /\ \A i \in 1 .. Len(in) : i # j => in[i] = Kill
    BY <2>1 DEF Told
  <2>4. start = Msg("START_RUN", r, h)
    BY <1>1, <2>2, <2>3 DEF Has
  <2> QED
    BY <1>9, <2>1, <2>4, Messages
<1>10. CASE out = <<>> /\ ~Has(in, start) /\ p.grp <= P
  BY <1>2, <1>10 DEF Owes
<1> QED
  BY <1>7, <1>8, <1>9, <1>10

-----------------------------------------------------------------------------
(* What a step adds to the failures of a run it takes from what is under way.   *)

(* The failures counted by a step, against the attempts it takes away. *)
PaysFor ==
  \A r \in Runs :
    failure_map'[r].n + Cardinality(Held(r)') + Cardinality(Owing(r, group)')
      <= failure_map[r].n + Cardinality(Held(r)) + Cardinality(Owing(r, group))

(* When nothing is begun, what is under way for a run can only shrink. *)
LEMMA SetsShrink ==
  ASSUME TypeOK, MasterNext, UNCHANGED agentVars, \A b \in Agents : BeginsNothing(b), group' = group,
         NEW r \in Runs
  PROVE  /\ Held(r)' \subseteq Held(r) /\ Owing(r, group)' \subseteq Owing(r, group)
         /\ Held(r) \subseteq Agents /\ Owing(r, group) \subseteq Agents
<1>1. group \in Groups
  BY DEF TypeOK, MasterTypeOK, JobTypeOK
<1>2. ASSUME NEW b \in Agents, Owes(toAgent'[b], proc'[b], toMaster'[b], r, group)
      PROVE  Owes(toAgent[b], proc[b], toMaster[b], r, group)
  BY <1>1, <1>2, MasterOwesLess DEF BeginsNothing
<1> QED
  BY <1>2 DEF Held, Owing, BeginsNothing

(* A step that counts no failure takes nothing from anyone. *)
LEMMA FreePays ==
  ASSUME TypeOK, MasterNext, UNCHANGED agentVars, \A b \in Agents : BeginsNothing(b), group' = group,
         \A r \in Runs : failure_map'[r].n <= failure_map[r].n /\ failure_map'[r].n \in Nat
  PROVE  PaysFor
<1>1. ASSUME NEW r \in Runs
      PROVE  failure_map'[r].n + Cardinality(Held(r)') + Cardinality(Owing(r, group)')
               <= failure_map[r].n + Cardinality(Held(r)) + Cardinality(Owing(r, group))
  <2>1. failure_map[r].n \in Nat
    BY DEF TypeOK, MasterTypeOK, JobTypeOK
  <2>2. PICK A, B, C, D : A = Held(r) /\ B = Held(r)' /\ C = Owing(r, group) /\ D = Owing(r, group)'
    OBVIOUS
  <2>3. B \subseteq A /\ D \subseteq C /\ A \subseteq Agents /\ C \subseteq Agents
    BY <2>2, SetsShrink
  <2>4. /\ Cardinality(A) \in Nat /\ Cardinality(B) \in Nat /\ Cardinality(B) <= Cardinality(A)
        /\ Cardinality(C) \in Nat /\ Cardinality(D) \in Nat /\ Cardinality(D) <= Cardinality(C)
    BY <2>3, AgentSets
  <2> QED
    BY <2>1, <2>2, <2>4
<1> QED
  BY <1>1 DEF PaysFor

(* A failure is counted for each of S, whose attempts are over. *)
LEMMA ChargePays ==
  ASSUME TypeOK, MasterNext, UNCHANGED agentVars, \A b \in Agents : BeginsNothing(b), group' = group,
         NEW q \in Runs, NEW S, Charge(q, S),
         \/ S \subseteq Held(q) /\ Held(q)' \cap S = {}
         \/ S \subseteq Owing(q, group) /\ Owing(q, group)' \cap S = {}
  PROVE  PaysFor
<1>0. S \subseteq Agents
  BY DEF Held, Owing
<1>1. /\ Cardinality(S) \in Nat
      /\ \A r \in Runs : failure_map'[r].n = IF r = q THEN failure_map[r].n + Cardinality(S)
                                             ELSE failure_map[r].n
  BY <1>0, ChargeSettles
<1>2. ASSUME NEW r \in Runs
      PROVE  failure_map'[r].n + Cardinality(Held(r)') + Cardinality(Owing(r, group)')
               <= failure_map[r].n + Cardinality(Held(r)) + Cardinality(Owing(r, group))
  <2>1. failure_map[r].n \in Nat
    BY DEF TypeOK, MasterTypeOK, JobTypeOK
  <2>2. PICK A, B, C, D : A = Held(r) /\ B = Held(r)' /\ C = Owing(r, group) /\ D = Owing(r, group)'
    OBVIOUS
  <2>3. B \subseteq A /\ D \subseteq C /\ A \subseteq Agents /\ C \subseteq Agents
    BY <2>2, SetsShrink
  <2>4. /\ Cardinality(A) \in Nat /\ Cardinality(B) \in Nat /\ Cardinality(B) <= Cardinality(A)
        /\ Cardinality(C) \in Nat /\ Cardinality(D) \in Nat /\ Cardinality(D) <= Cardinality(C)
    BY <2>3, AgentSets
  <2>5. CASE r = q
    <3>1. \/ S \subseteq A /\ B \cap S = {}
          \/ S \subseteq C /\ D \cap S = {}
      BY <2>2, <2>5
    <3>2. \/ Cardinality(B) + Cardinality(S) <= Cardinality(A)
          \/ Cardinality(D) + Cardinality(S) <= Cardinality(C)
      BY <2>3, <3>1, AgentSets
    <3>3. failure_map'[r].n = failure_map[r].n + Cardinality(S)
      BY <1>1, <2>5
    <3> QED
      BY ONLY <1>1, <2>1, <2>2, <2>4, <3>2, <3>3
  <2>6. CASE r # q
    BY <1>1, <2>1, <2>2, <2>4, <2>6
  <2> QED
    BY <2>5, <2>6
<1> QED
  BY <1>2 DEF PaysFor

(* The agents that are killed are ACTIVE no more.                            *)
LEMMA KilledNotActive ==
  ASSUME TypeOK, NEW V, KillAgents(V), NEW q \in Runs
  PROVE  Held(q)' \cap V = {}
<1>1. PICK ok : astate' = StateAfterKill(V, ok)
  BY DEF KillAgents
<1>2. \A b \in Agents : b \in V => astate'[b] # "ACTIVE"
  BY <1>1 DEF StateAfterKill, Killable
<1> QED
  BY <1>2 DEF Held

(* The overdue loop counts only agents that are ACTIVE for the run.          *)
LEMMA OverduePays ==
  ASSUME TypeOK, ProtocolInv, MasterNext, UNCHANGED agentVars, \A b \in Agents : BeginsNothing(b),
         NEW a \in Agents, GiveUpRun(a) \/ RestartRun(a) \/ KillOverdue(a)
  PROVE  PaysFor
<1>1. Visit(a) /\ astate[a] = "ACTIVE" /\ arun[a] \in Runs /\ group' = group
  BY DEF GiveUpRun, RestartRun, KillOverdue, Visit, ToVisit, TypeOK, MasterTypeOK, AgentInfoTypeOK
<1>2. PICK q \in Runs : q = arun[a]
  BY <1>1
<1>3. PICK V : /\ V = Copies(q) \/ V = {a}
               /\ KillAgents(V) /\ Charge(q, V)
  BY <1>2 DEF GiveUpRun, RestartRun, KillOverdue, KillCopies
<1>4. V \subseteq Held(q)
  <2>1. Copies(q) \subseteq Held(q)
    BY ExpectedActive DEF Copies, Held
  <2>2. {a} \subseteq Held(q)
    BY <1>1, <1>2 DEF Held
  <2> QED
    BY <1>3, <2>1, <2>2
<1>5. Held(q)' \cap V = {}
  BY <1>3, KilledNotActive
<1> QED
  BY <1>1, <1>3, <1>4, <1>5, ChargePays

(* A reported failure is what the agent owed.                                *)
LEMMA FailurePays ==
  ASSUME TypeOK, ProtocolInv, MasterNext, UNCHANGED agentVars, \A b \in Agents : BeginsNothing(b),
         NEW a \in Agents, OnFailed(a)
  PROVE  PaysFor
<1>1. /\ toMaster[a] # <<>> /\ Head(toMaster[a]).type = "RUN_FAILED" /\ Head(toMaster[a]).grp = group
      /\ Charge(Head(toMaster[a]).run, {a}) /\ Read(a) /\ group' = group /\ toAgent' = toAgent
  BY DEF OnFailed, IsResult, HeadIs
<1>2. /\ Head(toMaster[a]) \in MasterMsg /\ Head(toMaster[a]).run \in Runs /\ group \in Groups
      /\ toMaster[a] \in Seq(MasterMsg) /\ toMaster'[a] = Tail(toMaster[a])
  BY <1>1, HeadType DEF TypeOK, NetTypeOK, MasterTypeOK, JobTypeOK, ResultType, Read
<1>3. PICK q \in Runs : q = Head(toMaster[a]).run
  BY <1>2
<1>4. Head(toMaster[a]) = Msg("RUN_FAILED", q, group)
  BY <1>1, <1>2, <1>3 DEF MasterMsg, Plain, Msg, ReplyType, ResultType
<1>5. Owes(toAgent[a], proc[a], toMaster[a], q, group)
  <2>1. Has(toMaster[a], Head(toMaster[a]))
    BY <1>1, <1>2, HasLess
  <2> QED
    BY <1>4, <2>1 DEF Owes
<1>6. ~Owes(toAgent[a], proc[a], Tail(toMaster[a]), q, group)
  <2>1. PICK l, st, r, in, out, p, w, P :
          /\ l = link[a] /\ st = astate[a] /\ r = arun[a] /\ in = toAgent[a] /\ out = toMaster[a]
          /\ p = proc[a] /\ w = Expected(a) /\ P = LastPast
    OBVIOUS
  <2>2. AgentOK(l, st, r, in, out, p, w, P) /\ P \in Int
    BY <2>1, <1>2, MaxGroupAssumption DEF ProtocolInv, OK, LastPast, Groups
  <2>3. PICK g \in Groups : g = group
    BY <1>2
  <2>4. Owes(in, p, out, q, g) /\ out # <<>> /\ Head(out).type \in ResultType
    BY <1>1, <1>5, <2>1, <2>3 DEF ResultType
  <2>5. ~Owes(in, p, Tail(out), q, g)
    BY ONLY <2>2, <2>4, q \in Runs, g \in Groups, OwedByOK
  <2> QED
    BY <2>1, <2>3, <2>5
<1>7. {a} \subseteq Owing(q, group) /\ Owing(q, group)' \cap {a} = {}
  <2>1. proc' = proc
    BY DEF agentVars
  <2> QED
    BY <1>1, <1>2, <1>5, <1>6, <2>1 DEF Owing
<1> QED
  BY <1>1, <1>3, <1>7, ChargePays

(* Every step of the master that begins nothing, within a group.              *)
LEMMA MasterPays ==
  ASSUME TypeOK, TypeOK', ProtocolInv, MasterNext, UNCHANGED agentVars, ~NewGroup,
         \A b \in Agents : BeginsNothing(b)
  PROVE  PaysFor /\ group' = group
<1>0. [Next]_vars
  BY DEF Next
<1>1. group' = group
  BY <1>0, StatusFalls, Zenon
<1>2. \A r \in Runs : failure_map[r].n \in Nat /\ failure_map'[r].n \in Nat
  BY DEF TypeOK, MasterTypeOK, JobTypeOK
<1>3. CASE failure_map' = failure_map \/ RunUntil
  <2>1. \A r \in Runs : failure_map'[r].n <= failure_map[r].n
    BY <1>2, <1>3 DEF RunUntil, NoFailure
  <2> QED
    BY <1>1, <1>2, <2>1, FreePays
<1>4. CASE \E a \in Agents : GiveUpRun(a) \/ RestartRun(a) \/ KillOverdue(a)
  BY <1>1, <1>4, OverduePays
<1>5. ASSUME NEW a \in Agents, ProcessMessage(a) \/ AddAgent(a)
      PROVE  PaysFor
  <2>1. CASE OnFailed(a)
    BY <2>1, FailurePays
  <2>2. CASE ~OnFailed(a)
    <3>1. failure_map' = failure_map
      BY <1>5, <2>2 DEF ProcessMessage, AddAgent, OnLost, CloseAgent, OnHandshake, OnOldResult, OnFinished,
                        OnResultOfFinishedRun, OnKilled, jobVars
    <3> QED
      BY <1>3, <3>1
  <2> QED
    BY <2>1, <2>2
<1>6. CASE ReadOne \/ \E a \in Agents : IdleRead(a)
  <2>1. PICK a \in Agents : ProcessMessage(a) \/ AddAgent(a)
    BY <1>6 DEF ReadOne, IdleRead, TypeOK, MasterTypeOK, LoopTypeOK
  <2>2. ProcessMessage(a) \/ AddAgent(a) => PaysFor
    BY <1>5, Zenon
  <2> QED
    BY <1>1, <2>1, <2>2, Zenon
<1>7. CASE AllRunsComplete \/ MarkWaitingFailed \/ StopBeforePass \/ StartPass \/ AssignNotNeeded
           \/ AssignStart \/ AssignLater \/ AssignDone \/ (\E a \in Agents : LeaveOrDuplicate(a))
           \/ Reschedule \/ OverdueDone \/ CloseSurplus \/ Listen \/ KillRound \/ Drain
           \/ DrainCheckStop \/ Return \/ IdleInit \/ (\E r \in Runs : UpdateRun(r)) \/ RemoveStop
           \/ CreateStop
  <2>1. failure_map' = failure_map
    BY <1>7 DEF AllRunsComplete, MarkWaitingFailed, StopBeforePass, StartPass, InitAgents, AssignNotNeeded,
       AssignStart, AssignLater, AssignDone, LeaveOrDuplicate, Reschedule, OverdueDone, CloseSurplus,
       CloseFree, Listen, KillRound, Drain, DrainCheckStop, Return, IdleInit, UpdateRun, RemoveStop,
       CreateStop, jobVars
  <2> QED
    BY <1>3, <2>1
<1> QED
  BY <1>1, <1>3, <1>4, <1>6, <1>7 DEF MasterNext, RunStep, IdleStep, ProgramStep

(* A step of an agent begins no attempt and leaves no more to count.          *)
LEMMA AgentCounts ==
  ASSUME TypeOK, AgentNext, UNCHANGED masterVars, NEW r \in Runs
  PROVE  failure_map'[r].n + Cardinality(Held(r)') + Cardinality(Owing(r, group)')
           <= failure_map[r].n + Cardinality(Held(r)) + Cardinality(Owing(r, group))
<1>1. UNCHANGED <<failure_map, group, astate, arun>> /\ failure_map[r].n \in Nat /\ group \in Groups
  BY DEF masterVars, jobVars, agentInfo, TypeOK, MasterTypeOK, JobTypeOK
<1>2. Held(r)' = Held(r)
  BY <1>1 DEF Held
<1>3. PICK a \in Agents : Connect(a) \/ AgentStep(a) \/ Disappear(a)
  BY DEF AgentNext
<1>4. Owing(r, group)' \subseteq Owing(r, group)
  BY <1>1, <1>3, AgentOwesLess DEF Owing
<1>5. PICK A, C, D : A = Held(r) /\ C = Owing(r, group) /\ D = Owing(r, group)'
  OBVIOUS
<1>6. A \subseteq Agents /\ C \subseteq Agents /\ D \subseteq C
  BY <1>4, <1>5 DEF Held, Owing
<1>7. /\ Cardinality(A) \in Nat /\ Cardinality(C) \in Nat /\ Cardinality(D) \in Nat
      /\ Cardinality(D) <= Cardinality(C)
  BY <1>6, AgentSets
<1>8. failure_map'[r].n = failure_map[r].n
  BY <1>1
<1>9. Cardinality(Held(r)') = Cardinality(A)
  BY <1>2, <1>5
<1> QED
  BY <1>1, <1>5, <1>7, <1>8, <1>9

(* What sending a run to a free agent adds to what is under way.              *)
LEMMA StartAdds ==
  ASSUME TypeOK, UNCHANGED agentVars, BeginsRun, NEW q \in Runs, NEW a \in Free, StartOn(q, a), NEW r \in Runs
  PROVE  /\ Held(r)' \subseteq Held(r) \cup {a} /\ (r # q => Held(r)' \subseteq Held(r))
         /\ Owing(r, group)' \subseteq Owing(r, group) \cup {a}
         /\ r # q => Owing(r, group)' \subseteq Owing(r, group)
<1>1. /\ a \in Agents /\ group \in Groups
      /\ astate \in [Agents -> AgentState] /\ arun \in [Agents -> Runs \cup {NoRun}]
      /\ toAgent \in [Agents -> Seq(AgentMsg)]
      /\ UNCHANGED <<group, toMaster, proc>>
  BY DEF Free, TypeOK, NetTypeOK, MasterTypeOK, JobTypeOK, AgentInfoTypeOK, BeginsRun, agentVars
<1>2. Held(r)' \subseteq Held(r) \cup {a} /\ (r # q => Held(r)' \subseteq Held(r))
  BY <1>1 DEF Held, StartOn, SetState
<1>3. ASSUME NEW b \in Agents, b # a \/ r # q, Owes(toAgent'[b], proc'[b], toMaster'[b], r, group)
      PROVE  Owes(toAgent[b], proc[b], toMaster[b], r, group)
  <2> DEFINE start == Msg("START_RUN", r, group)
             sent == IF b = a THEN <<Msg("START_RUN", q, group)>> ELSE <<>>
  <2>1. toAgent'[b] = toAgent[b] \/ toAgent'[b] = toAgent[b] \o sent
    BY SendingAt DEF StartOn
  <2>2. Msg("START_RUN", q, group) \in AgentMsg
    BY <1>1 DEF AgentMsg, Msg
  <2>3. sent \in Seq(AgentMsg) /\ ~Has(sent, start)
    <3>1. CASE b = a
      <4>1. Msg("START_RUN", q, group) # start
        BY <1>3, <3>1 DEF Msg
      <4> QED
        BY <2>2, <3>1, <4>1 DEF Has
    <3>2. CASE b # a
      BY <3>2 DEF Has
    <3> QED
      BY <3>1, <3>2
  <2>4. Has(toAgent'[b], start) => Has(toAgent[b], start)
    <3> HIDE DEF sent, start
    <3>1. Has(toAgent[b] \o sent, start) => Has(toAgent[b], start)
      BY <1>1, <2>3, Concat
    <3> QED
      BY <2>1, <3>1
  <2> QED
    BY <1>1, <1>3, <2>4 DEF Owes
<1>4. Owing(r, group)' \subseteq Owing(r, group) \cup {a} /\ (r # q => Owing(r, group)' \subseteq Owing(r, group))
  BY <1>1, <1>3 DEF Owing
<1> QED
  BY <1>2, <1>4

-----------------------------------------------------------------------------
(* How often a run may fail.                                                *)

(* A run that has failed max_n_failure times is begun no more.  Until then every *)
(* agent may hold a copy of it and owe one more failure.                       *)
MostFailures == MaxRunFail - 1 + 2 * Cardinality(Agents)
Bounded(r) == failure_map[r].n + Cardinality(Held(r)) + Cardinality(Owing(r, group)) <= MostFailures
BoundInv == \A r \in Runs : Bounded(r)

(* A set of agents has at most as many members as there are agents.           *)
LEMMA NoMoreThanAgents ==
  ASSUME NEW A, A \subseteq Agents
  PROVE  /\ Cardinality(A) \in Nat /\ Cardinality(Agents) \in Nat
         /\ Cardinality(A) <= Cardinality(Agents)
BY AgentSets

(* However many copies of a run there are, they fit as long as it has not failed *)
(* too often.                                                                 *)
LEMMA FewFailuresFit ==
  ASSUME NEW n \in Nat, n < MaxRunFail, NEW A, A \subseteq Agents, NEW C, C \subseteq Agents
  PROVE  n + Cardinality(A) + Cardinality(C) <= MostFailures
<1>1. /\ Cardinality(A) \in Nat /\ Cardinality(C) \in Nat /\ Cardinality(Agents) \in Nat
      /\ Cardinality(A) <= Cardinality(Agents) /\ Cardinality(C) <= Cardinality(Agents)
  BY NoMoreThanAgents
<1> QED
  BY <1>1, MaxRunFailAssumption DEF MostFailures

(* A run that is begun has failed less than max_n_failure times.              *)
LEMMA StartFits ==
  ASSUME TypeOK, MasterNext, UNCHANGED agentVars, BeginsRun, NEW r \in Runs, Bounded(r)
  PROVE  Bounded(r)'
<1>1. PICK q \in Runs, a \in Free : StartOn(q, a) /\ ~NotNeeded(q)
  BY DEF BeginsRun
<1>2. failure_map' = failure_map /\ failure_map[r].n \in Nat
  BY DEF BeginsRun, TypeOK, MasterTypeOK, JobTypeOK
<1>3. PICK A, B, C, D : A = Held(r) /\ B = Held(r)' /\ C = Owing(r, group) /\ D = Owing(r, group)'
  OBVIOUS
<1>4. A \subseteq Agents /\ B \subseteq Agents /\ C \subseteq Agents /\ D \subseteq Agents
  BY <1>3 DEF Held, Owing
<1>5. CASE r = q
  <2>1. failure_map[r].n < MaxRunFail
    BY <1>1, <1>2, <1>5, MaxRunFailAssumption DEF NotNeeded, GivenUp
  <2>2. failure_map[r].n + Cardinality(B) + Cardinality(D) <= MostFailures
    BY <1>2, <1>4, <2>1, FewFailuresFit
  <2> QED
    BY <1>2, <1>3, <2>2 DEF Bounded
<1>6. CASE r # q
  <2>1. B \subseteq A /\ D \subseteq C
    BY <1>1, <1>3, <1>6, StartAdds
  <2>2. /\ Cardinality(A) \in Nat /\ Cardinality(B) \in Nat /\ Cardinality(B) <= Cardinality(A)
        /\ Cardinality(C) \in Nat /\ Cardinality(D) \in Nat /\ Cardinality(D) <= Cardinality(C)
    BY <1>4, <2>1, AgentSets
  <2>3. failure_map[r].n + Cardinality(A) + Cardinality(C) <= MostFailures
    BY <1>3 DEF Bounded
  <2>4. MostFailures \in Int
    BY <1>4, NoMoreThanAgents, MaxRunFailAssumption DEF MostFailures
  <2>5. failure_map[r].n + Cardinality(B) + Cardinality(D) <= MostFailures
    BY ONLY <1>2, <2>2, <2>3, <2>4
  <2> QED
    BY <1>2, <1>3, <2>5 DEF Bounded
<1> QED
  BY <1>5, <1>6

(* In a new group no run has failed.                                         *)
LEMMA GroupFits ==
  ASSUME NewGroup, NEW r \in Runs
  PROVE  Bounded(r)'
<1>1. failure_map'[r].n = 0
  BY DEF NewGroup, NoFailure
<1>2. PICK B, D : B = Held(r)' /\ D = Owing(r, group)'
  OBVIOUS
<1>3. B \subseteq Agents /\ D \subseteq Agents
  BY <1>2 DEF Held, Owing
<1>4. 0 + Cardinality(B) + Cardinality(D) <= MostFailures
  BY <1>3, FewFailuresFit, MaxRunFailAssumption
<1> QED
  BY <1>1, <1>2, <1>4 DEF Bounded

(* Every other step takes its failures from the attempts under way.           *)
LEMMA PaidFits ==
  ASSUME TypeOK, TypeOK', NEW r \in Runs, Bounded(r),
         failure_map'[r].n + Cardinality(Held(r)') + Cardinality(Owing(r, group)')
           <= failure_map[r].n + Cardinality(Held(r)) + Cardinality(Owing(r, group))
  PROVE  Bounded(r)'
<1>1. PICK A, B, C, D : A = Held(r) /\ B = Held(r)' /\ C = Owing(r, group) /\ D = Owing(r, group)'
  OBVIOUS
<1>2. A \subseteq Agents /\ B \subseteq Agents /\ C \subseteq Agents /\ D \subseteq Agents
  BY <1>1 DEF Held, Owing
<1>3. /\ Cardinality(A) \in Nat /\ Cardinality(B) \in Nat
      /\ Cardinality(C) \in Nat /\ Cardinality(D) \in Nat /\ Cardinality(Agents) \in Nat
  BY <1>2, NoMoreThanAgents
<1>4. failure_map[r].n \in Nat /\ failure_map'[r].n \in Nat
  BY DEF TypeOK, MasterTypeOK, JobTypeOK
<1>5. MostFailures \in Int
  BY <1>3, MaxRunFailAssumption DEF MostFailures
<1>6. failure_map[r].n + Cardinality(A) + Cardinality(C) <= MostFailures
  BY <1>1 DEF Bounded
<1>7. failure_map'[r].n + Cardinality(B) + Cardinality(D) <= failure_map[r].n + Cardinality(A) + Cardinality(C)
  BY <1>1
<1>8. failure_map'[r].n + Cardinality(B) + Cardinality(D) <= MostFailures
  BY ONLY <1>3, <1>4, <1>5, <1>6, <1>7
<1> QED
  BY <1>1, <1>8 DEF Bounded

(* Every step keeps the failures bounded.                                    *)
LEMMA BoundStep ==
  ASSUME TypeOK, TypeOK', ProtocolInv, BoundInv, [Next]_vars
  PROVE  BoundInv'
<1> SUFFICES ASSUME NEW r \in Runs
             PROVE  Bounded(r)'
  BY DEF BoundInv
<1>1. Bounded(r)
  BY DEF BoundInv
<1>2. CASE MasterNext /\ UNCHANGED agentVars
  <2>1. CASE NewGroup
    BY <2>1, GroupFits
  <2>2. CASE BeginsRun
    BY <1>1, <1>2, <2>2, StartFits
  <2>3. CASE ~NewGroup /\ ~BeginsRun
    <3>1. \A b \in Agents : BeginsNothing(b)
      BY <1>2, <2>3, MasterBegins
    <3>2. PaysFor
      BY <1>2, <2>3, <3>1, MasterPays
    <3> QED
      BY <1>1, <3>2, PaidFits DEF PaysFor
  <2> QED
    BY <2>1, <2>2, <2>3
<1>3. CASE AgentNext /\ UNCHANGED masterVars
  BY <1>1, <1>3, AgentCounts, PaidFits
<1>4. CASE UNCHANGED vars
  BY <1>1, <1>4 DEF Bounded, Held, Owing, vars, masterVars, jobVars, agentInfo, netVars, agentVars
<1> QED
  BY <1>2, <1>3, <1>4 DEF Next

(* The bound holds in the beginning.                                         *)
LEMMA InitBound ==
  ASSUME Init
  PROVE  BoundInv
<1>1. ASSUME NEW r \in Runs
      PROVE  Bounded(r)
  <2>1. failure_map[r].n = 0
    BY DEF Init, MasterInit, NoFailure
  <2>2. Held(r) \subseteq Agents /\ Owing(r, group) \subseteq Agents
    BY DEF Held, Owing
  <2>3. 0 + Cardinality(Held(r)) + Cardinality(Owing(r, group)) <= MostFailures
    BY <2>2, FewFailuresFit, MaxRunFailAssumption
  <2> QED
    BY <2>1, <2>3 DEF Bounded
<1> QED
  BY <1>1 DEF BoundInv

(* What is counted for a run is never more than the bound.                    *)
FailuresBounded == \A r \in Runs : failure_map[r].n <= MostFailures

(* FailuresAreBounded: whatever agents, overdue runs, late answers and pest.stp  *)
(* do, no run counts more failures in a group than one less than max_run_fail    *)
(* and two for each agent: those that were begun while it still might be tried.  *)
THEOREM FailuresAreBounded == Spec => []FailuresBounded
<1>1. TypeOK /\ BoundInv => FailuresBounded
  <2> SUFFICES ASSUME TypeOK, BoundInv, NEW r \in Runs
               PROVE  failure_map[r].n <= MostFailures
    BY DEF FailuresBounded
  <2>1. PICK A, C : A = Held(r) /\ C = Owing(r, group)
    OBVIOUS
  <2>2. A \subseteq Agents /\ C \subseteq Agents
    BY <2>1 DEF Held, Owing
  <2>3. Cardinality(A) \in Nat /\ Cardinality(C) \in Nat /\ Cardinality(Agents) \in Nat
    BY <2>2, NoMoreThanAgents
  <2>4. failure_map[r].n \in Nat /\ MostFailures \in Int
    BY <2>3, MaxRunFailAssumption DEF MostFailures, TypeOK, MasterTypeOK, JobTypeOK
  <2>5. failure_map[r].n + Cardinality(A) + Cardinality(C) <= MostFailures
    BY <2>1 DEF BoundInv, Bounded
  <2> QED
    BY ONLY <2>3, <2>4, <2>5
<1>2. TypeOK /\ TypeOK' /\ ProtocolInv /\ BoundInv /\ [Next]_vars => BoundInv'
  BY BoundStep
<1> QED
  BY <1>1, <1>2, InitBound, TypeCorrect, Protocol, PTL DEF Spec

-----------------------------------------------------------------------------
(* The status byte.                                                         *)

(* Without pest.stp only failures lower a status byte, each by one.           *)
NoStopping == stop = FALSE /\ pc # "stopped" /\ killRet # "stopped" /\ listenRet # "stopped"
CountInv ==
  /\ NoStopping
  /\ pc = "queued" => \A r \in Runs : status[r] >= 0
  /\ \A r \in Runs : status[r] < 1 => -status[r] <= failure_map[r].n

(* Nobody creates pest.stp.                                                  *)
LEMMA NeverStopped ==
  ASSUME AllowStop = FALSE, NoStopping, [Next]_vars
  PROVE  NoStopping' /\ ~MarkWaitingFailed
<1> USE DEF NoStopping
<1>1. ~MarkWaitingFailed
  BY DEF MarkWaitingFailed
<1>2. CASE UNCHANGED masterVars
  BY <1>1, <1>2 DEF masterVars, loopVars, envVars
<1>3. CASE RunStep
  <2>1. CASE AllRunsComplete \/ StopBeforePass \/ StartPass
    BY <1>1, <2>1 DEF AllRunsComplete, StopBeforePass, StartPass, RunsRemain, GoTo, CallKillAll, envVars
  <2>2. CASE AssignNotNeeded \/ AssignStart \/ AssignLater \/ AssignDone \/ OverdueDone
    BY <1>1, <2>2 DEF AssignNotNeeded, AssignStart, AssignLater, AssignDone, OverdueDone, AtWaiting, ToListen,
                envVars, loopVars
  <2>3. CASE \E a \in Agents : GiveUpRun(a) \/ RestartRun(a) \/ KillOverdue(a) \/ LeaveOrDuplicate(a)
    BY <1>1, <2>3 DEF GiveUpRun, RestartRun, KillOverdue, LeaveOrDuplicate, Visit, envVars
  <2>4. CASE Reschedule \/ CloseSurplus \/ KillRound \/ Drain \/ DrainCheckStop \/ Return
    BY <1>1, <2>4 DEF Reschedule, CloseSurplus, KillRound, Drain, DrainCheckStop, Return, GoTo, CallKillAll,
                envVars, loopVars
  <2>5. CASE Listen \/ ReadOne
    BY <1>1, <2>5 DEF Listen, ReadOne, EndListen, envVars
  <2> QED
    BY <1>1, <1>3, <2>1, <2>2, <2>3, <2>4, <2>5 DEF RunStep
<1>4. CASE IdleStep \/ ProgramStep \/ CreateStop
  BY <1>1, <1>4 DEF IdleStep, IdleInit, IdleRead, ProgramStep, NewGroup, UpdateRun, RunUntil, RemoveStop, CreateStop,
              GoTo, envVars, loopVars
<1> QED
  BY <1>1, <1>2, <1>3, <1>4 DEF Next, MasterNext, vars

(* A queued group has no failures yet.                                       *)
LEMMA QueuedIsFresh ==
  ASSUME TypeOK, ProtocolInv, RunsInv, CountInv, [Next]_vars, pc' = "queued"
  PROVE  \A r \in Runs : status'[r] >= 0
<1>1. CASE UNCHANGED masterVars
  BY <1>1 DEF masterVars, jobVars, CountInv
<1>2. CASE NewGroup
  BY <1>2 DEF NewGroup
<1>3. ASSUME NEW q \in Runs, UpdateRun(q)
      PROVE  \A r \in Runs : status'[r] >= 0
  <2>1. pc = "queued" /\ \A r \in Runs : status'[r] = IF r = q THEN 1 ELSE status[r]
    BY <1>3 DEF UpdateRun, TypeOK, MasterTypeOK, JobTypeOK
  <2> QED
    BY <2>1 DEF CountInv
<1>4. CASE IdleStep
  <2>1. pc = "queued"
    BY <1>4 DEF IdleStep, IdleInit, IdleRead
  <2>2. status' = status
    BY <1>4, <2>1, IdleLeavesQueuedRuns
  <2> QED
    BY <2>1, <2>2 DEF CountInv
<1>5. ~(RunUntil \/ RemoveStop)
  BY DEF RunUntil, RemoveStop, GoTo
<1>6. CASE RunStep
  <2>1. Return \/ InCall'
    BY <1>6, RunStepStays
  <2> QED
    BY <2>1 DEF InCall, Return, GoTo
<1>7. CASE CreateStop
  BY <1>7 DEF CreateStop
<1> QED
  BY <1>1, <1>2, <1>3, <1>4, <1>5, <1>6, <1>7 DEF Next, MasterNext, ProgramStep, vars

(* Every step counts a failure in memory as often as in storage.             *)
LEMMA CountStep ==
  ASSUME AllowStop = FALSE, TypeOK, TypeOK', ProtocolInv, RunsInv, CountInv, [Next]_vars
  PROVE  CountInv'
<1>1. NoStopping' /\ ~MarkWaitingFailed
  BY NeverStopped DEF CountInv
<1>2. pc' = "queued" => \A r \in Runs : status'[r] >= 0
  BY QueuedIsFresh
<1>3. ASSUME NEW r \in Runs, status'[r] < 1
      PROVE  -status'[r] <= failure_map'[r].n
  <2>1. /\ status[r] \in Int /\ failure_map[r].n \in Nat /\ status'[r] \in Int /\ failure_map'[r].n \in Nat
        /\ status[r] < 1 => -status[r] <= failure_map[r].n
    BY DEF TypeOK, MasterTypeOK, JobTypeOK, CountInv
  <2>2. RecordStep
    BY NextRecord
  <2>3. CASE UNCHANGED <<failure_map, status, group>>
    BY <1>3, <2>1, <2>3
  <2>4. ASSUME NEW q \in Runs, NEW S \in SUBSET Agents, Charge(q, S)
        PROVE  -status'[r] <= failure_map'[r].n
    <3>1. PICK k : k = Cardinality(S)
      OBVIOUS
    <3>2. k \in Nat
      BY <3>1, AgentsAssumption, FS_Subset, FS_CardinalityType
    <3>3. /\ failure_map'[r].n = IF r = q THEN failure_map[r].n + k ELSE failure_map[r].n
          /\ status'[r] = IF r = q /\ status[r] < 1 THEN status[r] - k ELSE status[r]
      BY <2>4, <3>1 DEF Charge, TypeOK, MasterTypeOK, JobTypeOK
    <3> QED
      BY ONLY <1>3, <2>1, <3>2, <3>3
  <2>5. ASSUME NEW q \in Runs, FinishStep(q)
        PROVE  -status'[r] <= failure_map'[r].n
    <3>1. failure_map' = failure_map /\ status'[r] = IF r = q THEN 1 ELSE status[r]
      BY <2>5 DEF FinishStep, TypeOK, MasterTypeOK, JobTypeOK
    <3> QED
      BY <1>3, <2>1, <3>1
  <2>6. CASE NewGroup
    BY <2>6 DEF NewGroup, NoFailure
  <2>7. CASE RunUntil
    <3>1. failure_map'[r].n = 0 /\ status' = status /\ pc = "queued"
      BY <2>7 DEF RunUntil, NoFailure
    <3>2. status[r] >= 0
      BY <3>1 DEF CountInv
    <3> QED
      BY ONLY <2>1, <3>1, <3>2
  <2> QED
    BY <1>1, <2>2, <2>3, <2>4, <2>5, <2>6, <2>7 DEF RecordStep
<1> QED
  BY <1>1, <1>2, <1>3 DEF CountInv

(* So it is in the beginning.                                                *)
LEMMA InitCount == Init => CountInv
<1> SUFFICES ASSUME Init
             PROVE  CountInv
  OBVIOUS
<1>1. \A r \in Runs : status[r] = 0 /\ failure_map[r].n = 0
  BY DEF Init, MasterInit, NoFailure
<1>2. NoStopping
  BY DEF Init, MasterInit, NoStopping
<1> QED
  BY <1>1, <1>2 DEF CountInv

(* FailureBytesAreBounded: unless the user stops the program, failures bring the *)
(* status byte of a run no further down than one less than max_run_fail and two  *)
(* for each agent: how far it is from the values that mean cancelled, and from    *)
(* overflow, depends on the number of agents and not on how long the call lasts.  *)
THEOREM FailureBytesAreBounded ==
  ASSUME AllowStop = FALSE
  PROVE  Spec => []FailureBytesBounded
<1>1. TypeOK /\ FailuresBounded /\ CountInv => FailureBytesBounded
  <2> SUFFICES ASSUME TypeOK, FailuresBounded, CountInv, NEW r \in Runs
               PROVE  status[r] > -(MaxRunFail + 2 * Cardinality(Agents))
    BY DEF FailureBytesBounded
  <2>1. status[r] \in Int /\ failure_map[r].n \in Nat /\ Cardinality(Agents) \in Nat
    BY NoMoreThanAgents DEF TypeOK, MasterTypeOK, JobTypeOK
  <2>2. /\ status[r] < 1 => -status[r] <= failure_map[r].n
        /\ failure_map[r].n <= MaxRunFail - 1 + 2 * Cardinality(Agents)
    BY DEF CountInv, FailuresBounded, MostFailures
  <2> QED
    BY ONLY <2>1, <2>2, MaxRunFailAssumption
<1>2. TypeOK /\ TypeOK' /\ ProtocolInv /\ RunsInv /\ CountInv /\ [Next]_vars => CountInv'
  BY CountStep
<1> QED
  BY <1>1, <1>2, InitCount, TypeCorrect, Protocol, RunsAreKnown, FailuresAreBounded, PTL DEF Spec

(* PantherKeepsContractUnstopped: with so few agents and a max_run_fail so small *)
(* that the bound stays above the reserved values, run_until implements the      *)
(* contract whatever the agents do.                                            *)
THEOREM PantherKeepsContractUnstopped ==
  ASSUME AllowStop = FALSE, MaxRunFail + 2 * Cardinality(Agents) <= 100
  PROVE  Spec => KeepsContract
<1>1. TypeOK /\ FailureBytesBounded => NoneReserved
  <2> SUFFICES ASSUME TypeOK, FailureBytesBounded, NEW r \in Runs
               PROVE  status[r] > -100
    BY DEF NoneReserved
  <2>1. status[r] \in Int /\ Cardinality(Agents) \in Nat
    BY NoMoreThanAgents DEF TypeOK, MasterTypeOK, JobTypeOK
  <2>2. status[r] > -(MaxRunFail + 2 * Cardinality(Agents))
    BY DEF FailureBytesBounded
  <2> QED
    BY <2>1, <2>2, MaxRunFailAssumption
<1> QED
  BY <1>1, TypeCorrect, FailureBytesAreBounded, PantherKeepsContract, PTL
=============================================================================
