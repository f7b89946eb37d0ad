-------------------------- MODULE RunStorageProofs --------------------------
(***************************************************************************)
(* Theorems about the run storage file, for any number of runs and any set  *)
(* of parameter values.                                                     *)
(***************************************************************************)
EXTENDS RunStorage, TLAPS

-----------------------------------------------------------------------------
(* Status bytes. *)

(* How often a run may have failed.                                          *)
LEMMA CountsAreNumbers == \A k \in FailureCounts : k \in Nat /\ k > 0
BY FailingAssumption DEF FailureCounts

LEMMA CountsFit == ASSUME Failing \subseteq 0 .. 127 PROVE \A k \in FailureCounts : -k \in -128 .. -1
<1>1. \A j \in 0 .. 127 : -(j + 1) \in -128 .. -1
  OBVIOUS
<1> QED BY <1>1 DEF FailureCounts

(* Byte yields an int8_t.                                                    *)
LEMMA ByteType == \A x \in Int : Byte(x) \in -128 .. 127
BY DEF Byte

(* A number that fits into an int8_t is stored as it is.                     *)
LEMMA ByteSmall == \A x \in -128 .. 127 : Byte(x) = x
BY DEF Byte

(* The runs in the file are among those the model has records for.           *)
LEMMA StoredIds == TypeOK => Stored \subseteq Ids
BY MaxRunsAssumption DEF TypeOK, Stored, Ids

(* Every write of the program keeps the types; fields are written one by one. *)
LEMMA FieldType ==
  ASSUME TypeOK, NEW i \in Ids
  PROVE  /\ \A s \in -128 .. 127 : [rec EXCEPT ![i].st = s] \in [Ids -> Record]
         /\ \A p \in Bytes : [rec EXCEPT ![i].par = p] \in [Ids -> Record]
         /\ \A o \in Bytes : [rec EXCEPT ![i].obs = o] \in [Ids -> Record]
         /\ \A s \in -128 .. 127, p \in Bytes :
              [rec EXCEPT ![i] = [@ EXCEPT !.st = s, !.par = p]] \in [Ids -> Record]
<1>1. rec \in [Ids -> Record] /\ rec[i] \in Record
  BY DEF TypeOK
<1>2. /\ \A s \in -128 .. 127 : [rec[i] EXCEPT !.st = s] \in Record
      /\ \A p \in Bytes : [rec[i] EXCEPT !.par = p] \in Record
      /\ \A o \in Bytes : [rec[i] EXCEPT !.obs = o] \in Record
      /\ \A s \in -128 .. 127, p \in Bytes : [rec[i] EXCEPT !.st = s, !.par = p] \in Record
  BY <1>1 DEF Record
<1> QED BY <1>1, <1>2

(* The initial state is well-typed.                                          *)
LEMMA InitType == Init => TypeOK
<1> SUFFICES ASSUME Init PROVE TypeOK
  OBVIOUS
<1>1. Blank \in Bytes /\ Zero \in Bytes
  BY DEF Bytes
<1>2. NoRecord \in Record
  BY <1>1 DEF NoRecord, Record
<1>3. rec \in [Ids -> Record]
  BY <1>2 DEF Init
<1>4. call \in [id : Nat, par : Bytes, obs : Bytes, op : OpNames]
  BY <1>1 DEF Init, OpNames
<1>5. buf \in [id : Nat, par : Bytes, obs : Bytes]
  BY <1>1 DEF Init
<1> QED BY <1>3, <1>4, <1>5, MaxRunsAssumption DEF Init, TypeOK, Steps

(* reset writes a well-typed file.                                           *)
LEMMA ResetType == TypeOK /\ Reset => TypeOK'
<1> SUFFICES ASSUME TypeOK, Reset PROVE TypeOK'
  OBVIOUS
<1>1. Blank \in Bytes /\ Zero \in Bytes
  BY DEF Bytes
<1>2. NoRecord \in Record
  BY <1>1 DEF NoRecord, Record
<1>3. rec' \in [Ids -> Record]
  BY <1>2 DEF Reset
<1>4. buf' \in [id : Nat, par : Bytes, obs : Bytes]
  BY <1>1 DEF Reset
<1> QED BY <1>3, <1>4, MaxRunsAssumption DEF Reset, TypeOK, Steps, Writes

(* An operation that begins knows its run and its next write.                *)
LEMMA BeginType ==
  ASSUME TypeOK, NEW op \in OpNames, NEW l \in Steps, NEW id \in Nat, NEW p \in Bytes, NEW o \in Bytes,
         Begin(op, l, id, p, o)
  PROVE  pc' \in Steps /\ call' \in [id : Nat, par : Bytes, obs : Bytes, op : OpNames]
BY DEF Begin, Writes

(* The record an operation is about exists. *)
CallInFile ==
  /\ pc \in {"record", "setflag", "status", "par", "obs", "clearflag"} => call.id \in Stored
  /\ flag = "set" => buf.id \in Stored
  /\ pc = "setflag" => buf.id = call.id
  /\ pc \in {"idle", "record", "newflag", "setflag", "header"} => flag # "set"

(* Every write keeps the file well-typed.                                    *)
LEMMA StepType == TypeOK /\ CallInFile /\ [Next]_vars => TypeOK'
<1> SUFFICES ASSUME TypeOK, CallInFile, [Next]_vars PROVE TypeOK'
  OBVIOUS
<1>0. /\ Values \subseteq Bytes /\ Blank \in Bytes /\ Zero \in Bytes
      /\ Stored \subseteq Ids /\ Ids \subseteq Nat
  BY StoredIds, MaxRunsAssumption DEF Bytes, Ids
<1>1. CASE Reset
  BY <1>1, ResetType
<1>2. CASE WriteHeader \/ SetFlag \/ ClearFlag
  BY <1>2 DEF WriteHeader, SetFlag, ClearFlag, TypeOK, Steps, Writes
<1>3. ASSUME NEW v \in Values, AddRun(v)
      PROVE  TypeOK'
  <2>1. pc' \in Steps /\ call' \in [id : Nat, par : Bytes, obs : Bytes, op : OpNames]
    <3>1. n \in Nat /\ "add" \in OpNames /\ "record" \in Steps
      BY MaxRunsAssumption DEF TypeOK, OpNames, Steps
    <3> HIDE DEF Begin
    <3> QED BY <1>0, <1>3, <3>1, BeginType DEF AddRun
  <2> QED BY <1>3, <2>1, MaxRunsAssumption DEF AddRun, TypeOK
<1>4. CASE WriteRecord
  <2>1. call.id \in Ids /\ call.par \in Bytes
    BY <1>0, <1>4 DEF WriteRecord, CallInFile, TypeOK
  <2>2. rec' \in [Ids -> Record]
    <3>1. rec' = [rec EXCEPT ![call.id] = [@ EXCEPT !.st = 0, !.par = call.par]]
      BY <1>4 DEF WriteRecord
    <3>2. 0 \in -128 .. 127
      OBVIOUS
    <3> QED BY <2>1, <3>1, <3>2, FieldType
  <2> QED BY <1>4, <2>2 DEF WriteRecord, TypeOK, Steps, Writes
<1>5. CASE WriteNewFlag
  <2>1. buf' \in [id : Nat, par : Bytes, obs : Bytes]
    BY <1>0, <1>5 DEF WriteNewFlag
  <2> QED BY <1>5, <2>1 DEF WriteNewFlag, TypeOK, Steps, Writes
<1>6. ASSUME NEW id \in Stored, NEW v \in Values, UpdateRun(id, v)
      PROVE  TypeOK'
  <2>1. pc' \in Steps /\ call' \in [id : Nat, par : Bytes, obs : Bytes, op : OpNames]
    <3>1. id \in Nat /\ "update" \in OpNames /\ "setflag" \in Steps
      BY <1>0 DEF OpNames, Steps
    <3> HIDE DEF Begin
    <3> QED BY <1>0, <1>6, <3>1, BeginType DEF UpdateRun
  <2> QED BY <1>0, <1>6, <2>1 DEF UpdateRun, TypeOK
<1>7. ASSUME NEW id \in Stored, UpdateObs(id)
      PROVE  TypeOK'
  <2>1. rec[id].par \in Bytes /\ id \in Nat
    BY <1>0 DEF TypeOK, Record
  <2>2. pc' \in Steps /\ call' \in [id : Nat, par : Bytes, obs : Bytes, op : OpNames]
    <3>1. "update_obs" \in OpNames /\ "setflag" \in Steps
      BY DEF OpNames, Steps
    <3> HIDE DEF Begin
    <3> QED BY <1>7, <2>1, <3>1, BeginType DEF UpdateObs
  <2> QED BY <1>7, <2>1, <2>2 DEF UpdateObs, TypeOK
<1>8. CASE WriteStatus \/ WritePar \/ WriteObs
  <2>1. call.id \in Ids /\ call.par \in Bytes /\ call.obs \in Bytes
    BY <1>0, <1>8 DEF WriteStatus, WritePar, WriteObs, CallInFile, TypeOK
  <2>2. rec' \in [Ids -> Record]
    <3>1. \/ rec' = [rec EXCEPT ![call.id].st = 1]
          \/ rec' = [rec EXCEPT ![call.id].par = call.par]
          \/ rec' = [rec EXCEPT ![call.id].obs = call.obs]
      BY <1>8 DEF WriteStatus, WritePar, WriteObs
    <3>2. [rec EXCEPT ![call.id].st = 1] \in [Ids -> Record]
      <4>1. 1 \in -128 .. 127
        OBVIOUS
      <4> QED BY <2>1, <4>1, FieldType
    <3>3. /\ [rec EXCEPT ![call.id].par = call.par] \in [Ids -> Record]
          /\ [rec EXCEPT ![call.id].obs = call.obs] \in [Ids -> Record]
      BY <2>1, FieldType
    <3> QED BY <3>1, <3>2, <3>3
  <2> QED BY <1>8, <2>2 DEF WriteStatus, WritePar, WriteObs, TypeOK, Steps, Writes
<1>9. ASSUME NEW id \in Stored, UpdateFailed(id) \/ \E k \in FailureCounts : SetFailed(id, k)
      PROVE  TypeOK'
  <2>1. PICK x \in Int : rec' = [rec EXCEPT ![id].st = Byte(x)]
    <3>1. rec[id].st - 1 \in Int
      BY <1>0 DEF TypeOK, Record
    <3>2. CASE UpdateFailed(id)
      BY <3>1, <3>2 DEF UpdateFailed
    <3>3. CASE \E k \in FailureCounts : SetFailed(id, k)
      <4>1. PICK k \in FailureCounts : SetFailed(id, k)
        BY <3>3
      <4>2. -k \in Int
        BY CountsAreNumbers
      <4> QED BY <4>1, <4>2 DEF SetFailed
    <3> QED BY <1>9, <3>2, <3>3
  <2>2. rec' \in [Ids -> Record]
    BY <1>0, <2>1, ByteType, FieldType
  <2> QED BY <1>9, <2>2 DEF UpdateFailed, SetFailed, TypeOK
<1>10. CASE Crash
  BY <1>10 DEF Crash, file, TypeOK, Steps, Writes
<1>11. CASE Restart
  <2>1. "update" \in OpNames
    BY DEF OpNames
  <2>2. call' \in [id : Nat, par : Bytes, obs : Bytes, op : OpNames]
    BY <1>11, <2>1 DEF Restart, TypeOK
  <2> QED BY <1>11, <2>2 DEF Restart, file, TypeOK, Steps, Writes
<1>12. CASE UNCHANGED vars
  BY <1>12 DEF vars, file, TypeOK
<1> QED
  BY <1>1, <1>2, <1>3, <1>4, <1>5, <1>6, <1>7, <1>8, <1>9, <1>10, <1>11, <1>12 DEF Next

(* Every write keeps CallInFile.                                             *)
LEMMA CallStep == TypeOK /\ CallInFile /\ [Next]_vars => CallInFile'
<1> SUFFICES ASSUME TypeOK, CallInFile, [Next]_vars PROVE CallInFile'
  OBVIOUS
<1>1. n \in Nat
  BY MaxRunsAssumption DEF TypeOK
<1> USE DEF CallInFile, Writes, Stored
<1>2. CASE Reset \/ WriteHeader \/ WriteNewFlag \/ ClearFlag \/ Crash
  BY <1>2 DEF Reset, WriteHeader, WriteNewFlag, ClearFlag, Crash, file
<1>3. ASSUME NEW v \in Values, AddRun(v)
      PROVE  CallInFile'
  BY <1>1, <1>3 DEF AddRun, Begin
<1>4. CASE WriteRecord \/ SetFlag \/ WriteStatus \/ WritePar \/ WriteObs
  BY <1>4 DEF WriteRecord, SetFlag, WriteStatus, WritePar, WriteObs
<1>5. ASSUME NEW id \in Stored, UpdateObs(id) \/ \E v \in Values : UpdateRun(id, v)
      PROVE  CallInFile'
  BY <1>5 DEF UpdateObs, UpdateRun, Begin
<1>6. ASSUME NEW id \in Stored, UpdateFailed(id) \/ \E k \in FailureCounts : SetFailed(id, k)
      PROVE  CallInFile'
  BY <1>6 DEF UpdateFailed, SetFailed
<1>7. CASE Restart
  BY <1>7 DEF Restart, file
<1>8. CASE UNCHANGED vars
  BY <1>8 DEF vars, file
<1> QED BY <1>2, <1>3, <1>4, <1>5, <1>6, <1>7, <1>8 DEF Next

(* TypeCorrect: also after a crash and a restart in the middle of a repair the  *)
(* program writes into records that the header counts.                          *)
THEOREM TypeCorrect == Spec => [](TypeOK /\ CallInFile)
<1>1. Init => CallInFile
  BY DEF Init, CallInFile
<1> QED BY <1>1, InitType, StepType, CallStep, PTL DEF Spec

-----------------------------------------------------------------------------
(* update_run is atomic.  What each of its writes, and those of add_run, finds *)
(* in the file:                                                                *)

Repairing == {"status", "par", "obs", "clearflag"}

AddInv ==
  /\ pc = "idle" => flag = "clear"
  /\ pc = "header" => n = 0 /\ flag = "none"
  /\ pc \in {"record", "newflag"} => flag = "none" /\ n > 0 /\ call.id = n - 1 /\ call.par \in Values
  /\ pc = "newflag" => rec[n - 1].st = 0 /\ rec[n - 1].par = call.par

UpdateInv ==
  /\ pc = "setflag" => flag = "clear"
  /\ pc \in Repairing => flag = "set" /\ call.id = buf.id
  /\ pc \in Repairing \cup {"setflag"} =>
       call.par = buf.par /\ call.obs = buf.obs /\ call.op = "update"
  /\ pc = "setflag" \/ flag = "set" => buf.par \in Values /\ buf.obs = buf.par
  /\ pc \in {"par", "obs", "clearflag"} => rec[call.id].st = 1
  /\ pc \in {"obs", "clearflag"} => rec[call.id].par = call.par
  /\ pc = "clearflag" => rec[call.id].obs = call.obs

FileInv == TypeOK /\ CallInFile /\ AddInv /\ UpdateInv

(* The file is used as the storage of a group and the failed run file are: no    *)
(* observations without their parameters.  The status byte does not overflow.   *)
WholeUpdates == "update_obs" \notin Ops /\ Failing \subseteq 0 .. 127

(* Every write keeps what the other writes find in the file.                 *)
LEMMA InvStep ==
  ASSUME WholeUpdates, FileInv, [Next]_vars
  PROVE  AddInv' /\ UpdateInv'
<1>0. n \in Nat /\ Stored \subseteq Ids /\ rec \in [Ids -> Record]
  BY StoredIds, MaxRunsAssumption DEF FileInv, TypeOK
<1> USE DEF FileInv, AddInv, UpdateInv, Writes, Repairing
<1>1. CASE Reset \/ WriteHeader \/ WriteNewFlag \/ ClearFlag \/ Crash \/ SetFlag
  BY <1>1 DEF Reset, WriteHeader, WriteNewFlag, ClearFlag, Crash, SetFlag, file, CallInFile
<1>2. ASSUME NEW v \in Values, AddRun(v)
      PROVE  AddInv' /\ UpdateInv'
  BY <1>0, <1>2 DEF AddRun, Begin
<1>3. CASE WriteRecord
  <2>1. call.id \in Ids /\ call.id = n - 1
    BY <1>0, <1>3 DEF WriteRecord, CallInFile
  <2>2. rec'[call.id].st = 0 /\ rec'[call.id].par = call.par
    BY <1>0, <1>3, <2>1 DEF WriteRecord, Record
  <2> QED BY <1>3, <2>1, <2>2 DEF WriteRecord
<1>4. CASE WriteStatus \/ WritePar \/ WriteObs
  <2>1. call.id \in Ids
    BY <1>0, <1>4 DEF WriteStatus, WritePar, WriteObs, CallInFile
  <2>2. /\ WriteStatus => rec'[call.id] = [rec[call.id] EXCEPT !.st = 1]
        /\ WritePar => rec'[call.id] = [rec[call.id] EXCEPT !.par = call.par]
        /\ WriteObs => rec'[call.id] = [rec[call.id] EXCEPT !.obs = call.obs]
    BY <1>0, <2>1 DEF WriteStatus, WritePar, WriteObs
  <2>3. rec[call.id] \in Record
    BY <1>0, <2>1
  <2>4. CASE WriteStatus
    BY <2>2, <2>3, <2>4 DEF WriteStatus, Record
  <2>5. CASE WritePar
    BY <2>2, <2>3, <2>5 DEF WritePar, Record
  <2>6. CASE WriteObs
    BY <2>2, <2>3, <2>6 DEF WriteObs, Record
  <2> QED BY <1>4, <2>4, <2>5, <2>6
<1>5. ASSUME NEW id \in Stored, NEW v \in Values, UpdateRun(id, v)
      PROVE  AddInv' /\ UpdateInv'
  BY <1>5 DEF UpdateRun, Begin
<1>6. ASSUME NEW id \in Stored, UpdateObs(id)
      PROVE  FALSE
  BY <1>6 DEF UpdateObs, Begin, WholeUpdates
<1>7. ASSUME NEW id \in Stored, UpdateFailed(id) \/ \E k \in FailureCounts : SetFailed(id, k)
      PROVE  AddInv' /\ UpdateInv'
  BY <1>7 DEF UpdateFailed, SetFailed, CallInFile
<1>8. CASE Restart
  BY <1>8 DEF Restart, file
<1>9. CASE UNCHANGED vars
  BY <1>9 DEF vars, file
<1> QED BY <1>1, <1>2, <1>3, <1>4, <1>5, <1>6, <1>7, <1>8, <1>9 DEF Next

(* So FileInv is an invariant of a such a file.                              *)
LEMMA InvHolds == WholeUpdates => (Spec => []FileInv)
<1> SUFFICES ASSUME WholeUpdates PROVE Spec => []FileInv
  OBVIOUS
<1>1. Init => FileInv
  <2>1. Init => CallInFile /\ AddInv /\ UpdateInv
    BY DEF Init, CallInFile, AddInv, UpdateInv, Repairing
  <2> QED BY <2>1, InitType DEF FileInv
<1>2. FileInv /\ [Next]_vars => FileInv'
  BY InvStep, StepType, CallStep DEF FileInv
<1> QED BY <1>1, <1>2, PTL DEF Spec

(* A step that changes no record a restart would see is a step of nobody. *)
LEMMA SameContents ==
  ASSUME Complete' = Complete, \A i \in 0 .. Complete - 1 : Recovered(i)' = Recovered(i)
  PROVE  UNCHANGED Records!vars
BY DEF Records!vars, Contents

(* add_run takes effect with the flag behind the new record. *)
LEMMA AddTakesEffect ==
  ASSUME FileInv, WriteNewFlag
  PROVE  Records!Add
<1>1. /\ n \in Nat /\ n > 0 /\ call.id = n - 1 /\ call.par \in Values
      /\ flag = "none" /\ flag' = "clear" /\ n' = n /\ rec' = rec
      /\ rec[n - 1].st = 0 /\ rec[n - 1].par = call.par
  BY MaxRunsAssumption DEF WriteNewFlag, FileInv, AddInv, TypeOK
<1>2. Complete = n - 1 /\ Complete' = Complete + 1
  BY <1>1 DEF Complete
<1>3. rec[n - 1] \in Record
  <2>1. n - 1 \in Ids
    BY <1>1, MaxRunsAssumption DEF FileInv, TypeOK, Ids
  <2> QED BY <2>1 DEF FileInv, TypeOK
<1>4. Shown(rec[n - 1]) = [st |-> 0, par |-> call.par, obs |-> Blank]
  BY <1>1, <1>3 DEF Shown, Record
<1>5. \A i : Recovered(i) = rec[i] /\ Recovered(i)' = rec[i]
  BY <1>1 DEF Recovered
<1>6. Contents' = [i \in 0 .. Complete |-> IF i = Complete THEN [st |-> 0, par |-> call.par, obs |-> Blank]
                                           ELSE Contents[i]]
  <2>1. Contents' = [i \in 0 .. Complete |-> Shown(rec[i])]
    BY <1>1, <1>2, <1>5 DEF Contents, Shown
  <2>2. \A i \in 0 .. Complete : i # Complete => Contents[i] = Shown(rec[i])
    BY <1>1, <1>2, <1>5 DEF Contents
  <2> QED BY <1>2, <1>4, <2>1, <2>2
<1> QED BY <1>1, <1>2, <1>6 DEF Records!Add

(* update_run takes effect when the flag is set. *)
LEMMA UpdateTakesEffect ==
  ASSUME FileInv, SetFlag
  PROVE  Records!Finish
<1>1. /\ n \in Nat /\ flag = "clear" /\ flag' = "set" /\ n' = n /\ rec' = rec /\ buf' = buf
      /\ buf.id \in Stored /\ buf.par \in Values /\ buf.obs = buf.par
  BY MaxRunsAssumption DEF SetFlag, FileInv, UpdateInv, CallInFile, TypeOK
<1>2. Complete = n /\ Complete' = n
  BY <1>1 DEF Complete
<1> DEFINE new == [st |-> 1, par |-> buf.par, obs |-> buf.par]
<1>3. \A i : Recovered(i) = rec[i] /\ Recovered(i)' = IF i = buf.id THEN new ELSE rec[i]
  BY <1>1 DEF Recovered
<1>4. Shown(new) = new
  BY DEF Shown
<1>5. Contents' = [Contents EXCEPT ![buf.id] = new]
  <2>1. Contents = [i \in Stored |-> Shown(rec[i])]
    BY <1>2, <1>3 DEF Contents, Stored
  <2>2. Contents' = [i \in Stored |-> IF i = buf.id THEN new ELSE Shown(rec[i])]
    BY <1>1, <1>2, <1>3, <1>4 DEF Contents, Stored, Shown
  <2> HIDE DEF new
  <2> QED BY <1>1, <2>1, <2>2
<1>6. buf.id \in DOMAIN Contents
  BY <1>1, <1>2 DEF Contents, Stored
<1> QED BY <1>1, <1>2, <1>5, <1>6 DEF Records!Finish

(* A write of the status byte alone, of a run that is not finished.            *)
StatusAlone(id, s) ==
  /\ rec[id].st < 1 /\ flag = "clear"
  /\ UNCHANGED <<n, flag, buf>> /\ rec' = [rec EXCEPT ![id].st = s]

(* It takes effect at once.                                                   *)
LEMMA StatusTakesEffect ==
  ASSUME FileInv, NEW id \in Stored, NEW s \in -128 .. 0, StatusAlone(id, s)
  PROVE  /\ Complete' = Complete
         /\ Contents' = [Contents EXCEPT ![id].st = s]
         /\ id \in DOMAIN Contents /\ Contents[id].st = rec[id].st /\ Contents'[id].st = s
<1>1. /\ n \in Nat /\ rec \in [Ids -> Record] /\ id \in Ids /\ id \in 0 .. n - 1
      /\ rec[id].st < 1 /\ flag = "clear" /\ UNCHANGED <<n, flag, buf>>
      /\ rec' = [rec EXCEPT ![id].st = s]
  BY StoredIds, MaxRunsAssumption DEF FileInv, TypeOK, Stored, StatusAlone
<1>4. Complete = n /\ Complete' = n
  BY <1>1 DEF Complete
<1>5. \A i : Recovered(i) = rec[i] /\ Recovered(i)' = rec'[i]
  BY <1>1 DEF Recovered
<1>6. rec'[id] = [rec[id] EXCEPT !.st = s]
  BY <1>1
<1> DEFINE failed == [st |-> s, par |-> rec[id].par, obs |-> Blank]
<1>7. /\ Shown(rec[id]) = [st |-> rec[id].st, par |-> rec[id].par, obs |-> Blank]
      /\ Shown(rec'[id]) = failed
  <2>1. rec[id] \in Record
    BY <1>1
  <2>2. /\ rec'[id] = [st |-> s, par |-> rec[id].par, obs |-> rec[id].obs]
        /\ rec[id] = [st |-> rec[id].st, par |-> rec[id].par, obs |-> rec[id].obs]
    BY <1>6, <2>1 DEF Record
  <2>3. ~(rec[id].st > 0) /\ ~(s > 0)
    BY <1>1, <2>1 DEF Record
  <2>4. ~(rec'[id].st > 0)
    BY <2>2, <2>3
  <2>5. Shown(rec[id]) = [rec[id] EXCEPT !.obs = Blank]
    BY <2>3 DEF Shown
  <2>6. Shown(rec'[id]) = [rec'[id] EXCEPT !.obs = Blank]
    BY <2>4 DEF Shown
  <2> QED BY <2>2, <2>5, <2>6
<1>8. Contents' = [Contents EXCEPT ![id].st = s]
  <2>1. Contents = [i \in 0 .. n - 1 |-> Shown(rec[i])]
    BY <1>4, <1>5 DEF Contents
  <2>2. Contents' = [i \in 0 .. n - 1 |-> Shown(rec'[i])]
    BY <1>4, <1>5 DEF Contents, Shown
  <2>3. \A i \in 0 .. n - 1 : i # id => rec'[i] = rec[i]
    BY <1>1
  <2>4. Contents' = [Contents EXCEPT ![id] = failed]
    <3>1. id \in 0 .. n - 1
      BY <1>1
    <3>2. \A i \in 0 .. n - 1 : Shown(rec'[i]) = IF i = id THEN failed ELSE Shown(rec[i])
      BY <1>7, <2>3
    <3>3. Contents' = [i \in 0 .. n - 1 |-> IF i = id THEN failed ELSE Shown(rec[i])]
      BY <2>2, <3>2
    <3> HIDE DEF failed, Contents
    <3> QED BY <2>1, <3>1, <3>3
  <2>5. id \in DOMAIN Contents /\ Contents[id] = [st |-> rec[id].st, par |-> rec[id].par, obs |-> Blank]
    BY <1>1, <1>7, <2>1
  <2>6. failed = [Contents[id] EXCEPT !.st = s]
    BY <2>5
  <2> HIDE DEF failed
  <2> QED BY <2>4, <2>6
<1>9. id \in DOMAIN Contents /\ Contents[id].st = rec[id].st /\ Contents'[id].st = s
  <2>1. Contents[id] = Shown(rec[id]) /\ Contents'[id] = Shown(rec'[id]) /\ id \in DOMAIN Contents
    BY <1>1, <1>4, <1>5 DEF Contents, Shown
  <2> QED BY <1>7, <2>1
<1> QED BY <1>4, <1>8, <1>9

(* What update_run_failed writes fits into the byte.                          *)
LEMMA FailWrites ==
  ASSUME FileInv, WholeUpdates, NEW id \in Stored, UpdateFailed(id)
  PROVE  /\ rec[id].st - 1 \in -128 .. 0
         /\ rec' = [rec EXCEPT ![id].st = rec[id].st - 1]
<1>1. rec \in [Ids -> Record] /\ id \in Ids
  BY StoredIds DEF FileInv, TypeOK
<1>2. rec[id].st \in -128 .. 127 /\ rec[id].st < 1 /\ -rec[id].st \in Failing
  BY <1>1 DEF UpdateFailed, Record
<1>3. rec[id].st - 1 \in -128 .. 0
  BY <1>2 DEF WholeUpdates
<1>4. Byte(rec[id].st - 1) = rec[id].st - 1
  BY <1>3, ByteSmall
<1> QED BY <1>3, <1>4 DEF UpdateFailed

(* And what set_run_nfailed writes.                                           *)
LEMMA SetWrites ==
  ASSUME WholeUpdates, NEW id \in Stored, NEW k \in FailureCounts, SetFailed(id, k)
  PROVE  -k \in -128 .. 0 /\ rec' = [rec EXCEPT ![id].st = -k]
<1>1. -k \in -128 .. 0
  BY CountsFit DEF WholeUpdates
<1>2. Byte(-k) = -k
  BY <1>1, ByteSmall
<1> QED BY <1>1, <1>2 DEF SetFailed

(* update_run_failed takes effect in its only write.                         *)
LEMMA FailTakesEffect ==
  ASSUME FileInv, WholeUpdates, NEW id \in Stored, UpdateFailed(id)
  PROVE  Records!Fail
<1>1. flag = "clear" /\ UNCHANGED <<n, flag, buf>> /\ rec[id].st < 1
  BY DEF UpdateFailed, FileInv, AddInv
<1>2. rec[id].st - 1 \in -128 .. 0 /\ rec' = [rec EXCEPT ![id].st = rec[id].st - 1]
  BY FailWrites
<1>3. /\ Complete' = Complete /\ id \in DOMAIN Contents
      /\ Contents[id].st = rec[id].st
      /\ Contents' = [Contents EXCEPT ![id].st = rec[id].st - 1]
  BY <1>1, <1>2, StatusTakesEffect DEF StatusAlone
<1>4. Contents' = [Contents EXCEPT ![id].st = @ - 1]
  BY <1>3
<1> QED BY <1>1, <1>3, <1>4 DEF Records!Fail

(* So does set_run_nfailed.                                                   *)
LEMMA SetTakesEffect ==
  ASSUME FileInv, WholeUpdates, NEW id \in Stored, NEW k \in FailureCounts, SetFailed(id, k)
  PROVE  Records!SetFailed
<1>1. flag = "clear" /\ UNCHANGED <<n, flag, buf>> /\ rec[id].st = 0
  BY DEF SetFailed, JustAdded, FileInv, AddInv
<1> DEFINE s == -k
<1>2. s \in -128 .. 0 /\ s < 0 /\ rec' = [rec EXCEPT ![id].st = s]
  BY SetWrites, CountsAreNumbers
<1> HIDE DEF s
<1>3. StatusAlone(id, s)
  BY <1>1, <1>2 DEF StatusAlone
<1>4. /\ Complete' = Complete /\ id \in DOMAIN Contents
      /\ Contents[id].st = rec[id].st
      /\ Contents' = [Contents EXCEPT ![id].st = s] /\ Contents'[id].st = s
  BY <1>2, <1>3, StatusTakesEffect
<1> QED BY <1>1, <1>2, <1>4 DEF Records!SetFailed

(* Every write is a step of the abstract list of records, or none.           *)
LEMMA ContentsStep ==
  ASSUME WholeUpdates, FileInv, [Next]_vars
  PROVE  [Records!Next]_Records!vars
<1>0. n \in Nat /\ Stored \subseteq Ids /\ rec \in [Ids -> Record]
  BY StoredIds, MaxRunsAssumption DEF FileInv, TypeOK
<1>1. CASE Reset
  <2>1. Complete' = 0
    BY <1>1 DEF Reset, Complete
  <2>2. Contents' = [i \in {} |-> Blank]
    BY <2>1 DEF Contents
  <2>3. Records!Reset
    BY <2>1, <2>2 DEF Records!Reset
  <2> QED BY <2>3 DEF Records!Next
<1>2. CASE UNCHANGED file
  BY <1>2, SameContents DEF file, Complete, Recovered
<1>3. CASE WriteHeader
  <2>1. Complete = 0 /\ Complete' = 0
    BY <1>3 DEF WriteHeader, FileInv, AddInv, Complete
  <2>2. \A i \in 0 .. Complete - 1 : Recovered(i)' = Recovered(i)
    BY <2>1
  <2> QED BY <2>1, <2>2, SameContents
<1>4. ASSUME NEW v \in Values, AddRun(v)
      PROVE  UNCHANGED Records!vars
  <2>1. flag = "clear" /\ flag' = "none" /\ n' = n + 1 /\ rec' = rec
    BY <1>4 DEF AddRun, Begin, FileInv, AddInv
  <2>2. Complete = n /\ Complete' = n
    BY <1>0, <2>1 DEF Complete
  <2>3. \A i : Recovered(i)' = Recovered(i)
    BY <2>1 DEF Recovered
  <2> QED BY <2>2, <2>3, SameContents
<1>5. CASE WriteRecord
  <2>1. /\ flag = "none" /\ n > 0 /\ call.id = n - 1 /\ UNCHANGED <<n, flag, buf>>
        /\ rec' = [rec EXCEPT ![call.id] = [@ EXCEPT !.st = 0, !.par = call.par]]
    BY <1>5 DEF WriteRecord, FileInv, AddInv
  <2>2. Complete = n - 1 /\ Complete' = Complete
    BY <2>1 DEF Complete
  <2>3. \A i \in 0 .. Complete - 1 : rec'[i] = rec[i]
    BY <1>0, <2>1, <2>2, MaxRunsAssumption DEF Ids, Stored
  <2>4. \A i \in 0 .. Complete - 1 : Recovered(i)' = Recovered(i)
    BY <2>1, <2>3 DEF Recovered
  <2> QED BY <2>2, <2>4, SameContents
<1>6. CASE WriteNewFlag
  BY <1>6, AddTakesEffect DEF Records!Next
<1>7. ASSUME NEW id \in Stored, NEW v \in Values, UpdateRun(id, v)
      PROVE  UNCHANGED Records!vars
  <2>1. flag = "clear" /\ UNCHANGED <<n, rec, flag>>
    BY <1>7 DEF UpdateRun, Begin, FileInv, AddInv
  <2>2. Complete' = Complete /\ \A i : Recovered(i)' = Recovered(i)
    BY <2>1 DEF Complete, Recovered
  <2> QED BY <2>2, SameContents
<1>8. ASSUME NEW id \in Stored, UpdateObs(id)
      PROVE  FALSE
  BY <1>8 DEF UpdateObs, Begin, WholeUpdates
<1>9. CASE SetFlag
  BY <1>9, UpdateTakesEffect DEF Records!Next
<1>10. CASE WriteStatus \/ WritePar \/ WriteObs
  <2>1. flag = "set" /\ call.id = buf.id /\ call.id \in Ids /\ UNCHANGED <<n, flag, buf>>
    BY <1>0, <1>10 DEF WriteStatus, WritePar, WriteObs, FileInv, UpdateInv, Repairing, CallInFile
  <2>2. \A i \in Ids : i # buf.id => rec'[i] = rec[i]
    BY <1>0, <1>10, <2>1 DEF WriteStatus, WritePar, WriteObs
  <2>3. Complete' = Complete /\ Complete = n
    BY <2>1 DEF Complete
  <2>4. \A i \in 0 .. Complete - 1 : Recovered(i)' = Recovered(i)
    BY <1>0, <2>1, <2>2, <2>3 DEF Recovered, Stored
  <2> QED BY <2>3, <2>4, SameContents
<1>11. CASE ClearFlag
  <2>1. /\ flag = "set" /\ flag' = "clear" /\ UNCHANGED <<n, rec, buf>> /\ buf.id \in Ids
        /\ rec[buf.id].st = 1 /\ rec[buf.id].par = buf.par /\ rec[buf.id].obs = buf.obs
    BY <1>0, <1>11 DEF ClearFlag, FileInv, UpdateInv, Repairing, CallInFile
  <2>2. rec[buf.id] = [st |-> 1, par |-> buf.par, obs |-> buf.obs]
    <3>1. rec[buf.id] \in Record
      BY <1>0, <2>1
    <3> QED BY <2>1, <3>1 DEF Record
  <2>3. Complete' = Complete /\ \A i : Recovered(i)' = Recovered(i)
    BY <2>1, <2>2 DEF Complete, Recovered
  <2> QED BY <2>3, SameContents
<1>12. ASSUME NEW id \in Stored, UpdateFailed(id) \/ \E k \in FailureCounts : SetFailed(id, k)
       PROVE  Records!Next
  BY <1>12, FailTakesEffect, SetTakesEffect DEF Records!Next
<1>13. CASE Crash \/ Restart \/ UNCHANGED vars
  BY <1>2, <1>13 DEF Crash, Restart, vars
<1> QED
  BY <1>1, <1>3, <1>4, <1>5, <1>6, <1>7, <1>8, <1>9, <1>10, <1>11, <1>12, <1>13 DEF Next

(* UpdatesAreAtomic: used with whole updates, with a status byte that           *)
(* does not overflow, the file implements a list of records that crashes and    *)
(* restarts leave alone: every update_run, add_run and update_run_failed takes   *)
(* effect in one of its writes.                                                 *)
THEOREM UpdatesAreAtomic == WholeUpdates => (Spec => KeepsRecords)
<1> SUFFICES ASSUME WholeUpdates PROVE Spec => KeepsRecords
  OBVIOUS
<1>1. Init => Records!Init
  <2> SUFFICES ASSUME Init PROVE Records!Init
    OBVIOUS
  <2>1. Complete = 0
    BY DEF Init, Complete
  <2>2. Contents = [i \in {} |-> Blank]
    BY <2>1 DEF Contents
  <2> QED BY <2>1, <2>2 DEF Records!Init
<1>2. FileInv /\ [Next]_vars => [Records!Next]_Records!vars
  BY ContentsStep
<1> QED BY <1>1, <1>2, InvHolds, PTL DEF Spec, KeepsRecords, Records!Spec

-----------------------------------------------------------------------------
(* A status byte that does not overflow. *)

(* A write that makes a status positive is the one of update_run.            *)
LEMMA OnlyUpdateFinishes ==
  ASSUME Failing \subseteq 0 .. 127, TypeOK, CallInFile, [Next]_vars,
         NEW i \in Ids, rec[i].st < 1, rec'[i].st > 0
  PROVE  pc = "status"
<1>0. /\ Stored \subseteq Ids /\ rec \in [Ids -> Record]
      /\ rec[i] \in Record /\ rec[i].st \in -128 .. 127
  BY StoredIds DEF TypeOK, Record
<1>1. CASE Reset
  BY <1>1 DEF Reset, NoRecord
<1>2. CASE WriteRecord
  <2>1. rec' = [rec EXCEPT ![call.id] = [@ EXCEPT !.st = 0, !.par = call.par]]
    BY <1>2 DEF WriteRecord
  <2>2. rec'[i] = rec[i] \/ rec'[i] = [rec[i] EXCEPT !.st = 0, !.par = call.par]
    BY <1>0, <2>1
  <2>3. [rec[i] EXCEPT !.st = 0, !.par = call.par].st = 0
    BY <1>0 DEF Record
  <2>4. rec'[i].st = rec[i].st \/ rec'[i].st = 0
    BY <2>2, <2>3
  <2> QED BY <1>0, <2>4
<1>3. CASE WriteStatus
  BY <1>3 DEF WriteStatus
<1>4. CASE WritePar \/ WriteObs
  <2>1. \/ rec' = [rec EXCEPT ![call.id].par = call.par]
        \/ rec' = [rec EXCEPT ![call.id].obs = call.obs]
    BY <1>4 DEF WritePar, WriteObs
  <2>2. \/ rec'[i] = rec[i]
        \/ rec'[i] = [rec[i] EXCEPT !.par = call.par]
        \/ rec'[i] = [rec[i] EXCEPT !.obs = call.obs]
    BY <1>0, <2>1
  <2> QED BY <1>0, <2>2 DEF Record
<1>5. ASSUME NEW id \in Stored, UpdateFailed(id)
      PROVE  FALSE
  <2>1. id \in Ids /\ rec[id] \in Record
    BY <1>0
  <2>2. rec[id].st \in -127 .. 0
    <3>1. rec[id].st \in -128 .. 127 /\ rec[id].st < 1 /\ -rec[id].st \in Failing
      BY <1>5, <2>1 DEF UpdateFailed, Record
    <3> QED BY <3>1
  <2>3. Byte(rec[id].st - 1) = rec[id].st - 1
    BY <2>2, ByteSmall
  <2>4. rec' = [rec EXCEPT ![id].st = rec[id].st - 1]
    BY <1>5, <2>3 DEF UpdateFailed
  <2>5. rec'[i] = rec[i] \/ rec'[i] = [rec[id] EXCEPT !.st = rec[id].st - 1]
    BY <1>0, <2>1, <2>4
  <2>6. [rec[id] EXCEPT !.st = rec[id].st - 1].st = rec[id].st - 1
    BY <2>1 DEF Record
  <2>7. rec'[i].st = rec[i].st \/ rec'[i].st = rec[id].st - 1
    BY <2>5, <2>6
  <2> QED BY <1>0, <2>2, <2>7
<1>6. ASSUME NEW id \in Stored, NEW k \in FailureCounts, SetFailed(id, k)
      PROVE  FALSE
  <2>1. Byte(-k) = -k /\ -k < 1
    <3>1. -k \in -128 .. -1
      BY CountsFit
    <3>2. \A x \in -128 .. -1 : x \in -128 .. 127 /\ x < 1
      OBVIOUS
    <3> QED BY <3>1, <3>2, ByteSmall
  <2>2. rec' = [rec EXCEPT ![id].st = -k]
    BY <1>6, <2>1 DEF SetFailed
  <2>3. rec'[i] = rec[i] \/ rec'[i] = [rec[i] EXCEPT !.st = -k]
    BY <1>0, <2>2
  <2>4. [rec[i] EXCEPT !.st = -k].st = -k
    BY <1>0 DEF Record
  <2>5. rec'[i].st = rec[i].st \/ rec'[i].st = -k
    BY <2>3, <2>4
  <2>6. -k < 1 /\ -k \in Int
    BY <2>1, CountsAreNumbers
  <2> QED BY <1>0, <2>5, <2>6
<1>7. ASSUME rec' = rec
      PROVE  FALSE
  BY <1>0, <1>7
<1>8. ASSUME NEW id \in Stored, UpdateObs(id) \/ \E v \in Values : UpdateRun(id, v)
      PROVE  rec' = rec
  BY <1>8 DEF UpdateObs, UpdateRun
<1>9. (\E v \in Values : AddRun(v)) => rec' = rec
  BY DEF AddRun
<1>10. CASE WriteHeader \/ WriteNewFlag \/ SetFlag \/ ClearFlag \/ Crash \/ Restart \/ UNCHANGED vars
  BY <1>7, <1>10 DEF WriteHeader, WriteNewFlag, SetFlag, ClearFlag, Crash, Restart, vars, file
<1> QED BY <1>1, <1>2, <1>3, <1>4, <1>5, <1>6, <1>7, <1>8, <1>9, <1>10 DEF Next

(* OnlyResultsAreFinished: a byte holds the status of a run that fails up to 128 *)
(* times, which is what OnlyResultsFinish needs; the option max_run_fail is not  *)
(* limited to that.                                                             *)
THEOREM OnlyResultsAreFinished == Failing \subseteq 0 .. 127 => (Spec => OnlyResultsFinish)
<1> SUFFICES ASSUME Failing \subseteq 0 .. 127 PROVE Spec => OnlyResultsFinish
  OBVIOUS
<1>1. TypeOK /\ CallInFile /\ [Next]_vars =>
        [\A i \in Ids : rec[i].st < 1 /\ rec'[i].st > 0 => pc = "status"]_vars
  BY OnlyUpdateFinishes
<1> QED BY <1>1, TypeCorrect, PTL DEF Spec, OnlyResultsFinish

-----------------------------------------------------------------------------
(* Results stay next to their parameters. *)

Matches(r) == r.st > 0 => r.obs = r.par

(* A record that does not match is the one that a restart would write again. *)
ResultsInv ==
  /\ \A i \in Ids : i >= n => rec[i].st = 0
  /\ \A i \in Stored : Matches(rec[i]) \/ (flag = "set" /\ i = buf.id)

(* Every write keeps results next to their parameters.                       *)
LEMMA ResultsStep ==
  ASSUME WholeUpdates, FileInv, ResultsInv, [Next]_vars
  PROVE  ResultsInv'
<1>0. n \in Nat /\ Stored \subseteq Ids /\ rec \in [Ids -> Record]
  BY StoredIds, MaxRunsAssumption DEF FileInv, TypeOK
<1>1. CASE Reset
  BY <1>1 DEF Reset, ResultsInv, Stored, Ids, NoRecord
<1>2. ASSUME UNCHANGED <<n, rec, buf>>, flag # "set"
      PROVE  ResultsInv'
  BY <1>2 DEF ResultsInv, Stored, Matches
<1>3. ASSUME UNCHANGED <<n, rec, buf, flag>>
      PROVE  ResultsInv'
  BY <1>3 DEF ResultsInv, Stored, Matches
<1>4. ASSUME NEW v \in Values, AddRun(v)
      PROVE  ResultsInv'
  <2>1. n' = n + 1 /\ rec' = rec /\ flag # "set"
    BY <1>4 DEF AddRun, Begin, FileInv, AddInv
  <2>2. n < MaxRuns
    BY <1>4 DEF AddRun
  <2>3. rec[n].st = 0
    <3>1. n \in Ids /\ n >= n
      BY <1>0, <2>2, MaxRunsAssumption DEF Ids
    <3> QED BY <3>1 DEF ResultsInv
  <2>4. \A i \in 0 .. n : Matches(rec[i])
    <3> SUFFICES ASSUME NEW i \in 0 .. n PROVE Matches(rec[i])
      OBVIOUS
    <3>1. CASE i = n
      BY <2>3, <3>1 DEF Matches
    <3>2. CASE i # n
      BY <1>0, <2>1, <3>2 DEF ResultsInv, Stored
    <3> QED BY <3>1, <3>2
  <2>5. \A i \in Stored' : Matches(rec[i])
    BY <1>0, <2>1, <2>4 DEF Stored
  <2>6. \A i \in Ids : i >= n' => rec'[i].st = 0
    BY <1>0, <2>1, MaxRunsAssumption DEF ResultsInv, Ids
  <2> QED BY <2>1, <2>5, <2>6 DEF ResultsInv, Matches
<1>5. ASSUME NEW id \in Stored, UNCHANGED <<n, flag, buf>>, rec' = [rec EXCEPT ![id] = rec'[id]],
             Matches(rec'[id]) \/ (flag = "set" /\ id = buf.id)
      PROVE  ResultsInv'
  <2>1. \A i \in Ids : i # id => rec'[i] = rec[i]
    BY <1>0, <1>5
  <2>2. \A i \in Ids : i >= n' => rec'[i].st = 0
    BY <1>0, <1>5, <2>1, MaxRunsAssumption DEF ResultsInv, Stored, Ids
  <2>3. \A i \in Stored' : Matches(rec'[i]) \/ (flag' = "set" /\ i = buf'.id)
    BY <1>0, <1>5, <2>1 DEF ResultsInv, Stored
  <2> QED BY <2>2, <2>3 DEF ResultsInv, Matches
<1>6. CASE WriteRecord
  <2>1. call.id \in Stored /\ rec[call.id] \in Record
    BY <1>0, <1>6 DEF WriteRecord, FileInv, CallInFile
  <2>2. rec' = [rec EXCEPT ![call.id] = [@ EXCEPT !.st = 0, !.par = call.par]]
    BY <1>6 DEF WriteRecord
  <2>3. rec'[call.id] = [rec[call.id] EXCEPT !.st = 0, !.par = call.par]
    BY <1>0, <2>1, <2>2
  <2>4. Matches(rec'[call.id])
    BY <2>1, <2>3 DEF Matches, Record
  <2>5. rec' = [rec EXCEPT ![call.id] = rec'[call.id]]
    BY <2>2, <2>3
  <2> QED BY <1>5, <1>6, <2>1, <2>4, <2>5 DEF WriteRecord
<1>7. CASE WriteStatus \/ WritePar \/ WriteObs
  <2>1. call.id \in Stored /\ call.id = buf.id /\ flag = "set"
    BY <1>7 DEF WriteStatus, WritePar, WriteObs, FileInv, CallInFile, UpdateInv, Repairing
  <2>2. rec' = [rec EXCEPT ![call.id] = rec'[call.id]]
    <3>1. \/ rec' = [rec EXCEPT ![call.id].st = 1]
          \/ rec' = [rec EXCEPT ![call.id].par = call.par]
          \/ rec' = [rec EXCEPT ![call.id].obs = call.obs]
      BY <1>7 DEF WriteStatus, WritePar, WriteObs
    <3> QED BY <1>0, <2>1, <3>1
  <2> QED BY <1>5, <1>7, <2>1, <2>2 DEF WriteStatus, WritePar, WriteObs
<1>8. CASE ClearFlag
  <2>1. /\ buf.id \in Stored /\ UNCHANGED <<n, rec, buf>>
        /\ rec[buf.id].obs = rec[buf.id].par
    BY <1>8 DEF ClearFlag, FileInv, UpdateInv, Repairing, CallInFile
  <2> QED BY <2>1 DEF ResultsInv, Stored, Matches
<1>9. ASSUME NEW id \in Stored, UpdateFailed(id) \/ \E k \in FailureCounts : SetFailed(id, k)
      PROVE  ResultsInv'
  <2>1. rec[id] \in Record
    BY <1>0
  <2>2. PICK st \in -128 .. 0 : rec' = [rec EXCEPT ![id].st = st]
    BY <1>9, FailWrites, SetWrites
  <2>4. rec'[id] = [rec[id] EXCEPT !.st = st]
    BY <1>0, <2>2
  <2>5. rec'[id].st = st
    BY <2>1, <2>4 DEF Record
  <2>6. Matches(rec'[id])
    BY <2>1, <2>5 DEF Matches
  <2>7. rec' = [rec EXCEPT ![id] = rec'[id]]
    BY <2>2, <2>4
  <2> QED BY <1>5, <1>9, <2>6, <2>7 DEF UpdateFailed, SetFailed
<1>10. ASSUME NEW id \in Stored, NEW v \in Values, UpdateRun(id, v)
       PROVE  ResultsInv'
  <2>1. flag # "set" /\ flag' = flag /\ n' = n /\ rec' = rec
    BY <1>10 DEF UpdateRun, Begin, FileInv, AddInv
  <2> QED BY <2>1 DEF ResultsInv, Stored, Matches
<1>11. ASSUME NEW id \in Stored, UpdateObs(id)
       PROVE  FALSE
  BY <1>11 DEF UpdateObs, Begin, WholeUpdates
<1>12. CASE WriteHeader \/ WriteNewFlag
  <2>1. flag # "set" /\ flag' = "clear" /\ n' = n /\ rec' = rec
    BY <1>12 DEF WriteHeader, WriteNewFlag, FileInv, AddInv
  <2> QED BY <2>1 DEF ResultsInv, Stored, Matches
<1>13. CASE SetFlag
  BY <1>2, <1>13 DEF SetFlag, FileInv, UpdateInv
<1>14. CASE Crash \/ Restart \/ UNCHANGED vars
  BY <1>3, <1>14 DEF Crash, Restart, vars, file
<1> QED
  BY <1>1, <1>4, <1>6, <1>7, <1>8, <1>9, <1>10, <1>11, <1>12, <1>13, <1>14 DEF Next

(* ResultsStayWithParameters: used with whole updates, the file shows          *)
(* no result next to parameters it was not computed from.                       *)
THEOREM ResultsStayWithParameters == WholeUpdates => (Spec => []ResultsMatchParameters)
<1> SUFFICES ASSUME WholeUpdates PROVE Spec => []ResultsMatchParameters
  OBVIOUS
<1>1. Init => ResultsInv
  BY DEF Init, ResultsInv, Stored, Ids, NoRecord
<1>2. FileInv /\ ResultsInv /\ [Next]_vars => ResultsInv'
  BY ResultsStep
<1>3. FileInv /\ ResultsInv => ResultsMatchParameters
  BY DEF FileInv, AddInv, ResultsInv, Matches, ResultsMatchParameters
<1> QED BY <1>1, <1>2, <1>3, InvHolds, PTL DEF Spec
=============================================================================
