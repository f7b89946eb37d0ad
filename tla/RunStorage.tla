----------------------------- MODULE RunStorage -----------------------------
(***************************************************************************)
(* The run storage file (class RunStorage) and a program that may die       *)
(* between any two of its writes and be restarted on the file.              *)
(*                                                                         *)
(* The file is a header with the number of runs, one record for each run    *)
(* and, behind the last record, a buffer: a flag byte and a copy of the     *)
(* result that update_run is about to write.  Writes reach the file in the  *)
(* order in which they are made (seekp and flush hand them to the operating *)
(* system); a crash of the machine, which may reorder them, is not          *)
(* modelled.  A value stands for the parameters of a run and also for the   *)
(* observations the model computes from them; info_txt and info_value are   *)
(* left out.                                                                *)
(***************************************************************************)
EXTENDS Integers

CONSTANTS Values,        \* parameter sets
          Blank,         \* bytes of a record nobody has written
          Zero,          \* bytes of the buffer nobody has written
          Ops,           \* the operations the program uses on this file
          MaxRuns,       \* bound: records in the file
          Failing        \* bound: a run fails only after one of these numbers of failures

ASSUME ValuesAssumption == Blank \notin Values /\ Zero \notin Values
ASSUME MaxRunsAssumption == MaxRuns \in Nat
ASSUME FailingAssumption == Failing \subseteq Nat

VARIABLES n,             \* the number of runs in the header
          rec,           \* the records
          flag,          \* the flag byte behind record n - 1, "none" if the file ends there
          buf,           \* the rest of the buffer
          pc,            \* the next write, or "idle", "down", "refused"
          call           \* the run and the value the current operation is about

file == <<n, rec, flag, buf>>
vars == <<file, pc, call>>

Ids == 0 .. MaxRuns - 1
Stored == 0 .. n - 1                              \* check_rec_id

UnsignedByte(x) == x % 256                        \* a mutant: uint8_t
Byte(x) == ((x + 128) % 256) - 128                \* int8_t
Bytes == Values \cup {Blank, Zero}
FailureCounts == {k + 1 : k \in Failing}           \* how often a run may have failed
NoRecord == [st |-> 0, par |-> Blank, obs |-> Blank]

Writes(l) == pc' = l
Begin(op, l, id, p, o) ==
  /\ pc = "idle" /\ op \in Ops
  /\ call' = [id |-> id, par |-> p, obs |-> o, op |-> op]
  /\ Writes(l)

-----------------------------------------------------------------------------
(* reset: a new, empty file. *)
Reset ==
  /\ pc \in {"idle", "down", "refused"}
  /\ n' = 0 /\ rec' = [i \in Ids |-> NoRecord]
  /\ flag' = "none" /\ buf' = [id |-> 0, par |-> Zero, obs |-> Zero]
  /\ Writes("header")
  /\ UNCHANGED call

WriteHeader ==
  /\ pc = "header" /\ flag' = "clear" /\ Writes("idle")
  /\ UNCHANGED <<n, rec, buf, call>>

(* add_run: increment_nruns, then the record, then a flag behind it. *)
AddRun(v) ==
  /\ n < MaxRuns
  /\ Begin("add", "record", n, v, Blank)
  /\ n' = n + 1 /\ flag' = "none"
  /\ UNCHANGED <<rec, buf>>

WriteRecord ==
  /\ pc = "record" /\ Writes("newflag")
  /\ rec' = [rec EXCEPT ![call.id] = [@ EXCEPT !.st = 0, !.par = call.par]]
  /\ UNCHANGED <<n, flag, buf, call>>

WriteNewFlag ==
  /\ pc = "newflag" /\ Writes("idle")
  /\ flag' = "clear" /\ buf' = [id |-> 0, par |-> Zero, obs |-> Zero]
  /\ UNCHANGED <<n, rec, call>>

(* A mutant: update_run that does not set the flag. *)
UpdateNoFlag(id, v) ==
  /\ Begin("update", "status", id, v, v)
  /\ buf' = [id |-> id, par |-> v, obs |-> v]
  /\ UNCHANGED <<n, rec, flag>>

(* update_run with parameters and observations: copy to the buffer, set the   *)
(* flag, write the record, clear the flag.                                    *)
UpdateRun(id, v) ==
  /\ Begin("update", "setflag", id, v, v)
  /\ buf' = [id |-> id, par |-> v, obs |-> v]
  /\ UNCHANGED <<n, rec, flag>>

(* update_run with observations alone skips the parameters in the buffer too. *)
(* record_all_run calls it for the record it has just added.                  *)
JustAdded(id) == id = n - 1 /\ rec[id].st = 0

UpdateObs(id) ==
  /\ JustAdded(id)
  /\ Begin("update_obs", "setflag", id, rec[id].par, rec[id].par)
  /\ buf' = [id |-> id, par |-> buf.par, obs |-> rec[id].par]
  /\ UNCHANGED <<n, rec, flag>>

SetFlag ==
  /\ pc = "setflag" /\ flag' = "set" /\ Writes("status")
  /\ UNCHANGED <<n, rec, buf, call>>

WriteStatus ==
  /\ pc = "status" /\ rec' = [rec EXCEPT ![call.id].st = 1]
  /\ Writes(IF call.op = "update_obs" THEN "obs" ELSE "par")
  /\ UNCHANGED <<n, flag, buf, call>>

WritePar ==
  /\ pc = "par" /\ rec' = [rec EXCEPT ![call.id].par = call.par] /\ Writes("obs")
  /\ UNCHANGED <<n, flag, buf, call>>

WriteObs ==
  /\ pc = "obs" /\ rec' = [rec EXCEPT ![call.id].obs = call.obs] /\ Writes("clearflag")
  /\ UNCHANGED <<n, flag, buf, call>>

ClearFlag ==
  /\ pc = "clearflag" /\ flag' = "clear" /\ Writes("idle")
  /\ UNCHANGED <<n, rec, buf, call>>

(* A mutant: a failure that comes after the result counts. *)
FailAnyway(id) ==
  /\ pc = "idle" /\ "fail" \in Ops
  /\ rec[id].st > 0 \/ -rec[id].st \in Failing
  /\ rec' = [rec EXCEPT ![id].st = Byte(@ - 1)]
  /\ UNCHANGED <<n, flag, buf, pc, call>>

(* update_run_failed and set_run_nfailed, which is for a record just added     *)
(* too, write the status byte alone.                                          *)
UpdateFailed(id) ==
  /\ pc = "idle" /\ "fail" \in Ops
  /\ rec[id].st < 1 /\ -rec[id].st \in Failing
  /\ rec' = [rec EXCEPT ![id].st = Byte(@ - 1)]
  /\ UNCHANGED <<n, flag, buf, pc, call>>

SetFailed(id, k) ==
  /\ pc = "idle" /\ "set_nfailed" \in Ops /\ JustAdded(id)
  /\ rec' = [rec EXCEPT ![id].st = Byte(-k)]
  /\ UNCHANGED <<n, flag, buf, pc, call>>

Crash ==
  /\ pc \notin {"down", "refused"} /\ Writes("down")
  /\ UNCHANGED <<file, call>>

(* A mutant: init_restart that does not look at the buffer. *)
RestartNoReplay == pc = "down" /\ flag # "none" /\ Writes("idle") /\ UNCHANGED <<file, call>>

(* init_restart: a flag that is set means the buffer has a result whose record *)
(* may be incomplete, and it is written again.  A file that ends before the    *)
(* flag is refused.                                                            *)
Restart ==
  /\ pc = "down"
  /\ \/ flag = "none" /\ Writes("refused") /\ UNCHANGED call
     \/ flag = "clear" /\ Writes("idle") /\ UNCHANGED call
     \/ /\ flag = "set" /\ buf.id \in Stored /\ Writes("status")
        /\ call' = [id |-> buf.id, par |-> buf.par, obs |-> buf.obs, op |-> "update"]
  /\ UNCHANGED file

Init ==
  /\ n = 0 /\ rec = [i \in Ids |-> NoRecord]
  /\ flag = "clear" /\ buf = [id |-> 0, par |-> Zero, obs |-> Zero]
  /\ pc = "idle" /\ call = [id |-> 0, par |-> Blank, obs |-> Blank, op |-> "add"]

Next ==
  \/ Reset \/ WriteHeader
  \/ (\E v \in Values : AddRun(v)) \/ WriteRecord \/ WriteNewFlag
  \/ (\E id \in Stored, v \in Values : UpdateRun(id, v))
  \/ (\E id \in Stored : UpdateObs(id) \/ UpdateFailed(id))
  \/ (\E id \in Stored, k \in FailureCounts : SetFailed(id, k))
  \/ SetFlag \/ WriteStatus \/ WritePar \/ WriteObs \/ ClearFlag
  \/ Crash \/ Restart

Spec == Init /\ [][Next]_vars

-----------------------------------------------------------------------------
Record == [st : -128 .. 127, par : Bytes, obs : Bytes]
Steps == {"idle", "down", "refused", "header", "record", "newflag", "setflag", "status", "par",
          "obs", "clearflag"}
OpNames == {"add", "update", "update_obs"}

TypeOK ==
  /\ n \in 0 .. MaxRuns
  /\ rec \in [Ids -> Record]
  /\ flag \in {"none", "clear", "set"}
  /\ buf \in [id : Nat, par : Bytes, obs : Bytes]
  /\ pc \in Steps
  /\ call \in [id : Nat, par : Bytes, obs : Bytes, op : OpNames]

(* What a restart would make of record i, and which records it would see. *)
Recovered(i) ==
  IF flag = "set" /\ i = buf.id THEN [st |-> 1, par |-> buf.par, obs |-> buf.obs] ELSE rec[i]
Complete == IF flag = "none" /\ n > 0 THEN n - 1 ELSE n

(* Observations count only in a record whose status is positive. *)
Shown(r) == IF r.st > 0 THEN r ELSE [r EXCEPT !.obs = Blank]
Contents == [i \in 0 .. Complete - 1 |-> Shown(Recovered(i))]
Records == INSTANCE RunRecords WITH count <- Complete, records <- Contents

(* KeepsRecords: update_run takes effect all at once whatever write a crash    *)
(* comes before, also when the restart that repairs the file crashes in turn;  *)
(* no operation touches another run's record.                                  *)
KeepsRecords == Records!Spec

(* ResultsMatchParameters: whenever the program turns to the file, what it     *)
(* shows as a finished run are observations computed from the parameters next  *)
(* to them, whatever crashes and restarts came before.                         *)
ResultsMatchParameters ==
  pc = "idle" => \A i \in Stored : rec[i].st > 0 => rec[i].obs = rec[i].par

(* FinishedRunsHaveResults: a run that the file shows as finished has          *)
(* observations, not what happened to be in the file before them.              *)
FinishedRunsHaveResults ==
  pc = "idle" => \A i \in Stored : rec[i].st > 0 => rec[i].obs \in Values

(* OnlyResultsFinish: a run becomes finished by update_run alone: up to the      *)
(* 128th failure, which is as far as Failing may go, the status byte goes down.  *)
(* The 129th wraps the int8_t to 127, and such a run would count as finished.   *)
OnlyResultsFinish ==
  [][\A i \in Ids : rec[i].st < 1 /\ rec'[i].st > 0 => pc = "status"]_vars
=============================================================================
