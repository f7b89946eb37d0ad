--------------------------- MODULE RunFilesProofs ---------------------------
(***************************************************************************)
(* Theorems about what the three files of a run manager say of its runs.    *)
(***************************************************************************)
EXTENDS RunFiles, FiniteSetTheorems, TLAPS

(* No number of failures that the storage may hold, MaxRunFail + 1 at most, is   *)
(* taken for the status of a cancelled run.                                     *)
StatusFits == MaxRunFail <= 98

Word == Values \cup {Blank, Zero}
FileRecord == [st : -128 .. 127, par : Word, obs : Word]
FileBuf == [id : Nat, par : Word, obs : Word]
FileCall == [id : Nat, par : Word, obs : Word, op : {"add", "update", "update_obs"}]
FailedIds == 0 .. 2 * NRuns - 1
AllIds == 0 .. 3 * NRuns - 1

Updating == {"setflag", "status", "par", "obs", "clearflag"}
Settles == {"failed", "failed count", "all", "all status"}

MainType ==
  /\ main_n = NRuns /\ main_rec \in [Runs -> FileRecord] /\ main_flag \in {"clear", "set"}
  /\ main_buf \in FileBuf /\ main_call \in FileCall /\ main_pc \in {"idle", "down"} \cup Updating
FailedType ==
  /\ failed_n \in 0 .. 2 * NRuns /\ failed_rec \in [FailedIds -> FileRecord]
  /\ failed_flag \in {"none", "clear"} /\ failed_buf \in FileBuf /\ failed_call \in FileCall
  /\ failed_pc \in {"idle", "down", "refused", "record", "newflag"}
AllType ==
  /\ all_n \in 0 .. 3 * NRuns /\ all_rec \in [AllIds -> FileRecord]
  /\ all_flag \in {"none", "clear", "set"} /\ all_buf \in FileBuf /\ all_call \in FileCall
  /\ all_pc \in {"idle", "down", "refused", "record", "newflag"} \cup Updating
ControlType ==
  /\ step \in Settles \cup {"idle", "down", "open failed", "open all", "aborted"}
  /\ manager \in Managers
TypeInv == MainType /\ FailedType /\ AllType /\ ControlType

(* The storage keeps the parameters of its runs. *)
MainInv ==
  /\ \A r \in Runs : main_rec[r].par = ParOf[r] /\ main_rec[r].st <= 1
                     /\ main_rec[r].st >= -MaxRunFail - 1
  /\ main_flag = "set" \/ main_pc = "setflag" =>
       main_buf.id \in Runs /\ main_buf.par = ParOf[main_buf.id]
  /\ main_pc \in Updating =>
       main_call.id \in Runs /\ main_call.par = ParOf[main_call.id]

(* What a list of settled runs may say, given the storage m: as FilesAgree and *)
(* RecordedOnce have it.                                                      *)
Agrees(s, z) ==
  /\ s < 0 => s <= -MaxRunFail /\ (z > 0 \/ z <= s)
  /\ s > 0 => z > 0
LogOK(file, k, m) ==
  /\ \A i \in DOMAIN file : i >= k => file[i].par = Blank
  /\ \A i \in DOMAIN file, r \in Runs : file[i].par = ParOf[r] => Agrees(file[i].st, m[r].st)
  /\ \A i, j \in DOMAIN file, r \in Runs :
       file[i].par = ParOf[r] /\ file[j].par = ParOf[r] /\ file[i].st = file[j].st /\ file[i].st # 0
         => i = j

(* A record that is being added is of the run that is being settled. *)
FailedInv ==
  /\ failed_pc \in {"record", "newflag"} => step = "failed count"
  /\ step = "failed count" =>
       /\ failed_pc \in {"record", "newflag", "idle"} /\ failed_n > 0
       /\ failed_call.id = failed_n - 1 /\ failed_call.par = ParOf[run]
       /\ failed_pc # "record" => failed_rec[failed_n - 1].par = ParOf[run]
AllInv ==
  /\ all_pc \in {"record", "newflag"} => step = "all status"
  /\ step = "all status" =>
       /\ all_pc \in {"record", "newflag", "idle"} /\ all_n > 0
       /\ all_call.id = all_n - 1 /\ all_call.par = ParOf[run]
       /\ all_pc # "record" => all_rec[all_n - 1].par = ParOf[run]

(* A record of the all-runs file whose result the buffer has, or will have: its *)
(* run is finished in the storage and in no other record.                      *)
Finishing(id) ==
  /\ id \in 0 .. all_n - 1
  /\ \A r \in Runs : all_rec[id].par = ParOf[r] =>
       Status(r) > 0 /\ \A j \in AllIds \ {id} : all_rec[j].par = ParOf[r] => all_rec[j].st # 1
UpdateInv ==
  /\ all_buf.par = Zero
  /\ all_flag = "set" \/ all_pc = "setflag" => Finishing(all_buf.id) /\ all_buf.obs \in Values
  /\ all_flag = "set" => all_pc \in {"down", "status", "par", "obs", "clearflag"}
  /\ all_pc \in {"status", "par", "obs", "clearflag"} => all_flag = "set"
  /\ all_pc \in Updating => /\ all_call.id = all_buf.id /\ all_call.obs \in Values /\ step = "idle"
  /\ all_pc = "setflag" => all_call.op = "update_obs"
  /\ all_pc \in {"status", "par"} => all_call.par = Zero \/ (all_pc = "status" /\ all_call.op = "update_obs")

(* A finished run has its results, but for the one that is in the buffer. *)
ResultsInv ==
  /\ \A i \in AllIds : all_rec[i].st > 0 =>
       all_rec[i].obs \in Values \/ (all_flag = "set" /\ i = all_buf.id)
  /\ all_pc = "clearflag" => all_rec[all_call.id].obs \in Values

(* What update_run or update_run_failed makes of the run, and that it is news to  *)
(* the lists.                                                                 *)
Outcome == IF main_pc \in {"setflag", "status"} THEN 1 ELSE Status(run)
SettleInv ==
  /\ step \in Settles =>
       /\ run \in Runs
       /\ step # "all" => main_pc = "idle"
       /\ main_pc # "down" /\ (main_pc \in Updating => main_call.id = run)
       /\ Outcome = 1 \/ Outcome <= -MaxRunFail
       /\ \A i \in AllIds : all_rec[i].par = ParOf[run] => all_rec[i].st # Outcome
  /\ step \in {"failed", "failed count"} =>
       /\ Outcome <= -MaxRunFail
       /\ \A i \in FailedIds : failed_rec[i].par = ParOf[run] => failed_rec[i].st # Outcome

FilesInv ==
  /\ TypeInv /\ MainInv /\ FailedInv /\ AllInv /\ UpdateInv /\ ResultsInv /\ SettleInv
  /\ LogOK(failed_rec, failed_n, main_rec) /\ LogOK(all_rec, all_n, main_rec)

-----------------------------------------------------------------------------
(* Lists of settled runs.                                                   *)

(* How the storage may change: a failure, or a result.                       *)
Moves(m, m2) ==
  \A r \in Runs : \/ m2[r].st = m[r].st \/ m2[r].st = 1
                  \/ m[r].st < 1 /\ m2[r].st < m[r].st

(* What the list says stays true whatever the storage learns.                *)
LEMMA LogKept ==
  ASSUME NEW file, NEW k, NEW m, NEW m2, LogOK(file, k, m), Moves(m, m2),
         \A r \in Runs : m[r].st \in Int /\ m2[r].st \in Int,
         \A i \in DOMAIN file : file[i].st \in Int
  PROVE  LogOK(file, k, m2)
<1>1. ASSUME NEW i \in DOMAIN file, NEW r \in Runs, file[i].par = ParOf[r]
      PROVE  Agrees(file[i].st, m2[r].st)
  <2>1. Agrees(file[i].st, m[r].st)
    BY <1>1 DEF LogOK
  <2>2. m2[r].st = m[r].st \/ m2[r].st = 1 \/ (m[r].st < 1 /\ m2[r].st < m[r].st)
    BY DEF Moves
  <2>3. PICK s, z, z2 : s = file[i].st /\ z = m[r].st /\ z2 = m2[r].st
    OBVIOUS
  <2>4. s \in Int /\ z \in Int /\ z2 \in Int
    BY <2>3
  <2>5. Agrees(s, z2)
    BY ONLY <2>1, <2>2, <2>3, <2>4 DEF Agrees
  <2> QED
    BY <2>3, <2>5
<1> QED
  BY <1>1 DEF LogOK

(* A new number of runs in the header adds no record.                        *)
LEMMA LogGrows ==
  ASSUME NEW file, NEW k \in Int, NEW m, LogOK(file, k, m), DOMAIN file \subseteq Int
  PROVE  LogOK(file, k + 1, m)
BY DEF LogOK

(* One record is written, which agrees with the storage and is news.          *)
LEMMA LogWrite ==
  ASSUME NEW I, I \subseteq Int, NEW file \in [I -> FileRecord], NEW k \in Int, NEW m, NEW i \in I, i < k,
         NEW z \in FileRecord, LogOK(file, k, m),
         \A r \in Runs : z.par = ParOf[r] =>
           /\ Agrees(z.st, m[r].st)
           /\ z.st # 0 => \A j \in I \ {i} : file[j].par = ParOf[r] => file[j].st # z.st
  PROVE  LogOK([file EXCEPT ![i] = z], k, m)
<1> DEFINE new == [file EXCEPT ![i] = z]
<1>1. DOMAIN new = I /\ DOMAIN file = I /\ new[i] = z /\ \A j \in I \ {i} : new[j] = file[j]
  OBVIOUS
<1> HIDE DEF new
<1>2. \A j \in I : j >= k => new[j].par = Blank
  <2>1. ASSUME NEW j \in I, j >= k
        PROVE  new[j].par = Blank
    <3>1. j # i
      BY <2>1
    <3> QED
      BY <1>1, <2>1, <3>1 DEF LogOK
  <2> QED
    BY <2>1
<1>3. \A j \in I, r \in Runs : new[j].par = ParOf[r] => Agrees(new[j].st, m[r].st)
  BY <1>1 DEF LogOK
<1>4. ASSUME NEW j \in I, NEW l \in I, NEW r \in Runs, new[j].par = ParOf[r], new[l].par = ParOf[r],
             new[j].st = new[l].st, new[j].st # 0
      PROVE  j = l
  BY <1>1, <1>4 DEF LogOK
<1>5. LogOK(new, k, m)
  BY <1>1, <1>2, <1>3, <1>4 DEF LogOK
<1> QED
  BY <1>5 DEF new

(* How often a run that is entered in a list may have failed.                *)
LEMMA CountsOfFiles ==
  \A k \in 1 .. MaxRunFail + 1 : k \in Failed!FailureCounts /\ k \in All!FailureCounts
<1>1. \A k \in 1 .. MaxRunFail + 1 : k - 1 \in 0 .. MaxRunFail /\ k = (k - 1) + 1
  BY FailAssumption
<1> QED
  BY <1>1 DEF Failed!FailureCounts, All!FailureCounts

(* A number that fits into an int8_t is stored as it is.                     *)
LEMMA ByteSmall == \A x \in -128 .. 127 : Main!Byte(x) = x /\ Failed!Byte(x) = x /\ All!Byte(x) = x
BY DEF Main!Byte, Failed!Byte, All!Byte

(* The parameters of a run are no blank bytes.                               *)
LEMMA ParValues == \A r \in Runs : ParOf[r] \in Values /\ ParOf[r] # Blank /\ ParOf[r] # Zero
BY ParAssumption, BytesAssumption

(* One or two fields of a record are written.                                *)
LEMMA FieldsSet ==
  ASSUME NEW e \in FileRecord, NEW s \in -128 .. 127, NEW p \in Word, NEW o \in Word
  PROVE  /\ [e EXCEPT !.st = s, !.par = p] \in FileRecord
         /\ [e EXCEPT !.st = s, !.par = p].st = s /\ [e EXCEPT !.st = s, !.par = p].par = p
         /\ [e EXCEPT !.st = s] \in FileRecord
         /\ [e EXCEPT !.st = s].st = s /\ [e EXCEPT !.st = s].par = e.par
         /\ [e EXCEPT !.par = p] \in FileRecord /\ [e EXCEPT !.par = p].par = p
         /\ [e EXCEPT !.par = p].st = e.st
         /\ [e EXCEPT !.obs = o] \in FileRecord /\ [e EXCEPT !.obs = o].obs = o
         /\ [e EXCEPT !.obs = o].st = e.st /\ [e EXCEPT !.obs = o].par = e.par
         /\ [e EXCEPT !.st = s].obs = e.obs /\ [e EXCEPT !.st = s, !.par = p].obs = e.obs
         /\ [e EXCEPT !.par = p].obs = e.obs
BY DEF FileRecord

(* The record that add_run writes.                                           *)
LEMMA RecordAdded ==
  ASSUME NEW e \in FileRecord, NEW p \in Values
  PROVE  LET z == [e EXCEPT !.st = 0, !.par = p] IN z \in FileRecord /\ z.par = p /\ z.st = 0
<1>1. p \in Word /\ 0 \in -128 .. 127
  BY DEF Word
<1> QED
  BY <1>1 DEF FileRecord

(* The record that set_run_nfailed or update_run writes.                     *)
LEMMA StatusSet ==
  ASSUME NEW e \in FileRecord, NEW s \in -128 .. 127
  PROVE  LET z == [e EXCEPT !.st = s] IN z \in FileRecord /\ z.par = e.par /\ z.st = s /\ z.obs = e.obs
BY DEF FileRecord

(* The numbers of records.                                                   *)
LEMMA CountTypes ==
  ASSUME TypeInv
  PROVE  /\ NRuns \in Nat /\ failed_n \in Int /\ failed_n >= 0 /\ all_n \in Int /\ all_n >= 0
         /\ failed_n <= 2 * NRuns /\ all_n <= 3 * NRuns
         /\ \A x \in Int : x \in FailedIds <=> 0 <= x /\ x <= 2 * NRuns - 1
         /\ \A x \in Int : x \in AllIds <=> 0 <= x /\ x <= 3 * NRuns - 1
<1>1. NRuns \in Nat
  BY ParAssumption
<1> QED
  BY <1>1 DEF TypeInv, FailedType, AllType, FailedIds, AllIds

(* What the types say of single records.                                     *)
LEMMA Records ==
  ASSUME TypeInv
  PROVE  /\ \A r \in Runs : main_rec[r] \in FileRecord /\ main_rec[r].st \in Int
         /\ \A i \in FailedIds : failed_rec[i] \in FileRecord /\ failed_rec[i].st \in Int
         /\ \A i \in AllIds : all_rec[i] \in FileRecord /\ all_rec[i].st \in Int
         /\ DOMAIN failed_rec = FailedIds /\ DOMAIN all_rec = AllIds /\ Runs \subseteq Nat
         /\ FailedIds \subseteq Nat /\ AllIds \subseteq Nat
<1>1. \A z \in FileRecord : z.st \in Int
  BY DEF FileRecord
<1>2. /\ \A r \in Runs : main_rec[r] \in FileRecord
      /\ \A i \in FailedIds : failed_rec[i] \in FileRecord
      /\ \A i \in AllIds : all_rec[i] \in FileRecord
      /\ DOMAIN failed_rec = FailedIds /\ DOMAIN all_rec = AllIds
  BY DEF TypeInv, MainType, FailedType, AllType
<1>3. Runs \subseteq Nat /\ FailedIds \subseteq Nat /\ AllIds \subseteq Nat
  BY ParAssumption DEF Runs, FailedIds, AllIds
<1> QED
  BY <1>1, <1>2, <1>3

(* A list has room for the records it counts.                                *)
LEMMA StoredIds ==
  ASSUME FilesInv
  PROVE  0 .. failed_n - 1 \subseteq FailedIds /\ 0 .. all_n - 1 \subseteq AllIds
<1>1. /\ NRuns \in Nat /\ failed_n \in Int /\ all_n \in Int /\ failed_n <= 2 * NRuns /\ all_n <= 3 * NRuns
  BY CountTypes DEF FilesInv
<1> QED
  BY <1>1 DEF FailedIds, AllIds

-----------------------------------------------------------------------------
(* Steps of the storage.                                                    *)

(* When only the storage is written, the lists keep telling the truth.        *)
LEMMA ListsFollow ==
  ASSUME FilesInv, OnMain, main_rec' \in [Runs -> FileRecord], Moves(main_rec, main_rec'),
         all_pc \in Updating => step' = "idle"
  PROVE  /\ UpdateInv' /\ ResultsInv'
         /\ LogOK(failed_rec, failed_n, main_rec)' /\ LogOK(all_rec, all_n, main_rec)'
<1>1. /\ UNCHANGED <<failed_rec, failed_n>> /\ UNCHANGED <<all_n, all_rec, all_flag, all_buf, all_pc, all_call>>
  BY DEF OnMain, failedVars, allVars
<1>2. /\ \A r \in Runs : main_rec[r].st \in Int /\ main_rec'[r].st \in Int
      /\ \A i \in DOMAIN failed_rec : failed_rec[i].st \in Int
      /\ \A i \in DOMAIN all_rec : all_rec[i].st \in Int
  <2>1. \A z \in FileRecord : z.st \in Int
    BY DEF FileRecord
  <2> QED
    BY <2>1, Records DEF FilesInv
<1>3. LogOK(failed_rec, failed_n, main_rec') /\ LogOK(all_rec, all_n, main_rec')
  BY <1>2, LogKept DEF FilesInv
<1>4. \A r \in Runs : Status(r) > 0 => Status(r)' > 0
  BY <1>2 DEF Moves, Status
<1>5. \A id : Finishing(id) => Finishing(id)'
  BY <1>1, <1>4 DEF Finishing
<1> QED
  BY <1>1, <1>3, <1>5 DEF FilesInv, UpdateInv, ResultsInv

(* A result for a run: it goes into the buffer, and is news to the all-runs file. *)
LEMMA FinishStep ==
  ASSUME FilesInv, NEW r \in Runs, Finish(r)
  PROVE  FilesInv'
<1>1. /\ step = "idle" /\ main_pc = "idle" /\ all_pc \notin Busy /\ failed_pc \notin Busy /\ Status(r) < 1
      /\ main_pc' = "setflag" /\ UNCHANGED <<main_n, main_rec, main_flag>>
      /\ main_call' = [id |-> r, par |-> main_rec[r].par, obs |-> main_rec[r].par, op |-> "update"]
      /\ main_buf' = [id |-> r, par |-> main_rec[r].par, obs |-> main_rec[r].par]
      /\ step' \in {"all", "idle"} /\ run' = r /\ manager' = manager
  BY DEF Finish, At, Quiet, Main!UpdateRun, Main!Begin, Main!Writes, RecordAll, Busy
<1>2. OnMain /\ UNCHANGED failedVars /\ UNCHANGED allVars
  BY DEF Finish, OnMain
<1>3. all_pc \notin Updating /\ all_pc \notin {"record", "newflag"} /\ failed_pc \notin {"record", "newflag"}
  BY <1>1 DEF Busy, Updating
<1>4. main_rec[r] \in FileRecord /\ main_rec[r].st \in Int /\ r \in Nat /\ \A i \in AllIds : all_rec[i].st \in Int
  BY Records DEF FilesInv
<1>5. TypeInv'
  <2>1. MainType'
    BY <1>1, <1>4 DEF FilesInv, TypeInv, MainType, FileRecord, FileBuf, FileCall, Updating
  <2>2. FailedType' /\ AllType' /\ ControlType'
    BY <1>1, <1>2 DEF FilesInv, TypeInv, FailedType, AllType, ControlType, failedVars, allVars, Settles
  <2> QED
    BY <2>1, <2>2 DEF TypeInv
<1>6. MainInv'
  BY <1>1 DEF FilesInv, MainInv
<1>7. FailedInv' /\ AllInv'
  BY <1>1, <1>2, <1>3 DEF FailedInv, AllInv, failedVars, allVars
<1>8. SettleInv'
  <2>1. \A i \in AllIds : all_rec[i].par = ParOf[r] => all_rec[i].st # 1
    <3>1. \A i \in AllIds : all_rec[i].par = ParOf[r] => Agrees(all_rec[i].st, main_rec[r].st)
      BY Records DEF FilesInv, LogOK
    <3> QED
      BY <1>1, <1>4, <3>1 DEF Agrees, Status
  <2> QED
    BY <1>1, <1>2, <2>1 DEF SettleInv, Outcome, Settles, Updating, allVars
<1>9. main_rec' \in [Runs -> FileRecord] /\ Moves(main_rec, main_rec')
  BY <1>1 DEF FilesInv, TypeInv, MainType, Moves
<1> QED
  BY <1>2, <1>3, <1>5, <1>6, <1>7, <1>8, <1>9, ListsFollow DEF FilesInv

(* A failure: one more than the lists can have heard of.                     *)
LEMMA FailStep ==
  ASSUME FilesInv, StatusFits, NEW r \in Runs, Fail(r)
  PROVE  FilesInv'
<1>1. /\ step = "idle" /\ main_pc = "idle" /\ all_pc \notin Busy /\ failed_pc \notin Busy
      /\ main_rec[r].st < 1 /\ -main_rec[r].st \in 0 .. MaxRunFail
      /\ main_rec' = [main_rec EXCEPT ![r].st = Main!Byte(main_rec[r].st - 1)]
      /\ UNCHANGED <<main_n, main_flag, main_buf, main_pc, main_call>>
      /\ step' = (IF Exceeded(r)' THEN "failed" ELSE "idle") /\ run' = r /\ manager' = manager
  BY DEF Fail, At, Quiet, Main!UpdateFailed, Busy
<1>2. OnMain /\ UNCHANGED failedVars /\ UNCHANGED allVars
  BY DEF Fail, OnMain
<1>3. all_pc \notin Updating /\ all_pc \notin {"record", "newflag"} /\ failed_pc \notin {"record", "newflag"}
  BY <1>1 DEF Busy, Updating
<1>4. /\ main_rec \in [Runs -> FileRecord] /\ main_rec[r].st \in Int
      /\ \A i \in AllIds : all_rec[i].st \in Int
      /\ \A i \in FailedIds : failed_rec[i].st \in Int
  BY Records DEF FilesInv, TypeInv, MainType
<1>5. main_rec[r].st - 1 \in -128 .. 127 /\ Main!Byte(main_rec[r].st - 1) = main_rec[r].st - 1
  <2>1. main_rec[r].st - 1 \in -128 .. 127
    BY <1>1, <1>4, FailAssumption DEF StatusFits
  <2> QED
    BY <2>1, ByteSmall
<1>6. /\ main_rec' \in [Runs -> FileRecord]
      /\ main_rec'[r].st = main_rec[r].st - 1
      /\ \A q \in Runs : main_rec'[q].par = main_rec[q].par /\ (q # r => main_rec'[q] = main_rec[q])
  BY <1>1, <1>4, <1>5 DEF FileRecord
<1>7. TypeInv'
  <2>1. MainType'
    BY <1>1, <1>6 DEF FilesInv, TypeInv, MainType
  <2>2. FailedType' /\ AllType' /\ ControlType'
    BY <1>1, <1>2 DEF FilesInv, TypeInv, FailedType, AllType, ControlType, failedVars, allVars, Settles
  <2> QED
    BY <2>1, <2>2 DEF TypeInv
<1>8. MainInv'
  BY <1>1, <1>4, <1>6, FailAssumption DEF FilesInv, MainInv
<1>9. FailedInv' /\ AllInv'
  BY <1>1, <1>2, <1>3 DEF FailedInv, AllInv, failedVars, allVars
<1>10. SettleInv'
  <2>1. \A i \in AllIds : all_rec[i].par = ParOf[r] => all_rec[i].st # main_rec[r].st - 1
    <3>1. \A i \in AllIds : all_rec[i].par = ParOf[r] => Agrees(all_rec[i].st, main_rec[r].st)
      BY Records DEF FilesInv, LogOK
    <3> QED
      BY <1>1, <1>4, <3>1 DEF Agrees
  <2>2. \A i \in FailedIds : failed_rec[i].par = ParOf[r] => failed_rec[i].st # main_rec[r].st - 1
    <3>1. \A i \in FailedIds : failed_rec[i].par = ParOf[r] => Agrees(failed_rec[i].st, main_rec[r].st)
      BY Records DEF FilesInv, LogOK
    <3> QED
      BY <1>1, <1>4, <3>1 DEF Agrees
  <2>3. Outcome' = main_rec[r].st - 1
    BY <1>1, <1>6 DEF Outcome, Status
  <2>4. step' = "failed" => main_rec[r].st - 1 <= -MaxRunFail
    BY <1>1, <1>6 DEF Exceeded, TooMany, Status
  <2> QED
    BY <1>1, <1>2, <2>1, <2>2, <2>3, <2>4 DEF SettleInv, Settles, Updating, allVars, failedVars
<1>11. Moves(main_rec, main_rec')
  BY <1>1, <1>4, <1>6 DEF Moves
<1> QED
  BY <1>2, <1>3, <1>6, <1>7, <1>8, <1>9, <1>10, <1>11, ListsFollow DEF FilesInv

(* The writes of update_run on the storage.                                  *)
LEMMA MainWrites ==
  ASSUME FilesInv, Main!SetFlag \/ Main!WriteStatus \/ Main!WritePar \/ Main!WriteObs \/ Main!ClearFlag,
         OnMain, UNCHANGED <<step, run, crashes, manager>>
  PROVE  FilesInv'
<1> DEFINE c == main_call.id
<1>1. /\ main_pc \in Updating /\ UNCHANGED <<main_n, main_buf, main_call>> /\ UNCHANGED failedVars /\ UNCHANGED allVars
      /\ main_pc' \in Updating \cup {"idle"} /\ main_pc' # "setflag"
      /\ main_flag' = main_flag \/ (main_flag' = "set" /\ main_pc = "setflag") \/ main_flag' = "clear"
      /\ main_pc = "setflag" => main_pc' = "status" /\ main_rec' = main_rec
      /\ main_pc # "setflag" => main_pc' # "status"
      /\ main_pc = "status" => main_rec' = [main_rec EXCEPT ![c].st = 1]
      /\ main_pc \notin {"status", "setflag"} =>
           \/ main_rec' = main_rec
           \/ main_rec' = [main_rec EXCEPT ![c].par = main_call.par]
           \/ main_rec' = [main_rec EXCEPT ![c].obs = main_call.obs]
  BY DEF Main!SetFlag, Main!WriteStatus, Main!WritePar, Main!WriteObs, Main!ClearFlag, Main!Writes,
         Updating, OnMain
<1>2. c \in Runs /\ main_call.par = ParOf[c] /\ main_call \in FileCall /\ main_rec \in [Runs -> FileRecord]
  BY <1>1 DEF FilesInv, MainInv, TypeInv, MainType
<1>3. /\ main_rec' \in [Runs -> FileRecord]
      /\ \A r \in Runs : main_rec'[r].par = ParOf[r]
      /\ \A r \in Runs : main_rec'[r].st = IF main_pc = "status" /\ r = c THEN 1 ELSE main_rec[r].st
  BY <1>1, <1>2 DEF FileRecord, FileCall, FilesInv, MainInv
<1>4. TypeInv'
  <2>1. MainType'
    BY <1>1, <1>3 DEF FilesInv, TypeInv, MainType
  <2>2. FailedType' /\ AllType' /\ ControlType'
    BY <1>1 DEF FilesInv, TypeInv, FailedType, AllType, ControlType, failedVars, allVars
  <2> QED
    BY <2>1, <2>2 DEF TypeInv
<1>5. MainInv'
  <2>1. \A r \in Runs : main_rec'[r].st <= 1 /\ main_rec'[r].st >= -MaxRunFail - 1
    BY <1>3, FailAssumption DEF FilesInv, MainInv
  <2> QED
    BY <1>1, <1>3, <2>1 DEF FilesInv, MainInv
<1>6. FailedInv' /\ AllInv'
  BY <1>1 DEF FilesInv, FailedInv, AllInv, failedVars, allVars
<1>7. SettleInv'
  <2>1. step \in Settles => Outcome' = Outcome
    BY <1>1, <1>3 DEF FilesInv, SettleInv, Outcome, Status
  <2>2. /\ UNCHANGED <<step, run, all_rec, failed_rec, main_call>>
        /\ main_pc # "idle" /\ main_pc' # "down" /\ main_pc \in Updating
    BY <1>1 DEF failedVars, allVars, Updating
  <2> QED
    BY <2>1, <2>2 DEF FilesInv, SettleInv, Settles
<1>8. Moves(main_rec, main_rec')
  BY <1>3 DEF Moves
<1> QED
  BY <1>3, <1>4, <1>5, <1>6, <1>7, <1>8, ListsFollow DEF FilesInv, UpdateInv

(* initialize_restart of the storage.                                        *)
LEMMA OpenMainStep ==
  ASSUME FilesInv, OpenMain
  PROVE  FilesInv'
<1>1. /\ step = "down" /\ step' \in {"open failed", "idle"} /\ run' = run /\ manager' = manager
      /\ main_pc = "down" /\ UNCHANGED <<main_n, main_rec, main_flag, main_buf>>
      /\ failed_pc \notin Busy /\ all_pc \notin Busy
      /\ \/ main_flag = "none" /\ main_pc' = "refused" /\ main_call' = main_call
         \/ main_flag = "clear" /\ main_pc' = "idle" /\ main_call' = main_call
         \/ /\ main_flag = "set" /\ main_pc' = "status"
            /\ main_call' = [id |-> main_buf.id, par |-> main_buf.par, obs |-> main_buf.obs, op |-> "update"]
  BY DEF OpenMain, At, Quiet, Continue, Main!Restart, Main!Writes, Main!file, Busy
<1>2. OnMain /\ UNCHANGED failedVars /\ UNCHANGED allVars
  BY DEF OpenMain, OnMain
<1>3. all_pc \notin Updating /\ all_pc \notin {"record", "newflag"} /\ failed_pc \notin {"record", "newflag"}
  BY <1>1 DEF Busy, Updating
<1>4. /\ main_buf \in FileBuf /\ main_call \in FileCall /\ main_flag # "none"
      /\ [id |-> main_buf.id, par |-> main_buf.par, obs |-> main_buf.obs, op |-> "update"] \in FileCall
  BY DEF FilesInv, TypeInv, MainType, FileBuf, FileCall
<1>5. \/ main_pc' = "idle" /\ main_call' = main_call
      \/ /\ main_flag = "set" /\ main_pc' = "status" /\ main_call' \in FileCall
         /\ main_call'.id = main_buf.id /\ main_call'.par = main_buf.par
  <2>1. CASE main_flag = "clear"
    BY <1>1, <2>1
  <2>2. CASE main_flag = "set"
    <3> DEFINE c == [id |-> main_buf.id, par |-> main_buf.par, obs |-> main_buf.obs, op |-> "update"]
    <3>1. main_pc' = "status" /\ main_call' = c
      BY <1>1, <2>2
    <3>2. c \in FileCall /\ c.id = main_buf.id /\ c.par = main_buf.par
      BY <1>4
    <3> HIDE DEF c
    <3> QED
      BY <2>2, <3>1, <3>2
  <2> QED
    BY <1>4, <2>1, <2>2 DEF FilesInv, TypeInv, MainType
<1>6. TypeInv'
  <2>1. MainType'
    BY <1>1, <1>4, <1>5 DEF FilesInv, TypeInv, MainType, Updating
  <2>2. FailedType' /\ AllType' /\ ControlType'
    BY <1>1, <1>2 DEF FilesInv, TypeInv, FailedType, AllType, ControlType, failedVars, allVars
  <2> QED
    BY <2>1, <2>2 DEF TypeInv
<1>7. MainInv'
  BY <1>1, <1>5 DEF FilesInv, MainInv, Updating
<1>8. FailedInv' /\ AllInv' /\ SettleInv'
  BY <1>1, <1>2, <1>3 DEF FailedInv, AllInv, SettleInv, Settles, failedVars, allVars
<1>9. main_rec' \in [Runs -> FileRecord] /\ Moves(main_rec, main_rec')
  BY <1>1 DEF FilesInv, TypeInv, MainType, Moves
<1> QED
  BY <1>2, <1>3, <1>6, <1>7, <1>8, <1>9, ListsFollow DEF FilesInv

-----------------------------------------------------------------------------
(* Steps of the list of failed runs.                                        *)

(* Whose run is being settled, and what is known of it.                      *)
LEMMA Settled ==
  ASSUME FilesInv, step \in Settles
  PROVE  /\ run \in Runs /\ Outcome \in Int /\ Outcome # 0
         /\ ParOf[run] \in Values /\ ParOf[run] # Blank /\ ParOf[run] # Zero
         /\ main_rec[run] \in FileRecord /\ main_rec[run].par = ParOf[run]
         /\ \A r \in Runs : ParOf[r] = ParOf[run] => r = run
         /\ main_pc = "idle" => Outcome = Status(run) /\ Agrees(Outcome, Status(run))
<1>1. run \in Runs /\ (Outcome = 1 \/ Outcome <= -MaxRunFail)
  BY DEF FilesInv, SettleInv
<1>2. main_rec[run] \in FileRecord /\ main_rec[run].st \in Int /\ main_rec[run].par = ParOf[run]
  BY <1>1, Records DEF FilesInv, MainInv
<1>3. Outcome \in Int /\ Outcome # 0
  BY <1>1, <1>2, FailAssumption DEF Outcome, Status
<1>4. main_pc = "idle" => Outcome = Status(run) /\ Agrees(Outcome, Status(run))
  <2>1. main_pc = "idle" => Outcome = Status(run)
    BY DEF Outcome
  <2> QED
    BY <1>1, <1>3, <2>1, FailAssumption DEF Agrees
<1> QED
  BY <1>1, <1>2, <1>3, <1>4, ParValues, ParAssumption

(* add_run on the list: the header first.                                    *)
LEMMA AddFailedStep ==
  ASSUME FilesInv, AddFailed
  PROVE  FilesInv'
<1>1. /\ step = "failed" /\ step' = "failed count" /\ run' = run /\ manager' = manager
      /\ failed_pc = "idle" /\ failed_pc' = "record" /\ failed_n < 2 * NRuns /\ failed_n' = failed_n + 1
      /\ failed_flag' = "none" /\ UNCHANGED <<failed_rec, failed_buf>>
      /\ failed_call' = [id |-> failed_n, par |-> main_rec[run].par, obs |-> Blank, op |-> "add"]
      /\ all_pc \notin Busy
  BY DEF AddFailed, At, Quiet, Continue, Failed!AddRun, Failed!Begin, Failed!Writes, Busy
<1>2. UNCHANGED mainVars /\ UNCHANGED allVars
  BY DEF AddFailed, OnFailed
<1>3. /\ run \in Runs /\ main_rec[run] \in FileRecord /\ main_rec[run].par = ParOf[run] /\ main_pc = "idle"
      /\ Outcome <= -MaxRunFail
  BY <1>1, Settled DEF Settles, FilesInv, SettleInv
<1>4. failed_n \in Nat /\ failed_n' \in 0 .. 2 * NRuns /\ failed_n' - 1 = failed_n
  <2>1. failed_n \in Int /\ failed_n >= 0 /\ NRuns \in Nat
    BY CountTypes DEF FilesInv
  <2>2. failed_n < 2 * NRuns /\ failed_n' = failed_n + 1
    BY <1>1
  <2> QED
    BY ONLY <2>1, <2>2
<1>5. TypeInv'
  <2>1. FailedType'
    BY <1>1, <1>3, <1>4 DEF FilesInv, TypeInv, FailedType, FileCall, FileRecord, Word
  <2>2. MainType' /\ AllType' /\ ControlType'
    BY <1>1, <1>2 DEF FilesInv, TypeInv, MainType, AllType, ControlType, mainVars, allVars, Settles
  <2> QED
    BY <2>1, <2>2 DEF TypeInv
<1>6. MainInv' /\ UpdateInv' /\ ResultsInv' /\ AllInv'
  BY <1>1, <1>2 DEF FilesInv, MainInv, UpdateInv, Finishing, Status, ResultsInv, AllInv, mainVars, allVars, Busy, Updating
<1>7. FailedInv'
  <2> DEFINE c == [id |-> failed_n, par |-> main_rec[run].par, obs |-> Blank, op |-> "add"]
  <2>1. c.id = failed_n /\ c.par = ParOf[run]
    BY <1>3
  <2>2. failed_call' = c
    BY <1>1
  <2> HIDE DEF c
  <2>3. failed_n' > 0 /\ failed_n' - 1 = failed_n
    <3>1. failed_n \in Nat /\ failed_n' = failed_n + 1
      BY <1>1, <1>4
    <3> QED
      BY ONLY <3>1
  <2>4. failed_call'.id = failed_n /\ failed_call'.par = ParOf[run]
    BY <2>1, <2>2
  <2> QED
    BY <1>1, <2>3, <2>4 DEF FailedInv
<1>8. SettleInv'
  BY <1>1, <1>2, <1>3 DEF FilesInv, SettleInv, Outcome, Status, Settles, mainVars, allVars
<1>9. LogOK(failed_rec, failed_n, main_rec)' /\ LogOK(all_rec, all_n, main_rec)'
  <2>1. LogOK(failed_rec, failed_n + 1, main_rec)
    BY <1>4, LogGrows, Records DEF FilesInv
  <2> QED
    BY <1>1, <1>2, <2>1 DEF FilesInv, mainVars, allVars
<1> QED
  BY <1>5, <1>6, <1>7, <1>8, <1>9 DEF FilesInv

(* set_run_nfailed on the record just added.                                 *)
LEMMA CountStep ==
  ASSUME FilesInv, CountFailures
  PROVE  FilesInv'
<1> DEFINE k == failed_n - 1
           z == [failed_rec[k] EXCEPT !.st = Status(run)]
<1>1. /\ step = "failed count" /\ step' = RecordAll /\ run' = run /\ manager' = manager
      /\ failed_pc = "idle" /\ all_pc \notin Busy
      /\ failed_rec' = [failed_rec EXCEPT ![failed_n - 1].st = Failed!Byte(-(-Status(run)))]
      /\ UNCHANGED <<failed_n, failed_flag, failed_buf, failed_pc, failed_call>>
  BY DEF CountFailures, At, Quiet, Continue, Failed!SetFailed, Busy
<1>2. UNCHANGED mainVars /\ UNCHANGED allVars
  BY DEF CountFailures, OnFailed
<1>3. /\ run \in Runs /\ main_rec[run] \in FileRecord /\ main_rec[run].par = ParOf[run] /\ main_pc = "idle"
      /\ Outcome <= -MaxRunFail /\ Outcome = Status(run) /\ Outcome # 0 /\ Agrees(Outcome, Status(run))
      /\ \A r \in Runs : ParOf[r] = ParOf[run] => r = run
      /\ \A i \in FailedIds : failed_rec[i].par = ParOf[run] => failed_rec[i].st # Outcome
  BY <1>1, Settled DEF Settles, FilesInv, SettleInv
<1>4. failed_n \in Int /\ k \in FailedIds /\ failed_n > 0 /\ failed_rec[k].par = ParOf[run]
      /\ failed_rec \in [FailedIds -> FileRecord]
  <2>1. failed_n > 0 /\ failed_rec[k].par = ParOf[run] /\ failed_rec \in [FailedIds -> FileRecord]
    BY <1>1 DEF FilesInv, TypeInv, FailedType, FailedInv
  <2> QED
    BY <2>1, CountTypes DEF FilesInv
<1>5. Status(run) \in -128 .. 127 /\ Failed!Byte(-(-Status(run))) = Status(run)
  <2>1. Status(run) \in -128 .. 127
    BY <1>3 DEF Status, FileRecord
  <2>2. -(-Status(run)) = Status(run)
    BY <2>1
  <2> QED
    BY <2>1, <2>2, ByteSmall
<1>6. z \in FileRecord /\ z.par = ParOf[run] /\ z.st = Status(run) /\ failed_rec' = [failed_rec EXCEPT ![k] = z]
  <2>1. failed_rec[k] \in FileRecord /\ Blank \in Word
    BY <1>4 DEF Word
  <2>2. failed_rec' = [failed_rec EXCEPT ![k] = z]
    BY <1>1, <1>5
  <2> QED
    BY <1>4, <1>5, <2>1, <2>2, FieldsSet
<1>7. TypeInv'
  <2> HIDE DEF z
  <2>1. FailedType'
    BY <1>1, <1>4, <1>6 DEF FilesInv, TypeInv, FailedType
  <2>2. MainType' /\ AllType' /\ ControlType'
    BY <1>1, <1>2 DEF FilesInv, TypeInv, MainType, AllType, ControlType, mainVars, allVars, Settles, RecordAll
  <2> QED
    BY <2>1, <2>2 DEF TypeInv
<1>8. MainInv' /\ UpdateInv' /\ ResultsInv' /\ AllInv'
  BY <1>1, <1>2 DEF FilesInv, MainInv, UpdateInv, Finishing, Status, ResultsInv, AllInv, mainVars, allVars, Busy,
     Updating, RecordAll
<1>9. FailedInv'
  BY <1>1 DEF FailedInv, RecordAll
<1>10. SettleInv'
  BY <1>1, <1>2, <1>3 DEF FilesInv, SettleInv, Outcome, Status, Settles, mainVars, allVars, RecordAll
<1>11. LogOK(failed_rec, failed_n, main_rec)' /\ LogOK(all_rec, all_n, main_rec)'
  <2> HIDE DEF k, z
  <2>1. k < failed_n
    BY <1>4 DEF k
  <2>2. LogOK([failed_rec EXCEPT ![k] = z], failed_n, main_rec)
    <3>1. \A r \in Runs : z.par = ParOf[r] =>
            /\ Agrees(z.st, main_rec[r].st)
            /\ z.st # 0 => \A j \in FailedIds \ {k} : failed_rec[j].par = ParOf[r] => failed_rec[j].st # z.st
      BY <1>3, <1>6 DEF Status
    <3>2. FailedIds \subseteq Int /\ LogOK(failed_rec, failed_n, main_rec)
      BY Records DEF FilesInv
    <3> QED
      BY <1>4, <1>6, <2>1, <3>1, <3>2, LogWrite, Zenon
  <2> QED
    BY <1>1, <1>2, <1>6, <2>2 DEF FilesInv, mainVars, allVars
<1> QED
  BY <1>7, <1>8, <1>9, <1>10, <1>11 DEF FilesInv

(* The record of add_run and the flag behind it.                             *)
LEMMA FailedWrites ==
  ASSUME FilesInv, Failed!WriteRecord \/ Failed!WriteNewFlag, OnFailed, UNCHANGED <<step, run, crashes, manager>>
  PROVE  FilesInv'
<1> DEFINE k == failed_n - 1
           z == [failed_rec[k] EXCEPT !.st = 0, !.par = ParOf[run]]
<1>1. UNCHANGED mainVars /\ UNCHANGED allVars
  BY DEF OnFailed
<1>2. failed_pc \in {"record", "newflag"} /\ step = "failed count"
  BY DEF Failed!WriteRecord, Failed!WriteNewFlag, FilesInv, FailedInv
<1>3. /\ run \in Runs /\ Outcome # 0 /\ ParOf[run] \in Values /\ Outcome <= -MaxRunFail
      /\ \A r \in Runs : ParOf[r] = ParOf[run] => r = run
      /\ \A i \in FailedIds : failed_rec[i].par = ParOf[run] => failed_rec[i].st # Outcome
  BY <1>2, Settled DEF Settles, FilesInv, SettleInv
<1>4. failed_n \in Int /\ k \in FailedIds /\ failed_n > 0 /\ failed_rec \in [FailedIds -> FileRecord]
      /\ failed_call.id = k /\ failed_call.par = ParOf[run]
  <2>1. failed_n > 0 /\ failed_rec \in [FailedIds -> FileRecord] /\ failed_call.id = k
        /\ failed_call.par = ParOf[run]
    BY <1>2 DEF FilesInv, TypeInv, FailedType, FailedInv
  <2> QED
    BY <2>1, CountTypes DEF FilesInv
<1>5. z \in FileRecord /\ z.par = ParOf[run] /\ z.st = 0
  <2>1. failed_rec[k] \in FileRecord
    BY <1>4
  <2> QED
    BY <1>3, <2>1, RecordAdded, Zenon
<1>6. \/ /\ failed_rec' = [failed_rec EXCEPT ![k] = z] /\ failed_pc' = "newflag"
         /\ UNCHANGED <<failed_n, failed_flag, failed_buf, failed_call>>
      \/ /\ failed_pc = "newflag" /\ failed_pc' = "idle" /\ failed_flag' = "clear"
         /\ failed_buf' = [id |-> 0, par |-> Zero, obs |-> Zero]
         /\ UNCHANGED <<failed_n, failed_rec, failed_call>>
  BY <1>4 DEF Failed!WriteRecord, Failed!WriteNewFlag, Failed!Writes
<1> HIDE DEF z
<1>7. TypeInv'
  <2>1. FailedType'
    BY <1>4, <1>5, <1>6 DEF FilesInv, TypeInv, FailedType, FileBuf, Word
  <2>2. MainType' /\ AllType' /\ ControlType'
    BY <1>1 DEF FilesInv, TypeInv, MainType, AllType, ControlType, mainVars, allVars
  <2> QED
    BY <2>1, <2>2 DEF TypeInv
<1>8. MainInv' /\ UpdateInv' /\ ResultsInv' /\ AllInv'
  BY <1>1 DEF FilesInv, MainInv, UpdateInv, Finishing, Status, ResultsInv, AllInv, mainVars, allVars
<1>9. FailedInv'
  BY <1>2, <1>4, <1>5, <1>6 DEF FilesInv, FailedInv
<1>10. SettleInv'
  <2>1. \A i \in FailedIds : failed_rec'[i].par = ParOf[run] => failed_rec'[i].st # Outcome
    BY <1>3, <1>4, <1>5, <1>6
  <2>2. Outcome' = Outcome
    BY <1>1 DEF Outcome, Status, mainVars
  <2> QED
    BY <1>1, <2>1, <2>2 DEF FilesInv, SettleInv, mainVars, allVars
<1>11. LogOK(failed_rec, failed_n, main_rec)' /\ LogOK(all_rec, all_n, main_rec)'
  <2> HIDE DEF k
  <2>1. k < failed_n
    BY <1>4 DEF k
  <2>2. LogOK([failed_rec EXCEPT ![k] = z], failed_n, main_rec)
    <3>1. \A r \in Runs : z.par = ParOf[r] =>
            /\ Agrees(z.st, main_rec[r].st)
            /\ z.st # 0 => \A j \in FailedIds \ {k} : failed_rec[j].par = ParOf[r] => failed_rec[j].st # z.st
      BY <1>5 DEF Agrees
    <3>2. FailedIds \subseteq Int /\ LogOK(failed_rec, failed_n, main_rec)
      BY Records DEF FilesInv
    <3> QED
      BY <1>4, <1>5, <2>1, <3>1, <3>2, LogWrite, Zenon
  <2> QED
    BY <1>1, <1>6, <2>2 DEF FilesInv, mainVars, allVars
<1> QED
  BY <1>7, <1>8, <1>9, <1>10, <1>11 DEF FilesInv

-----------------------------------------------------------------------------
(* Steps of the list of all settled runs.                                   *)

(* add_run on the list: the header first.                                    *)
LEMMA AddToAllStep ==
  ASSUME FilesInv, AddToAll
  PROVE  FilesInv'
<1>1. /\ step = "all" /\ step' = "all status" /\ run' = run /\ manager' = manager
      /\ all_pc = "idle" /\ all_pc' = "record" /\ all_n < 3 * NRuns /\ all_n' = all_n + 1
      /\ all_flag' = "none" /\ UNCHANGED <<all_rec, all_buf>>
      /\ all_call' = [id |-> all_n, par |-> main_rec[run].par, obs |-> Blank, op |-> "add"]
      /\ main_pc \notin Busy /\ failed_pc \notin Busy
  BY DEF AddToAll, At, Quiet, Continue, All!AddRun, All!Begin, All!Writes, Busy
<1>2. UNCHANGED mainVars /\ UNCHANGED failedVars
  BY DEF AddToAll, OnAll
<1>3. /\ run \in Runs /\ main_rec[run] \in FileRecord /\ main_rec[run].par = ParOf[run] /\ main_pc = "idle"
      /\ ParOf[run] \in Values
  <2>1. main_pc \in {"idle", "down"} \cup Updating /\ main_pc # "down"
    BY <1>1 DEF FilesInv, TypeInv, MainType, SettleInv, Settles
  <2>2. main_pc = "idle"
    BY <1>1, <2>1 DEF Busy, Updating
  <2> QED
    BY <1>1, <2>2, Settled DEF Settles
<1>4. all_n \in Nat /\ all_n' \in 0 .. 3 * NRuns /\ all_n' - 1 = all_n
  <2>1. all_n \in Int /\ all_n >= 0 /\ NRuns \in Nat
    BY CountTypes DEF FilesInv
  <2>2. all_n < 3 * NRuns /\ all_n' = all_n + 1
    BY <1>1
  <2> QED
    BY ONLY <2>1, <2>2
<1>5. all_call' \in FileCall /\ all_call'.id = all_n /\ all_call'.par = ParOf[run]
  <2> DEFINE c == [id |-> all_n, par |-> main_rec[run].par, obs |-> Blank, op |-> "add"]
  <2>1. c \in FileCall /\ c.id = all_n /\ c.par = ParOf[run]
    BY <1>3, <1>4 DEF FileCall, Word
  <2>2. all_call' = c
    BY <1>1
  <2> HIDE DEF c
  <2> QED
    BY <2>1, <2>2
<1>6. TypeInv'
  <2>1. AllType'
    BY <1>1, <1>4, <1>5 DEF FilesInv, TypeInv, AllType
  <2>2. MainType' /\ FailedType' /\ ControlType'
    BY <1>1, <1>2 DEF FilesInv, TypeInv, MainType, FailedType, ControlType, mainVars, failedVars, Settles
  <2> QED
    BY <2>1, <2>2 DEF TypeInv
<1>7. MainInv' /\ FailedInv'
  BY <1>1, <1>2 DEF FilesInv, MainInv, FailedInv, mainVars, failedVars
<1>8. UpdateInv' /\ ResultsInv'
  <2>1. all_flag # "set"
    BY <1>1 DEF FilesInv, UpdateInv
  <2> QED
    BY <1>1, <2>1 DEF FilesInv, UpdateInv, ResultsInv, Updating
<1>9. AllInv'
  <2>1. all_n' > 0 /\ all_n' - 1 = all_n
    <3>1. all_n \in Nat /\ all_n' = all_n + 1
      BY <1>1, <1>4
    <3> QED
      BY ONLY <3>1
  <2> QED
    BY <1>1, <1>5, <2>1 DEF AllInv
<1>10. SettleInv'
  BY <1>1, <1>2, <1>3 DEF FilesInv, SettleInv, Outcome, Status, Settles, mainVars, failedVars
<1>11. LogOK(failed_rec, failed_n, main_rec)' /\ LogOK(all_rec, all_n, main_rec)'
  <2>1. LogOK(all_rec, all_n + 1, main_rec)
    BY <1>4, LogGrows, Records DEF FilesInv
  <2> QED
    BY <1>1, <1>2, <2>1 DEF FilesInv, mainVars, failedVars
<1> QED
  BY <1>6, <1>7, <1>8, <1>9, <1>10, <1>11 DEF FilesInv

(* What record_all_run has found when it writes the outcome.                 *)
LEMMA Recording ==
  ASSUME FilesInv, step = "all status"
  PROVE  /\ run \in Runs /\ ParOf[run] \in Values /\ main_pc = "idle"
         /\ \A r \in Runs : ParOf[r] = ParOf[run] => r = run
         /\ Outcome = Status(run) /\ (Outcome = 1 \/ Outcome <= -MaxRunFail) /\ Outcome # 0
         /\ Agrees(Outcome, Status(run)) /\ Status(run) \in -128 .. 127
         /\ \A i \in AllIds : all_rec[i].par = ParOf[run] => all_rec[i].st # Outcome
         /\ all_n \in Int /\ all_n > 0 /\ all_n - 1 \in AllIds /\ all_rec \in [AllIds -> FileRecord]
         /\ all_call.id = all_n - 1 /\ all_call.par = ParOf[run] /\ all_flag # "set"
         /\ all_pc \in {"record", "newflag", "idle"}
         /\ all_pc # "record" => all_rec[all_n - 1].par = ParOf[run]
<1>1. /\ run \in Runs /\ main_pc = "idle" /\ (Outcome = 1 \/ Outcome <= -MaxRunFail)
      /\ \A i \in AllIds : all_rec[i].par = ParOf[run] => all_rec[i].st # Outcome
  BY DEF FilesInv, SettleInv, Settles
<1>2. /\ ParOf[run] \in Values /\ \A r \in Runs : ParOf[r] = ParOf[run] => r = run
      /\ Outcome = Status(run) /\ Outcome # 0 /\ Agrees(Outcome, Status(run)) /\ main_rec[run] \in FileRecord
  BY <1>1, Settled DEF Settles
<1>3. Status(run) \in -128 .. 127
  BY <1>2 DEF Status, FileRecord
<1>4. /\ all_n > 0 /\ all_rec \in [AllIds -> FileRecord] /\ all_call.id = all_n - 1 /\ all_call.par = ParOf[run]
      /\ all_pc \in {"record", "newflag", "idle"} /\ (all_pc # "record" => all_rec[all_n - 1].par = ParOf[run])
  BY DEF FilesInv, TypeInv, AllType, AllInv
<1>5. all_n \in Int /\ all_n - 1 \in AllIds
  <2>1. /\ all_n \in Int /\ all_n <= 3 * NRuns /\ NRuns \in Nat
        /\ \A x \in Int : x \in AllIds <=> 0 <= x /\ x <= 3 * NRuns - 1
    BY CountTypes DEF FilesInv
  <2> QED
    BY ONLY <1>4, <2>1
<1>6. all_flag # "set"
  BY <1>4 DEF FilesInv, UpdateInv
<1> QED
  BY <1>1, <1>2, <1>3, <1>4, <1>5, <1>6

(* Only the list of all settled runs and the step are different.             *)
LEMMA OthersKept ==
  ASSUME FilesInv, OnAll, UNCHANGED <<run, manager>>
  PROVE  /\ MainType' /\ FailedType' /\ MainInv' /\ LogOK(failed_rec, failed_n, main_rec)'
         /\ UNCHANGED <<main_rec, main_pc, main_call>> /\ Outcome' = Outcome
         /\ failed_pc' = failed_pc
         /\ UNCHANGED <<failed_rec, failed_n, failed_call>>
BY DEF OnAll, FilesInv, TypeInv, MainType, FailedType, MainInv, Outcome, Status, mainVars, failedVars

(* The outcome of the run in the record just added: a number of failures, or a *)
(* result, which goes into the buffer first.                                  *)
LEMMA RecordStatusStep ==
  ASSUME FilesInv, RecordStatus
  PROVE  FilesInv'
<1> DEFINE k == all_n - 1
<1>1. /\ step = "all status" /\ step' = "idle" /\ run' = run /\ manager' = manager
      /\ main_pc \notin Busy /\ failed_pc \notin Busy /\ OnAll
  BY DEF RecordStatus, At, Quiet, Continue, Busy
<1>2. /\ MainType' /\ FailedType' /\ MainInv' /\ LogOK(failed_rec, failed_n, main_rec)'
      /\ UNCHANGED <<main_rec, failed_pc>>
  BY <1>1, OthersKept
<1>3. ControlType' /\ FailedInv' /\ SettleInv'
  BY <1>1, <1>2 DEF FilesInv, TypeInv, ControlType, FailedInv, SettleInv, Settles, Busy
<1>4. CASE Status(run) > 0
  <2>1. /\ all_pc = "idle" /\ all_pc' = "setflag" /\ UNCHANGED <<all_n, all_rec, all_flag>>
        /\ all_call' = [id |-> k, par |-> all_rec[k].par, obs |-> all_rec[k].par, op |-> "update_obs"]
        /\ all_buf' = [id |-> k, par |-> all_buf.par, obs |-> all_rec[k].par]
    BY <1>4 DEF RecordStatus, All!UpdateObs, All!Begin, All!Writes
  <2>2. /\ k \in AllIds /\ k \in Nat /\ all_rec[k].par = ParOf[run] /\ ParOf[run] \in Values
        /\ all_flag # "set" /\ all_n \in Int
    BY <1>1, <2>1, Recording, Records DEF FilesInv
  <2>3. /\ all_buf' \in FileBuf /\ all_buf'.id = k /\ all_buf'.par = Zero /\ all_buf'.obs \in Values
        /\ all_call' \in FileCall /\ all_call'.id = k /\ all_call'.obs \in Values /\ all_call'.op = "update_obs"
    <3> DEFINE c == [id |-> k, par |-> all_rec[k].par, obs |-> all_rec[k].par, op |-> "update_obs"]
               b == [id |-> k, par |-> all_buf.par, obs |-> all_rec[k].par]
    <3>1. all_buf.par = Zero
      BY DEF FilesInv, UpdateInv
    <3>2. all_buf' = b /\ all_call' = c
      BY <2>1
    <3> HIDE DEF k
    <3>3. b \in FileBuf /\ b.id = k /\ b.par = Zero /\ b.obs \in Values
      BY <2>2, <3>1 DEF FileBuf, Word
    <3>4. c \in FileCall /\ c.id = k /\ c.obs \in Values /\ c.op = "update_obs"
      BY <2>2 DEF FileCall, Word
    <3> HIDE DEF b, c
    <3> QED
      BY <3>2, <3>3, <3>4
  <2>4. AllType'
    BY <2>1, <2>3 DEF FilesInv, TypeInv, AllType, Updating
  <2>5. /\ k \in 0 .. all_n - 1
        /\ \A r \in Runs : all_rec[k].par = ParOf[r] =>
             Status(r) > 0 /\ \A j \in AllIds \ {k} : all_rec[j].par = ParOf[r] => all_rec[j].st # 1
    <3>1. k \in 0 .. all_n - 1
      BY <2>2
    <3>2. \A r \in Runs : ParOf[r] = ParOf[run] => r = run
      BY <1>1, Recording
    <3>3. Outcome = 1 /\ \A j \in AllIds : all_rec[j].par = ParOf[run] => all_rec[j].st # Outcome
      <4>1. /\ Outcome = Status(run) /\ (Outcome = 1 \/ Outcome <= -MaxRunFail) /\ Status(run) \in -128 .. 127
            /\ \A i \in AllIds : all_rec[i].par = ParOf[run] => all_rec[i].st # Outcome
        BY <1>1, Recording
      <4>2. MaxRunFail \in Nat
        BY FailAssumption
      <4> QED
        BY ONLY <1>4, <4>1, <4>2
    <3> HIDE DEF k
    <3> QED
      BY <1>4, <2>2, <3>1, <3>2, <3>3
  <2>6. UpdateInv'
    <3>1. k' = k
      BY <2>1
    <3> HIDE DEF k
    <3>2. \A r \in Runs : Status(r)' = Status(r)
      BY <1>2 DEF Status
    <3>3. Finishing(all_buf.id)'
      BY <2>1, <2>3, <2>5, <3>2 DEF Finishing
    <3> QED
      BY <1>1, <2>1, <2>2, <2>3, <3>3 DEF UpdateInv, Updating
  <2>7. ResultsInv' /\ AllInv' /\ LogOK(all_rec, all_n, main_rec)'
    BY <1>1, <1>2, <2>1, <2>2 DEF FilesInv, ResultsInv, AllInv
  <2> QED
    BY <1>2, <1>3, <2>4, <2>6, <2>7 DEF FilesInv, TypeInv
<1>5. CASE ~(Status(run) > 0)
  <2> DEFINE z == [all_rec[k] EXCEPT !.st = Status(run)]
  <2>1. /\ all_pc = "idle" /\ UNCHANGED <<all_n, all_flag, all_buf, all_pc, all_call>>
        /\ all_rec' = [all_rec EXCEPT ![k].st = All!Byte(-(-Status(run)))]
    BY <1>5 DEF RecordStatus, All!SetFailed
  <2>2. /\ k \in AllIds /\ all_n \in Int /\ all_rec[k].par = ParOf[run] /\ all_flag # "set"
        /\ all_rec \in [AllIds -> FileRecord]
        /\ Status(run) \in -128 .. 127 /\ Outcome = Status(run) /\ Agrees(Outcome, Status(run))
        /\ \A r \in Runs : ParOf[r] = ParOf[run] => r = run
        /\ \A i \in AllIds : all_rec[i].par = ParOf[run] => all_rec[i].st # Outcome
    BY <1>1, <2>1, Recording
  <2>3. All!Byte(-(-Status(run))) = Status(run)
    <3>1. -(-Status(run)) = Status(run)
      BY <2>2
    <3> QED
      BY <2>2, <3>1, ByteSmall
  <2>4. /\ z \in FileRecord /\ z.par = ParOf[run] /\ z.st = Status(run) /\ z.obs = all_rec[k].obs
        /\ all_rec' = [all_rec EXCEPT ![k] = z]
    <3>1. all_rec[k] \in FileRecord /\ Status(run) \in -128 .. 127 /\ all_rec[k].par = ParOf[run]
      BY <2>2
    <3>2. all_rec' = [all_rec EXCEPT ![k] = z]
      BY <2>1, <2>3
    <3>3. z \in FileRecord /\ z.par = all_rec[k].par /\ z.st = Status(run) /\ z.obs = all_rec[k].obs
      BY <3>1, StatusSet, Zenon
    <3> QED
      BY <3>1, <3>2, <3>3
  <2> HIDE DEF z
  <2>5. AllType'
    BY <2>1, <2>2, <2>4 DEF FilesInv, TypeInv, AllType
  <2>6. AllInv'
    BY <1>1, <2>1 DEF AllInv
  <2>7. UpdateInv'
    BY <1>1, <2>1, <2>2 DEF FilesInv, UpdateInv, Updating
  <2>8. ResultsInv'
    BY <1>5, <2>1, <2>2, <2>4 DEF FilesInv, ResultsInv
  <2>9. LogOK(all_rec, all_n, main_rec)'
    <3>1. k < all_n
      BY <2>2
    <3> HIDE DEF k
    <3>2. LogOK([all_rec EXCEPT ![k] = z], all_n, main_rec)
      <4>1. \A r \in Runs : z.par = ParOf[r] =>
              /\ Agrees(z.st, main_rec[r].st)
              /\ z.st # 0 => \A j \in AllIds \ {k} : all_rec[j].par = ParOf[r] => all_rec[j].st # z.st
        BY <2>2, <2>4 DEF Status
      <4>2. AllIds \subseteq Int /\ LogOK(all_rec, all_n, main_rec)
        BY Records DEF FilesInv
      <4> QED
        BY <2>2, <2>4, <3>1, <4>1, <4>2, LogWrite, Zenon
    <3> QED
      BY <1>2, <2>1, <2>4, <3>2
  <2> QED
    BY <1>2, <1>3, <2>5, <2>6, <2>7, <2>8, <2>9 DEF FilesInv, TypeInv
<1> QED
  BY <1>4, <1>5

(* The record of add_run and the flag behind it.                             *)
LEMMA AllAdds ==
  ASSUME FilesInv, All!WriteRecord \/ All!WriteNewFlag, OnAll, UNCHANGED <<step, run, crashes, manager>>
  PROVE  FilesInv'
<1> DEFINE k == all_n - 1
           z == [all_rec[k] EXCEPT !.st = 0, !.par = ParOf[run]]
<1>1. all_pc \in {"record", "newflag"} /\ step = "all status"
  BY DEF All!WriteRecord, All!WriteNewFlag, FilesInv, AllInv
<1>2. /\ MainType' /\ FailedType' /\ MainInv' /\ LogOK(failed_rec, failed_n, main_rec)'
      /\ UNCHANGED <<main_rec, main_pc, main_call, failed_pc>> /\ Outcome' = Outcome
  BY OthersKept
<1>3. /\ run \in Runs /\ ParOf[run] \in Values /\ k \in AllIds /\ all_n \in Int /\ all_rec \in [AllIds -> FileRecord]
      /\ Outcome # 0 /\ all_flag # "set" /\ all_call.id = k /\ all_call.par = ParOf[run]
      /\ \A i \in AllIds : all_rec[i].par = ParOf[run] => all_rec[i].st # Outcome
      /\ all_pc # "record" => all_rec[k].par = ParOf[run]
  BY <1>1, Recording
<1>4. z \in FileRecord /\ z.par = ParOf[run] /\ z.st = 0
  <2>1. all_rec[k] \in FileRecord
    BY <1>3
  <2> QED
    BY <1>3, <2>1, RecordAdded, Zenon
<1>5. \/ /\ all_rec' = [all_rec EXCEPT ![k] = z] /\ all_pc' = "newflag"
         /\ UNCHANGED <<all_n, all_flag, all_buf, all_call>>
      \/ /\ all_pc = "newflag" /\ all_pc' = "idle" /\ all_flag' = "clear"
         /\ all_buf' = [id |-> 0, par |-> Zero, obs |-> Zero]
         /\ UNCHANGED <<all_n, all_rec, all_call>>
  BY <1>3 DEF All!WriteRecord, All!WriteNewFlag, All!Writes
<1> HIDE DEF z
<1>6. AllType' /\ ControlType'
  <2>1. [id |-> 0, par |-> Zero, obs |-> Zero] \in FileBuf
    BY DEF FileBuf, Word
  <2>2. all_rec' \in [AllIds -> FileRecord]
    BY <1>3, <1>4, <1>5
  <2> HIDE DEF k
  <2> QED
    BY <1>5, <2>1, <2>2 DEF FilesInv, TypeInv, AllType, ControlType
<1>7. FailedInv'
  BY <1>1, <1>2 DEF FilesInv, FailedInv
<1>8. AllInv'
  BY <1>1, <1>3, <1>4, <1>5 DEF FilesInv, AllInv
<1>9. UpdateInv' /\ ResultsInv'
  <2>1. UpdateInv'
    <3>1. all_buf'.par = Zero
      BY <1>5 DEF FilesInv, UpdateInv
    <3> HIDE DEF k
    <3> QED
      BY <1>3, <1>5, <3>1 DEF UpdateInv, Updating
  <2>2. ResultsInv'
    <3> HIDE DEF k
    <3> QED
      BY <1>3, <1>4, <1>5 DEF FilesInv, ResultsInv
  <2> QED
    BY <2>1, <2>2
<1>10. SettleInv'
  <2>1. \A i \in AllIds : all_rec'[i].par = ParOf[run] => all_rec'[i].st # Outcome
    BY <1>3, <1>4, <1>5
  <2> QED
    BY <1>1, <1>2, <2>1 DEF FilesInv, SettleInv, Settles
<1>11. LogOK(all_rec, all_n, main_rec)'
  <2>1. k < all_n
    BY <1>3
  <2> HIDE DEF k
  <2>2. LogOK([all_rec EXCEPT ![k] = z], all_n, main_rec)
    <3>1. \A r \in Runs : z.par = ParOf[r] =>
            /\ Agrees(z.st, main_rec[r].st)
            /\ z.st # 0 => \A j \in AllIds \ {k} : all_rec[j].par = ParOf[r] => all_rec[j].st # z.st
      BY <1>4 DEF Agrees
    <3>2. AllIds \subseteq Int /\ LogOK(all_rec, all_n, main_rec)
      BY Records DEF FilesInv
    <3> QED
      BY <1>3, <1>4, <2>1, <3>1, <3>2, LogWrite, Zenon
  <2> QED
    BY <1>2, <1>5, <2>2 DEF FilesInv
<1> QED
  BY <1>2, <1>6, <1>7, <1>8, <1>9, <1>10, <1>11 DEF FilesInv, TypeInv

(* A field of the record whose result is in the buffer is written: the record  *)
(* becomes finished or nobody's, or keeps what the lists go by.                *)
LEMMA RecordUpdated ==
  ASSUME FilesInv, NEW c \in AllIds, Finishing(c), NEW z \in FileRecord,
         \A r \in Runs : z.par = ParOf[r] => all_rec[c].par = ParOf[r],
         z.st = all_rec[c].st \/ z.st = 1
  PROVE  /\ LogOK([all_rec EXCEPT ![c] = z], all_n, main_rec)
         /\ \A r \in Runs : z.par = ParOf[r] =>
              Status(r) > 0 /\ \A j \in AllIds \ {c} : all_rec[j].par = ParOf[r] => all_rec[j].st # 1
<1>1. /\ all_rec \in [AllIds -> FileRecord] /\ all_n \in Int /\ AllIds \subseteq Int /\ c < all_n
      /\ DOMAIN all_rec = AllIds
  <2>1. all_n \in Int /\ c \in 0 .. all_n - 1
    BY CountTypes DEF FilesInv, Finishing
  <2> QED
    BY <2>1, Records DEF FilesInv, TypeInv, AllType
<1>2. ASSUME NEW r \in Runs, z.par = ParOf[r]
      PROVE  Status(r) > 0 /\ \A j \in AllIds \ {c} : all_rec[j].par = ParOf[r] => all_rec[j].st # 1
  BY <1>2 DEF Finishing
<1>3. ASSUME NEW r \in Runs, z.par = ParOf[r]
      PROVE  /\ Agrees(z.st, main_rec[r].st)
             /\ z.st # 0 => \A j \in AllIds \ {c} : all_rec[j].par = ParOf[r] => all_rec[j].st # z.st
  <2>1. CASE z.st = 1
    BY <1>2, <1>3, <2>1 DEF Agrees, Status
  <2>2. CASE z.st = all_rec[c].st
    BY <1>1, <1>3, <2>2 DEF FilesInv, LogOK
  <2> QED
    BY <2>1, <2>2
<1>4. LogOK([all_rec EXCEPT ![c] = z], all_n, main_rec)
  <2>1. LogOK(all_rec, all_n, main_rec)
    BY DEF FilesInv
  <2> QED
    BY ONLY <1>1, <1>3, <2>1, LogWrite, c \in AllIds, z \in FileRecord, Zenon
<1> QED
  BY <1>2, <1>4

(* The writes of update_run on the list, those of a restart included.        *)
LEMMA AllUpdates ==
  ASSUME FilesInv, All!SetFlag \/ All!WriteStatus \/ All!WritePar \/ All!WriteObs \/ All!ClearFlag,
         OnAll, UNCHANGED <<step, run, crashes, manager>>
  PROVE  FilesInv'
<1> DEFINE c == all_call.id
           e == all_rec[c]
           Written(z) == z \in FileRecord /\ all_rec' = [all_rec EXCEPT ![c] = z]
<1>1. all_pc \in Updating /\ UNCHANGED <<all_n, all_buf, all_call>>
  BY DEF All!SetFlag, All!WriteStatus, All!WritePar, All!WriteObs, All!ClearFlag, Updating
<1>2. /\ MainType' /\ FailedType' /\ MainInv' /\ LogOK(failed_rec, failed_n, main_rec)'
      /\ UNCHANGED <<main_rec, main_pc, main_call, failed_pc>>
  BY OthersKept
<1>3. /\ step = "idle" /\ step' = "idle" /\ c = all_buf.id /\ Finishing(c) /\ all_call.obs \in Values
      /\ all_buf.obs \in Values /\ all_buf.par = Zero
      /\ all_pc # "setflag" => all_flag = "set"
      /\ all_pc = "setflag" => all_call.op = "update_obs"
      /\ all_pc = "par" => all_call.par = Zero
      /\ all_pc = "status" => all_call.par = Zero \/ all_call.op = "update_obs"
  BY <1>1 DEF FilesInv, UpdateInv, Updating
<1>4. /\ c \in AllIds /\ all_rec \in [AllIds -> FileRecord] /\ e \in FileRecord
      /\ c \in 0 .. all_n - 1
  <2>1. c \in 0 .. all_n - 1
    BY <1>3 DEF Finishing
  <2>2. all_n \in Int /\ all_n <= 3 * NRuns /\ NRuns \in Nat
        /\ \A x \in Int : x \in AllIds <=> 0 <= x /\ x <= 3 * NRuns - 1
    BY CountTypes DEF FilesInv
  <2>3. c \in AllIds
    BY ONLY <2>1, <2>2
  <2> QED
    BY <2>1, <2>3 DEF FilesInv, TypeInv, AllType
<1>5. \E z : /\ Written(z)
             /\ \A r \in Runs : z.par = ParOf[r] => e.par = ParOf[r]
             /\ z.st = e.st \/ z.st = 1
             /\ z.obs = e.obs \/ z.obs \in Values
             /\ all_pc = "obs" => z.obs \in Values
             /\ all_pc = "clearflag" => z = e
  <2>1. CASE all_rec' = all_rec /\ all_pc # "obs"
    BY <1>4, <2>1
  <2>2. CASE all_rec' = [all_rec EXCEPT ![c].st = 1] /\ all_pc = "status"
    <3> DEFINE z == [e EXCEPT !.st = 1]
    <3>1. z \in FileRecord /\ z.par = e.par /\ z.st = 1 /\ z.obs = e.obs
      BY <1>4 DEF FileRecord
    <3>2. all_rec' = [all_rec EXCEPT ![c] = z]
      BY <2>2
    <3> HIDE DEF z
    <3> QED
      BY <2>2, <3>1, <3>2
  <2>3. CASE all_rec' = [all_rec EXCEPT ![c].par = all_call.par] /\ all_pc = "par"
    <3> DEFINE z == [e EXCEPT !.par = Zero]
    <3>1. z \in FileRecord /\ z.par = Zero /\ z.st = e.st /\ z.obs = e.obs
      BY <1>4 DEF FileRecord, Word
    <3>2. all_rec' = [all_rec EXCEPT ![c] = z]
      BY <1>3, <2>3
    <3> HIDE DEF z
    <3> QED
      BY <2>3, <3>1, <3>2, ParValues
  <2>4. CASE all_rec' = [all_rec EXCEPT ![c].obs = all_call.obs] /\ all_pc = "obs"
    <3> DEFINE z == [e EXCEPT !.obs = all_call.obs]
    <3>1. z \in FileRecord /\ z.par = e.par /\ z.st = e.st /\ z.obs \in Values
      BY <1>3, <1>4 DEF FileRecord, Word
    <3>2. all_rec' = [all_rec EXCEPT ![c] = z]
      BY <2>4
    <3> HIDE DEF z
    <3> QED
      BY <2>4, <3>1, <3>2
  <2> QED
    BY <2>1, <2>2, <2>3, <2>4
       DEF All!SetFlag, All!WriteStatus, All!WritePar, All!WriteObs, All!ClearFlag, All!Writes
<1>6. PICK z : /\ Written(z)
               /\ \A r \in Runs : z.par = ParOf[r] => e.par = ParOf[r]
               /\ z.st = e.st \/ z.st = 1
               /\ z.obs = e.obs \/ z.obs \in Values
               /\ all_pc = "obs" => z.obs \in Values
               /\ all_pc = "clearflag" => z = e
  BY <1>5
<1>7. /\ LogOK([all_rec EXCEPT ![c] = z], all_n, main_rec)
      /\ \A r \in Runs : z.par = ParOf[r] =>
           Status(r) > 0 /\ \A j \in AllIds \ {c} : all_rec[j].par = ParOf[r] => all_rec[j].st # 1
  BY <1>3, <1>4, <1>6, RecordUpdated
<1>8. /\ all_flag' = "set" \/ (all_flag' = "clear" /\ all_pc = "clearflag" /\ all_pc' = "idle")
      /\ all_pc' \in {"idle", "status", "par", "obs", "clearflag"}
      /\ all_pc' = "idle" <=> all_flag' = "clear"
      /\ all_pc' = "clearflag" => all_pc = "obs"
      /\ all_pc' = "status" => all_call.op = "update_obs"
      /\ all_pc' = "par" => all_call.par = Zero
  BY <1>3 DEF All!SetFlag, All!WriteStatus, All!WritePar, All!WriteObs, All!ClearFlag, All!Writes
<1>9. /\ all_rec' \in [AllIds -> FileRecord] /\ all_rec'[c] = z /\ c' = c
      /\ \A j \in AllIds \ {c} : all_rec'[j] = all_rec[j]
  BY <1>1, <1>4, <1>6
<1>10. AllType' /\ ControlType'
  BY <1>1, <1>8, <1>9 DEF FilesInv, TypeInv, AllType, ControlType, Updating
<1>11. FailedInv' /\ AllInv' /\ SettleInv'
  BY <1>2, <1>3, <1>8 DEF FilesInv, FailedInv, AllInv, SettleInv, Settles
<1>12. Finishing(all_buf.id)'
  <2>1. \A r \in Runs : Status(r)' = Status(r)
    BY <1>2 DEF Status
  <2> HIDE DEF c, e
  <2> QED
    BY <1>1, <1>3, <1>4, <1>7, <1>9, <2>1 DEF Finishing
<1>13. UpdateInv'
  <2> HIDE DEF c, e
  <2> QED
    BY <1>1, <1>3, <1>8, <1>12 DEF UpdateInv, Updating, c
<1>14. ResultsInv'
  <2>1. all_pc' = "clearflag" => all_rec'[c].obs \in Values
    BY <1>6, <1>8, <1>9
  <2>2. all_pc = "clearflag" => z.obs \in Values
    BY <1>6 DEF FilesInv, ResultsInv
  <2>3. \A i \in AllIds \ {c} : all_rec'[i].st > 0 => all_rec'[i].obs \in Values
    BY <1>3, <1>9 DEF FilesInv, ResultsInv
  <2>4. \A i \in AllIds : all_rec'[i].st > 0 => all_rec'[i].obs \in Values \/ (all_flag' = "set" /\ i = all_buf'.id)
    BY <1>1, <1>3, <1>8, <1>9, <2>2, <2>3
  <2> QED
    BY <1>9, <2>1, <2>4 DEF ResultsInv
<1>15. LogOK(all_rec, all_n, main_rec)'
  BY <1>1, <1>2, <1>6, <1>7
<1> QED
  BY <1>2, <1>10, <1>11, <1>13, <1>14, <1>15 DEF FilesInv, TypeInv

-----------------------------------------------------------------------------
(* Crashes and restarts.                                                    *)

(* The program dies: the files stay as they are.                             *)
LEMMA CrashStep ==
  ASSUME FilesInv, Crash
  PROVE  FilesInv'
<1>1. /\ main_pc' = "down" /\ failed_pc' = "down" /\ all_pc' = "down" /\ step' = "down"
      /\ UNCHANGED <<main_n, main_rec, main_flag, main_buf, main_call, run, manager>>
      /\ UNCHANGED <<failed_n, failed_rec, failed_flag, failed_buf, failed_call>>
      /\ UNCHANGED <<all_n, all_rec, all_flag, all_buf, all_call>>
  BY DEF Crash
<1>2. MainType' /\ FailedType' /\ AllType' /\ ControlType'
  BY <1>1 DEF FilesInv, TypeInv, MainType, FailedType, AllType, ControlType
<1>3. MainInv' /\ FailedInv' /\ AllInv' /\ SettleInv'
  BY <1>1 DEF FilesInv, MainInv, FailedInv, AllInv, SettleInv, Settles, Updating
<1>4. UpdateInv' /\ ResultsInv'
  <2>1. \A id : Finishing(id) => Finishing(id)'
    BY <1>1 DEF Finishing, Status
  <2> QED
    BY <1>1, <2>1 DEF FilesInv, UpdateInv, ResultsInv, Updating
<1>5. LogOK(failed_rec, failed_n, main_rec)' /\ LogOK(all_rec, all_n, main_rec)'
  BY <1>1 DEF FilesInv
<1> QED
  BY <1>2, <1>3, <1>4, <1>5 DEF FilesInv, TypeInv

(* initialize_restart of the list of failed runs.                            *)
LEMMA OpenFailedStep ==
  ASSUME FilesInv, OpenFailed
  PROVE  FilesInv'
<1>1. /\ step = "open failed" /\ step' \in {"aborted", "open all", "idle"} /\ run' = run /\ manager' = manager
      /\ all_pc \notin Busy /\ UNCHANGED <<failed_n, failed_rec, failed_flag, failed_buf>>
  BY DEF OpenFailed, At, Quiet, Continue, Failed!Restart, Failed!file, Busy
<1>2. UNCHANGED mainVars /\ UNCHANGED allVars
  BY DEF OpenFailed, OnFailed
<1>3. failed_pc' \in {"refused", "idle"} /\ failed_call' = failed_call
  <2>1. failed_flag # "set"
    BY DEF FilesInv, TypeInv, FailedType
  <2> QED
    BY <2>1 DEF OpenFailed, Failed!Restart, Failed!Writes
<1>4. MainType' /\ FailedType' /\ AllType' /\ ControlType'
  BY <1>1, <1>2, <1>3 DEF FilesInv, TypeInv, MainType, FailedType, AllType, ControlType, mainVars, allVars
<1>5. MainInv' /\ FailedInv' /\ AllInv' /\ SettleInv'
  BY <1>1, <1>2, <1>3 DEF FilesInv, MainInv, FailedInv, AllInv, SettleInv, Settles, mainVars, allVars, Busy
<1>6. UpdateInv' /\ ResultsInv'
  BY <1>1, <1>2 DEF FilesInv, UpdateInv, Finishing, Status, ResultsInv, mainVars, allVars, Busy, Updating
<1>7. LogOK(failed_rec, failed_n, main_rec)' /\ LogOK(all_rec, all_n, main_rec)'
  BY <1>1, <1>2 DEF FilesInv, mainVars, allVars
<1> QED
  BY <1>4, <1>5, <1>6, <1>7 DEF FilesInv, TypeInv

(* initialize_restart of the list of all settled runs, which writes the result *)
(* that the buffer has.                                                       *)
LEMMA OpenAllStep ==
  ASSUME FilesInv, OpenAll
  PROVE  FilesInv'
<1>1. /\ step = "open all" /\ run' = run /\ manager' = manager /\ failed_pc \notin Busy
      /\ step' = (IF all_pc' = "refused" THEN "aborted" ELSE "idle")
      /\ UNCHANGED <<all_n, all_rec, all_flag, all_buf>>
      /\ \/ all_flag # "set" /\ all_pc' \in {"refused", "idle"} /\ all_call' = all_call
         \/ /\ all_flag = "set" /\ all_pc' = "status"
            /\ all_call' = [id |-> all_buf.id, par |-> all_buf.par, obs |-> all_buf.obs, op |-> "update"]
  BY DEF OpenAll, At, Quiet, Continue, All!Restart, All!Writes, All!file, Busy
<1>2. UNCHANGED mainVars /\ UNCHANGED failedVars
  BY DEF OpenAll, OnAll
<1>3. \/ all_flag # "set" /\ all_pc' \in {"refused", "idle"} /\ all_call' = all_call
      \/ /\ all_flag = "set" /\ all_pc' = "status" /\ all_call' \in FileCall
         /\ all_call'.id = all_buf.id /\ all_call'.par = Zero /\ all_call'.obs \in Values
  <2>1. CASE all_flag # "set"
    BY <1>1, <2>1
  <2>2. CASE all_flag = "set"
    <3> DEFINE c == [id |-> all_buf.id, par |-> all_buf.par, obs |-> all_buf.obs, op |-> "update"]
    <3>1. all_buf \in FileBuf /\ all_buf.par = Zero /\ all_buf.obs \in Values
      BY <2>2 DEF FilesInv, TypeInv, AllType, UpdateInv
    <3>2. c \in FileCall /\ c.id = all_buf.id /\ c.par = Zero /\ c.obs \in Values
      BY <3>1 DEF FileBuf, FileCall
    <3>3. all_pc' = "status" /\ all_call' = c
      BY <1>1, <2>2
    <3> HIDE DEF c
    <3> QED
      BY <2>2, <3>2, <3>3
  <2> QED
    BY <2>1, <2>2
<1>4. MainType' /\ FailedType' /\ AllType' /\ ControlType'
  <2>1. AllType'
    BY <1>1, <1>3 DEF FilesInv, TypeInv, AllType, Updating
  <2>2. MainType' /\ FailedType' /\ ControlType'
    BY <1>1, <1>2 DEF FilesInv, TypeInv, MainType, FailedType, ControlType, mainVars, failedVars
  <2> QED
    BY <2>1, <2>2
<1>5. MainInv' /\ FailedInv' /\ AllInv' /\ SettleInv'
  BY <1>1, <1>2, <1>3 DEF FilesInv, MainInv, FailedInv, AllInv, SettleInv, Settles, mainVars, failedVars, Busy
<1>6. UpdateInv'
  <2>1. \A id : Finishing(id) => Finishing(id)'
    BY <1>1, <1>2 DEF Finishing, Status, mainVars
  <2> QED
    BY <1>1, <1>3, <2>1 DEF FilesInv, UpdateInv, Updating
<1>7. ResultsInv'
  BY <1>1, <1>3 DEF FilesInv, ResultsInv
<1>8. LogOK(failed_rec, failed_n, main_rec)' /\ LogOK(all_rec, all_n, main_rec)'
  BY <1>1, <1>2 DEF FilesInv, mainVars, failedVars
<1> QED
  BY <1>4, <1>5, <1>6, <1>7, <1>8 DEF FilesInv, TypeInv

(* A run that cannot be recorded ends the program.                           *)
LEMMA AbortStep ==
  ASSUME FilesInv, Abort
  PROVE  FilesInv'
<1>1. /\ step' = "aborted" /\ all_pc \notin Busy /\ failed_pc \notin Busy /\ run' = run /\ manager' = manager
      /\ UNCHANGED mainVars /\ UNCHANGED failedVars /\ UNCHANGED allVars
  BY DEF Abort, Quiet, Continue
<1>2. TypeInv'
  <2>1. MainType' /\ FailedType'
    BY <1>1 DEF FilesInv, TypeInv, MainType, FailedType, mainVars, failedVars
  <2>2. AllType' /\ ControlType'
    BY <1>1 DEF FilesInv, TypeInv, AllType, ControlType, allVars
  <2> QED
    BY <2>1, <2>2 DEF TypeInv
<1>3. MainInv' /\ FailedInv' /\ AllInv' /\ SettleInv'
  BY <1>1 DEF FilesInv, MainInv, FailedInv, AllInv, SettleInv, Settles, mainVars, failedVars, allVars, Busy
<1>4. UpdateInv' /\ ResultsInv'
  BY <1>1 DEF FilesInv, UpdateInv, Finishing, Status, ResultsInv, mainVars, allVars, Busy, Updating
<1>5. LogOK(failed_rec, failed_n, main_rec)' /\ LogOK(all_rec, all_n, main_rec)'
  BY <1>1 DEF FilesInv, mainVars, failedVars, allVars
<1> QED
  BY <1>2, <1>3, <1>4, <1>5 DEF FilesInv

(* A step in which nothing happens.                                          *)
LEMMA FilesStutter ==
  ASSUME FilesInv, UNCHANGED vars
  PROVE  FilesInv'
<1>1. /\ UNCHANGED mainVars /\ UNCHANGED failedVars /\ UNCHANGED allVars
      /\ UNCHANGED <<step, run, manager>>
  BY DEF vars
<1>2. TypeInv'
  <2>1. MainType' /\ FailedType'
    BY <1>1 DEF FilesInv, TypeInv, MainType, FailedType, mainVars, failedVars
  <2>2. AllType' /\ ControlType'
    BY <1>1 DEF FilesInv, TypeInv, AllType, ControlType, allVars
  <2> QED
    BY <2>1, <2>2 DEF TypeInv
<1>3. MainInv' /\ FailedInv' /\ AllInv' /\ SettleInv'
  BY <1>1 DEF FilesInv, MainInv, FailedInv, AllInv, SettleInv, Outcome, Status, mainVars, failedVars, allVars
<1>4. UpdateInv' /\ ResultsInv'
  BY <1>1 DEF FilesInv, UpdateInv, Finishing, Status, ResultsInv, mainVars, allVars
<1>5. LogOK(failed_rec, failed_n, main_rec)' /\ LogOK(all_rec, all_n, main_rec)'
  BY <1>1 DEF FilesInv, mainVars, failedVars, allVars
<1> QED
  BY <1>2, <1>3, <1>4, <1>5 DEF FilesInv

-----------------------------------------------------------------------------
(* The group has been queued and nothing is settled.                         *)
LEMMA FilesInit ==
  ASSUME Init
  PROVE  FilesInv
<1>1. /\ NRuns \in Nat /\ MaxRunFail \in Nat \ {0}
      /\ \A N \in Nat : Empty(N) = [i \in 0 .. N - 1 |-> Main!NoRecord]
      /\ Main!NoRecord = [st |-> 0, par |-> Blank, obs |-> Blank]
  BY ParAssumption, FailAssumption DEF Empty, Main!NoRecord
<1>2. Main!NoRecord \in FileRecord /\ Unwritten \in FileBuf /\ NoCall \in FileCall /\ Unwritten.par = Zero
  BY <1>1 DEF FileRecord, FileBuf, FileCall, Word, Unwritten, NoCall
<1>3. /\ failed_rec \in [FailedIds -> FileRecord] /\ \A i \in FailedIds : failed_rec[i].par = Blank /\ failed_rec[i].st = 0
      /\ all_rec \in [AllIds -> FileRecord] /\ \A i \in AllIds : all_rec[i].par = Blank /\ all_rec[i].st = 0
  <2>1. failed_rec = [i \in FailedIds |-> Main!NoRecord] /\ all_rec = [i \in AllIds |-> Main!NoRecord]
    BY DEF Init, Empty, FailedIds, AllIds
  <2>2. Main!NoRecord.par = Blank /\ Main!NoRecord.st = 0
    BY <1>1
  <2> HIDE DEF Main!NoRecord
  <2> QED
    BY <1>2, <2>1, <2>2
<1>4. main_rec \in [Runs -> FileRecord] /\ \A r \in Runs : main_rec[r].par = ParOf[r] /\ main_rec[r].st = 0
  BY ParValues DEF Init, FileRecord, Word
<1>5. MainType /\ FailedType /\ AllType /\ ControlType
  <2>1. 0 \in 0 .. 2 * NRuns /\ 0 \in 0 .. 3 * NRuns
    BY <1>1
  <2> QED
    BY <1>2, <1>3, <1>4, <2>1 DEF Init, MainType, FailedType, AllType, ControlType
<1>6. MainInv
  BY <1>1, <1>4 DEF Init, MainInv, Updating
<1>7. FailedInv /\ AllInv /\ SettleInv
  BY DEF Init, FailedInv, AllInv, SettleInv, Settles
<1>8. UpdateInv /\ ResultsInv
  BY <1>2, <1>3 DEF Init, UpdateInv, ResultsInv, Updating
<1>9. LogOK(failed_rec, failed_n, main_rec) /\ LogOK(all_rec, all_n, main_rec)
  BY <1>3, ParValues DEF LogOK
<1> QED
  BY <1>5, <1>6, <1>7, <1>8, <1>9 DEF FilesInv, TypeInv

(* Every step keeps the invariant.                                           *)
LEMMA FilesNext ==
  ASSUME FilesInv, StatusFits, [Next]_vars
  PROVE  FilesInv'
<1>1. CASE Settle
  BY <1>1, FinishStep, FailStep, AddFailedStep, CountStep, AddToAllStep, RecordStatusStep, AbortStep DEF Settle
<1>2. CASE Write
  BY <1>2, MainWrites, FailedWrites, AllAdds, AllUpdates DEF Write
<1>3. CASE Crash
  BY <1>3, CrashStep
<1>4. CASE Reopen
  BY <1>4, OpenMainStep, OpenFailedStep, OpenAllStep DEF Reopen
<1>5. CASE UNCHANGED vars
  BY <1>5, FilesStutter
<1> QED
  BY <1>1, <1>2, <1>3, <1>4, <1>5 DEF Next

(* The invariant of the three files.                                        *)
LEMMA FilesAlways ==
  ASSUME StatusFits
  PROVE  Spec => []FilesInv
<1>1. FilesInv /\ [Next]_vars => FilesInv'
  BY FilesNext
<1>2. Init => FilesInv
  BY FilesInit
<1> QED
  BY <1>1, <1>2, PTL DEF Spec

-----------------------------------------------------------------------------
(* FilesAgree, for any number of runs, of tolerated failures, of crashes and of *)
(* restarts: what the lists say of a run is what the storage says of it.        *)
THEOREM ListsAgreeWithStorage ==
  ASSUME StatusFits
  PROVE  Spec => []FilesAgree
<1>1. FilesInv => FilesAgree
  <2> SUFFICES ASSUME FilesInv, NEW r \in Runs
               PROVE  /\ \A i \in Listed(r) : GaveUp(r, failed_rec[i].st)
                      /\ \A i \in GivenUp(r) : GaveUp(r, all_rec[i].st)
                      /\ Finished(r) # {} => Status(r) > 0
    BY DEF FilesAgree
  <2>1. /\ \A i \in FailedIds : failed_rec[i].par = ParOf[r] => Agrees(failed_rec[i].st, main_rec[r].st)
        /\ \A i \in AllIds : all_rec[i].par = ParOf[r] => Agrees(all_rec[i].st, main_rec[r].st)
    BY Records DEF FilesInv, LogOK
  <2>2. 0 .. failed_n - 1 \subseteq FailedIds /\ 0 .. all_n - 1 \subseteq AllIds
    BY StoredIds
  <2> QED
    BY <2>1, <2>2 DEF Agrees, Listed, GivenUp, Finished, In, GaveUp, Status
<1> QED
  BY <1>1, FilesAlways, PTL

(* RecordedOnce: no list has a run twice with the same outcome, however often   *)
(* the program dies between the storage and the lists.                         *)
THEOREM OutcomesAreRecordedOnce ==
  ASSUME StatusFits
  PROVE  Spec => []RecordedOnce
<1>1. FilesInv => RecordedOnce
  <2> SUFFICES ASSUME FilesInv, NEW r \in Runs
               PROVE  Differ(all_rec, Finished(r) \cup GivenUp(r)) /\ Differ(failed_rec, Listed(r))
    BY DEF RecordedOnce
  <2>1. /\ \A i, j \in FailedIds : failed_rec[i].par = ParOf[r] /\ failed_rec[j].par = ParOf[r]
             /\ failed_rec[i].st = failed_rec[j].st /\ failed_rec[i].st # 0 => i = j
        /\ \A i, j \in AllIds : all_rec[i].par = ParOf[r] /\ all_rec[j].par = ParOf[r]
             /\ all_rec[i].st = all_rec[j].st /\ all_rec[i].st # 0 => i = j
    BY Records DEF FilesInv, LogOK
  <2>2. 0 .. failed_n - 1 \subseteq FailedIds /\ 0 .. all_n - 1 \subseteq AllIds
    BY StoredIds
  <2>3. Differ(failed_rec, Listed(r))
    BY <2>1, <2>2 DEF Differ, Listed, In
  <2>4. Differ(all_rec, Finished(r) \cup GivenUp(r))
    BY <2>1, <2>2 DEF Differ, Finished, GivenUp, In
  <2> QED
    BY <2>3, <2>4
<1> QED
  BY <1>1, FilesAlways, PTL

(* AllRunsHaveResults: whatever write of the list a crash comes before, a       *)
(* record that it shows as finished has observations.                          *)
THEOREM RecordedRunsHaveResults ==
  ASSUME StatusFits
  PROVE  Spec => []AllRunsHaveResults
<1>1. FilesInv => AllRunsHaveResults
  <2>1. ASSUME FilesInv, all_pc = "idle"
        PROVE  all_flag # "set"
    BY <2>1 DEF FilesInv, UpdateInv
  <2>2. ASSUME FilesInv
        PROVE  0 .. all_n - 1 \subseteq AllIds
    BY <2>2, StoredIds
  <2> QED
    BY <2>1, <2>2 DEF FilesInv, ResultsInv, AllRunsHaveResults, All!FinishedRunsHaveResults, All!Stored
<1> QED
  BY <1>1, FilesAlways, PTL

-----------------------------------------------------------------------------
(***************************************************************************)
(* One run per crash.  The run that is being settled is in the storage      *)
(* before it is in the lists; a crash may leave it so.  A run whose result  *)
(* waits in a buffer to be replayed may still be lost from the all-runs     *)
(* file when it is.  Both count as lost to the crash that interrupted them, *)
(* and no other run is.                                                     *)
(***************************************************************************)

Lacks(r) ==
  \/ Status(r) > 0 /\ Finished(r) = {}
  \/ Exceeded(r) /\ (Listed(r) = {} \/ GivenUp(r) = {})

(* The run is being settled, and no crash has interrupted that. *)
Fresh == step \in Settles \/ (all_pc \in Updating /\ all_call.op = "update_obs")

(* A result is in a buffer and will be replayed. *)
Replay == main_flag = "set" \/ (all_flag = "set" /\ manager = "abstract")

Lost(r) == IF Fresh THEN Lacks(r) /\ r # run ELSE Lacks(r) \/ (r = run /\ Replay)
LostInv == crashes \in Nat /\ Cardinality({r \in Runs : Lost(r)}) <= crashes

(* What is under way is about the run, in the storage ... *)
StorageRunInv ==
  /\ main_pc = "down" => step = "down"
  /\ main_flag = "set" => main_pc \in {"down", "status", "par", "obs", "clearflag"}
  /\ main_pc \in {"status", "par", "obs", "clearflag"} => main_flag = "set"
  /\ main_pc = "setflag" => step = "all"
  /\ main_pc \in Updating => main_call.id = run
  /\ main_flag = "set" \/ main_pc = "setflag" => main_buf.id = run

(* ... in the list of failed runs, which comes first ... *)
FailedRunInv ==
  /\ failed_pc = "record" => failed_rec[failed_n - 1].par = Blank
  /\ step \in {"all", "all status"} /\ Outcome <= -MaxRunFail => Listed(run) # {}

(* ... and in the all-runs file, whose replay may wipe out the parameters.     *)
AllRunInv ==
  /\ all_pc = "record" => all_rec[all_n - 1].par = Blank
  /\ step \in {"open failed", "open all"} => manager = "abstract"
  /\ manager = "abstract" /\ all_pc = "down" => step \in {"down", "open failed", "open all"}
  /\ all_pc \in Updating \/ (all_flag = "set" /\ manager = "abstract") =>
       run \in Runs /\ all_rec[all_buf.id].par \in {ParOf[run], Zero}
  /\ all_pc \in Updating => all_call.op = "update_obs" \/ manager = "abstract"
  /\ all_pc \in Updating /\ all_call.op = "update_obs" =>
       /\ main_flag # "set" /\ all_pc # "par" /\ all_rec[all_call.id].par = ParOf[run] /\ Status(run) > 0
       /\ all_pc \in {"obs", "clearflag"} => all_rec[all_call.id].st > 0

CrashInv == step # "aborted" => StorageRunInv /\ FailedRunInv /\ AllRunInv /\ LostInv

-----------------------------------------------------------------------------
LEMMA RunsFinite == IsFiniteSet(Runs)
BY ParAssumption, FS_Interval DEF Runs

LEMMA LostKept ==
  ASSUME LostInv, crashes' = crashes, \A r \in Runs : Lost(r)' => Lost(r)
  PROVE  LostInv'
<1> DEFINE L == {r \in Runs : Lost(r)}
           M == {r \in Runs : Lost(r)'}
<1>1. L \subseteq Runs /\ M \subseteq L
  OBVIOUS
<1>2. Cardinality(M) <= Cardinality(L) /\ Cardinality(M) \in Nat /\ Cardinality(L) \in Nat
  <2> HIDE DEF L, M
  <2>1. IsFiniteSet(L)
    BY <1>1, RunsFinite, FS_Subset
  <2>2. IsFiniteSet(M) /\ Cardinality(M) <= Cardinality(L)
    BY <1>1, <2>1, FS_Subset
  <2> QED
    BY <2>1, <2>2, FS_CardinalityType
<1>3. crashes \in Nat /\ Cardinality(L) <= crashes
  BY DEF LostInv
<1>4. Cardinality(M) <= crashes
  <2> HIDE DEF L, M
  <2> QED
    BY <1>2, <1>3
<1> QED
  BY <1>3, <1>4 DEF LostInv

(* A crash costs one run at most: the one that was under way.                *)
LEMMA LostOne ==
  ASSUME LostInv, crashes' = crashes + 1, \A r \in Runs : r # run /\ Lost(r)' => Lost(r)
  PROVE  LostInv'
<1> DEFINE L == {r \in Runs : Lost(r)}
           M == {r \in Runs : Lost(r)'}
<1>1. L \subseteq Runs /\ M \subseteq L \cup {run}
  OBVIOUS
<1>2. Cardinality(M) <= Cardinality(L) + 1 /\ Cardinality(M) \in Nat /\ Cardinality(L) \in Nat
  <2> HIDE DEF L, M
  <2>1. IsFiniteSet(L)
    BY <1>1, RunsFinite, FS_Subset
  <2>2. Cardinality(L) \in Nat
    BY <2>1, FS_CardinalityType
  <2>3. IsFiniteSet(L \cup {run}) /\ Cardinality(L \cup {run}) <= Cardinality(L) + 1
    <3>1. CASE run \in L
      <4>1. L \cup {run} = L
        BY <3>1
      <4>2. \A x \in Nat : x <= x + 1
        OBVIOUS
      <4> QED
        BY <2>1, <2>2, <4>1, <4>2
    <3>2. CASE run \notin L
      <4>1. IsFiniteSet(L \cup {run}) /\ Cardinality(L \cup {run}) = Cardinality(L) + 1
        BY <2>1, <3>2, FS_AddElement
      <4> QED
        BY <2>2, <4>1
    <3> QED
      BY <3>1, <3>2
  <2>4. IsFiniteSet(M) /\ Cardinality(M) <= Cardinality(L \cup {run})
    BY <1>1, <2>3, FS_Subset
  <2>5. Cardinality(M) \in Nat /\ Cardinality(L \cup {run}) \in Nat
    BY <2>3, <2>4, FS_CardinalityType
  <2> QED
    BY <2>2, <2>3, <2>4, <2>5
<1>3. crashes \in Nat /\ Cardinality(L) <= crashes
  BY DEF LostInv
<1>4. crashes + 1 \in Nat /\ Cardinality(M) <= crashes + 1
  <2> HIDE DEF L, M
  <2> QED
    BY <1>2, <1>3
<1> QED
  BY <1>4 DEF LostInv

(* A run lacks no record that it did not lack when its status is the same and   *)
(* its records are kept.                                                      *)
LEMMA LackKept ==
  ASSUME NEW r \in Runs, main_rec'[r].st = main_rec[r].st,
         \A i \in 0 .. failed_n - 1 : failed_rec[i].par = ParOf[r] =>
           i \in 0 .. failed_n' - 1 /\ failed_rec'[i].par = ParOf[r] /\ failed_rec'[i].st = failed_rec[i].st,
         \A i \in 0 .. all_n - 1 : all_rec[i].par = ParOf[r] =>
           i \in 0 .. all_n' - 1 /\ all_rec'[i].par = ParOf[r] /\ all_rec'[i].st = all_rec[i].st
  PROVE  Lacks(r)' => Lacks(r)
<1>1. Listed(r) \subseteq Listed(r)'
  BY DEF Listed, In
<1>2. Finished(r) \subseteq Finished(r)' /\ GivenUp(r) \subseteq GivenUp(r)'
  BY DEF Finished, GivenUp, In
<1>3. Status(r)' = Status(r)
  BY DEF Status
<1> QED
  BY <1>1, <1>2, <1>3 DEF Lacks, Exceeded

-----------------------------------------------------------------------------
(* At rest: nothing is under way, and nothing is left to be replayed.        *)
LEMMA AtRest ==
  ASSUME FilesInv, StorageRunInv, AllRunInv, step = "idle", Quiet
  PROVE  /\ main_pc \notin Updating /\ all_pc \notin Updating \cup {"record", "newflag"}
         /\ failed_pc \notin {"record", "newflag"} /\ main_flag # "set"
         /\ all_flag = "set" => manager # "abstract"
         /\ ~Fresh /\ ~Replay
<1>1. main_pc \notin Busy /\ failed_pc \notin Busy /\ all_pc \notin Busy
  BY DEF Quiet
<1>2. main_flag # "set"
  BY <1>1 DEF StorageRunInv, Busy
<1>3. all_flag = "set" => manager # "abstract"
  BY <1>1 DEF AllRunInv, FilesInv, UpdateInv, Busy
<1> QED
  BY <1>1, <1>2, <1>3 DEF Busy, Updating, Fresh, Replay, Settles

LEMMA FinishCrash ==
  ASSUME FilesInv, CrashInv, SaveAllRuns, NEW r \in Runs, Finish(r)
  PROVE  CrashInv'
<1>1. /\ step = "idle" /\ Quiet /\ step' = "all" /\ run' = r /\ UNCHANGED <<crashes, manager>>
      /\ main_pc' = "setflag" /\ UNCHANGED <<main_rec, main_flag>>
      /\ main_call'.id = r /\ main_buf'.id = r
  BY DEF Finish, At, RecordAll, Main!UpdateRun, Main!Begin, Main!Writes
<1>2. /\ UNCHANGED <<failed_n, failed_rec, failed_pc>>
      /\ UNCHANGED <<all_n, all_rec, all_flag, all_buf, all_pc, all_call>>
  BY DEF Finish, OnMain, failedVars, allVars
<1>3. StorageRunInv /\ FailedRunInv /\ AllRunInv /\ LostInv
  BY <1>1 DEF CrashInv
<1>4. /\ all_pc \notin Updating \cup {"record", "newflag"} /\ failed_pc # "record" /\ main_flag # "set"
      /\ all_flag = "set" => manager # "abstract"
      /\ ~Fresh /\ ~Replay
  BY <1>1, <1>3, AtRest
<1>5. StorageRunInv'
  BY <1>1, <1>4 DEF StorageRunInv
<1>6. FailedRunInv'
  <2>1. ~(Outcome' <= -MaxRunFail)
    BY <1>1, FailAssumption DEF Outcome
  <2> QED
    BY <1>2, <1>4, <2>1 DEF FailedRunInv
<1>7. AllRunInv'
  <2>1. manager = "abstract" => all_pc # "down"
    BY <1>1, <1>3 DEF AllRunInv
  <2> QED
    BY <1>1, <1>2, <1>4, <2>1 DEF AllRunInv
<1>8. \A q \in Runs : Lost(q)' => Lost(q)
  <2>1. \A q \in Runs : Lacks(q)' => Lacks(q)
    BY <1>1, <1>2, LackKept
  <2>2. Fresh'
    BY <1>1 DEF Fresh, Settles
  <2> QED
    BY <1>4, <2>1, <2>2 DEF Lost
<1> QED
  BY <1>1, <1>3, <1>5, <1>6, <1>7, <1>8, LostKept DEF CrashInv

LEMMA FailCrash ==
  ASSUME FilesInv, StatusFits, CrashInv, SaveAllRuns, NEW r \in Runs, Fail(r)
  PROVE  CrashInv'
<1>1. /\ step = "idle" /\ Quiet /\ step' = (IF Exceeded(r)' THEN "failed" ELSE "idle")
      /\ run' = r /\ UNCHANGED <<crashes, manager>>
      /\ main_rec' = [main_rec EXCEPT ![r].st = Main!Byte(@ - 1)]
      /\ UNCHANGED <<main_pc, main_flag, main_buf, main_call>>
  BY DEF Fail, At, Main!UpdateFailed
<1>2. /\ UNCHANGED <<failed_n, failed_rec, failed_pc>>
      /\ UNCHANGED <<all_n, all_rec, all_flag, all_buf, all_pc, all_call>>
  BY DEF Fail, OnMain, failedVars, allVars
<1>3. StorageRunInv /\ FailedRunInv /\ AllRunInv /\ LostInv
  BY <1>1 DEF CrashInv
<1>4. /\ main_pc \notin Updating /\ all_pc \notin Updating \cup {"record", "newflag"}
      /\ failed_pc # "record" /\ main_flag # "set"
      /\ all_flag = "set" => manager # "abstract"
      /\ ~Fresh /\ ~Replay
  BY <1>1, <1>3, AtRest
<1>5. StorageRunInv'
  BY <1>1, <1>3, <1>4 DEF StorageRunInv, Updating
<1>6. FailedRunInv'
  BY <1>1, <1>2, <1>4 DEF FailedRunInv
<1>7. AllRunInv'
  <2>1. manager = "abstract" => all_pc # "down"
    BY <1>1, <1>3 DEF AllRunInv
  <2> QED
    BY <1>1, <1>2, <1>4, <2>1 DEF AllRunInv
<1>8. \A q \in Runs : Lost(q)' => Lost(q)
  <2>1. \A q \in Runs : q # r => (Lacks(q)' => Lacks(q))
    <3>1. \A q \in Runs : q # r => main_rec'[q].st = main_rec[q].st
      BY <1>1
    <3> QED
      BY <1>2, <3>1, LackKept
  <2>2. CASE Exceeded(r)'
    <3>1. Fresh'
      BY <1>1, <2>2 DEF Fresh, Settles
    <3> QED
      BY <1>1, <1>4, <2>1, <3>1 DEF Lost
  <2>3. CASE ~Exceeded(r)'
    <3>1. ~Fresh' /\ ~Replay'
      BY <1>1, <1>2, <1>4, <2>3 DEF Fresh, Settles, Replay
    <3>2. ~Lacks(r)'
      <4>1. main_rec[r].st < 1 /\ -main_rec[r].st \in 0 .. MaxRunFail /\ main_rec[r] \in FileRecord
            /\ main_rec \in [Runs -> FileRecord]
        BY Records DEF Fail, Main!UpdateFailed, FilesInv, TypeInv, MainType
      <4>2. main_rec[r].st \in Int /\ main_rec[r].st - 1 \in -128 .. 127
        BY <4>1, FailAssumption DEF StatusFits, FileRecord
      <4>3. main_rec'[r].st = main_rec[r].st - 1
        BY <1>1, <4>1, <4>2, ByteSmall DEF FileRecord
      <4>4. ~(Status(r)' > 0)
        BY <4>1, <4>2, <4>3 DEF Status
      <4> QED
        BY <2>3, <4>4 DEF Lacks
    <3> QED
      BY <1>1, <1>4, <2>1, <3>1, <3>2 DEF Lost
  <2> QED
    BY <2>2, <2>3
<1> QED
  BY <1>1, <1>3, <1>5, <1>6, <1>7, <1>8, LostKept DEF CrashInv

LEMMA AddFailedCrash ==
  ASSUME FilesInv, CrashInv, SaveAllRuns, AddFailed
  PROVE  CrashInv'
<1>1. /\ step = "failed" /\ step' = "failed count" /\ UNCHANGED <<run, crashes, manager>>
      /\ failed_n' = failed_n + 1 /\ failed_rec' = failed_rec /\ main_pc \notin Busy /\ all_pc \notin Busy
  BY DEF AddFailed, At, Quiet, Continue, Failed!AddRun, Failed!Begin, Failed!Writes
<1>2. /\ UNCHANGED <<main_rec, main_pc, main_flag, main_buf, main_call>>
      /\ UNCHANGED <<all_n, all_rec, all_flag, all_buf, all_pc, all_call>>
  BY DEF AddFailed, OnFailed, mainVars, allVars
<1>3. StorageRunInv /\ FailedRunInv /\ AllRunInv /\ LostInv
  BY <1>1 DEF CrashInv
<1>4. failed_n \in Nat /\ failed_n' - 1 = failed_n /\ failed_n \in FailedIds
  <2>1. /\ failed_n \in Int /\ failed_n >= 0 /\ NRuns \in Nat
        /\ \A x \in Int : x \in FailedIds <=> 0 <= x /\ x <= 2 * NRuns - 1
    BY CountTypes DEF FilesInv
  <2>2. failed_n < 2 * NRuns
    BY DEF AddFailed, Failed!AddRun
  <2>3. failed_n' = failed_n + 1
    BY <1>1
  <2> QED
    BY ONLY <2>1, <2>2, <2>3
<1>5. StorageRunInv'
  BY <1>1, <1>2, <1>3 DEF StorageRunInv
<1>6. FailedRunInv'
  <2>1. failed_rec[failed_n].par = Blank
    BY <1>4, Records DEF FilesInv, LogOK
  <2> QED
    BY <1>1, <1>4, <2>1 DEF FailedRunInv
<1>7. AllRunInv'
  BY <1>1, <1>2, <1>3 DEF AllRunInv, Status
<1>8. \A q \in Runs : Lost(q)' => Lost(q)
  <2>1. \A i \in 0 .. failed_n - 1 : i \in 0 .. failed_n' - 1
    BY <1>4
  <2>2. \A q \in Runs : Lacks(q)' => Lacks(q)
    BY <1>1, <1>2, <2>1, LackKept
  <2>3. Fresh /\ Fresh'
    BY <1>1 DEF Fresh, Settles
  <2> QED
    BY <1>1, <2>2, <2>3 DEF Lost
<1> QED
  BY <1>1, <1>3, <1>5, <1>6, <1>7, <1>8, LostKept DEF CrashInv

LEMMA CountCrash ==
  ASSUME FilesInv, CrashInv, SaveAllRuns, CountFailures
  PROVE  CrashInv'
<1> DEFINE k == failed_n - 1
<1>1. /\ step = "failed count" /\ step' = "all" /\ UNCHANGED <<run, crashes, manager>>
      /\ failed_pc = "idle" /\ UNCHANGED <<failed_n, failed_pc>>
      /\ failed_rec' = [failed_rec EXCEPT ![failed_n - 1].st = Failed!Byte(-(-Status(run)))]
      /\ main_pc \notin Busy /\ all_pc \notin Busy
  BY DEF CountFailures, At, Quiet, Continue, Failed!SetFailed, RecordAll
<1>2. /\ UNCHANGED <<main_rec, main_pc, main_flag, main_buf, main_call>>
      /\ UNCHANGED <<all_n, all_rec, all_flag, all_buf, all_pc, all_call>>
  BY DEF CountFailures, OnFailed, mainVars, allVars
<1>3. StorageRunInv /\ FailedRunInv /\ AllRunInv /\ LostInv
  BY <1>1 DEF CrashInv
<1>4. /\ run \in Runs /\ main_rec[run] \in FileRecord
      /\ Outcome <= -MaxRunFail /\ Outcome = Status(run)
      /\ \A r \in Runs : ParOf[r] = ParOf[run] => r = run
  BY <1>1, Settled DEF Settles, FilesInv, SettleInv
<1>5. /\ failed_n \in Int /\ k \in FailedIds /\ k \in 0 .. failed_n - 1 /\ failed_rec[k].par = ParOf[run]
      /\ failed_rec \in [FailedIds -> FileRecord]
  <2>1. failed_n > 0 /\ failed_rec[k].par = ParOf[run] /\ failed_rec \in [FailedIds -> FileRecord]
    BY <1>1 DEF FilesInv, TypeInv, FailedType, FailedInv
  <2> QED
    BY <2>1, CountTypes DEF FilesInv
<1>6. Status(run) \in -128 .. 127 /\ Status(run) < 0 /\ Failed!Byte(-(-Status(run))) = Status(run)
  <2>1. Status(run) \in -128 .. 127
    BY <1>4 DEF Status, FileRecord
  <2>2. -(-Status(run)) = Status(run) /\ Status(run) < 0
    BY <1>4, <2>1, FailAssumption
  <2> QED
    BY <2>1, <2>2, ByteSmall
<1>7. /\ failed_rec'[k].par = ParOf[run] /\ failed_rec'[k].st = Status(run)
      /\ \A i \in FailedIds \ {k} : failed_rec'[i] = failed_rec[i]
  <2>1. failed_rec[k] \in [st : -128 .. 127, par : Word, obs : Word]
    BY <1>5 DEF FileRecord
  <2>2. failed_rec' = [failed_rec EXCEPT ![k].st = Status(run)]
    BY <1>1, <1>6
  <2> HIDE DEF k
  <2> QED
    BY <1>5, <2>1, <2>2
<1>8. StorageRunInv'
  BY <1>1, <1>2, <1>3 DEF StorageRunInv
<1>9. FailedRunInv'
  <2>1. k \in Listed(run)'
    BY <1>1, <1>5, <1>6, <1>7 DEF Listed, In
  <2> QED
    BY <1>1, <2>1 DEF FailedRunInv
<1>10. AllRunInv'
  BY <1>1, <1>2, <1>3 DEF AllRunInv, Status
<1>11. \A q \in Runs : Lost(q)' => Lost(q)
  <2>1. \A q \in Runs : q # run => (Lacks(q)' => Lacks(q))
    <3> SUFFICES ASSUME NEW q \in Runs, q # run PROVE Lacks(q)' => Lacks(q)
      OBVIOUS
    <3>1. \A i \in 0 .. failed_n - 1 : failed_rec[i].par = ParOf[q] => i \in FailedIds \ {k}
      BY <1>4, <1>5, StoredIds
    <3>2. \A i \in 0 .. failed_n - 1 : failed_rec[i].par = ParOf[q] => failed_rec'[i] = failed_rec[i]
      BY <1>7, <3>1
    <3> HIDE DEF k
    <3> QED
      BY <1>1, <1>2, <3>2, LackKept
  <2>2. Fresh /\ Fresh'
    BY <1>1 DEF Fresh, Settles
  <2> QED
    BY <1>1, <2>1, <2>2 DEF Lost
<1> QED
  BY <1>1, <1>3, <1>8, <1>9, <1>10, <1>11, LostKept DEF CrashInv

LEMMA AddToAllCrash ==
  ASSUME FilesInv, CrashInv, SaveAllRuns, AddToAll
  PROVE  CrashInv'
<1>1. /\ step = "all" /\ step' = "all status" /\ UNCHANGED <<run, crashes, manager>>
      /\ all_pc' = "record" /\ all_n' = all_n + 1 /\ all_rec' = all_rec /\ all_flag' = "none"
      /\ main_pc \notin Busy /\ failed_pc \notin Busy
  BY DEF AddToAll, At, Quiet, Continue, All!AddRun, All!Begin, All!Writes
<1>2. /\ UNCHANGED <<main_rec, main_pc, main_flag, main_buf, main_call>>
      /\ UNCHANGED <<failed_n, failed_rec, failed_pc>>
  BY DEF AddToAll, OnAll, mainVars, failedVars
<1>3. StorageRunInv /\ FailedRunInv /\ AllRunInv /\ LostInv
  BY <1>1 DEF CrashInv
<1>4. all_n \in Nat /\ all_n' - 1 = all_n /\ all_n \in AllIds
  <2>1. /\ all_n \in Int /\ all_n >= 0 /\ NRuns \in Nat
        /\ \A x \in Int : x \in AllIds <=> 0 <= x /\ x <= 3 * NRuns - 1
    BY CountTypes DEF FilesInv
  <2>2. all_n < 3 * NRuns
    BY DEF AddToAll, All!AddRun
  <2>3. all_n' = all_n + 1
    BY <1>1
  <2> QED
    BY ONLY <2>1, <2>2, <2>3
<1>5. StorageRunInv'
  BY <1>1, <1>2, <1>3 DEF StorageRunInv, Busy
<1>6. FailedRunInv'
  <2>1. Listed(run)' = Listed(run) /\ Outcome' = Outcome
    BY <1>1, <1>2 DEF Listed, In, Outcome, Status
  <2> QED
    BY <1>1, <1>2, <1>3, <2>1 DEF FailedRunInv, Busy
<1>7. AllRunInv'
  <2>1. all_rec[all_n].par = Blank
    BY <1>4, Records DEF FilesInv, LogOK
  <2> QED
    BY <1>1, <1>4, <2>1 DEF AllRunInv, Updating
<1>8. \A q \in Runs : Lost(q)' => Lost(q)
  <2>1. \A i \in 0 .. all_n - 1 : i \in 0 .. all_n' - 1
    BY <1>4
  <2>2. \A q \in Runs : Lacks(q)' => Lacks(q)
    BY <1>1, <1>2, <2>1, LackKept
  <2>3. Fresh /\ Fresh'
    BY <1>1 DEF Fresh, Settles
  <2> QED
    BY <1>1, <2>2, <2>3 DEF Lost
<1> QED
  BY <1>1, <1>3, <1>5, <1>6, <1>7, <1>8, LostKept DEF CrashInv

(* The outcome is recorded: the run no longer lacks anything if it failed; a      *)
(* result is on its way.                                                      *)
LEMMA RecordStatusCrash ==
  ASSUME FilesInv, CrashInv, SaveAllRuns, RecordStatus
  PROVE  CrashInv'
<1> DEFINE k == all_n - 1
<1>1. /\ step = "all status" /\ step' = "idle" /\ UNCHANGED <<run, crashes, manager>>
      /\ main_pc \notin Busy /\ failed_pc \notin Busy /\ all_pc = "idle"
  BY DEF RecordStatus, At, Quiet, Continue, Busy, All!UpdateObs, All!SetFailed, All!Begin
<1>2. /\ UNCHANGED <<main_rec, main_pc, main_flag, main_buf, main_call>>
      /\ UNCHANGED <<failed_n, failed_rec, failed_pc>>
  BY DEF RecordStatus, OnAll, mainVars, failedVars
<1>3. StorageRunInv /\ FailedRunInv /\ AllRunInv /\ LostInv
  BY <1>1 DEF CrashInv
<1>4. /\ run \in Runs /\ \A r \in Runs : ParOf[r] = ParOf[run] => r = run
      /\ Outcome = Status(run) /\ (Outcome = 1 \/ Outcome <= -MaxRunFail)
      /\ Status(run) \in -128 .. 127 /\ main_pc = "idle" /\ all_flag # "set"
      /\ all_n \in Int /\ all_n > 0 /\ k \in AllIds /\ all_rec \in [AllIds -> FileRecord]
      /\ all_rec[k].par = ParOf[run]
  BY <1>1, Recording
<1>5. k \in 0 .. all_n - 1 /\ main_flag # "set" /\ failed_pc # "record"
  <2>1. k \in 0 .. all_n - 1
    BY <1>4
  <2> HIDE DEF k
  <2> QED
    BY <1>1, <1>3, <1>4, <2>1 DEF StorageRunInv, Busy
<1>6. StorageRunInv'
  BY <1>1, <1>2, <1>4, <1>5 DEF StorageRunInv, Updating
<1>7. FailedRunInv'
  BY <1>1, <1>2, <1>5 DEF FailedRunInv
<1>8. Fresh
  BY <1>1 DEF Fresh, Settles
<1>9. CASE Status(run) > 0
  <2>1. /\ all_pc' = "setflag" /\ UNCHANGED <<all_n, all_rec, all_flag>>
        /\ all_call' = [id |-> k, par |-> all_rec[k].par, obs |-> all_rec[k].par, op |-> "update_obs"]
        /\ all_buf' = [id |-> k, par |-> all_buf.par, obs |-> all_rec[k].par]
    BY <1>9 DEF RecordStatus, All!UpdateObs, All!Begin, All!Writes
  <2>2. all_call'.id = k /\ all_call'.op = "update_obs" /\ all_buf'.id = k
    <3> HIDE DEF k
    <3> QED
      BY <2>1
  <2>3. AllRunInv'
    <3> HIDE DEF k
    <3> QED
      BY <1>1, <1>2, <1>4, <1>5, <1>9, <2>1, <2>2 DEF AllRunInv, Status
  <2>4. \A q \in Runs : Lost(q)' => Lost(q)
    <3>1. \A q \in Runs : Lacks(q)' => Lacks(q)
      BY <1>2, <2>1, LackKept
    <3>2. Fresh'
      BY <2>1, <2>2 DEF Fresh, Updating
    <3> QED
      BY <1>1, <1>8, <3>1, <3>2 DEF Lost
  <2> QED
    BY <1>1, <1>3, <1>6, <1>7, <2>3, <2>4, LostKept DEF CrashInv
<1>10. CASE ~(Status(run) > 0)
  <2>1. /\ UNCHANGED <<all_n, all_flag, all_buf, all_pc, all_call>>
        /\ all_rec' = [all_rec EXCEPT ![k].st = All!Byte(-(-Status(run)))]
    BY <1>10 DEF RecordStatus, All!SetFailed
  <2>2. All!Byte(-(-Status(run))) = Status(run) /\ Status(run) <= -MaxRunFail /\ Status(run) < 0
    <3>1. -(-Status(run)) = Status(run) /\ Status(run) <= -MaxRunFail /\ Status(run) < 0
      BY <1>4, <1>10, FailAssumption
    <3> QED
      BY <1>4, <3>1, ByteSmall
  <2>3. /\ all_rec'[k].par = ParOf[run] /\ all_rec'[k].st = Status(run)
        /\ \A i \in AllIds \ {k} : all_rec'[i] = all_rec[i]
    <3>1. all_rec[k] \in [st : -128 .. 127, par : Word, obs : Word]
      BY <1>4 DEF FileRecord
    <3>2. all_rec' = [all_rec EXCEPT ![k].st = Status(run)]
      BY <2>1, <2>2
    <3> HIDE DEF k
    <3> QED
      BY <1>4, <3>1, <3>2
  <2>4. AllRunInv'
    BY <1>1, <1>4, <2>1 DEF AllRunInv, Updating
  <2>5. \A q \in Runs : q # run => (Lacks(q)' => Lacks(q))
    <3> SUFFICES ASSUME NEW q \in Runs, q # run PROVE Lacks(q)' => Lacks(q)
      OBVIOUS
    <3>1. \A i \in 0 .. all_n - 1 : all_rec[i].par = ParOf[q] => i \in AllIds \ {k}
      BY <1>4, StoredIds
    <3>2. \A i \in 0 .. all_n - 1 : all_rec[i].par = ParOf[q] => all_rec'[i] = all_rec[i]
      BY <2>3, <3>1
    <3> HIDE DEF k
    <3> QED
      BY <1>2, <2>1, <3>2, LackKept
  <2>6. ~Lacks(run)'
    <3>1. k \in GivenUp(run)'
      BY <1>1, <1>5, <2>1, <2>2, <2>3 DEF GivenUp, In
    <3>2. Listed(run)' # {}
      BY <1>1, <1>2, <1>3, <1>4, <2>2 DEF FailedRunInv, Listed, In
    <3>3. ~(Status(run)' > 0)
      BY <1>1, <1>2, <1>10 DEF Status
    <3> QED
      BY <1>1, <3>1, <3>2, <3>3 DEF Lacks
  <2>7. ~Fresh' /\ ~Replay'
    BY <1>1, <1>2, <1>4, <1>5, <2>1 DEF Fresh, Settles, Updating, Replay
  <2>8. \A q \in Runs : Lost(q)' => Lost(q)
    BY <1>1, <1>8, <2>5, <2>6, <2>7 DEF Lost
  <2> QED
    BY <1>1, <1>3, <1>6, <1>7, <2>4, <2>8, LostKept DEF CrashInv
<1> QED
  BY <1>9, <1>10

(* The writes of the operations that are under way.                          *)
LEMMA MainWritesCrash ==
  ASSUME FilesInv, CrashInv, SaveAllRuns, step # "aborted",
         Main!SetFlag \/ Main!WriteStatus \/ Main!WritePar \/ Main!WriteObs \/ Main!ClearFlag,
         OnMain, UNCHANGED <<step, run, crashes, manager>>
  PROVE  CrashInv'
<1> DEFINE c == main_call.id
<1>1. /\ main_pc \in Updating /\ UNCHANGED <<main_buf, main_call>>
      /\ main_pc = "setflag" => main_pc' = "status" /\ main_flag' = "set" /\ main_rec' = main_rec
      /\ main_pc = "clearflag" => main_pc' = "idle" /\ main_flag' = "clear" /\ main_rec' = main_rec
      /\ main_pc \in {"status", "par", "obs"} =>
           main_pc' \in {"par", "obs", "clearflag"} /\ main_flag' = main_flag
      /\ \/ main_rec' = main_rec
         \/ main_pc = "status" /\ main_rec' = [main_rec EXCEPT ![c].st = 1]
         \/ main_pc \in {"par", "obs"} /\ main_rec' = [main_rec EXCEPT ![c].par = main_call.par]
         \/ main_pc \in {"par", "obs"} /\ main_rec' = [main_rec EXCEPT ![c].obs = main_call.obs]
      /\ main_pc # "setflag" => main_pc' # "status"
      /\ main_pc = "status" => main_rec' = [main_rec EXCEPT ![c].st = 1]
  BY DEF Main!SetFlag, Main!WriteStatus, Main!WritePar, Main!WriteObs, Main!ClearFlag, Main!Writes,
         Updating
<1>2. /\ UNCHANGED <<failed_n, failed_rec, failed_pc>>
      /\ UNCHANGED <<all_n, all_rec, all_flag, all_buf, all_pc, all_call>>
  BY DEF OnMain, failedVars, allVars
<1>3. StorageRunInv /\ FailedRunInv /\ AllRunInv /\ LostInv
  BY DEF CrashInv
<1>4. c = run /\ c \in Runs /\ main_rec \in [Runs -> FileRecord]
  BY <1>1, <1>3 DEF StorageRunInv, FilesInv, MainInv, TypeInv, MainType
<1>5. \A r \in Runs : main_rec'[r].st = IF main_pc = "status" /\ r = c THEN 1 ELSE main_rec[r].st
  BY <1>1, <1>4 DEF FileRecord
<1>6. StorageRunInv'
  BY <1>1, <1>3 DEF StorageRunInv, Updating
<1>7. FailedRunInv'
  <2>1. step \in Settles => Outcome' = Outcome
    BY <1>1, <1>4, <1>5 DEF FilesInv, SettleInv, Outcome, Status, Updating
  <2>2. Listed(run)' = Listed(run)
    BY <1>2 DEF Listed, In
  <2> QED
    BY <1>2, <1>3, <2>1, <2>2 DEF FailedRunInv, Settles
<1>8. AllRunInv'
  <2>1. Status(run) > 0 => Status(run)' > 0
    BY <1>4, <1>5 DEF Status
  <2>2. all_pc \in Updating => main_flag' = main_flag \/ main_flag' = "clear"
    <3>1. all_pc \in Updating => step = "idle"
      BY DEF FilesInv, UpdateInv
    <3> QED
      BY <1>1, <1>3, <3>1 DEF StorageRunInv, Updating
  <2> QED
    BY <1>2, <1>3, <2>1, <2>2 DEF AllRunInv
<1>9. \A q \in Runs : Lost(q)' => Lost(q)
  <2>1. \A q \in Runs : q # run => (Lacks(q)' => Lacks(q))
    <3>1. \A q \in Runs : q # run => main_rec'[q].st = main_rec[q].st
      BY <1>4, <1>5
    <3> QED
      BY <1>2, <3>1, LackKept
  <2>2. Fresh' <=> Fresh
    BY <1>2 DEF Fresh
  <2>3. ~Fresh => main_flag = "set"
    BY <1>1, <1>3 DEF StorageRunInv, Fresh, Settles, Updating
  <2> QED
    BY <2>1, <2>2, <2>3 DEF Lost, Replay
<1> QED
  BY <1>3, <1>6, <1>7, <1>8, <1>9, LostKept DEF CrashInv

LEMMA FailedWritesCrash ==
  ASSUME FilesInv, CrashInv, SaveAllRuns, step # "aborted",
         Failed!WriteRecord \/ Failed!WriteNewFlag, OnFailed, UNCHANGED <<step, run, crashes, manager>>
  PROVE  CrashInv'
<1> DEFINE k == failed_n - 1
<1>1. /\ UNCHANGED <<main_rec, main_pc, main_flag, main_buf, main_call>>
      /\ UNCHANGED <<all_n, all_rec, all_flag, all_buf, all_pc, all_call>>
  BY DEF OnFailed, mainVars, allVars
<1>2. /\ failed_pc \in {"record", "newflag"} /\ step = "failed count" /\ failed_n' = failed_n
      /\ failed_pc' \in {"newflag", "idle"} /\ failed_call.id = k
      /\ \/ failed_rec' = failed_rec
         \/ /\ failed_pc = "record"
            /\ failed_rec' = [failed_rec EXCEPT ![k] = [@ EXCEPT !.st = 0, !.par = failed_call.par]]
  BY DEF Failed!WriteRecord, Failed!WriteNewFlag, Failed!Writes, FilesInv, FailedInv
<1>3. StorageRunInv /\ FailedRunInv /\ AllRunInv /\ LostInv
  BY DEF CrashInv
<1>4. StorageRunInv'
  BY <1>1, <1>3 DEF StorageRunInv
<1>5. FailedRunInv'
  BY <1>2 DEF FailedRunInv
<1>6. AllRunInv'
  BY <1>1, <1>3 DEF AllRunInv, Status
<1>7. \A q \in Runs : Lost(q)' => Lost(q)
  <2>1. \A q \in Runs : Lacks(q)' => Lacks(q)
    <3> SUFFICES ASSUME NEW q \in Runs PROVE Lacks(q)' => Lacks(q)
      OBVIOUS
    <3>1. /\ 0 .. failed_n - 1 \subseteq FailedIds /\ failed_rec \in [FailedIds -> FileRecord]
          /\ ParOf[q] # Blank
      BY StoredIds, ParValues DEF FilesInv, TypeInv, FailedType
    <3>2. failed_pc = "record" => failed_rec[k].par = Blank
      BY <1>3 DEF FailedRunInv
    <3> HIDE DEF k
    <3>3. \A i \in 0 .. failed_n - 1 : failed_rec[i].par = ParOf[q] => failed_rec'[i] = failed_rec[i]
      BY <1>2, <3>1, <3>2
    <3> QED
      BY <1>1, <1>2, <3>3, LackKept
  <2>2. Fresh /\ Fresh'
    BY <1>2 DEF Fresh, Settles
  <2> QED
    BY <2>1, <2>2 DEF Lost
<1> QED
  BY <1>3, <1>4, <1>5, <1>6, <1>7, LostKept DEF CrashInv

LEMMA AllAddsCrash ==
  ASSUME FilesInv, CrashInv, SaveAllRuns, step # "aborted",
         All!WriteRecord \/ All!WriteNewFlag, OnAll, UNCHANGED <<step, run, crashes, manager>>
  PROVE  CrashInv'
<1> DEFINE k == all_n - 1
<1>1. /\ UNCHANGED <<main_rec, main_pc, main_flag, main_buf, main_call>>
      /\ UNCHANGED <<failed_n, failed_rec, failed_pc>>
  BY DEF OnAll, mainVars, failedVars
<1>2. step = "all status" /\ main_pc = "idle" /\ all_flag # "set" /\ all_call.id = k
  <2>1. step = "all status"
    BY DEF All!WriteRecord, All!WriteNewFlag, FilesInv, AllInv
  <2> QED
    BY <2>1, Recording
<1>3. /\ all_n' = all_n /\ all_pc' \in {"newflag", "idle"} /\ all_flag' # "set"
      /\ \/ all_rec' = all_rec
         \/ all_pc = "record" /\ all_rec' = [all_rec EXCEPT ![k] = [@ EXCEPT !.st = 0, !.par = all_call.par]]
  BY <1>2 DEF All!WriteRecord, All!WriteNewFlag, All!Writes
<1>4. StorageRunInv /\ FailedRunInv /\ AllRunInv /\ LostInv
  BY DEF CrashInv
<1>5. StorageRunInv'
  BY <1>1, <1>4 DEF StorageRunInv
<1>6. FailedRunInv'
  BY <1>1, <1>4 DEF FailedRunInv, Listed, In, Outcome, Status
<1>7. AllRunInv'
  BY <1>2, <1>3 DEF AllRunInv, Updating
<1>8. \A q \in Runs : Lost(q)' => Lost(q)
  <2>1. \A q \in Runs : Lacks(q)' => Lacks(q)
    <3> SUFFICES ASSUME NEW q \in Runs PROVE Lacks(q)' => Lacks(q)
      OBVIOUS
    <3>1. /\ 0 .. all_n - 1 \subseteq AllIds /\ all_rec \in [AllIds -> FileRecord]
          /\ ParOf[q] # Blank
      BY StoredIds, ParValues DEF FilesInv, TypeInv, AllType
    <3>2. all_pc = "record" => all_rec[k].par = Blank
      BY <1>4 DEF AllRunInv
    <3> HIDE DEF k
    <3>3. \A i \in 0 .. all_n - 1 : all_rec[i].par = ParOf[q] => all_rec'[i] = all_rec[i]
      BY <1>3, <3>1, <3>2
    <3> QED
      BY <1>1, <1>3, <3>3, LackKept
  <2>2. Fresh /\ Fresh'
    BY <1>2 DEF Fresh, Settles
  <2> QED
    BY <2>1, <2>2 DEF Lost
<1> QED
  BY <1>4, <1>5, <1>6, <1>7, <1>8, LostKept DEF CrashInv

(* A result that goes into the all-runs file from the buffer: for the first time, *)
(* and then the run is recorded, or in a replay, and then it may be lost.        *)
LEMMA AllUpdatesCrash ==
  ASSUME FilesInv, CrashInv, SaveAllRuns, step # "aborted",
         All!SetFlag \/ All!WriteStatus \/ All!WritePar \/ All!WriteObs \/ All!ClearFlag,
         OnAll, UNCHANGED <<step, run, crashes, manager>>
  PROVE  CrashInv'
<1> DEFINE c == all_call.id
<1>1. /\ UNCHANGED <<main_rec, main_pc, main_flag, main_buf, main_call>>
      /\ UNCHANGED <<failed_n, failed_rec, failed_pc>>
  BY DEF OnAll, mainVars, failedVars
<1>2. /\ all_pc \in Updating /\ UNCHANGED <<all_n, all_buf, all_call>>
      /\ all_pc = "setflag" => all_pc' = "status" /\ all_flag' = "set" /\ all_rec' = all_rec
      /\ all_pc = "status" => /\ all_pc' = (IF all_call.op = "update_obs" THEN "obs" ELSE "par")
                              /\ all_rec' = [all_rec EXCEPT ![c].st = 1]
      /\ all_pc = "par" => all_pc' = "obs" /\ all_rec' = [all_rec EXCEPT ![c].par = all_call.par]
      /\ all_pc = "obs" => all_pc' = "clearflag" /\ all_rec' = [all_rec EXCEPT ![c].obs = all_call.obs]
      /\ all_pc = "clearflag" => all_pc' = "idle" /\ all_flag' = "clear" /\ all_rec' = all_rec
      /\ all_pc \in {"status", "par", "obs"} => all_flag' = all_flag
  BY DEF All!SetFlag, All!WriteStatus, All!WritePar, All!WriteObs, All!ClearFlag, All!Writes, Updating
<1>3. StorageRunInv /\ FailedRunInv /\ AllRunInv /\ LostInv
  BY DEF CrashInv
<1>4. /\ step = "idle" /\ c = all_buf.id /\ Finishing(c)
      /\ all_pc # "setflag" => all_flag = "set"
      /\ all_pc = "setflag" => all_call.op = "update_obs"
      /\ all_pc = "par" => all_call.par = Zero
  BY <1>2 DEF FilesInv, UpdateInv, Updating
<1>5. /\ c \in 0 .. all_n - 1 /\ c \in AllIds /\ all_rec \in [AllIds -> FileRecord]
      /\ 0 .. all_n - 1 \subseteq AllIds
  BY <1>4, StoredIds DEF Finishing, FilesInv, TypeInv, AllType
<1>6. run \in Runs /\ all_rec[c].par \in {ParOf[run], Zero}
  BY <1>2, <1>3, <1>4 DEF AllRunInv
<1>7. /\ \A i \in AllIds \ {c} : all_rec'[i] = all_rec[i]
      /\ all_rec'[c].par = IF all_pc = "par" THEN Zero ELSE all_rec[c].par
      /\ all_rec'[c].st = IF all_pc = "status" THEN 1 ELSE all_rec[c].st
  <2>1. all_rec[c] \in [st : -128 .. 127, par : Word, obs : Word]
    BY <1>5 DEF FileRecord
  <2> HIDE DEF c
  <2>2. CASE all_rec' = all_rec /\ all_pc \in {"setflag", "clearflag"}
    BY <2>2
  <2>3. CASE all_rec' = [all_rec EXCEPT ![c].st = 1] /\ all_pc = "status"
    BY <1>5, <2>1, <2>3
  <2>4. CASE all_rec' = [all_rec EXCEPT ![c].par = Zero] /\ all_pc = "par"
    BY <1>5, <2>1, <2>4
  <2>5. CASE all_rec' = [all_rec EXCEPT ![c].obs = all_call.obs] /\ all_pc = "obs"
    BY <1>5, <2>1, <2>5
  <2> QED
    BY <1>2, <1>4, <2>2, <2>3, <2>4, <2>5 DEF Updating, c
<1>8. StorageRunInv'
  BY <1>1, <1>3 DEF StorageRunInv
<1>9. FailedRunInv'
  BY <1>1, <1>3, <1>4 DEF FailedRunInv
<1>10. AllRunInv'
  <2>1. Status(run)' = Status(run) /\ c' = c
    BY <1>1, <1>2 DEF Status
  <2>2. all_rec'[c].par \in {ParOf[run], Zero}
    BY <1>6, <1>7
  <2>3. all_call.op = "update_obs" =>
          /\ main_flag # "set" /\ all_pc # "par" /\ all_rec[c].par = ParOf[run] /\ Status(run) > 0
          /\ all_pc \in {"obs", "clearflag"} => all_rec[c].st > 0
    BY <1>2, <1>3 DEF AllRunInv
  <2>4. all_call.op = "update_obs" =>
          /\ all_pc' # "par" /\ all_rec'[c].par = ParOf[run]
          /\ all_pc' \in {"obs", "clearflag"} => all_rec'[c].st > 0
    BY <1>2, <1>7, <2>3 DEF Updating
  <2> HIDE DEF c
  <2>5. all_pc' \notin {"record", "down"}
    BY <1>2 DEF Updating
  <2> QED
    BY <1>1, <1>2, <1>3, <1>4, <2>1, <2>2, <2>3, <2>4, <2>5 DEF AllRunInv, c
<1>11. \A q \in Runs : Lost(q)' => Lost(q)
  <2>1. \A q \in Runs : q # run => (Lacks(q)' => Lacks(q))
    <3> SUFFICES ASSUME NEW q \in Runs, q # run PROVE Lacks(q)' => Lacks(q)
      OBVIOUS
    <3>1. all_rec[c].par # ParOf[q]
      <4>1. ParOf[run] # ParOf[q] /\ Zero # ParOf[q]
        BY <1>6, ParValues, ParAssumption
      <4> QED
        BY <1>6, <4>1
    <3> HIDE DEF c
    <3>2. \A i \in 0 .. all_n - 1 : all_rec[i].par = ParOf[q] => all_rec'[i] = all_rec[i]
      BY <1>5, <1>7, <3>1
    <3> QED
      BY <1>1, <1>2, <3>2, LackKept
  <2>2. CASE Fresh /\ Fresh'
    BY <2>1, <2>2 DEF Lost
  <2>3. CASE Fresh /\ ~Fresh'
    <3>1. all_call.op = "update_obs" /\ all_pc = "clearflag"
      BY <1>2, <1>4, <2>3 DEF Fresh, Settles, Updating
    <3>2. /\ main_flag # "set" /\ all_rec[c].par = ParOf[run] /\ Status(run) > 0
          /\ all_rec[c].st > 0
      BY <1>2, <1>3, <3>1 DEF AllRunInv
    <3>3. c \in Finished(run)'
      BY <1>2, <1>5, <1>7, <3>1, <3>2 DEF Finished, In
    <3>4. ~Lacks(run)'
      <4>1. Status(run)' = Status(run)
        BY <1>1 DEF Status
      <4>2. Status(run) \in Int
        BY <1>6, Records DEF Status, FilesInv
      <4>3. ~Exceeded(run)'
        BY <3>2, <4>1, <4>2, FailAssumption DEF Exceeded, TooMany
      <4> QED
        BY <3>3, <4>3 DEF Lacks
    <3>5. ~Replay'
      BY <1>1, <1>2, <3>1, <3>2 DEF Replay
    <3> QED
      BY <2>1, <2>3, <3>4, <3>5 DEF Lost
  <2>4. CASE ~Fresh
    <3>1. all_call.op # "update_obs"
      BY <1>2, <2>4 DEF Fresh
    <3>2. Replay
      BY <1>2, <1>3, <1>4, <3>1 DEF AllRunInv, Replay
    <3>3. ~Fresh'
      BY <1>2, <1>4, <3>1 DEF Fresh, Settles
    <3> QED
      BY <2>1, <2>4, <3>2, <3>3 DEF Lost
  <2> QED
    BY <2>2, <2>3, <2>4
<1> QED
  BY <1>3, <1>8, <1>9, <1>10, <1>11, LostKept DEF CrashInv

-----------------------------------------------------------------------------
(* The program dies: the run that was under way is lost, at most.            *)
LEMMA CrashCrash ==
  ASSUME FilesInv, CrashInv, Crash
  PROVE  CrashInv'
<1>1. /\ main_pc' = "down" /\ failed_pc' = "down" /\ all_pc' = "down" /\ step' = "down"
      /\ step # "aborted" /\ crashes' = crashes + 1
      /\ UNCHANGED <<main_rec, main_flag, main_buf, main_call, run, manager>>
      /\ UNCHANGED <<failed_n, failed_rec>> /\ UNCHANGED <<all_n, all_rec, all_flag, all_buf, all_call>>
  BY DEF Crash
<1>2. StorageRunInv /\ FailedRunInv /\ AllRunInv /\ LostInv
  BY <1>1 DEF CrashInv
<1>3. StorageRunInv' /\ FailedRunInv' /\ AllRunInv'
  BY <1>1, <1>2 DEF StorageRunInv, FailedRunInv, AllRunInv, Updating
<1>4. \A q \in Runs : q # run /\ Lost(q)' => Lost(q)
  <2>1. \A q \in Runs : Lacks(q)' => Lacks(q)
    BY <1>1, LackKept
  <2> QED
    BY <1>1, <2>1 DEF Lost
<1> QED
  BY <1>1, <1>2, <1>3, <1>4, LostOne DEF CrashInv

(* A restart opens the files one after the other.                            *)
LEMMA OpenMainCrash ==
  ASSUME FilesInv, CrashInv, OpenMain
  PROVE  CrashInv'
<1>1. /\ step = "down" /\ step' = (IF manager = "abstract" THEN "open failed" ELSE "idle")
      /\ UNCHANGED <<run, crashes, manager>> /\ UNCHANGED <<main_rec, main_flag, main_buf>>
      /\ failed_pc \notin Busy /\ all_pc \notin Busy
      /\ \/ main_flag = "none"
         \/ main_flag = "clear" /\ main_pc' = "idle" /\ main_call' = main_call
         \/ main_flag = "set" /\ main_pc' = "status" /\ main_call'.id = main_buf.id
  <2> DEFINE c == [id |-> main_buf.id, par |-> main_buf.par, obs |-> main_buf.obs, op |-> "update"]
  <2>1. c.id = main_buf.id
    OBVIOUS
  <2>2. main_flag = "set" => main_pc' = "status" /\ main_call' = c
    BY DEF OpenMain, Main!Restart, Main!Writes
  <2> HIDE DEF c
  <2> QED
    BY <2>1, <2>2 DEF OpenMain, At, Quiet, Continue, Main!Restart, Main!Writes, Main!file
<1>2. /\ UNCHANGED <<failed_n, failed_rec, failed_pc>>
      /\ UNCHANGED <<all_n, all_rec, all_flag, all_buf, all_pc, all_call>>
  BY DEF OpenMain, OnMain, failedVars, allVars
<1>3. StorageRunInv /\ FailedRunInv /\ AllRunInv /\ LostInv /\ main_flag # "none"
  BY <1>1 DEF CrashInv, FilesInv, TypeInv, MainType
<1>4. StorageRunInv' /\ FailedRunInv' /\ AllRunInv'
  BY <1>1, <1>2, <1>3 DEF StorageRunInv, FailedRunInv, AllRunInv, Updating, Busy
<1>5. \A q \in Runs : Lost(q)' => Lost(q)
  <2>1. \A q \in Runs : Lacks(q)' => Lacks(q)
    BY <1>1, <1>2, LackKept
  <2>2. ~Fresh /\ ~Fresh' /\ (Replay' <=> Replay)
    BY <1>1, <1>2 DEF Fresh, Settles, Updating, Busy, Replay
  <2> QED
    BY <1>1, <2>1, <2>2 DEF Lost
<1> QED
  BY <1>1, <1>3, <1>4, <1>5, LostKept DEF CrashInv

LEMMA OpenFailedCrash ==
  ASSUME FilesInv, CrashInv, SaveAllRuns, OpenFailed, step' # "aborted"
  PROVE  CrashInv'
<1>1. /\ step = "open failed" /\ step' = "open all" /\ UNCHANGED <<run, crashes, manager>>
      /\ failed_pc' \in {"idle", "status", "refused"} /\ UNCHANGED <<failed_n, failed_rec>>
      /\ main_pc \notin Busy /\ all_pc \notin Busy
  BY DEF OpenFailed, At, Quiet, Continue, Failed!Restart, Failed!Writes, Failed!file
<1>2. /\ UNCHANGED <<main_rec, main_pc, main_flag, main_buf, main_call>>
      /\ UNCHANGED <<all_n, all_rec, all_flag, all_buf, all_pc, all_call>>
  BY DEF OpenFailed, OnFailed, mainVars, allVars
<1>3. StorageRunInv /\ FailedRunInv /\ AllRunInv /\ LostInv
  BY <1>1 DEF CrashInv
<1>4. StorageRunInv' /\ FailedRunInv' /\ AllRunInv'
  BY <1>1, <1>2, <1>3 DEF StorageRunInv, FailedRunInv, AllRunInv, Updating, Busy, Status
<1>5. \A q \in Runs : Lost(q)' => Lost(q)
  <2>1. \A q \in Runs : Lacks(q)' => Lacks(q)
    BY <1>1, <1>2, LackKept
  <2>2. ~Fresh /\ ~Fresh' /\ (Replay' <=> Replay)
    BY <1>1, <1>2 DEF Fresh, Settles, Updating, Busy, Replay
  <2> QED
    BY <1>1, <2>1, <2>2 DEF Lost
<1> QED
  BY <1>1, <1>3, <1>4, <1>5, LostKept DEF CrashInv

LEMMA OpenAllCrash ==
  ASSUME FilesInv, CrashInv, OpenAll, step' # "aborted"
  PROVE  CrashInv'
<1>1. /\ step = "open all" /\ step' = "idle" /\ UNCHANGED <<run, crashes, manager>>
      /\ main_pc \notin Busy /\ failed_pc \notin Busy /\ all_pc \notin Busy
      /\ UNCHANGED <<all_n, all_rec, all_flag, all_buf>>
      /\ \/ all_pc' \in {"idle", "refused"}
         \/ all_flag = "set" /\ all_pc' = "status" /\ all_call'.op = "update"
  <2> DEFINE c == [id |-> all_buf.id, par |-> all_buf.par, obs |-> all_buf.obs, op |-> "update"]
  <2>1. c.op = "update"
    OBVIOUS
  <2>2. all_flag = "set" => all_pc' = "status" /\ all_call' = c
    BY DEF OpenAll, All!Restart, All!Writes
  <2> HIDE DEF c
  <2> QED
    BY <2>1, <2>2 DEF OpenAll, At, Quiet, Continue, All!Restart, All!Writes, All!file
<1>2. /\ UNCHANGED <<main_rec, main_pc, main_flag, main_buf, main_call>>
      /\ UNCHANGED <<failed_n, failed_rec, failed_pc>>
  BY DEF OpenAll, OnAll, mainVars, failedVars
<1>3. StorageRunInv /\ FailedRunInv /\ AllRunInv /\ LostInv
  BY <1>1 DEF CrashInv
<1>4. StorageRunInv' /\ FailedRunInv' /\ AllRunInv'
  BY <1>1, <1>2, <1>3 DEF StorageRunInv, FailedRunInv, AllRunInv, Updating, Busy
<1>5. \A q \in Runs : Lost(q)' => Lost(q)
  <2>1. \A q \in Runs : Lacks(q)' => Lacks(q)
    BY <1>1, <1>2, LackKept
  <2>2. ~Fresh /\ ~Fresh' /\ (Replay' <=> Replay)
    BY <1>1, <1>2 DEF Fresh, Settles, Updating, Busy, Replay
  <2> QED
    BY <1>1, <2>1, <2>2 DEF Lost
<1> QED
  BY <1>1, <1>3, <1>4, <1>5, LostKept DEF CrashInv

(* A program that has been aborted does nothing more.                        *)
LEMMA AbortedStays ==
  ASSUME [Next]_vars, step = "aborted"
  PROVE  step' = "aborted"
<1>1. CASE Settle
  BY <1>1 DEF Settle, Finish, Fail, AddFailed, CountFailures, AddToAll, RecordStatus, Abort, Closed,
              At, Continue
<1>2. CASE Reopen
  BY <1>2 DEF Reopen, OpenMain, OpenFailed, OpenAll, At
<1> QED
  BY <1>1, <1>2 DEF Next, Write, Crash, vars

LEMMA CrashNext ==
  ASSUME FilesInv, CrashInv, SaveAllRuns, StatusFits, [Next]_vars
  PROVE  CrashInv'
<1>1. CASE step' = "aborted"
  BY <1>1 DEF CrashInv
<1>2. CASE step # "aborted" /\ step' # "aborted"
  <2>1. CASE Settle
    <3>1. ~Abort
      BY <1>2 DEF Abort, Continue
    <3> QED
      BY <2>1, <3>1, FinishCrash, FailCrash, AddFailedCrash, CountCrash, AddToAllCrash,
         RecordStatusCrash DEF Settle
  <2>2. CASE Write
    BY <1>2, <2>2, MainWritesCrash, FailedWritesCrash, AllAddsCrash, AllUpdatesCrash DEF Write
  <2>3. CASE Crash
    BY <2>3, CrashCrash
  <2>4. CASE Reopen
    BY <1>2, <2>4, OpenMainCrash, OpenFailedCrash, OpenAllCrash DEF Reopen
  <2>5. CASE UNCHANGED vars
    <3>1. UNCHANGED mainVars /\ UNCHANGED failedVars /\ UNCHANGED allVars
          /\ UNCHANGED <<step, run, crashes, manager>>
      BY <2>5 DEF vars
    <3>2. StorageRunInv' /\ FailedRunInv' /\ AllRunInv' /\ LostInv
      <4>1. StorageRunInv /\ FailedRunInv /\ AllRunInv /\ LostInv
        BY <1>2 DEF CrashInv
      <4>2. StorageRunInv' /\ AllRunInv'
        BY <3>1, <4>1 DEF StorageRunInv, AllRunInv, Status, mainVars, allVars
      <4>3. FailedRunInv'
        <5>1. Listed(run)' = Listed(run) /\ Outcome' = Outcome
          BY <3>1 DEF Listed, In, Outcome, Status, mainVars, failedVars
        <5> QED
          BY <3>1, <4>1, <5>1 DEF FailedRunInv, failedVars
      <4> QED
        BY <4>1, <4>2, <4>3
    <3>3. \A q \in Runs : Lost(q)' => Lost(q)
      BY <3>1 DEF Lost, Lacks, Fresh, Replay, Finished, GivenUp, Listed, In, Exceeded, Status,
                  mainVars, failedVars, allVars
    <3> QED
      BY <3>1, <3>2, <3>3, LostKept DEF CrashInv
  <2> QED
    BY <2>1, <2>2, <2>3, <2>4, <2>5 DEF Next
<1> QED
  BY <1>1, <1>2, AbortedStays

LEMMA CrashInit ==
  ASSUME Init
  PROVE  CrashInv
<1>1. StorageRunInv /\ FailedRunInv /\ AllRunInv
  BY DEF Init, StorageRunInv, FailedRunInv, AllRunInv, Updating
<1>2. {r \in Runs : Lost(r)} = {}
  <2>1. \A r \in Runs : Status(r) = 0
    BY DEF Init, Status
  <2>2. ~Fresh /\ ~Replay
    BY DEF Init, Fresh, Settles, Updating, Replay
  <2> QED
    BY <2>1, <2>2, FailAssumption DEF Lost, Lacks, Exceeded, TooMany
<1>3. LostInv
  <2>1. Cardinality({}) = 0
    BY FS_EmptySet
  <2>2. crashes = 0
    BY DEF Init
  <2>3. Cardinality({r \in Runs : Lost(r)}) = 0
    BY <1>2, <2>1
  <2> QED
    BY <2>2, <2>3 DEF LostInv
<1> QED
  BY <1>1, <1>3 DEF CrashInv

(* At rest, what is missing is what is lost. *)
LEMMA MissingIsLost ==
  ASSUME FilesInv, CrashInv, SaveAllRuns
  PROVE  OneRunPerCrash
<1> SUFFICES ASSUME ~Settling, step = "idle" PROVE Missing <= crashes
  BY DEF OneRunPerCrash
<1> DEFINE A == {r \in Runs : Status(r) > 0 /\ Finished(r) = {}}
           B == {r \in Runs : Exceeded(r) /\ (Listed(r) = {} \/ GivenUp(r) = {})}
           L == {r \in Runs : Lost(r)}
<1>1. StorageRunInv /\ FailedRunInv /\ AllRunInv /\ LostInv /\ Quiet
  BY DEF CrashInv, Settling
<1>2. ~Fresh
  BY <1>1, AtRest
<1>3. A \cup B \subseteq L
  BY <1>2 DEF Lost, Lacks
<1>4. A \cap B = {}
  BY Records, FailAssumption DEF Exceeded, TooMany, Status, FilesInv
<1>5. IsFiniteSet(A) /\ IsFiniteSet(B) /\ IsFiniteSet(L)
  BY RunsFinite, FS_Subset
<1>6. Missing = Cardinality(A) + Cardinality(B)
  BY DEF Missing
<1>7. Cardinality(L) <= crashes /\ crashes \in Nat
  BY <1>1 DEF LostInv
<1> HIDE DEF A, B, L
<1>8. Cardinality(A \cup B) = Cardinality(A) + Cardinality(B)
  <2>1. /\ Cardinality(A \cup B) = Cardinality(A) + Cardinality(B) - Cardinality(A \cap B)
    BY <1>5, FS_Union
  <2>2. Cardinality(A \cap B) = 0
    BY <1>4, FS_EmptySet
  <2>3. Cardinality(A) \in Nat /\ Cardinality(B) \in Nat
    BY <1>5, FS_CardinalityType
  <2> QED
    BY <2>1, <2>2, <2>3
<1>9. Cardinality(A \cup B) <= Cardinality(L) /\ Cardinality(L) \in Nat /\ Cardinality(A \cup B) \in Nat
  BY <1>3, <1>5, FS_Subset, FS_CardinalityType
<1> QED
  BY <1>6, <1>7, <1>8, <1>9

(* OneRunPerCrash, for any number of runs, of tolerated failures and of crashes, *)
(* and for both ways to restart: a program that dies while it settles a run     *)
(* leaves the lists short of that run, and a replay that wipes out a record     *)
(* wipes out the record of the run whose recording a crash has interrupted.     *)
THEOREM CrashesCostOneRunEach ==
  ASSUME StatusFits
  PROVE  Spec => []OneRunPerCrash
<1>1. CASE SaveAllRuns
  <2>1. FilesInv /\ CrashInv /\ [Next]_vars => CrashInv'
    BY <1>1, CrashNext
  <2>2. FilesInv /\ CrashInv => OneRunPerCrash
    BY <1>1, MissingIsLost
  <2>3. Spec => []FilesInv
    BY FilesAlways
  <2>4. Init => CrashInv
    BY CrashInit
  <2> QED
    BY <2>1, <2>2, <2>3, <2>4, PTL DEF Spec
<1>2. CASE ~SaveAllRuns
  <2>1. OneRunPerCrash
    BY <1>2 DEF OneRunPerCrash
  <2> QED
    BY <2>1, PTL
<1> QED
  BY <1>1, <1>2
-----------------------------------------------------------------------------
(***************************************************************************)
(* The three files as files: each is written as RunStorage has it, whatever  *)
(* the others do.                                                            *)
(***************************************************************************)

(* A file whose restart was refused ends the program.                        *)
RefusedInv == failed_pc = "refused" \/ all_pc = "refused" => step = "aborted"

(* And nothing goes on after that.                                           *)
LEMMA RefusedStep ==
  ASSUME FilesInv, RefusedInv, [Next]_vars
  PROVE  RefusedInv'
<1> USE DEF RefusedInv
<1>1. CASE step = "aborted"
  <2>1. step' = "aborted"
    BY <1>1, AbortedStays
  <2> QED
    BY <2>1
<1>2. ASSUME step # "aborted", NEW r \in Runs, Finish(r) \/ Fail(r)
      PROVE  RefusedInv'
  BY <1>2 DEF Finish, Fail, OnMain, failedVars, allVars
<1>3. CASE AddFailed \/ CountFailures
  BY <1>1, <1>3 DEF AddFailed, CountFailures, OnFailed, allVars, Failed!AddRun, Failed!Begin, Failed!Writes,
       Failed!SetFailed, At, Quiet, Continue
<1>4. CASE AddToAll \/ RecordStatus
  BY <1>1, <1>4 DEF AddToAll, RecordStatus, OnAll, failedVars, All!AddRun, All!UpdateObs, All!Begin, All!Writes,
       All!SetFailed, At, Continue
<1>5. CASE Abort
  BY <1>5 DEF Abort, Continue
<1>6. CASE Write
  <2>1. step' = step
    BY <1>6 DEF Write
  <2>2. \/ OnMain \/ (OnFailed /\ failed_pc' \in {"newflag", "idle"})
        \/ (OnAll /\ all_pc' # "refused")
    BY <1>6 DEF Write, Failed!WriteRecord, Failed!WriteNewFlag, Failed!Writes, All!WriteRecord, All!WriteNewFlag,
         All!SetFlag, All!WriteStatus, All!WritePar, All!WriteObs, All!ClearFlag, All!Writes
  <2> QED
    BY <2>1, <2>2 DEF OnMain, OnFailed, OnAll, failedVars, allVars
<1>7. CASE Crash
  BY <1>7 DEF Crash
<1>8. CASE OpenMain
  BY <1>1, <1>8 DEF OpenMain, OnMain, failedVars, allVars
<1>9. CASE OpenFailed
  BY <1>1, <1>9 DEF OpenFailed, OnFailed, allVars, Continue, Failed!Restart, Failed!Writes
<1>10. CASE OpenAll
  BY <1>1, <1>10 DEF OpenAll, OnAll, failedVars, Continue
<1>11. CASE UNCHANGED vars
  BY <1>11 DEF vars, failedVars, allVars
<1> QED
  BY <1>1, <1>2, <1>3, <1>4, <1>5, <1>6, <1>7, <1>8, <1>9, <1>10, <1>11 DEF Next, Settle, Reopen

(* The storage is written as RunStorage has it.                              *)
LEMMA MainSteps ==
  ASSUME FilesInv, [Next]_vars
  PROVE  [Main!Next]_(Main!vars)
<1>0. Main!Stored = Runs /\ \A r \in Runs : main_rec[r].par \in Values
  BY ParValues DEF FilesInv, MainInv, TypeInv, MainType, Main!Stored, Runs
<1> USE DEF Main!Next
<1>1. ASSUME NEW r \in Runs, Finish(r) \/ Fail(r)
      PROVE  Main!Next
  BY <1>0, <1>1 DEF Finish, Fail
<1>2. CASE UNCHANGED mainVars
  BY <1>2 DEF mainVars, Main!vars, Main!file
<1>3. CASE Write
  <2>1. CASE OnFailed \/ OnAll
    BY <1>2, <2>1 DEF OnFailed, OnAll
  <2> QED
    BY <1>3, <2>1 DEF Write
<1>4. CASE Crash
  <2>1. CASE main_pc = "down"
    BY <1>4, <2>1 DEF Crash, Main!vars, Main!file
  <2>2. CASE main_pc # "down"
    <3>1. main_pc # "refused"
      BY DEF FilesInv, TypeInv, MainType, Updating
    <3> QED
      BY <1>4, <2>2, <3>1 DEF Crash, Main!Crash, Main!file, Main!Writes
  <2> QED
    BY <2>1, <2>2
<1>5. CASE OpenMain
  BY <1>5 DEF OpenMain
<1>6. CASE AddFailed \/ CountFailures \/ AddToAll \/ RecordStatus \/ Abort \/ OpenFailed \/ OpenAll \/ UNCHANGED vars
  BY <1>2, <1>6 DEF AddFailed, CountFailures, AddToAll, RecordStatus, Abort, OpenFailed, OpenAll, OnFailed, OnAll, vars
<1> QED
  BY <1>1, <1>3, <1>4, <1>5, <1>6 DEF Next, Settle, Reopen

(* So is the failed run file: what is counted is a number of failures.       *)
LEMMA FailedSteps ==
  ASSUME FilesInv, RefusedInv, [Next]_vars
  PROVE  [Failed!Next]_(Failed!vars)
<1> USE DEF Failed!Next
<1>1. CASE UNCHANGED failedVars
  BY <1>1 DEF failedVars, Failed!vars, Failed!file
<1>2. CASE AddFailed
  <2>1. main_rec[run].par \in Values
    BY <1>2, ParValues DEF AddFailed, At, FilesInv, SettleInv, Settles, MainInv
  <2> QED
    BY <1>2, <2>1 DEF AddFailed
<1>3. CASE CountFailures
  <2>1. /\ step = "failed count" /\ failed_pc = "idle" /\ main_pc = "idle" /\ run \in Runs
        /\ failed_n > 0 /\ failed_n \in Int
    <3>1. step = "failed count" /\ failed_pc = "idle"
      BY <1>3 DEF CountFailures, At, Failed!SetFailed
    <3>2. failed_n > 0 /\ failed_n \in Int
      BY <3>1, CountTypes DEF FilesInv, FailedInv
    <3> QED
      BY <3>1, <3>2 DEF FilesInv, SettleInv, Settles
  <2>2. Status(run) <= -MaxRunFail /\ Status(run) >= -MaxRunFail - 1 /\ Status(run) \in Int
    <3>1. Status(run) <= -MaxRunFail
      BY <2>1 DEF FilesInv, SettleInv, Outcome
    <3> QED
      BY <2>1, <3>1, Records DEF FilesInv, MainInv, Status
  <2>3. -Status(run) \in 1 .. MaxRunFail + 1
    BY <2>2, FailAssumption
  <2>4. failed_n - 1 \in Failed!Stored
    <3>1. \A m \in Int : m > 0 => m - 1 \in 0 .. m - 1
      OBVIOUS
    <3> QED
      BY <2>1, <3>1 DEF Failed!Stored
  <2> QED
    BY <1>3, <2>3, <2>4, CountsOfFiles DEF CountFailures
<1>4. CASE Write
  <2>1. CASE OnMain \/ OnAll
    BY <1>1, <2>1 DEF OnMain, OnAll
  <2> QED
    BY <1>4, <2>1 DEF Write
<1>5. CASE Crash
  <2>1. CASE failed_pc = "down"
    BY <1>5, <2>1 DEF Crash, Failed!vars, Failed!file
  <2>2. CASE failed_pc # "down"
    <3>1. failed_pc # "refused"
      BY <1>5 DEF Crash, RefusedInv
    <3> QED
      BY <1>5, <2>2, <3>1 DEF Crash, Failed!Crash, Failed!file, Failed!Writes
  <2> QED
    BY <2>1, <2>2
<1>6. CASE OpenFailed
  BY <1>6 DEF OpenFailed
<1>7. ASSUME NEW r \in Runs, Finish(r) \/ Fail(r)
      PROVE  UNCHANGED failedVars
  BY <1>7 DEF Finish, Fail, OnMain
<1>8. CASE AddToAll \/ RecordStatus \/ Abort \/ OpenMain \/ OpenAll \/ UNCHANGED vars
  BY <1>1, <1>8 DEF AddToAll, RecordStatus, Abort, OpenMain, OpenAll, OnMain, OnAll, vars
<1> QED
  BY <1>1, <1>2, <1>3, <1>4, <1>5, <1>6, <1>7, <1>8 DEF Next, Settle, Reopen

(* And the all-runs file.                                                    *)
LEMMA AllSteps ==
  ASSUME FilesInv, RefusedInv, [Next]_vars
  PROVE  [All!Next]_(All!vars)
<1> USE DEF All!Next
<1>1. CASE UNCHANGED allVars
  BY <1>1 DEF allVars, All!vars, All!file
<1>2. CASE AddToAll
  <2>1. main_rec[run].par \in Values
    BY <1>2, ParValues DEF AddToAll, At, FilesInv, SettleInv, Settles, MainInv
  <2> QED
    BY <1>2, <2>1 DEF AddToAll
<1>3. CASE RecordStatus
  <2>1. /\ step = "all status" /\ main_pc = "idle" /\ run \in Runs /\ all_n > 0 /\ all_n \in Int
    <3>1. step = "all status"
      BY <1>3 DEF RecordStatus, At
    <3>2. all_n > 0 /\ all_n \in Int
      BY <3>1, CountTypes DEF FilesInv, AllInv
    <3> QED
      BY <3>1, <3>2 DEF FilesInv, SettleInv, Settles
  <2>2. all_n - 1 \in All!Stored
    <3>1. \A m \in Int : m > 0 => m - 1 \in 0 .. m - 1
      OBVIOUS
    <3> QED
      BY <2>1, <3>1 DEF All!Stored
  <2>3. CASE Status(run) > 0
    BY <1>3, <2>2, <2>3 DEF RecordStatus
  <2>4. CASE ~(Status(run) > 0)
    <3>1. Status(run) \in Int /\ Status(run) >= -MaxRunFail - 1
      BY <2>1, Records DEF FilesInv, MainInv, Status
    <3>2. Status(run) <= -MaxRunFail
      <4>1. Outcome = 1 \/ Outcome <= -MaxRunFail
        BY <2>1 DEF FilesInv, SettleInv, Settles
      <4>2. Outcome = Status(run)
        BY <2>1 DEF Outcome
      <4> QED
        BY <2>4, <4>1, <4>2
    <3>3. -Status(run) \in 1 .. MaxRunFail + 1
      BY <3>1, <3>2, FailAssumption
    <3> QED
      BY <1>3, <2>2, <2>4, <3>3, CountsOfFiles DEF RecordStatus
  <2> QED
    BY <2>3, <2>4
<1>4. CASE Write
  <2>1. CASE OnMain \/ OnFailed
    BY <1>1, <2>1 DEF OnMain, OnFailed
  <2> QED
    BY <1>4, <2>1 DEF Write
<1>5. CASE Crash
  <2>1. CASE all_pc = "down"
    BY <1>5, <2>1 DEF Crash, All!vars, All!file
  <2>2. CASE all_pc # "down"
    <3>1. all_pc # "refused"
      BY <1>5 DEF Crash, RefusedInv
    <3> QED
      BY <1>5, <2>2, <3>1 DEF Crash, All!Crash, All!file, All!Writes
  <2> QED
    BY <2>1, <2>2
<1>6. CASE OpenAll
  BY <1>6 DEF OpenAll
<1>7. ASSUME NEW r \in Runs, Finish(r) \/ Fail(r)
      PROVE  UNCHANGED allVars
  BY <1>7 DEF Finish, Fail, OnMain
<1>8. CASE AddFailed \/ CountFailures \/ Abort \/ OpenMain \/ OpenFailed \/ UNCHANGED vars
  BY <1>1, <1>8 DEF AddFailed, CountFailures, Abort, OpenMain, OpenFailed, OnMain, OnFailed, vars
<1> QED
  BY <1>1, <1>2, <1>3, <1>4, <1>5, <1>6, <1>7, <1>8 DEF Next, Settle, Reopen

(* FilesAreStorage: RunManagerAbstract and the run managers use each of the three *)
(* files as RunStorage allows, and nothing else writes to them.                *)
THEOREM FilesAreStorage ==
  ASSUME StatusFits
  PROVE  Spec => [][Main!Next]_(Main!vars) /\ Failed!Spec /\ All!Spec
<1>1. Init => RefusedInv /\ Failed!Init /\ All!Init
  BY DEF Init, RefusedInv, Failed!Init, All!Init, Empty, Unwritten, NoCall, Failed!Ids, All!Ids,
       Main!NoRecord, Failed!NoRecord, All!NoRecord
<1>2. FilesInv /\ RefusedInv /\ [Next]_vars => RefusedInv'
  BY RefusedStep
<1>3. FilesInv /\ RefusedInv /\ [Next]_vars =>
        [Main!Next]_(Main!vars) /\ [Failed!Next]_(Failed!vars) /\ [All!Next]_(All!vars)
  BY MainSteps, FailedSteps, AllSteps
<1> QED
  BY <1>1, <1>2, <1>3, FilesAlways, PTL DEF Spec, Failed!Spec, All!Spec

-----------------------------------------------------------------------------
(***************************************************************************)
(* What RunStorageProofs says of such a file is therefore true of the        *)
(* storage and of the failed run file.  The storage does not begin as an     *)
(* empty file here but with the runs of the group.  (The all-runs file is     *)
(* not a file of whole updates, and AllRunsHaveResults says what is true of   *)
(* it.)                                                                      *)
(***************************************************************************)

MainFile == INSTANCE RunStorageProofs WITH
  n <- main_n, rec <- main_rec, flag <- main_flag, buf <- main_buf, pc <- main_pc,
  call <- main_call, Ops <- {"update", "fail"}, MaxRuns <- NRuns, Failing <- 0 .. MaxRunFail
FailedFile == INSTANCE RunStorageProofs WITH
  n <- failed_n, rec <- failed_rec, flag <- failed_flag, buf <- failed_buf, pc <- failed_pc,
  call <- failed_call, Ops <- {"add", "set_nfailed"}, MaxRuns <- 2 * NRuns,
  Failing <- 0 .. MaxRunFail

(* The storage and the failed run file are files of whole updates.           *)
LEMMA StorageFacts ==
  ASSUME StatusFits
  PROVE  /\ MainFile!ValuesAssumption /\ MainFile!MaxRunsAssumption /\ MainFile!FailingAssumption
         /\ FailedFile!ValuesAssumption /\ FailedFile!MaxRunsAssumption /\ FailedFile!FailingAssumption
         /\ MainFile!WholeUpdates /\ FailedFile!WholeUpdates
BY FailAssumption, ParAssumption, BytesAssumption
   DEF StatusFits, MainFile!ValuesAssumption, MainFile!MaxRunsAssumption, MainFile!FailingAssumption,
       FailedFile!ValuesAssumption, FailedFile!MaxRunsAssumption, FailedFile!FailingAssumption,
       MainFile!WholeUpdates, FailedFile!WholeUpdates

(* FailedFile is Failed, with its theorems.                                  *)
LEMMA FailedFileSpec == Failed!Spec => FailedFile!Spec
<1>1. Failed!Init => FailedFile!Init
  BY DEF Failed!Init, FailedFile!Init, Failed!Ids, FailedFile!Ids, Failed!NoRecord, FailedFile!NoRecord
<1>2. [Failed!Next]_(Failed!vars) => [FailedFile!Next]_(FailedFile!vars)
  BY DEF Failed!Next, Failed!vars, Failed!file, Failed!Stored, Failed!Begin, Failed!Writes, Failed!Reset,
      Failed!WriteHeader, Failed!AddRun, Failed!WriteRecord, Failed!WriteNewFlag, Failed!UpdateRun, Failed!UpdateObs,
      Failed!UpdateFailed, Failed!SetFailed, Failed!SetFlag, Failed!WriteStatus, Failed!WritePar, Failed!WriteObs,
      Failed!ClearFlag, Failed!Crash, Failed!Restart, Failed!JustAdded, Failed!FailureCounts, FailedFile!FailureCounts, Failed!Byte, Failed!Ids, Failed!NoRecord,
      FailedFile!Next, FailedFile!vars, FailedFile!file, FailedFile!Stored, FailedFile!Begin, FailedFile!Writes,
      FailedFile!Reset, FailedFile!WriteHeader, FailedFile!AddRun, FailedFile!WriteRecord, FailedFile!WriteNewFlag,
      FailedFile!UpdateRun, FailedFile!UpdateObs, FailedFile!UpdateFailed, FailedFile!SetFailed, FailedFile!SetFlag,
      FailedFile!WriteStatus, FailedFile!WritePar, FailedFile!WriteObs, FailedFile!ClearFlag, FailedFile!Crash,
      FailedFile!Restart, FailedFile!JustAdded, FailedFile!Byte, FailedFile!Ids, FailedFile!NoRecord
<1> QED
  BY <1>1, <1>2, PTL DEF Failed!Spec, FailedFile!Spec

(* FailedRunFileIsAtomic: the failed run file of a manager is a list of records *)
(* that no crash and no restart of the program leaves half written.            *)
THEOREM FailedRunFileIsAtomic ==
  ASSUME StatusFits
  PROVE  Spec => Failed!KeepsRecords
<1>1. FailedFile!Spec => FailedFile!KeepsRecords
  BY StorageFacts, FailedFile!UpdatesAreAtomic
<1>2. FailedFile!Records!Init => Failed!Records!Init
  BY DEF FailedFile!Records!Init, Failed!Records!Init, FailedFile!Contents, Failed!Contents,
     FailedFile!Complete, Failed!Complete
<1>3. [FailedFile!Records!Next]_(FailedFile!Records!vars) => [Failed!Records!Next]_(Failed!Records!vars)
  BY DEF FailedFile!Records!Next, Failed!Records!Next, FailedFile!Records!vars, Failed!Records!vars,
     FailedFile!Records!Reset, Failed!Records!Reset, FailedFile!Records!Add, Failed!Records!Add,
     FailedFile!Records!Finish, Failed!Records!Finish, FailedFile!Records!Fail, Failed!Records!Fail,
     FailedFile!Records!SetFailed, Failed!Records!SetFailed, FailedFile!Contents, Failed!Contents,
     FailedFile!Complete, Failed!Complete, FailedFile!Shown, Failed!Shown,
     FailedFile!Recovered, Failed!Recovered
<1>4. FailedFile!KeepsRecords => Failed!KeepsRecords
  BY <1>2, <1>3, PTL DEF FailedFile!KeepsRecords, Failed!KeepsRecords, FailedFile!Records!Spec, Failed!Records!Spec
<1> QED
  BY <1>1, <1>4, FilesAreStorage, FailedFileSpec, PTL

(* MainFile is Main, with its theorems.                                      *)
LEMMA MainFileNext == [Main!Next]_(Main!vars) => [MainFile!Next]_(MainFile!vars)
BY DEF Main!Next, MainFile!Next, Main!vars, MainFile!vars, Main!file, MainFile!file, Main!Stored,
       MainFile!Stored, Main!Begin, MainFile!Begin, Main!Writes, MainFile!Writes, Main!Reset,
       MainFile!Reset, Main!WriteHeader, MainFile!WriteHeader, Main!AddRun, MainFile!AddRun,
       Main!WriteRecord, MainFile!WriteRecord, Main!WriteNewFlag, MainFile!WriteNewFlag,
       Main!UpdateRun, MainFile!UpdateRun, Main!UpdateObs, MainFile!UpdateObs, Main!UpdateFailed,
       MainFile!UpdateFailed, Main!SetFailed, MainFile!SetFailed, Main!SetFlag, MainFile!SetFlag,
       Main!WriteStatus, MainFile!WriteStatus, Main!WritePar, MainFile!WritePar, Main!WriteObs,
       MainFile!WriteObs, Main!ClearFlag, MainFile!ClearFlag, Main!Crash, MainFile!Crash,
       Main!Restart, MainFile!Restart, Main!JustAdded, MainFile!JustAdded, Main!Byte, MainFile!Byte,
       Main!Ids, MainFile!Ids, Main!NoRecord, MainFile!NoRecord

(* The group is in the storage, and nothing is being written.                *)
LEMMA QueuedStorage == Init => MainFile!FileInv
<1> SUFFICES ASSUME Init PROVE MainFile!FileInv
  OBVIOUS
<1>1. NRuns \in Nat /\ main_rec = [r \in Runs |-> [st |-> 0, par |-> ParOf[r], obs |-> Blank]]
  BY ParAssumption DEF Init
<1>2. MainFile!TypeOK
  <2>1. main_rec \in [MainFile!Ids -> MainFile!Record]
    BY <1>1, ParValues DEF MainFile!Ids, MainFile!Record, MainFile!Bytes, Runs
  <2> QED
    BY <1>1, <2>1 DEF Init, MainFile!TypeOK, MainFile!Steps, MainFile!OpNames, MainFile!Bytes, Unwritten, NoCall
<1>3. MainFile!CallInFile /\ MainFile!AddInv /\ MainFile!UpdateInv
  BY DEF Init, MainFile!CallInFile, MainFile!AddInv, MainFile!UpdateInv, MainFile!Repairing
<1> QED
  BY <1>2, <1>3 DEF MainFile!FileInv

(* So the invariant of RunStorageProofs holds of the storage.                *)
LEMMA StorageInv ==
  ASSUME StatusFits
  PROVE  Spec => []MainFile!FileInv
<1>1. MainFile!FileInv /\ [MainFile!Next]_(MainFile!vars) => MainFile!FileInv'
  BY StorageFacts, MainFile!InvStep, MainFile!StepType, MainFile!CallStep DEF MainFile!FileInv
<1> QED
  BY <1>1, QueuedStorage, FilesAreStorage, MainFileNext, PTL DEF Spec

(* StorageIsAtomic: the storage of the group changes by whole results and       *)
(* failures, whatever write of it the program dies before and however often it  *)
(* is restarted.                                                               *)
THEOREM StorageIsAtomic ==
  ASSUME StatusFits
  PROVE  Spec => [][Main!Records!Next]_(Main!Records!vars)
<1>1. MainFile!FileInv /\ [MainFile!Next]_(MainFile!vars) => [MainFile!Records!Next]_(MainFile!Records!vars)
  BY StorageFacts, MainFile!ContentsStep
<1>2. [MainFile!Records!Next]_(MainFile!Records!vars) => [Main!Records!Next]_(Main!Records!vars)
  BY DEF Main!Records!Next, MainFile!Records!Next, Main!Records!vars, MainFile!Records!vars,
       Main!Records!Reset, MainFile!Records!Reset, Main!Records!Add, MainFile!Records!Add,
       Main!Records!Finish, MainFile!Records!Finish, Main!Records!Fail, MainFile!Records!Fail,
       Main!Records!SetFailed, MainFile!Records!SetFailed, Main!Contents, MainFile!Contents,
       Main!Complete, MainFile!Complete, Main!Shown, MainFile!Shown, Main!Recovered,
       MainFile!Recovered
<1> QED
  BY <1>1, <1>2, StorageInv, FilesAreStorage, MainFileNext, PTL

(* StorageKeepsResults: and a result in it is one of the run's own parameters.  *)
THEOREM StorageKeepsResults ==
  ASSUME StatusFits
  PROVE  Spec => []Main!ResultsMatchParameters
<1>1. Init => MainFile!ResultsInv
  <2>1. Init => main_n = NRuns /\ \A r \in Runs : main_rec[r].st = 0
    BY DEF Init
  <2>2. MainFile!Ids = Runs /\ \A z : z.st = 0 => MainFile!Matches(z)
    BY DEF MainFile!Ids, MainFile!Matches, Runs
  <2> QED
    BY <2>1, <2>2 DEF MainFile!ResultsInv, MainFile!Stored, Runs
<1>2. MainFile!FileInv /\ MainFile!ResultsInv /\ [MainFile!Next]_(MainFile!vars) => MainFile!ResultsInv'
  BY StorageFacts, MainFile!ResultsStep
<1>3. MainFile!FileInv /\ MainFile!ResultsInv => Main!ResultsMatchParameters
  BY DEF MainFile!FileInv, MainFile!AddInv, MainFile!ResultsInv, MainFile!Matches, MainFile!Stored,
         Main!ResultsMatchParameters, Main!Stored
<1> QED
  BY <1>1, <1>2, <1>3, StorageInv, FilesAreStorage, MainFileNext, PTL DEF Spec
-----------------------------------------------------------------------------
(***************************************************************************)
(* Crashes and the contract of a run manager.                               *)
(***************************************************************************)

(* What status z may be made of status s.                                    *)
Later(s, z) == (s > 0 => z > 0) /\ (s <= -MaxRunFail => z > 0 \/ z <= -MaxRunFail)

(* Then the outcome only moves forward, unless it becomes that of a cancelled run. *)
LEMMA LaterIsForward ==
  \A s, z \in Int : s > -100 /\ z > -100 /\ Later(s, z) => OutcomeOf(z) \in Contract!Forward(OutcomeOf(s))
<1>1. MaxRunFail \in Nat \ {0}
  BY FailAssumption
<1> QED
  BY <1>1 DEF Later, OutcomeOf, TooMany, Contract!Forward, Contract!Outcome

(* What a restart would find of run r, the status of Main!Recovered(r).       *)
Found(r) == IF main_flag = "set" /\ r = main_buf.id THEN 1 ELSE Status(r)

(* What is in the storage, as far as outcomes go.                            *)
LEMMA StorageFound ==
  ASSUME FilesInv, MainFile!FileInv
  PROVE  /\ \A r \in Runs : Status(r) \in Int /\ Status(r) >= -MaxRunFail - 1
         /\ main_rec \in [Runs -> FileRecord]
         /\ main_pc = "idle" => main_flag = "clear"
         /\ main_pc \in {"setflag", "status", "par", "obs", "clearflag"} =>
              main_call.id \in Runs /\ main_call.id = main_buf.id
         /\ main_pc \in {"status", "par", "obs", "clearflag"} => main_flag = "set"
         /\ main_pc = "clearflag" => Status(main_buf.id) = 1
<1>1. \A r \in Runs : Status(r) \in Int /\ Status(r) >= -MaxRunFail - 1
  BY Records DEF FilesInv, MainInv, Status
<1>2. main_pc \in {"setflag", "status", "par", "obs", "clearflag"} => main_call.id \in Runs
  BY DEF FilesInv, MainInv, Updating
<1>3. main_rec \in [Runs -> FileRecord]
  BY DEF FilesInv, TypeInv, MainType
<1> QED
  BY <1>1, <1>2, <1>3 DEF MainFile!FileInv, MainFile!CallInFile, MainFile!AddInv, MainFile!UpdateInv,
     MainFile!Repairing, Status

(* No step of the program makes less of a run than a restart would have found. *)
LEMMA FoundStep ==
  ASSUME StatusFits, FilesInv, MainFile!FileInv, [Next]_vars, NEW r \in Runs
  PROVE  Later(Found(r), Found(r)')
<1>0. MaxRunFail \in Nat \ {0} /\ Found(r) \in Int
  BY FailAssumption, StorageFound DEF Found
<1>1. ASSUME Found(r)' = Found(r)
      PROVE  Later(Found(r), Found(r)')
  BY <1>1 DEF Later
<1>2. ASSUME Found(r)' = 1
      PROVE  Later(Found(r), Found(r)')
  BY <1>2 DEF Later
<1>3. CASE UNCHANGED <<main_rec, main_flag, main_buf>>
  BY <1>1, <1>3 DEF Found, Status
<1>4. ASSUME NEW s \in Runs, Finish(s)
      PROVE  Later(Found(r), Found(r)')
  <2>1. main_flag = "clear" /\ main_flag' = "clear" /\ main_rec' = main_rec
    BY <1>4, StorageFound DEF Finish, Main!UpdateRun, Main!Begin
  <2> QED
    BY <1>1, <2>1 DEF Found, Status
<1>5. ASSUME NEW s \in Runs, Fail(s)
      PROVE  Later(Found(r), Found(r)')
  <2>1. /\ main_flag = "clear" /\ main_flag' = "clear" /\ Status(s) < 1 /\ -Status(s) \in 0 .. MaxRunFail
        /\ main_rec' = [main_rec EXCEPT ![s].st = Main!Byte(main_rec[s].st - 1)]
    BY <1>5, StorageFound DEF Fail, Main!UpdateFailed, Status
  <2>2. main_rec[s].st - 1 \in -128 .. 127 /\ Status(s) \in Int
    BY <1>0, <2>1, StorageFound DEF Status, StatusFits
  <2>3. main_rec' = [main_rec EXCEPT ![s].st = main_rec[s].st - 1]
    BY <2>1, <2>2, ByteSmall
  <2>4. main_rec[s] \in FileRecord
    BY StorageFound
  <2>5. Status(s)' = Status(s) - 1 /\ (r # s => Status(r)' = Status(r))
    BY <2>3, <2>4, StorageFound DEF Status, FileRecord
  <2>6. Found(r) = Status(r) /\ Found(r)' = Status(r)'
    BY <2>1 DEF Found
  <2>7. CASE r = s
    BY <1>0, <2>1, <2>2, <2>5, <2>6, <2>7 DEF Later
  <2>8. CASE r # s
    BY <1>1, <2>5, <2>6, <2>8
  <2> QED
    BY <2>7, <2>8
<1>6. CASE Main!SetFlag
  <2>1. main_flag' = "set" /\ main_rec' = main_rec /\ main_buf' = main_buf
    BY <1>6 DEF Main!SetFlag
  <2>2. CASE r = main_buf.id
    BY <1>2, <2>1, <2>2 DEF Found
  <2>3. CASE r # main_buf.id
    BY <1>1, <2>1, <2>3 DEF Found, Status
  <2> QED
    BY <2>2, <2>3
<1>7. CASE Main!WriteStatus \/ Main!WritePar \/ Main!WriteObs
  <2>1. /\ main_flag = "set" /\ main_flag' = "set" /\ main_buf' = main_buf /\ main_call.id = main_buf.id
        /\ main_call.id \in Runs
    BY <1>7, StorageFound DEF Main!WriteStatus, Main!WritePar, Main!WriteObs
  <2>2. r # main_buf.id => main_rec'[r] = main_rec[r]
    BY <1>7, <2>1, StorageFound DEF Main!WriteStatus, Main!WritePar, Main!WriteObs
  <2> QED
    BY <1>1, <2>1, <2>2 DEF Found, Status
<1>8. CASE Main!ClearFlag
  <2>1. /\ main_flag = "set" /\ main_flag' = "clear" /\ main_buf' = main_buf /\ main_rec' = main_rec
        /\ Status(main_buf.id) = 1
    BY <1>8, StorageFound DEF Main!ClearFlag
  <2> QED
    BY <1>1, <2>1 DEF Found, Status
<1>9. CASE UNCHANGED mainVars
  BY <1>3, <1>9 DEF mainVars
<1>10. CASE Write
  BY <1>6, <1>7, <1>8, <1>9, <1>10 DEF Write, OnFailed, OnAll
<1>11. CASE Crash \/ OpenMain
  BY <1>3, <1>11 DEF Crash, OpenMain, Main!Restart, Main!file
<1> QED
  BY <1>4, <1>5, <1>9, <1>10, <1>11 DEF Next, Settle, Reopen, AddFailed, CountFailures, AddToAll, RecordStatus, Abort,
     OpenFailed, OpenAll, OnFailed, OnAll, vars

(* OutcomesAreKept, for any number of runs, crashes and restarts: what becomes  *)
(* of a run through crashes is what RunManager promises without them.           *)
THEOREM CrashesKeepOutcomes ==
  ASSUME StatusFits
  PROVE  Spec => OutcomesAreKept
<1>1. FilesInv /\ MainFile!FileInv /\ FilesInv' /\ [Next]_vars => [Contract!Settle]_(Contract!vars)
  <2> SUFFICES ASSUME FilesInv, MainFile!FileInv, FilesInv', [Next]_vars
               PROVE  Contract!Settle
    OBVIOUS
  <2>1. \A r \in Runs : /\ Found(r) \in Int /\ Found(r)' \in Int
                       /\ Found(r) > -100 /\ Found(r)' > -100
    <3>1. main_rec \in [Runs -> FileRecord] /\ main_rec' \in [Runs -> FileRecord]
      BY DEF FilesInv, TypeInv, MainType
    <3>2. \A e \in FileRecord : e.st \in Int
      BY DEF FileRecord
    <3>3. \A r \in Runs : main_rec[r].st \in Int /\ main_rec'[r].st \in Int
      BY <3>1, <3>2
    <3>4. \A r \in Runs : main_rec[r].st >= -MaxRunFail - 1 /\ main_rec'[r].st >= -MaxRunFail - 1
      BY DEF FilesInv, MainInv
    <3>5. \A r \in Runs : main_rec[r].st > -100 /\ main_rec'[r].st > -100
      BY <3>3, <3>4, FailAssumption DEF StatusFits
    <3> QED
      BY <3>3, <3>5 DEF Found, Status
  <2>2. \A r \in Runs : OutcomeOf(Found(r)') \in Contract!Forward(OutcomeOf(Found(r)))
    BY <2>1, FoundStep, LaterIsForward
  <2>3. \A r \in Runs : Main!Recovered(r).st = Found(r) /\ (Main!Recovered(r).st)' = Found(r)'
    BY DEF Found, Main!Recovered, Status
  <2> QED
    BY <2>2, <2>3 DEF Contract!Settle
<1> QED
  BY <1>1, FilesAlways, StorageInv, PTL DEF OutcomesAreKept, Spec
=============================================================================
