---------------------------- MODULE ModelRunProofs ----------------------------
(***************************************************************************)
(* Proofs about model runs, for any number of template and instruction      *)
(* files, worker threads, commands and runs: a model only runs on complete  *)
(* inputs, leaves no process behind, a run is finished only when everything *)
(* was read as this run's model left it, and the serial run manager keeps   *)
(* the contract of all run managers.                                        *)
(***************************************************************************)
EXTENDS ModelRun, TLAPS

-----------------------------------------------------------------------------
(* The run thread and its workers.                                          *)

Pooling == thread \in {"look write", "join write", "look read", "join read"}
Count == IF Writing THEN NInputs ELSE NOutputs
Processed(i) == IF Writing THEN i \in inputs ELSE <<i, "fresh">> \in got

WorkerStates == [st : {"none", "take", "work", "ended"}, file : Nat]

PoolTypeOK ==
  /\ thread \in Threads
  /\ finished \in BOOLEAN /\ exception \in BOOLEAN /\ errors \in BOOLEAN
  /\ left \in Nat /\ joining \in Nat \ {0} /\ command \in Nat
  /\ worker \in [Workers -> WorkerStates] /\ raised \in [Workers -> BOOLEAN]
  /\ outputs \in [Outs -> {"absent", "stale", "fresh"}]
  /\ inputs \subseteq AllInputs

(* The first workers are forked, and the first worker always is. *)
ForkedFirst ==
  /\ worker[1].st # "none"
  /\ \A v, w \in Workers : v <= w /\ worker[w].st # "none" => worker[v].st # "none"

(* No file is lost between the workers: it is done, or still to be taken, or a    *)
(* worker is at it, unless some worker has raised an exception.                  *)
NoFileLost ==
  \A i \in 1 .. Count :
    \/ Processed(i) \/ i <= left
    \/ \E w \in Workers : raised[w] \/ (worker[w].st = "work" /\ worker[w].file = i)

WorkersEnd ==
  \A w \in Workers :
    /\ worker[w].st = "work" => worker[w].file \in 1 .. Count
    /\ worker[w].st = "ended" /\ ~raised[w] => left = 0
    /\ raised[w] => worker[w].st = "ended"

(* Looking before the join is not enough, looking after it is. *)
JoinedWorkers ==
  \A w \in Workers :
    w < joining => worker[w].st \in {"none", "ended"} /\ (raised[w] => errors)

JoiningIsForked ==
  thread \in {"join write", "join read"} =>
    joining \in Workers /\ worker[joining].st # "none"

PoolInv ==
  Pooling => /\ left <= Count /\ ForkedFirst /\ NoFileLost /\ WorkersEnd
             /\ JoinedWorkers /\ JoiningIsForked

NoWorkersOutside == ~Pooling => worker = NoWorkers

ModelOnlyInWait == model # "none" => thread = "wait"
InputsThere == thread \in {"start", "wait"} => inputs = AllInputs

(* From the removal on, an output file is one of this run. *)
OutputsOfThisRun ==
  thread \in Threads \ {"none", "remove", "throwing", "ended"} =>
    \A o \in Outs : outputs[o] # "stale"

Reading == thread \in {"look read", "join read"}
GotIsFresh == Reading => got \subseteq Outs \X {"fresh"}
CommandsDone == thread = "read" \/ Reading => command > NCommands

(* finished without an exception: the run is complete, or the exception comes. *)
FinishedRuns ==
  finished => \/ thread = "throwing" \/ exception
              \/ thread \in {"ended", "none"} /\ Complete

(* The inductive invariant of the run thread, its workers and the model. *)
ThreadInv ==
  /\ PoolTypeOK /\ PoolInv /\ NoWorkersOutside
  /\ ModelOnlyInWait /\ InputsThere
  /\ OutputsOfThisRun /\ GotIsFresh /\ CommandsDone /\ FinishedRuns

(* When every worker is joined and no exception was found, every file is done. *)
LEMMA PoolDone ==
  ASSUME PoolTypeOK, PoolInv, Pooling, AllJoined, ~errors
  PROVE  \A i \in 1 .. Count : Processed(i)
<1>0. 1 \in Workers
  BY ThreadsAssumption DEF Workers
<1>1. \A w \in Workers : worker[w].st # "none" => w < joining
  <2>1. SUFFICES ASSUME NEW w \in Workers, worker[w].st # "none", joining <= w
                 PROVE  FALSE
    BY ThreadsAssumption DEF PoolTypeOK, Workers
  <2>2. joining \in Workers
    BY <2>1, ThreadsAssumption DEF PoolTypeOK, Workers
  <2>3. worker[joining].st # "none"
    BY <2>1, <2>2 DEF PoolInv, ForkedFirst
  <2>4. QED
    BY <2>2, <2>3 DEF AllJoined, Forked
<1>2. \A w \in Workers : worker[w].st \in {"none", "ended"} /\ ~raised[w]
  BY <1>1 DEF PoolInv, JoinedWorkers, WorkersEnd
<1>3. left = 0
  BY <1>0, <1>2 DEF PoolInv, ForkedFirst, WorkersEnd
<1>4. \A i \in 1 .. Count : ~(i <= left)
  BY <1>3, ModelFilesAssumption DEF Count
<1>5. QED
  BY <1>2, <1>4 DEF PoolInv, NoFileLost

LEMMA PoolInvInit == RunInit => ThreadInv
<1> SUFFICES ASSUME RunInit PROVE ThreadInv
  OBVIOUS
<1>1. finished \in BOOLEAN /\ exception \in BOOLEAN /\ errors \in BOOLEAN /\ ~finished
  BY Zenon DEF RunInit
<1>2. PoolTypeOK
  BY <1>1, CommandsAssumption
  DEF RunInit, PoolTypeOK, Threads, NoWorkers, WorkerStates, AllInputs
<1>3. thread = "none" /\ model = "none" /\ worker = NoWorkers
  BY DEF RunInit
<1>4. QED
  BY <1>1, <1>2, <1>3
  DEF ThreadInv, PoolInv, Pooling, NoWorkersOutside, ModelOnlyInWait, InputsThere,
      OutputsOfThisRun, GotIsFresh, CommandsDone, FinishedRuns, Reading

(* Starting the workers: nothing is lost yet. *)
LEMMA ForkInv == ASSUME ThreadInv, Fork PROVE ThreadInv'
<1> USE DEF ThreadInv, Goes
<1>1. PICK n \in Nat : n # 0 /\ n = IF thread = "write" THEN NInputs ELSE NOutputs
  BY ModelFilesAssumption
<1>2. /\ left' = n /\ joining' = 1 /\ got' = {}
      /\ UNCHANGED <<terminate, finished, exception, inputs, outputs, model, command>>
  BY <1>1 DEF Fork, flags, files
<1>3. raised' = [w \in Workers |-> FALSE]
  BY DEF Fork
<1>4. \/ thread = "write" /\ thread' = "look write"
      \/ thread = "read" /\ thread' = "look read"
  BY DEF Fork
<1>5. worker' = [w \in Workers |-> [st |-> IF w <= n THEN "take" ELSE "none", file |-> 0]]
  BY <1>1 DEF Fork
<1>6. \A w \in Workers : worker'[w].st = IF w <= n THEN "take" ELSE "none"
  BY <1>5 DEF Workers
<1>7. errors' \in BOOLEAN
  BY Zenon DEF Fork
<1>8. Count' = n
  BY <1>1, <1>4 DEF Count, Writing
<1>9. PoolTypeOK'
  <2>1. raised' \in [Workers -> BOOLEAN] /\ worker' \in [Workers -> WorkerStates]
    BY <1>3, <1>5 DEF Workers, WorkerStates
  <2>2. finished' \in BOOLEAN /\ exception' \in BOOLEAN
    BY <1>2 DEF PoolTypeOK
  <2>3. thread' \in Threads
    BY <1>4 DEF Threads
  <2>4. left' \in Nat /\ joining' \in Nat \ {0}
    BY <1>1, <1>2
  <2>5. /\ command' \in Nat /\ outputs' \in [Outs -> {"absent", "stale", "fresh"}]
        /\ inputs' \subseteq AllInputs
    BY <1>2 DEF PoolTypeOK
  <2>6. QED
    BY <1>7, <2>1, <2>2, <2>3, <2>4, <2>5 DEF PoolTypeOK
<1>10. PoolInv'
  <2>1. left' <= Count'
    BY <1>1, <1>2, <1>8
  <2>2. ForkedFirst'
    BY <1>1, <1>6, ThreadsAssumption DEF ForkedFirst, Workers
  <2>3. NoFileLost'
    BY <1>2, <1>8 DEF NoFileLost
  <2>4. WorkersEnd' /\ JoinedWorkers'
    BY <1>2, <1>3, <1>6 DEF WorkersEnd, JoinedWorkers, Workers
  <2>5. JoiningIsForked'
    BY <1>4 DEF JoiningIsForked
  <2>6. QED
    BY <2>1, <2>2, <2>3, <2>4, <2>5 DEF PoolInv
<1>11. NoWorkersOutside'
  BY <1>4 DEF NoWorkersOutside, Pooling
<1>12. (ModelOnlyInWait /\ InputsThere /\ OutputsOfThisRun /\ GotIsFresh)'
  BY <1>2, <1>4
  DEF ModelOnlyInWait, InputsThere, OutputsOfThisRun, GotIsFresh, files, Threads, Reading
<1>13. CommandsDone'
  BY <1>2, <1>4 DEF CommandsDone, Reading
<1>14. FinishedRuns'
  BY <1>2, <1>4 DEF FinishedRuns
<1>15. QED
  BY <1>9, <1>10, <1>11, <1>12, <1>13, <1>14

(* What no step of a worker touches. *)
LEMMA WorkerFrame ==
  ASSUME NEW w \in Workers, ThreadInv, WorkerStep(w)
  PROVE  /\ UNCHANGED <<thread, flags, outputs, model, command, joining, errors>>
         /\ Pooling /\ worker[w].st \in {"take", "work"}
<1>1. UNCHANGED <<thread, flags, outputs, model, command, joining, errors>>
  BY DEF WorkerStep, Take, WriteInput, ReadOutput, Raise, files
<1>2. worker[w].st \in {"take", "work"}
  BY DEF WorkerStep, Take, WriteInput, ReadOutput, Raise
<1>3. Pooling
  BY <1>2 DEF ThreadInv, NoWorkersOutside, NoWorkers
<1>4. QED
  BY <1>1, <1>2, <1>3

(* A worker that takes a file, finishes one or gives up loses none. *)
LEMMA WorkerPoolInv ==
  ASSUME NEW w \in Workers, ThreadInv, WorkerStep(w)
  PROVE  PoolTypeOK' /\ PoolInv' /\ GotIsFresh'
<1> USE DEF ThreadInv
<1>1. /\ UNCHANGED <<thread, flags, outputs, model, command, joining, errors>>
      /\ Pooling /\ worker[w].st \in {"take", "work"}
  BY WorkerFrame
<1>2. Count' = Count /\ Pooling' /\ Writing' = Writing /\ Count \in Nat
  BY <1>1, ModelFilesAssumption DEF Count, Writing, Pooling
<1>3. w >= joining
  BY <1>1 DEF PoolInv, JoinedWorkers, PoolTypeOK, Workers
<1>4. CASE Take(w)
  <2>1. left' = (IF left = 0 THEN 0 ELSE left - 1) /\ UNCHANGED <<inputs, got, raised>>
    BY <1>4 DEF Take, files
  <2>2. worker' = [worker EXCEPT ![w] = IF left = 0 THEN [st |-> "ended", file |-> 0]
                                        ELSE [st |-> "work", file |-> left]]
    BY <1>4 DEF Take
  <2>3. PoolTypeOK'
    BY <1>1, <2>1, <2>2 DEF PoolTypeOK, WorkerStates, flags
  <2>4. left' <= Count'
    BY <1>1, <1>2, <2>1 DEF PoolInv, PoolTypeOK
  <2>5. ForkedFirst'
    BY <1>1, <2>2, ThreadsAssumption DEF PoolInv, ForkedFirst, PoolTypeOK, WorkerStates, Workers
  <2>6. NoFileLost'
    <3>1. SUFFICES ASSUME NEW i \in 1 .. Count, ~(i <= left'), ~Processed(i)',
                          \A v \in Workers : ~raised[v]
                   PROVE  \E v \in Workers : worker'[v].st = "work" /\ worker'[v].file = i
      BY <1>2, <2>1 DEF NoFileLost
    <3>2. ~Processed(i)
      BY <3>1, <1>2, <2>1 DEF Processed
    <3>3. CASE i <= left
      <4>1. i = left /\ left # 0
        BY <3>1, <3>3, <2>1, ModelFilesAssumption DEF PoolTypeOK, Count
      <4>2. worker'[w].st = "work" /\ worker'[w].file = i
        BY <4>1, <2>2 DEF PoolTypeOK
      <4>3. QED
        BY <4>2
    <3>4. CASE ~(i <= left)
      <4>1. PICK v \in Workers : worker[v].st = "work" /\ worker[v].file = i
        BY <3>1, <3>2, <3>4, <1>1 DEF PoolInv, NoFileLost
      <4>2. worker[w].st = "take"
        BY <1>4 DEF Take
      <4>3. worker'[v] = worker[v]
        BY <4>1, <4>2, <2>2 DEF PoolTypeOK
      <4>4. QED
        BY <4>1, <4>3
    <3>5. QED
      BY <3>3, <3>4
  <2>7. WorkersEnd'
    <3>1. SUFFICES ASSUME NEW v \in Workers
                   PROVE  /\ worker'[v].st = "work" => worker'[v].file \in 1 .. Count
                          /\ worker'[v].st = "ended" /\ ~raised[v] => left' = 0
                          /\ raised[v] => worker'[v].st = "ended"
      BY <1>2, <2>1 DEF WorkersEnd
    <3>2. CASE v = w
      <4>1. ~raised[w]
        BY <1>4, <1>1 DEF Take, PoolInv, WorkersEnd
      <4>2. left \in 1 .. Count \/ left = 0
        BY <1>1, ModelFilesAssumption DEF PoolInv, PoolTypeOK, Count
      <4>3. worker'[w] = IF left = 0 THEN [st |-> "ended", file |-> 0]
                         ELSE [st |-> "work", file |-> left]
        BY <2>2 DEF PoolTypeOK
      <4>4. QED
        BY <3>2, <4>1, <4>2, <4>3, <2>1
    <3>3. CASE v # w
      <4>1. worker'[v] = worker[v]
        BY <3>3, <2>2 DEF PoolTypeOK
      <4>2. QED
        BY <4>1, <1>1, <2>1 DEF PoolInv, WorkersEnd
    <3>4. QED
      BY <3>2, <3>3
  <2>8. JoinedWorkers'
    BY <1>1, <1>3, <2>1, <2>2 DEF PoolInv, JoinedWorkers, PoolTypeOK, Workers
  <2>9. JoiningIsForked'
    BY <1>1, <2>2 DEF PoolInv, JoiningIsForked, PoolTypeOK, WorkerStates
  <2>10. GotIsFresh'
    BY <1>1, <2>1 DEF GotIsFresh, Reading
  <2>11. QED
    BY <2>3, <2>4, <2>5, <2>6, <2>7, <2>8, <2>9, <2>10 DEF PoolInv
<1>5. CASE WriteInput(w) \/ ReadOutput(w)
  <2>1. worker' = [worker EXCEPT ![w].st = "take"] /\ worker[w].st = "work"
    BY <1>5 DEF WriteInput, ReadOutput, Finishes
  <2>2. UNCHANGED <<left, raised>>
    BY <1>5 DEF WriteInput, ReadOutput
  <2>3. worker[w].file \in 1 .. Count
    BY <1>1, <2>1 DEF PoolInv, WorkersEnd
  <2>4. /\ inputs \subseteq inputs' /\ got \subseteq got'
        /\ Writing => inputs' = inputs \cup {worker[w].file} /\ got' = got
        /\ ~Writing => /\ got' = got \cup {<<worker[w].file, outputs[worker[w].file]>>}
                       /\ outputs[worker[w].file] # "absent" /\ inputs' = inputs
    BY <1>5 DEF WriteInput, ReadOutput, files
  <2>5. ~Writing => outputs[worker[w].file] = "fresh"
    <3>1. SUFFICES ASSUME ~Writing PROVE outputs[worker[w].file] = "fresh"
      OBVIOUS
    <3>2. worker[w].file \in Outs
      BY <3>1, <2>3 DEF Count, Outs
    <3>3. thread \in Threads \ {"none", "remove", "throwing", "ended"}
      BY <1>1 DEF Pooling, Threads
    <3>4. QED
      BY <3>1, <3>2, <3>3, <2>4 DEF OutputsOfThisRun, PoolTypeOK
  <2>6. PoolTypeOK'
    <3>1. inputs' \subseteq AllInputs
      BY <2>3, <2>4 DEF PoolTypeOK, Count, AllInputs
    <3>2. QED
      BY <1>1, <2>1, <2>2, <3>1 DEF PoolTypeOK, WorkerStates, flags
  <2>7. left' <= Count'
    BY <1>1, <1>2, <2>2 DEF PoolInv
  <2>8. ForkedFirst'
    BY <1>1, <2>1, ThreadsAssumption DEF PoolInv, ForkedFirst, PoolTypeOK, WorkerStates, Workers
  <2>9. NoFileLost'
    <3>1. SUFFICES ASSUME NEW i \in 1 .. Count, ~(i <= left), ~Processed(i)',
                          \A v \in Workers : ~raised[v]
                   PROVE  \E v \in Workers : worker'[v].st = "work" /\ worker'[v].file = i
      BY <1>2, <2>2 DEF NoFileLost
    <3>2. ~Processed(i) /\ i # worker[w].file
      BY <3>1, <1>2, <2>4, <2>5 DEF Processed
    <3>3. PICK v \in Workers : worker[v].st = "work" /\ worker[v].file = i
      BY <3>1, <3>2, <1>1 DEF PoolInv, NoFileLost
    <3>4. worker'[v] = worker[v]
      BY <3>2, <3>3, <2>1 DEF PoolTypeOK
    <3>5. QED
      BY <3>3, <3>4
  <2>10. WorkersEnd'
    BY <1>1, <1>2, <2>1, <2>2 DEF PoolInv, WorkersEnd, PoolTypeOK, WorkerStates
  <2>11. JoinedWorkers'
    BY <1>1, <1>3, <2>1, <2>2 DEF PoolInv, JoinedWorkers, PoolTypeOK, WorkerStates, Workers
  <2>12. JoiningIsForked'
    BY <1>1, <2>1 DEF PoolInv, JoiningIsForked, PoolTypeOK, WorkerStates
  <2>13. GotIsFresh'
    <3>1. SUFFICES ASSUME Reading PROVE got' \subseteq Outs \X {"fresh"}
      BY <1>1 DEF GotIsFresh, Reading
    <3>2. ~Writing
      BY <3>1 DEF Reading, Writing
    <3>3. worker[w].file \in Outs
      BY <2>3, <3>2 DEF Count, Outs
    <3>4. got' = got \cup {<<worker[w].file, "fresh">>}
      BY <2>4, <2>5, <3>2
    <3>5. QED
      BY <3>1, <3>3, <3>4 DEF GotIsFresh
  <2>14. QED
    BY <2>6, <2>7, <2>8, <2>9, <2>10, <2>11, <2>12, <2>13, <1>2 DEF PoolInv
<1>6. CASE Raise(w)
  <2>1. /\ worker' = [worker EXCEPT ![w].st = "ended"]
        /\ raised' = [raised EXCEPT ![w] = TRUE]
        /\ UNCHANGED <<left, inputs, got>>
    BY <1>6 DEF Raise, files
  <2>2. PoolTypeOK'
    BY <1>1, <2>1 DEF PoolTypeOK, WorkerStates, flags
  <2>3. left' <= Count' /\ raised'[w]
    BY <1>1, <1>2, <2>1 DEF PoolInv, PoolTypeOK
  <2>4. ForkedFirst'
    BY <1>1, <2>1, ThreadsAssumption DEF PoolInv, ForkedFirst, PoolTypeOK, WorkerStates, Workers
  <2>5. NoFileLost'
    BY <2>3 DEF NoFileLost
  <2>6. WorkersEnd'
    BY <1>1, <1>2, <2>1 DEF PoolInv, WorkersEnd, PoolTypeOK, WorkerStates
  <2>7. JoinedWorkers'
    BY <1>1, <1>3, <2>1 DEF PoolInv, JoinedWorkers, PoolTypeOK, WorkerStates, Workers
  <2>8. JoiningIsForked'
    BY <1>1, <2>1 DEF PoolInv, JoiningIsForked, PoolTypeOK, WorkerStates
  <2>9. GotIsFresh'
    BY <1>1, <2>1 DEF GotIsFresh, Reading
  <2>10. QED
    BY <2>2, <2>3, <2>4, <2>5, <2>6, <2>7, <2>8, <2>9 DEF PoolInv
<1>7. QED
  BY <1>4, <1>5, <1>6 DEF WorkerStep

LEMMA WorkerInv ==
  ASSUME NEW w \in Workers, ThreadInv, WorkerStep(w)
  PROVE  ThreadInv'
<1> USE DEF ThreadInv
<1>1. /\ UNCHANGED <<thread, flags, outputs, model, command, joining, errors>>
      /\ Pooling
  BY WorkerFrame
<1>2. PoolTypeOK' /\ PoolInv' /\ GotIsFresh'
  BY WorkerPoolInv
<1>3. (NoWorkersOutside /\ ModelOnlyInWait /\ InputsThere /\ OutputsOfThisRun /\ CommandsDone)'
  BY <1>1
  DEF NoWorkersOutside, Pooling, ModelOnlyInWait, InputsThere, OutputsOfThisRun, CommandsDone,
      Reading
<1>4. FinishedRuns'
  BY <1>1 DEF FinishedRuns, flags, Pooling
<1>5. QED
  BY <1>2, <1>3, <1>4

(* The run thread looks at a worker, and then joins it. *)
LEMMA LookInv == ASSUME ThreadInv, Look PROVE ThreadInv'
<1> USE DEF ThreadInv
<1>1. /\ UNCHANGED <<terminate, finished, exception, inputs, outputs, model, command, left,
                     worker, raised, got>>
      /\ errors' = (errors \/ raised[joining])
  BY DEF Look, flags, files
<1>2. \/ thread = "look write" /\ thread' = "join write"
      \/ thread = "look read" /\ thread' = "join read"
  BY DEF Look, Goes, Writing
<1>3. Pooling /\ Pooling' /\ Count' = Count /\ (Writing' <=> Writing) /\ (Reading' <=> Reading)
  <2>1. Pooling /\ Pooling'
    BY <1>2 DEF Pooling
  <2>2. (Writing' <=> Writing) /\ (Reading' <=> Reading)
    BY <1>2 DEF Writing, Reading
  <2>3. QED
    BY <2>1, <2>2 DEF Count
<1>4. joining \in Workers /\ worker[joining].st # "none" /\ joining' = joining
  BY DEF Look, Forked
<1>5. joining' \in Nat \ {0}
  BY <1>4 DEF PoolTypeOK
<1>6. PoolTypeOK'
  <2>1. errors' \in BOOLEAN
    BY <1>1, <1>4 DEF PoolTypeOK
  <2>2. finished' \in BOOLEAN /\ exception' \in BOOLEAN
    BY <1>1 DEF PoolTypeOK
  <2>3. thread' \in Threads
    BY <1>2 DEF Threads
  <2>4. QED
    BY <1>1, <1>5, <2>1, <2>2, <2>3 DEF PoolTypeOK
<1>7. PoolInv'
  <2>1. left' <= Count' /\ ForkedFirst' /\ WorkersEnd'
    BY <1>1, <1>3 DEF PoolInv, ForkedFirst, WorkersEnd
  <2>2. NoFileLost'
    BY <1>1, <1>3 DEF PoolInv, NoFileLost, Processed
  <2>3. JoinedWorkers'
    BY <1>1, <1>3, <1>4 DEF PoolInv, JoinedWorkers
  <2>4. JoiningIsForked'
    BY <1>1, <1>4 DEF JoiningIsForked
  <2>5. QED
    BY <2>1, <2>2, <2>3, <2>4 DEF PoolInv
<1>8. (NoWorkersOutside /\ ModelOnlyInWait /\ InputsThere /\ OutputsOfThisRun /\ GotIsFresh)'
  <2>1. thread' \notin {"start", "wait"} /\ model = "none"
    BY <1>2 DEF ModelOnlyInWait
  <2>2. thread \in Threads \ {"none", "remove", "throwing", "ended"}
    BY <1>2 DEF Threads
  <2>3. QED
    BY <1>1, <1>3, <2>1, <2>2
    DEF NoWorkersOutside, ModelOnlyInWait, InputsThere, OutputsOfThisRun, GotIsFresh
<1>9. (CommandsDone /\ FinishedRuns)'
  BY <1>1, <1>2 DEF CommandsDone, FinishedRuns, Reading
<1>10. QED
  BY <1>6, <1>7, <1>8, <1>9

LEMMA JoinInv == ASSUME ThreadInv, Join PROVE ThreadInv'
<1> USE DEF ThreadInv
<1>1. /\ UNCHANGED <<terminate, finished, exception, inputs, outputs, model, command, left,
                     worker, raised, got>>
      /\ errors' = (errors \/ raised[joining])
  BY DEF Join, flags, files
<1>2. \/ thread = "join write" /\ thread' = "look write"
      \/ thread = "join read" /\ thread' = "look read"
  BY DEF Join, Goes, Writing
<1>3. Pooling /\ Pooling' /\ Count' = Count /\ (Writing' <=> Writing) /\ (Reading' <=> Reading)
  <2>1. Pooling /\ Pooling'
    BY <1>2 DEF Pooling
  <2>2. (Writing' <=> Writing) /\ (Reading' <=> Reading)
    BY <1>2 DEF Writing, Reading
  <2>3. QED
    BY <2>1, <2>2 DEF Count
<1>4. joining \in Workers /\ worker[joining].st = "ended" /\ joining' = joining + 1
  BY <1>2, <1>3 DEF Join, PoolInv, JoiningIsForked
<1>5. joining' \in Nat \ {0}
  BY <1>4 DEF PoolTypeOK
<1>6. PoolTypeOK'
  <2>1. errors' \in BOOLEAN
    BY <1>1, <1>4 DEF PoolTypeOK
  <2>2. finished' \in BOOLEAN /\ exception' \in BOOLEAN
    BY <1>1 DEF PoolTypeOK
  <2>3. thread' \in Threads
    BY <1>2 DEF Threads
  <2>4. QED
    BY <1>1, <1>5, <2>1, <2>2, <2>3 DEF PoolTypeOK
<1>7. PoolInv'
  <2>1. left' <= Count' /\ ForkedFirst' /\ WorkersEnd'
    BY <1>1, <1>3 DEF PoolInv, ForkedFirst, WorkersEnd
  <2>2. NoFileLost'
    BY <1>1, <1>3 DEF PoolInv, NoFileLost, Processed
  <2>3. JoinedWorkers'
    <3>1. SUFFICES ASSUME NEW w \in Workers, w < joining'
                   PROVE  worker[w].st \in {"none", "ended"} /\ (raised[w] => errors')
      BY <1>1 DEF JoinedWorkers
    <3>2. w < joining \/ w = joining
      BY <3>1, <1>4 DEF Workers
    <3>3. CASE w < joining
      BY <3>3, <1>1, <1>3 DEF PoolInv, JoinedWorkers
    <3>4. CASE w = joining
      BY <3>4, <1>1, <1>4
    <3>5. QED
      BY <3>2, <3>3, <3>4
  <2>4. JoiningIsForked'
    BY <1>2 DEF JoiningIsForked
  <2>5. QED
    BY <2>1, <2>2, <2>3, <2>4 DEF PoolInv
<1>8. (NoWorkersOutside /\ ModelOnlyInWait /\ InputsThere /\ OutputsOfThisRun /\ GotIsFresh)'
  <2>1. thread' \notin {"start", "wait"} /\ model = "none"
    BY <1>2 DEF ModelOnlyInWait
  <2>2. thread \in Threads \ {"none", "remove", "throwing", "ended"}
    BY <1>2 DEF Threads
  <2>3. QED
    BY <1>1, <1>3, <2>1, <2>2
    DEF NoWorkersOutside, ModelOnlyInWait, InputsThere, OutputsOfThisRun, GotIsFresh
<1>9. (CommandsDone /\ FinishedRuns)'
  BY <1>1, <1>2 DEF CommandsDone, FinishedRuns, Reading
<1>10. QED
  BY <1>6, <1>7, <1>8, <1>9

LEMMA InputsWrittenInv == ASSUME ThreadInv, InputsWritten PROVE ThreadInv'
<1> USE DEF ThreadInv
<1>1. /\ thread = "look write" /\ AllJoined /\ worker' = NoWorkers
      /\ UNCHANGED <<terminate, finished, exception, inputs, outputs, model, command, left,
                     raised, joining, errors, got>>
  BY DEF InputsWritten, RestDone, files, flags
<1>2. \/ errors /\ thread' = "throwing"
      \/ ~errors /\ thread' = "start"
  BY DEF InputsWritten, Throw, Goes
<1>3. thread' = "start" => inputs = AllInputs
  <2>1. SUFFICES ASSUME thread' = "start" PROVE inputs = AllInputs
    OBVIOUS
  <2>2. \A i \in 1 .. Count : Processed(i)
    BY <1>1, <1>2, <2>1, PoolDone DEF Pooling
  <2>3. QED
    BY <1>1, <2>2 DEF Count, Processed, Writing, AllInputs, PoolTypeOK
<1>4. PoolTypeOK'
  <2>1. NoWorkers \in [Workers -> WorkerStates]
    BY DEF NoWorkers, WorkerStates
  <2>2. finished' \in BOOLEAN /\ exception' \in BOOLEAN /\ errors' \in BOOLEAN
    BY <1>1 DEF PoolTypeOK
  <2>3. QED
    BY <1>1, <1>2, <2>1, <2>2 DEF PoolTypeOK, Threads
<1>5. (PoolInv /\ NoWorkersOutside)'
  BY <1>1, <1>2 DEF PoolInv, NoWorkersOutside, Pooling
<1>6. (ModelOnlyInWait /\ InputsThere /\ OutputsOfThisRun)'
  BY <1>1, <1>2, <1>3 DEF ModelOnlyInWait, InputsThere, OutputsOfThisRun, Threads
<1>7. (GotIsFresh /\ CommandsDone /\ FinishedRuns)'
  BY <1>1, <1>2 DEF GotIsFresh, CommandsDone, FinishedRuns, Reading
<1>8. QED
  BY <1>4, <1>5, <1>6, <1>7

LEMMA OutputsReadInv == ASSUME ThreadInv, OutputsRead PROVE ThreadInv'
<1> USE DEF ThreadInv
<1>1. /\ thread = "look read" /\ AllJoined /\ worker' = NoWorkers
      /\ UNCHANGED <<terminate, exception, inputs, outputs, model, command, left,
                     raised, joining, errors, got>>
  BY DEF OutputsRead, RestDone, files
<1>2. \/ thread' = "throwing" /\ finished' = finished
      \/ thread' = "ended" /\ finished' = TRUE /\ ~errors
  BY DEF OutputsRead, Throw, Goes
<1>3. ~errors => Complete
  <2>1. SUFFICES ASSUME ~errors PROVE Complete
    OBVIOUS
  <2>2. \A i \in 1 .. Count : Processed(i)
    BY <1>1, <2>1, PoolDone DEF Pooling
  <2>3. \A o \in Outs : <<o, "fresh">> \in got
    BY <1>1, <2>2 DEF Count, Processed, Writing, Outs
  <2>4. got \subseteq Outs \X {"fresh"} /\ command > NCommands
    BY <1>1 DEF GotIsFresh, CommandsDone, Reading
  <2>5. QED
    BY <2>3, <2>4 DEF Complete
<1>4. PoolTypeOK'
  <2>1. NoWorkers \in [Workers -> WorkerStates]
    BY DEF NoWorkers, WorkerStates
  <2>2. finished' \in BOOLEAN
    BY <1>2, Zenon DEF PoolTypeOK
  <2>3. exception' \in BOOLEAN /\ errors' \in BOOLEAN
    BY <1>1 DEF PoolTypeOK
  <2>4. thread' \in Threads
    BY <1>2 DEF Threads
  <2>5. QED
    BY <1>1, <2>1, <2>2, <2>3, <2>4 DEF PoolTypeOK
<1>5. thread' \in {"throwing", "ended"}
  BY <1>2
<1>6. (PoolInv /\ NoWorkersOutside)'
  BY <1>1, <1>5 DEF PoolInv, NoWorkersOutside, Pooling
<1>7. (ModelOnlyInWait /\ InputsThere /\ OutputsOfThisRun /\ GotIsFresh /\ CommandsDone)'
  BY <1>1, <1>5
  DEF ModelOnlyInWait, InputsThere, OutputsOfThisRun, GotIsFresh, CommandsDone, Reading
<1>8. FinishedRuns'
  BY <1>1, <1>2, <1>3 DEF FinishedRuns, Complete
<1>9. QED
  BY <1>4, <1>6, <1>7, <1>8

(* Steps outside the two pools leave the workers alone. *)
LEMMA CommandsInv ==
  ASSUME ThreadInv,
         RemoveExisting \/ StartCommand \/ CommandDone \/ CommandFailed \/ Kill \/ Catch
  PROVE  ThreadInv'
<1> USE DEF ThreadInv
<1>1. UNCHANGED <<left, worker, raised, joining, errors, got>> /\ ~Pooling
  BY DEF RemoveExisting, StartCommand, CommandDone, CommandFailed, Kill, Catch, pool, Pooling
<1>2. ~Pooling'
  BY DEF RemoveExisting, StartCommand, CommandDone, CommandFailed, Kill, Catch, Throw, Goes,
         Pooling
<1>3. PoolInv' /\ NoWorkersOutside' /\ GotIsFresh'
  BY <1>1, <1>2 DEF PoolInv, NoWorkersOutside, GotIsFresh, Pooling, Reading
<1>4. CASE RemoveExisting
  <2>1. /\ thread' \in {"write", "throwing"} /\ thread = "remove"
        /\ UNCHANGED <<finished, exception, model, command>>
    BY <1>4 DEF RemoveExisting, Throw, Goes, flags
  <2>2. inputs' \subseteq AllInputs
    BY <1>4 DEF RemoveExisting, PoolTypeOK
  <2>3. /\ outputs' \in [Outs -> {"absent", "stale", "fresh"}]
        /\ thread' = "write" => \A o \in Outs : outputs'[o] # "stale"
    <3>1. CASE outputs' = [o \in Outs |-> "absent"]
      BY <3>1
    <3>2. CASE Throw /\ \E gone \in SUBSET Outs :
                 outputs' = [o \in Outs |-> IF o \in gone THEN "absent" ELSE outputs[o]]
      BY <3>2 DEF Throw, Goes, PoolTypeOK
    <3>3. QED
      BY <1>4, <3>1, <3>2 DEF RemoveExisting
  <2>4. finished' \in BOOLEAN /\ exception' \in BOOLEAN /\ errors' \in BOOLEAN
    BY <1>1, <2>1 DEF PoolTypeOK
  <2>5. thread' \in Threads
    BY <2>1 DEF Threads
  <2>6. PoolTypeOK'
    BY <1>1, <2>1, <2>2, <2>3, <2>4, <2>5 DEF PoolTypeOK
  <2>7. ModelOnlyInWait' /\ InputsThere' /\ CommandsDone'
    BY <2>1 DEF ModelOnlyInWait, InputsThere, CommandsDone, Reading
  <2>8. OutputsOfThisRun'
    BY <2>1, <2>3 DEF OutputsOfThisRun
  <2>9. FinishedRuns'
    BY <2>1 DEF FinishedRuns
  <2>10. QED
    BY <1>3, <2>6, <2>7, <2>8, <2>9
<1>5. CASE StartCommand
  <2>1. /\ thread = "start" /\ UNCHANGED <<finished, exception, inputs, outputs, command>>
        /\ \/ thread' = "read" /\ command > NCommands /\ model' = model
           \/ thread' = "wait" /\ model' = "running"
    BY <1>5 DEF StartCommand, Goes, flags, files
  <2>2. PoolTypeOK'
    BY <1>1, <2>1 DEF PoolTypeOK, Threads
  <2>3. ModelOnlyInWait' /\ InputsThere' /\ OutputsOfThisRun'
    BY <2>1 DEF ModelOnlyInWait, InputsThere, OutputsOfThisRun, Threads
  <2>4. CommandsDone' /\ FinishedRuns'
    BY <2>1 DEF CommandsDone, FinishedRuns, Reading
  <2>5. QED
    BY <1>3, <2>2, <2>3, <2>4
<1>6. CASE CommandDone
  <2>1. /\ thread = "wait" /\ thread' = "start" /\ model' = "none" /\ command' = command + 1
        /\ UNCHANGED <<finished, exception, inputs, outputs>>
    BY <1>6 DEF CommandDone, Goes, flags, files
  <2>2. PoolTypeOK'
    BY <1>1, <2>1 DEF PoolTypeOK, Threads
  <2>3. ModelOnlyInWait' /\ InputsThere' /\ OutputsOfThisRun'
    BY <2>1 DEF ModelOnlyInWait, InputsThere, OutputsOfThisRun, Threads
  <2>4. CommandsDone' /\ FinishedRuns'
    BY <2>1 DEF CommandsDone, FinishedRuns, Reading
  <2>5. QED
    BY <1>3, <2>2, <2>3, <2>4
<1>7. CASE CommandFailed
  <2>1. /\ thread = "wait" /\ thread' = "throwing" /\ model' = "none"
        /\ UNCHANGED <<exception, inputs, outputs, command>>
    BY <1>7 DEF CommandFailed, Throw, Goes, files
  <2>2. finished' \in BOOLEAN
    BY <1>7, Zenon DEF CommandFailed
  <2>3. PoolTypeOK'
    BY <1>1, <2>1, <2>2 DEF PoolTypeOK, Threads
  <2>4. ModelOnlyInWait' /\ InputsThere' /\ OutputsOfThisRun'
    BY <2>1 DEF ModelOnlyInWait, InputsThere, OutputsOfThisRun
  <2>5. CommandsDone' /\ FinishedRuns'
    BY <2>1 DEF CommandsDone, FinishedRuns, Reading
  <2>6. QED
    BY <1>3, <2>3, <2>4, <2>5
<1>8. CASE Kill
  <2>1. /\ thread = "wait" /\ thread' = "ended" /\ model' = "none"
        /\ UNCHANGED <<finished, exception, inputs, outputs, command>>
    BY <1>8 DEF Kill, Goes, flags, files
  <2>2. PoolTypeOK'
    BY <1>1, <2>1 DEF PoolTypeOK, Threads
  <2>3. ModelOnlyInWait' /\ InputsThere' /\ OutputsOfThisRun'
    BY <2>1 DEF ModelOnlyInWait, InputsThere, OutputsOfThisRun
  <2>4. CommandsDone' /\ FinishedRuns'
    BY <2>1 DEF CommandsDone, FinishedRuns, Reading
  <2>5. QED
    BY <1>3, <2>2, <2>3, <2>4
<1>9. CASE Catch
  <2>1. /\ thread = "throwing" /\ thread' = "ended"
        /\ UNCHANGED <<finished, inputs, outputs, model, command>>
    BY <1>9 DEF Catch, Goes, files
  <2>2. exception' \in BOOLEAN /\ exception'
    BY <1>9, Zenon DEF Catch
  <2>3. PoolTypeOK'
    BY <1>1, <2>1, <2>2 DEF PoolTypeOK, Threads
  <2>4. ModelOnlyInWait' /\ InputsThere' /\ OutputsOfThisRun'
    BY <2>1 DEF ModelOnlyInWait, InputsThere, OutputsOfThisRun
  <2>5. CommandsDone' /\ FinishedRuns'
    BY <2>1, <2>2 DEF CommandsDone, FinishedRuns, Reading
  <2>6. QED
    BY <1>3, <2>3, <2>4, <2>5
<1>10. QED
  BY <1>4, <1>5, <1>6, <1>7, <1>8, <1>9

(* The model only writes while the run thread waits for it. *)
LEMMA ModelInv ==
  ASSUME ThreadInv, ModelEnds \/ \E o \in Outs : ModelWrites(o)
  PROVE  ThreadInv'
<1> USE DEF ThreadInv
<1>1. /\ thread = "wait" /\ model' \in {"running", "ok", "bad"}
      /\ UNCHANGED <<thread, finished, exception, inputs, command, left, worker, raised,
                     joining, errors, got>>
  BY DEF ModelEnds, ModelWrites, flags, files, pool, ModelOnlyInWait
<1>2. /\ outputs' \in [Outs -> {"absent", "stale", "fresh"}]
      /\ \A o \in Outs : outputs'[o] # "stale"
  <2>1. \A o \in Outs : outputs[o] # "stale"
    BY <1>1 DEF OutputsOfThisRun, Threads
  <2>2. outputs' = outputs \/ \E o \in Outs : outputs' = [outputs EXCEPT ![o] = "fresh"]
    BY DEF ModelEnds, ModelWrites, files
  <2>3. QED
    BY <2>1, <2>2 DEF PoolTypeOK
<1>3. PoolTypeOK'
  BY <1>1, <1>2 DEF PoolTypeOK
<1>4. PoolInv' /\ NoWorkersOutside' /\ GotIsFresh'
  BY <1>1 DEF PoolInv, NoWorkersOutside, GotIsFresh, Pooling, Reading
<1>5. ModelOnlyInWait' /\ InputsThere' /\ OutputsOfThisRun'
  BY <1>1, <1>2 DEF ModelOnlyInWait, InputsThere, OutputsOfThisRun
<1>6. CommandsDone' /\ FinishedRuns'
  BY <1>1 DEF CommandsDone, FinishedRuns, Reading
<1>7. QED
  BY <1>3, <1>4, <1>5, <1>6

-----------------------------------------------------------------------------
(* What the callers do to the run thread.                                   *)

LEMMA SpawnInv == ASSUME ThreadInv, Spawn, thread = "none" PROVE ThreadInv'
<1> USE DEF ThreadInv
<1>1. /\ thread' = "remove" /\ command' = 1 /\ model' = "none"
      /\ UNCHANGED <<inputs, left, worker, raised, joining, errors, got>>
  BY DEF Spawn, Goes, pool
<1>2. outputs' \in [Outs -> {"absent", "stale", "fresh"}]
  BY DEF Spawn
<1>3. finished' \in BOOLEAN /\ exception' \in BOOLEAN /\ ~finished'
  BY Zenon DEF Spawn
<1>4. PoolTypeOK'
  BY <1>1, <1>2, <1>3 DEF PoolTypeOK, Threads
<1>5. PoolInv' /\ NoWorkersOutside' /\ GotIsFresh'
  BY <1>1 DEF PoolInv, NoWorkersOutside, GotIsFresh, Pooling, Reading
<1>6. ModelOnlyInWait' /\ InputsThere' /\ OutputsOfThisRun'
  BY <1>1 DEF ModelOnlyInWait, InputsThere, OutputsOfThisRun
<1>7. CommandsDone' /\ FinishedRuns'
  BY <1>1, <1>3 DEF CommandsDone, FinishedRuns, Reading
<1>8. QED
  BY <1>4, <1>5, <1>6, <1>7

(* Asking the thread to end, and doing nothing. *)
LEMMA AskInv == ASSUME ThreadInv, AskToEnd \/ UNCHANGED runVars PROVE ThreadInv'
<1> USE DEF ThreadInv
<1>1. UNCHANGED <<thread, finished, exception, inputs, outputs, model, command, left, worker,
                 raised, joining, errors, got>>
  BY DEF AskToEnd, runVars, flags, files, pool
<1>2. PoolTypeOK'
  BY <1>1 DEF PoolTypeOK
<1>3. PoolInv'
  BY <1>1
  DEF PoolInv, Pooling, ForkedFirst, NoFileLost, WorkersEnd, JoinedWorkers, JoiningIsForked,
      Count, Processed, Writing
<1>4. NoWorkersOutside' /\ GotIsFresh' /\ ModelOnlyInWait' /\ InputsThere' /\ OutputsOfThisRun'
  BY <1>1
  DEF NoWorkersOutside, GotIsFresh, Pooling, Reading, ModelOnlyInWait, InputsThere,
      OutputsOfThisRun
<1>5. CommandsDone' /\ FinishedRuns'
  BY <1>1 DEF CommandsDone, FinishedRuns, Reading, Complete
<1>6. QED
  BY <1>2, <1>3, <1>4, <1>5

LEMMA JoinThreadInv == ASSUME ThreadInv, JoinThread PROVE ThreadInv'
<1> USE DEF ThreadInv
<1>1. /\ thread = "ended" /\ thread' = "none"
      /\ UNCHANGED <<finished, exception, inputs, outputs, model, command, left, worker,
                     raised, joining, errors, got>>
  BY DEF JoinThread, Joinable, Goes, flags, files, pool
<1>2. PoolTypeOK'
  BY <1>1 DEF PoolTypeOK, Threads
<1>3. PoolInv' /\ NoWorkersOutside' /\ GotIsFresh'
  BY <1>1 DEF PoolInv, NoWorkersOutside, GotIsFresh, Pooling, Reading
<1>4. ModelOnlyInWait' /\ InputsThere' /\ OutputsOfThisRun'
  BY <1>1 DEF ModelOnlyInWait, InputsThere, OutputsOfThisRun
<1>5. CommandsDone' /\ FinishedRuns'
  BY <1>1 DEF CommandsDone, FinishedRuns, Reading, Complete
<1>6. QED
  BY <1>2, <1>3, <1>4, <1>5

-----------------------------------------------------------------------------
(* The inductive invariant of the whole: a caller that may start a run has no   *)
(* run thread, and what it has seen or decided follows from the flags.          *)

AgentInv ==
  caller = "agent" =>
    /\ agent \in {"idle", "reported", "last look"} => thread = "none"
    /\ done \/ result = "RUN_FINISHED" => finished \/ exception

SerialInv ==
  caller = "serial" =>
    /\ manager \in {"open", "queued", "next"} => thread = "none"
    /\ manager = "join" => finished

StatusOK == status \in [Runs -> -128 .. 127] /\ cur \subseteq Runs /\ pass \subseteq Runs

Inv ==
  /\ ThreadInv /\ AgentInv /\ SerialInv /\ StatusOK

LEMMA InitInv == Init => Inv
<1> SUFFICES ASSUME Init PROVE Inv
  OBVIOUS
<1>1. ThreadInv
  BY PoolInvInit DEF Init
<1>2. AgentInv
  BY Zenon DEF Init, AgentInit, RunInit, AgentInv
<1>3. SerialInv
  BY Zenon DEF Init, SerialInit, RunInit, SerialInv
<1>4. StatusOK
  BY DEF Init, SerialInit, StatusOK
<1>5. QED
  BY <1>1, <1>2, <1>3, <1>4 DEF Inv

(* The run thread, its workers and the model keep the flags that are up, and     *)
(* only work while there is a run thread.                                       *)
LEMMA ThreadSteps ==
  ASSUME ThreadInv,
         RunThread \/ (\E w \in Workers : WorkerStep(w)) \/ ModelEnds
           \/ (\E o \in Outs : ModelWrites(o))
  PROVE  /\ ThreadInv' /\ thread # "none"
         /\ (finished => finished') /\ (exception => exception')
<1>1. CASE \E w \in Workers : WorkerStep(w)
  <2>1. PICK w \in Workers : WorkerStep(w)
    BY <1>1
  <2>2. ThreadInv' /\ Pooling /\ UNCHANGED flags
    BY <2>1, WorkerInv, WorkerFrame
  <2>3. QED
    BY <2>2 DEF Pooling, flags
<1>2. CASE ModelEnds \/ \E o \in Outs : ModelWrites(o)
  <2>1. ThreadInv'
    BY <1>2, ModelInv
  <2>2. model # "none" /\ UNCHANGED flags
    BY <1>2 DEF ModelEnds, ModelWrites
  <2>3. QED
    BY <2>1, <2>2 DEF ThreadInv, ModelOnlyInWait, flags
<1>3. CASE RunThread
  <2>1. ThreadInv'
    BY <1>3, ForkInv, LookInv, JoinInv, InputsWrittenInv, OutputsReadInv, CommandsInv
    DEF RunThread
  <2>2. thread # "none"
    BY <1>3 DEF RunThread, RemoveExisting, Fork, Look, Join, InputsWritten, OutputsRead,
                StartCommand, CommandDone, CommandFailed, Kill, Catch
  <2>3. finished => finished'
    BY <1>3, Zenon DEF RunThread, RemoveExisting, Fork, Look, Join, InputsWritten, OutputsRead,
                       StartCommand, CommandDone, CommandFailed, Kill, Catch, flags
  <2>4. exception => exception'
    BY <1>3, Zenon DEF RunThread, RemoveExisting, Fork, Look, Join, InputsWritten, OutputsRead,
                       StartCommand, CommandDone, CommandFailed, Kill, Catch, flags
  <2>5. QED
    BY <2>1, <2>2, <2>3, <2>4
<1>4. QED
  BY <1>1, <1>2, <1>3

LEMMA AgentKeepsInv ==
  ASSUME Inv, caller = "agent", AgentNext, UNCHANGED <<caller, serialVars>>
  PROVE  Inv'
<1> USE DEF Inv
<1>1. StatusOK' /\ SerialInv'
  BY DEF StatusOK, SerialInv, serialVars
<1>2. CASE StartRun
  <2>1. thread = "none" /\ Spawn
    BY <1>2 DEF StartRun, AgentInv
  <2>2. agent' = "exception" /\ result' = "RUN_FAILED"
    BY <1>2 DEF StartRun, AgentGoes
  <2>3. ~done'
    BY <1>2, Zenon DEF StartRun
  <2>4. QED
    BY <1>1, <2>1, <2>2, <2>3, SpawnInv DEF AgentInv
<1>3. CASE LookException \/ LookFinished
  <2>1. /\ agent' \in {"finished", "receive"} /\ UNCHANGED <<runVars, result>>
        /\ done' => done \/ exception \/ finished
    BY <1>3 DEF LookException, LookFinished, AgentGoes, OnlyAgent
  <2>2. ThreadInv' /\ UNCHANGED <<finished, exception>>
    BY <2>1, AskInv DEF runVars, flags
  <2>3. QED
    BY <1>1, <2>1, <2>2 DEF AgentInv
<1>4. CASE ReceiveNothing \/ Leave
  <2>1. /\ agent' \in {"join", "exception", "aborted", "exited"} /\ UNCHANGED <<runVars, done>>
        /\ result' = result \/ done
    BY <1>4 DEF ReceiveNothing, Leave, AgentGoes, OnlyAgent
  <2>2. ThreadInv' /\ UNCHANGED <<finished, exception>>
    BY <2>1, AskInv DEF runVars, flags
  <2>3. QED
    BY <1>1, <2>1, <2>2 DEF AgentInv
<1>5. CASE LoseMaster \/ \E s \in Requests : Receive(s)
  <2>1. /\ agent' \in {"join", "leaving"} /\ done' = done /\ AskToEnd
        /\ result' = result \/ result' \in Requests
    BY <1>5 DEF LoseMaster, Receive, AgentGoes
  <2>2. ThreadInv' /\ UNCHANGED <<finished, exception>>
    BY <2>1, AskInv DEF AskToEnd
  <2>3. QED
    BY <1>1, <2>1, <2>2 DEF AgentInv, Requests
<1>6. CASE JoinRun
  <2>1. agent' = "last look" /\ UNCHANGED <<done, result>> /\ JoinThread
    BY <1>6 DEF JoinRun, AgentGoes
  <2>2. ThreadInv' /\ thread' = "none" /\ UNCHANGED <<finished, exception>>
    BY <2>1, JoinThreadInv DEF JoinThread, Goes, flags
  <2>3. QED
    BY <1>1, <2>1, <2>2 DEF AgentInv
<1>7. CASE Report
  <2>1. /\ agent = "last look" /\ UNCHANGED <<runVars, done>>
        /\ result' = result \/ result' = "RUN_FAILED"
    BY <1>7 DEF Report, OnlyAgent
  <2>2. ThreadInv' /\ UNCHANGED <<thread, finished, exception>>
    BY <2>1, AskInv DEF runVars, flags
  <2>3. QED
    BY <1>1, <2>1, <2>2 DEF AgentInv
<1>8. QED
  BY <1>2, <1>3, <1>4, <1>5, <1>6, <1>7 DEF AgentNext, AgentStep

(* The failures of a run stay in its byte, and count down while they fit. *)
LEMMA ByteType == \A x \in Int : Byte(x) \in -128 .. 127
  BY DEF Byte

LEMMA ByteSmall == \A x \in -128 .. 127 : Byte(x) = x
  BY DEF Byte

LEMMA FailedType ==
  ASSUME NEW r \in Runs, StatusOK, Failed(r)
  PROVE  status' \in [Runs -> -128 .. 127]
<1>1. status[r] - 1 \in Int /\ status[r] \in -128 .. 127
  BY DEF StatusOK
<1>2. Byte(status[r] - 1) \in -128 .. 127
  BY <1>1, ByteType
<1>3. QED
  BY <1>1, <1>2 DEF StatusOK, Failed

LEMMA SerialKeepsInv ==
  ASSUME Inv, caller = "serial", SerialNext, UNCHANGED <<caller, agentVars>>
  PROVE  Inv'
<1> USE DEF Inv
<1>1. AgentInv'
  BY DEF AgentInv
<1>2. CASE Queue \/ Run \/ NextPass \/ CreateStop \/ RemoveStop
  <2>1. UNCHANGED runVars
    BY <1>2 DEF Queue, Run, NextPass, CreateStop, RemoveStop, OnlySerial
  <2>2. ThreadInv' /\ thread' = thread /\ finished' = finished
    BY <2>1, AskInv DEF runVars, flags
  <2>3. StatusOK'
    BY <1>2 DEF Queue, Run, NextPass, CreateStop, RemoveStop, StatusOK, Outstanding
  <2>4. SerialInv'
    BY <1>2, <2>2 DEF Queue, Run, NextPass, CreateStop, RemoveStop, ManagerGoes, SerialInv
  <2>5. QED
    BY <1>1, <2>2, <2>3, <2>4
<1>3. ASSUME NEW r \in Runs, TakeRun(r) PROVE Inv'
  <2>1. manager = "next" /\ thread = "none" /\ pass' \subseteq Runs
    BY <1>3 DEF TakeRun, SerialInv, StatusOK
  <2>2. CASE stop
    <3>1. Failed(r) /\ UNCHANGED <<runVars, manager, cur>>
      BY <1>3, <2>2 DEF TakeRun, OnlySerial
    <3>2. ThreadInv' /\ thread' = thread
      BY <3>1, AskInv DEF runVars
    <3>3. QED
      BY <1>1, <2>1, <3>1, <3>2, FailedType DEF StatusOK, SerialInv
  <2>3. CASE ~stop
    <3>1. Spawn /\ manager' = "exception" /\ cur' = {r} /\ status' = status
      BY <1>3, <2>3 DEF TakeRun, ManagerGoes
    <3>2. ThreadInv'
      BY <3>1, <2>1, SpawnInv
    <3>3. QED
      BY <1>1, <2>1, <3>1, <3>2 DEF StatusOK, SerialInv
  <2>4. QED
    BY <2>2, <2>3
<1>4. CASE LookAtException \/ LookAtFinished \/ LookForStop
  <2>1. /\ AskToEnd \/ UNCHANGED runVars
        /\ UNCHANGED <<pass, cur, status>>
        /\ manager' \in {"join early", "finished", "join", "stop", "exception"}
        /\ manager' = "join" => finished
    BY <1>4 DEF LookAtException, LookAtFinished, LookForStop, OnlySerial, ManagerGoes
  <2>2. ThreadInv' /\ finished' = finished
    BY <2>1, AskInv DEF AskToEnd, runVars, flags
  <2>3. QED
    BY <1>1, <2>1, <2>2 DEF StatusOK, SerialInv
<1>5. CASE JoinTwice \/ JoinLast
  <2>1. /\ JoinThread /\ manager' = "next" /\ cur' = {} /\ pass' = pass
        /\ RunFails \/ \E r \in cur : status' = [status EXCEPT ![r] = 1]
    BY <1>5 DEF JoinTwice, JoinLast, Settles, Settled, ManagerGoes
  <2>2. ThreadInv' /\ thread' = "none"
    BY <2>1, JoinThreadInv DEF JoinThread, Goes
  <2>3. status' \in [Runs -> -128 .. 127]
    <3>1. CASE RunFails
      <4>1. PICK r \in cur : Failed(r)
        BY <3>1 DEF RunFails
      <4>2. QED
        BY <4>1, FailedType DEF StatusOK
    <3>2. CASE \E r \in cur : status' = [status EXCEPT ![r] = 1]
      BY <3>2 DEF StatusOK
    <3>3. QED
      BY <2>1, <3>1, <3>2
  <2>4. QED
    BY <1>1, <2>1, <2>2, <2>3 DEF StatusOK, SerialInv
<1>6. QED
  BY <1>2, <1>3, <1>4, <1>5 DEF SerialNext, SerialStep, Watch

LEMMA NextInv == ASSUME Inv, [Next]_vars PROVE Inv'
<1>1. CASE RunThreadStep \/ (\E w \in Workers : Worker(w)) \/ ModelStep
  <2>1. /\ UNCHANGED <<caller, agentVars, serialVars>>
        /\ RunThread \/ (\E w \in Workers : WorkerStep(w)) \/ ModelEnds
             \/ (\E o \in Outs : ModelWrites(o))
    BY <1>1 DEF RunThreadStep, Worker, ModelStep
  <2>2. ThreadInv' /\ thread # "none" /\ (finished => finished') /\ (exception => exception')
    BY <2>1, ThreadSteps DEF Inv
  <2>3. QED
    BY <2>1, <2>2 DEF Inv, AgentInv, SerialInv, StatusOK, agentVars, serialVars
<1>2. CASE caller = "agent" /\ AgentNext /\ UNCHANGED <<caller, serialVars>>
  BY <1>2, AgentKeepsInv
<1>3. CASE caller = "serial" /\ SerialNext /\ UNCHANGED <<caller, agentVars>>
  BY <1>3, SerialKeepsInv
<1>4. CASE UNCHANGED vars
  <2>1. UNCHANGED <<caller, runVars, agentVars, serialVars>>
    BY <1>4 DEF vars
  <2>2. ThreadInv' /\ UNCHANGED <<thread, finished, exception>>
    BY <2>1, AskInv DEF Inv, runVars, flags
  <2>3. QED
    BY <2>1, <2>2 DEF Inv, AgentInv, SerialInv, StatusOK, agentVars, serialVars
<1>5. QED
  BY <1>1, <1>2, <1>3, <1>4 DEF Next

-----------------------------------------------------------------------------
LEMMA Invariance == Spec => []Inv
<1>1. Inv /\ [Next]_vars => Inv'
  BY NextInv
<1>2. QED
  BY <1>1, InitInv, PTL DEF Spec

(* How far a status byte gets.  A run that is waiting or being made has a failure *)
(* left, and is not waiting and being made at once; so while max_run_failures    *)
(* fits into the byte, a failure only ever lowers it.  One more than the byte    *)
(* holds and the last failure would make the run a finished one.                *)
FailuresFit == MaxRunFail <= 128

CountInv ==
  /\ status \in [Runs -> -MaxRunFail .. 1] /\ cur \subseteq Runs /\ pass \subseteq Runs
  /\ \A r \in pass \cup cur : status[r] \in 1 - MaxRunFail .. 0
  /\ pass \cap cur = {}
  /\ manager \in {"open", "queued", "next"} => cur = {}

LEMMA FailureLowers ==
  ASSUME FailuresFit, CountInv, NEW r \in pass \cup cur, Failed(r)
  PROVE  status' = [status EXCEPT ![r] = status[r] - 1] /\ status[r] - 1 \in -MaxRunFail .. -1
<1>1. r \in Runs /\ status[r] \in 1 - MaxRunFail .. 0
  BY DEF CountInv
<1>2. status[r] < 1 /\ status[r] - 1 \in -MaxRunFail .. -1 /\ status[r] - 1 \in -128 .. 127
  BY ONLY <1>1, MaxRunFailAssumption, FailuresFit DEF FailuresFit
<1>3. Byte(status[r] - 1) = status[r] - 1
  BY <1>2, ByteSmall
<1>4. QED
  BY <1>2, <1>3 DEF Failed

LEMMA RunSettles ==
  ASSUME FailuresFit, CountInv, NEW r \in pass \cup cur,
         Failed(r) \/ status' = [status EXCEPT ![r] = 1]
  PROVE  /\ status' \in [Runs -> -MaxRunFail .. 1]
         /\ \A q \in Runs : q # r => status'[q] = status[q]
<1>1. r \in Runs /\ status \in [Runs -> -MaxRunFail .. 1]
  BY DEF CountInv
<1>2. PICK x \in -MaxRunFail .. 1 : status' = [status EXCEPT ![r] = x]
  <2>1. CASE Failed(r)
    <3>1. status' = [status EXCEPT ![r] = status[r] - 1] /\ status[r] - 1 \in -MaxRunFail .. -1
      BY <2>1, FailureLowers
    <3>2. status[r] - 1 \in -MaxRunFail .. 1
      BY <3>1, MaxRunFailAssumption
    <3>3. QED
      BY <3>1, <3>2
  <2>2. CASE status' = [status EXCEPT ![r] = 1]
    <3>1. 1 \in -MaxRunFail .. 1
      BY MaxRunFailAssumption
    <3>2. QED
      BY <2>2, <3>1
  <2>3. QED
    BY <2>1, <2>2
<1>3. QED
  BY <1>1, <1>2

LEMMA CountInit == Init => CountInv
  BY MaxRunFailAssumption DEF Init, SerialInit, CountInv

LEMMA CountStep ==
  ASSUME FailuresFit, CountInv, [Next]_vars
  PROVE  CountInv'
<1>1. CASE UNCHANGED serialVars
  BY <1>1 DEF CountInv, serialVars
<1>2. CASE Queue
  <2>1. UNCHANGED <<pass, cur>> /\ manager = "open" /\ manager' = "queued" /\ status' = [r \in Runs |-> 0]
    BY <1>2 DEF Queue, ManagerGoes
  <2>2. 0 \in -MaxRunFail .. 1 /\ 0 \in 1 - MaxRunFail .. 0
    BY MaxRunFailAssumption
  <2>3. QED
    BY <2>1, <2>2 DEF CountInv
<1>3. CASE Run \/ NextPass
  <2>1. /\ UNCHANGED <<cur, status>> /\ manager \in {"queued", "next"}
        /\ pass' = {r \in Runs : status[r] <= 0 /\ status[r] > -MaxRunFail}
    BY <1>3 DEF Run, NextPass, Outstanding
  <2>2. \A r \in pass' : status'[r] \in 1 - MaxRunFail .. 0
    BY <2>1, MaxRunFailAssumption DEF CountInv
  <2>3. QED
    BY <2>1, <2>2 DEF CountInv
<1>4. ASSUME NEW r \in Runs, TakeRun(r) PROVE CountInv'
  <2>1. manager = "next" /\ r \in pass /\ pass' = pass \ {r} /\ cur = {}
    BY <1>4 DEF TakeRun, CountInv
  <2>2. CASE stop
    <3>1. Failed(r) /\ UNCHANGED <<manager, cur>>
      BY <1>4, <2>2 DEF TakeRun
    <3>2. /\ status' \in [Runs -> -MaxRunFail .. 1]
          /\ \A q \in Runs : q # r => status'[q] = status[q]
      BY <2>1, <3>1, RunSettles
    <3>3. QED
      BY <2>1, <3>1, <3>2 DEF CountInv
  <2>3. CASE ~stop
    <3>1. manager' = "exception" /\ cur' = {r} /\ status' = status
      BY <1>4, <2>3 DEF TakeRun, ManagerGoes
    <3>2. QED
      BY <2>1, <3>1 DEF CountInv
  <2>4. QED
    BY <2>2, <2>3
<1>5. CASE LookAtException \/ LookAtFinished \/ LookForStop \/ CreateStop \/ RemoveStop
  <2>1. /\ UNCHANGED <<pass, cur, status>>
        /\ manager' \in {"join early", "finished", "join", "stop", "exception", manager}
    BY <1>5 DEF LookAtException, LookAtFinished, LookForStop, CreateStop, RemoveStop, ManagerGoes
  <2>2. QED
    BY <2>1 DEF CountInv
<1>6. CASE JoinTwice \/ JoinLast
  <2>1. cur' = {} /\ pass' = pass /\ (RunFails \/ \E r \in cur : status' = [status EXCEPT ![r] = 1])
    BY <1>6 DEF JoinTwice, JoinLast, Settles, Settled
  <2>2. PICK r \in cur : Failed(r) \/ status' = [status EXCEPT ![r] = 1]
    BY <2>1 DEF RunFails
  <2>3. /\ status' \in [Runs -> -MaxRunFail .. 1]
        /\ \A q \in Runs : q # r => status'[q] = status[q]
    BY <2>2, RunSettles
  <2>4. QED
    BY <2>1, <2>2, <2>3 DEF CountInv
<1>7. SerialNext \/ UNCHANGED serialVars
  BY DEF Next, RunThreadStep, Worker, ModelStep, vars
<1>8. QED
  BY <1>1, <1>2, <1>3, <1>4, <1>5, <1>6, <1>7 DEF SerialNext, SerialStep, Watch

LEMMA FailuresCount == FailuresFit => (Spec => []CountInv)
<1> SUFFICES ASSUME FailuresFit PROVE Spec => []CountInv
  OBVIOUS
<1>1. CountInv /\ [Next]_vars => CountInv'
  BY CountStep
<1>2. QED
  BY <1>1, CountInit, PTL DEF Spec

(* No command of a model runs unless every input file has been written. *)
THEOREM InputsBeforeModel == Spec => []ModelHasItsInputs
<1>1. Inv => ModelHasItsInputs
  BY DEF Inv, ThreadInv, ModelOnlyInWait, InputsThere, ModelHasItsInputs
<1>2. QED
  BY <1>1, Invariance, PTL

(* A run thread that has ended has left no process of the model. *)
THEOREM ModelEndsWithRun == Spec => []NoModelLeftBehind
<1>1. Inv => NoModelLeftBehind
  BY DEF Inv, ThreadInv, ModelOnlyInWait, NoModelLeftBehind
<1>2. QED
  BY <1>1, Invariance, PTL

(* A run counts as finished, for the agent's report and in the serial run       *)
(* manager's storage, only when it is complete.                                 *)
OnlyComplete ==
  /\ agent # "reported" /\ agent' = "reported" /\ result' = "RUN_FINISHED" => Complete
  /\ \A r \in Runs : status[r] < 1 /\ status'[r] > 0 => Complete

(* finished without an exception, and the thread gone: the run is complete. *)
LEMMA JoinedIsComplete ==
  ASSUME Inv, finished, ~exception, thread \in {"ended", "none"}
  PROVE  Complete
  BY DEF Inv, ThreadInv, FinishedRuns

LEMMA StepOnlyComplete == ASSUME FailuresFit, Inv, CountInv, [Next]_vars PROVE OnlyComplete
<1>1. CASE agent # "reported" /\ agent' = "reported" /\ result' = "RUN_FINISHED"
  <2>1. caller = "agent" /\ AgentNext /\ UNCHANGED serialVars
    BY <1>1 DEF Next, RunThreadStep, Worker, ModelStep, agentVars, vars
  <2>2. Report
    BY <1>1, <2>1 DEF AgentNext, AgentStep, StartRun, LookException, LookFinished,
      ReceiveNothing, JoinRun, Leave, LoseMaster, Receive, AgentGoes
  <2>3. agent = "last look" /\ result = "RUN_FINISHED" /\ ~exception
    BY <1>1, <2>2 DEF Report
  <2>4. Complete
    BY <2>1, <2>3, JoinedIsComplete DEF Inv, AgentInv
  <2>5. QED
    BY <2>4 DEF OnlyComplete
<1>2. ASSUME NEW r \in Runs, status[r] < 1, status'[r] > 0 PROVE Complete
  <2>1. status'[r] # status[r]
    BY <1>2 DEF Inv, StatusOK
  <2>2. caller = "serial" /\ SerialNext
    BY <2>1 DEF Next, RunThreadStep, Worker, ModelStep, serialVars, vars
  <2>3. ~RunFails /\ ~\E q \in pass : Failed(q)
    <3>1. ASSUME NEW q \in pass \cup cur, Failed(q) PROVE FALSE
      <4>1. status' = [status EXCEPT ![q] = status[q] - 1] /\ status[q] - 1 \in -MaxRunFail .. -1
        BY <3>1, FailureLowers
      <4>2. QED
        BY <1>2, <4>1, MaxRunFailAssumption DEF CountInv
    <3>2. QED
      BY <3>1 DEF RunFails
  <2>4. ~(Queue \/ Run \/ NextPass \/ CreateStop \/ RemoveStop)
    BY <1>2, <2>1 DEF Queue, Run, NextPass, CreateStop, RemoveStop
  <2>5. ~(\E q \in Runs : TakeRun(q))
    BY <2>1, <2>3 DEF TakeRun
  <2>6. ~(LookAtException \/ LookAtFinished \/ LookForStop \/ JoinTwice)
    BY <2>1, <2>3 DEF LookAtException, LookAtFinished, LookForStop, JoinTwice
  <2>7. JoinLast
    BY <2>2, <2>4, <2>5, <2>6 DEF SerialNext, SerialStep, Watch
  <2>8. manager = "join" /\ thread = "ended" /\ ~exception
    BY <2>3, <2>7 DEF JoinLast, JoinThread, Joinable, Settled
  <2>9. QED
    BY <2>2, <2>8, JoinedIsComplete DEF Inv, SerialInv
<1>3. QED
  BY <1>1, <1>2 DEF OnlyComplete

(* For any number of files, threads, commands and runs.  With a larger            *)
(* max_run_failures the 129th failure makes the status byte positive.            *)
THEOREM FinishedMeansComplete == MaxRunFail <= 128 => (Spec => OnlyCompleteRunsFinish)
<1> SUFFICES ASSUME FailuresFit PROVE Spec => OnlyCompleteRunsFinish
  BY DEF FailuresFit
<1>1. Inv /\ CountInv /\ [Next]_vars => [OnlyComplete]_vars
  BY StepOnlyComplete
<1>2. QED
  BY <1>1, Invariance, FailuresCount, PTL DEF Spec, OnlyCompleteRunsFinish, OnlyComplete

-----------------------------------------------------------------------------
(* The serial run manager implements the contract of RunManager, as long as a run *)
(* that has failed max_run_failures times is not taken for a cancelled one.      *)
FailuresListed == MaxRunFail < 100

LEMMA ContractInit == Init => Contract!Init
<1> SUFFICES ASSUME Init PROVE Contract!Init
  OBVIOUS
<1>1. manager = "open" /\ status = [r \in Runs |-> 0]
  BY DEF Init, SerialInit
<1>2. \A r \in Runs : ~(status[r] > 0) /\ ~Exceeded(r)
  BY <1>1, MaxRunFailAssumption DEF Exceeded
<1>3. QED
  BY <1>1, <1>2 DEF Contract!Init

(* A status that only goes down while it is not positive, or goes up to 1, moves *)
(* the outcome forward.                                                         *)
Stepwise ==
  \A r \in Runs :
    status'[r] \in {status[r], 1} \/ (status[r] < 1 /\ status'[r] = status[r] - 1)

LEMMA SettleStep ==
  ASSUME FailuresListed, CountInv, CountInv', Stepwise, manager # "queued",
         manager \in {"open", "queued"} <=> manager' \in {"open", "queued"},
         manager \in {"open", "queued"} => manager' = manager
  PROVE  Contract!Settle
<1>1. \A r \in Runs : Exceeded(r) <=> status[r] <= -MaxRunFail
  BY MaxRunFailAssumption DEF Exceeded, CountInv, FailuresListed
<1>2. \A r \in Runs : Exceeded(r)' <=> status'[r] <= -MaxRunFail
  BY MaxRunFailAssumption DEF Exceeded, CountInv, FailuresListed
<1>3. \A r \in Runs : status[r] \in Int /\ status'[r] \in Int
  BY MaxRunFailAssumption DEF CountInv
<1>4. QED
  BY <1>1, <1>2, <1>3, MaxRunFailAssumption
  DEF Stepwise, Contract!Settle, Contract!Forward, Contract!Outcome

LEMMA ContractStep ==
  ASSUME FailuresListed, CountInv, [Next]_vars
  PROVE  [Contract!Next]_(Contract!vars)
<1>0. FailuresFit /\ CountInv'
  BY CountStep, MaxRunFailAssumption DEF FailuresListed, FailuresFit
<1>1. CASE UNCHANGED <<manager, status>>
  BY <1>1 DEF Contract!vars, Exceeded
<1>2. CASE ~UNCHANGED <<manager, status>>
  <2>1. SerialNext
    BY <1>2 DEF Next, RunThreadStep, Worker, ModelStep, serialVars, vars
  <2>2. CASE Queue
    <3>1. manager = "open" /\ manager' = "queued" /\ status' = [r \in Runs |-> 0]
      BY <2>2 DEF Queue, ManagerGoes
    <3>2. \A r \in Runs : ~(status'[r] > 0) /\ ~Exceeded(r)'
      BY <3>1, MaxRunFailAssumption DEF Exceeded
    <3>3. Contract!Queue
      BY <3>1, <3>2 DEF Contract!Queue
    <3>4. QED
      BY <3>3 DEF Contract!Next
  <2>3. CASE Run
    <3>1. manager = "queued" /\ manager' = "next" /\ status' = status
      BY <2>3 DEF Run, ManagerGoes
    <3>2. Contract!Start
      BY <3>1 DEF Contract!Start, Exceeded
    <3>3. QED
      BY <3>2 DEF Contract!Next
  <2>4. CASE NextPass
    <3>1. manager = "next" /\ manager' = "open" /\ Outstanding = {} /\ status' = status
      BY <1>2, <2>4 DEF NextPass, ManagerGoes
    <3>2. \A r \in Runs : status[r] > 0 \/ Exceeded(r)
      BY <3>1, MaxRunFailAssumption DEF Outstanding, CountInv, Exceeded, FailuresListed
    <3>3. Contract!Return
      BY <3>1, <3>2 DEF Contract!Return, Exceeded
    <3>4. QED
      BY <3>3 DEF Contract!Next
  <2>5. CASE SerialStep /\ ~NextPass
    <3>1. /\ manager \notin {"open", "queued"} /\ manager' \notin {"open", "queued"}
          /\ \/ status' = status
             \/ \E r \in pass \cup cur : Failed(r) \/ status' = [status EXCEPT ![r] = 1]
      BY <2>5 DEF SerialStep, TakeRun, Watch, LookAtException, LookAtFinished, LookForStop,
        JoinTwice, JoinLast, Settles, Settled, RunFails, ManagerGoes
    <3>2. Stepwise
      <4>1. CASE status' = status
        BY <4>1 DEF Stepwise
      <4>2. ASSUME NEW q \in pass \cup cur, Failed(q)
            PROVE  Stepwise
        <5>1. /\ status' = [status EXCEPT ![q] = status[q] - 1] /\ q \in Runs
              /\ status[q] - 1 \in -MaxRunFail .. -1 /\ status \in [Runs -> -MaxRunFail .. 1]
          BY <1>0, <4>2, FailureLowers DEF CountInv
        <5>2. status[q] < 1
          BY <5>1, MaxRunFailAssumption
        <5>3. QED
          BY <5>1, <5>2 DEF Stepwise
      <4>3. ASSUME NEW q \in pass \cup cur, status' = [status EXCEPT ![q] = 1]
            PROVE  Stepwise
        BY <4>3 DEF CountInv, Stepwise
      <4>4. QED
        BY <3>1, <4>1, <4>2, <4>3
    <3>3. Contract!Settle
      BY <1>0, <3>1, <3>2, SettleStep
    <3>4. QED
      BY <3>3 DEF Contract!Next
  <2>6. QED
    BY <1>2, <2>1, <2>2, <2>3, <2>4, <2>5 DEF SerialNext, CreateStop, RemoveStop
<1>3. QED
  BY <1>1, <1>2

(* While max_run_failures is below 100, every behaviour of the serial run        *)
(* manager, stopped or not, is one that the contract allows; run returns only    *)
(* when every run is finished, or given up and listed as failed.                 *)
THEOREM SerialKeepsContract == MaxRunFail < 100 => (Spec => KeepsContract)
<1> SUFFICES ASSUME FailuresListed PROVE Spec => KeepsContract
  BY DEF FailuresListed
<1>1. Init => Contract!Init
  BY ContractInit
<1>2. CountInv /\ [Next]_vars => [Contract!Next]_(Contract!vars)
  BY ContractStep
<1>3. FailuresFit
  BY MaxRunFailAssumption DEF FailuresListed, FailuresFit
<1>4. QED
  BY <1>1, <1>2, <1>3, FailuresCount, PTL DEF Spec, KeepsContract, Contract!Spec

-----------------------------------------------------------------------------
(* Types and ranges.  ThreadInv has the types the other invariants need; the      *)
(* ranges of the counters need two facts more: a model runs for a command that    *)
(* exists, and a worker joins a worker that was forked.                          *)

ThreadBounds ==
  /\ terminate \in BOOLEAN
  /\ model \in {"none", "running", "ok", "bad"}
  /\ command \in 1 .. NCommands + 1
  /\ thread = "wait" => command <= NCommands
  /\ left \in 0 .. NInputs + NOutputs
  /\ joining \in 1 .. NThreads + 1
  /\ got \subseteq Outs \X {"stale", "fresh"}

LEMMA InitBounds == Init => ThreadBounds
<1> SUFFICES ASSUME Init PROVE ThreadBounds
  OBVIOUS
<1>1. terminate \in BOOLEAN /\ thread = "none"
  BY Zenon DEF Init, RunInit
<1>2. model = "none" /\ command = 1 /\ left = 0 /\ joining = 1 /\ got = {}
  BY DEF Init, RunInit
<1>3. 1 \in 1 .. NCommands + 1 /\ 0 \in 0 .. NInputs + NOutputs /\ 1 \in 1 .. NThreads + 1
  BY CommandsAssumption, ModelFilesAssumption, ThreadsAssumption
<1>4. QED
  BY <1>1, <1>2, <1>3 DEF ThreadBounds

(* What the run thread and its workers do stays in these ranges. *)
LEMMA WorkersKeepBounds ==
  ASSUME NEW w \in Workers, ThreadInv, ThreadBounds, WorkerStep(w)
  PROVE  ThreadBounds'
<1>1. UNCHANGED <<thread, flags, model, command, joining>>
  BY WorkerFrame
<1>2. left' \in 0 .. NInputs + NOutputs
  <2>1. left' = left \/ left' = (IF left = 0 THEN 0 ELSE left - 1)
    BY DEF WorkerStep, Take, WriteInput, ReadOutput, Raise
  <2>2. QED
    BY ONLY <2>1, ModelFilesAssumption, left \in 0 .. NInputs + NOutputs DEF ThreadBounds
<1>3. got' \subseteq Outs \X {"stale", "fresh"}
  <2>1. CASE ReadOutput(w)
    <3>1. worker[w].st = "work" /\ ~Writing /\ outputs[worker[w].file] # "absent"
          /\ got' = got \cup {<<worker[w].file, outputs[worker[w].file]>>}
      BY <2>1 DEF ReadOutput
    <3>2. Pooling
      BY <3>1 DEF ThreadInv, NoWorkersOutside, NoWorkers
    <3>3. worker[w].file \in 1 .. Count /\ Count = NOutputs
      BY <3>1, <3>2 DEF ThreadInv, PoolInv, WorkersEnd, Count
    <3>4. worker[w].file \in Outs
      BY <3>3 DEF Outs
    <3>5. outputs[worker[w].file] \in {"stale", "fresh"}
      BY <3>1, <3>4 DEF ThreadInv, PoolTypeOK
    <3>6. QED
      BY <3>1, <3>4, <3>5 DEF ThreadBounds
  <2>2. CASE ~ReadOutput(w)
    <3>1. got' = got
      BY <2>2 DEF WorkerStep, Take, WriteInput, Raise
    <3>2. QED
      BY <3>1 DEF ThreadBounds
  <2>3. QED
    BY <2>1, <2>2
<1>4. terminate' = terminate
  BY <1>1 DEF flags
<1>5. QED
  BY <1>1, <1>2, <1>3, <1>4 DEF ThreadBounds

LEMMA RunThreadKeepsBounds ==
  ASSUME ThreadInv, ThreadBounds, RunThread
  PROVE  ThreadBounds'
<1>1. terminate' = terminate
  BY Zenon DEF RunThread, RemoveExisting, Fork, Look, Join, InputsWritten, OutputsRead,
               StartCommand, CommandDone, CommandFailed, Kill, Catch, flags
<1>2. CASE Fork
  <2>1. /\ left' \in {NInputs, NOutputs} /\ joining' = 1 /\ got' = {}
        /\ thread' \in {"look write", "look read"} /\ UNCHANGED <<model, command>>
    BY <1>2 DEF Fork, Goes, files
  <2>2. /\ {NInputs, NOutputs} \subseteq 0 .. NInputs + NOutputs
        /\ 1 \in 1 .. NThreads + 1
    BY ONLY ModelFilesAssumption, ThreadsAssumption
  <2>3. QED
    BY <1>1, <2>1, <2>2 DEF ThreadBounds
<1>3. CASE Join
  <2>1. /\ joining' = joining + 1 /\ thread' \in {"look write", "look read"}
        /\ UNCHANGED <<model, command, left, got>>
    BY <1>3 DEF Join, Goes, files
  <2>2. joining \in Workers
    BY <1>3 DEF Join, ThreadInv, PoolInv, Pooling, JoiningIsForked
  <2>3. joining' \in 1 .. NThreads + 1
    <3>1. \A j \in 1 .. NThreads : j + 1 \in 1 .. NThreads + 1
      BY ONLY ThreadsAssumption
    <3>2. QED
      BY <2>1, <2>2, <3>1 DEF Workers
  <2>4. QED
    BY <1>1, <2>1, <2>3 DEF ThreadBounds
<1>4. CASE StartCommand \/ CommandDone \/ CommandFailed \/ Kill
  <2>1. UNCHANGED <<left, joining, got>>
    BY <1>4 DEF StartCommand, CommandDone, CommandFailed, Kill, pool
  <2>2. model' \in {"none", "running", model} /\ command' \in {command, command + 1}
    BY <1>4 DEF StartCommand, CommandDone, CommandFailed, Kill
  <2>3. command' # command => thread = "wait"
    BY <1>4 DEF StartCommand, CommandDone, CommandFailed, Kill
  <2>4. thread' = "wait" => command' = command /\ ~(command > NCommands)
    BY <1>4 DEF StartCommand, CommandDone, CommandFailed, Kill, Goes, Throw
  <2>5. command' \in 1 .. NCommands + 1
    BY <2>2, <2>3, CommandsAssumption DEF ThreadBounds
  <2>6. thread' = "wait" => command' <= NCommands
    BY <2>4, CommandsAssumption DEF ThreadBounds
  <2>7. QED
    BY <1>1, <2>1, <2>2, <2>5, <2>6 DEF ThreadBounds
<1>5. CASE RemoveExisting \/ Look \/ InputsWritten \/ OutputsRead \/ Catch
  <2>1. UNCHANGED <<model, command, left, joining, got>> /\ thread' # "wait"
    BY <1>5 DEF RemoveExisting, Look, InputsWritten, OutputsRead, Catch, Goes, Throw, files,
                pool, RestDone
  <2>2. QED
    BY <1>1, <2>1 DEF ThreadBounds
<1>6. QED
  BY <1>2, <1>3, <1>4, <1>5 DEF RunThread

(* So does what a caller and the model do. *)
LEMMA OthersKeepBounds ==
  ASSUME ThreadInv, ThreadBounds,
         \/ ModelEnds \/ (\E o \in Outs : ModelWrites(o))
         \/ Spawn \/ AskToEnd \/ JoinThread \/ UNCHANGED runVars
  PROVE  ThreadBounds'
<1>1. CASE ModelEnds \/ \E o \in Outs : ModelWrites(o)
  <2>1. UNCHANGED <<thread, flags, command, left, joining, got>>
    BY <1>1 DEF ModelEnds, ModelWrites, pool
  <2>2. model' \in {"ok", "bad", model} /\ terminate' = terminate
    BY <1>1, Zenon DEF ModelEnds, ModelWrites, flags
  <2>3. QED
    BY <2>1, <2>2 DEF ThreadBounds
<1>2. CASE Spawn
  <2>1. /\ thread' = "remove" /\ command' = 1 /\ model' = "none"
        /\ UNCHANGED <<left, joining, got>>
    BY <1>2 DEF Spawn, Goes, pool
  <2>2. terminate' \in BOOLEAN
    BY <1>2, Zenon DEF Spawn
  <2>3. 1 \in 1 .. NCommands + 1
    BY CommandsAssumption
  <2>4. QED
    BY <2>1, <2>2, <2>3 DEF ThreadBounds
<1>3. CASE AskToEnd \/ JoinThread \/ UNCHANGED runVars
  <2>1. UNCHANGED <<command, model, left, joining, got>> /\ thread' \in {thread, "none"}
    BY <1>3 DEF AskToEnd, JoinThread, Goes, runVars, pool
  <2>2. terminate' \in {terminate, TRUE}
    BY <1>3, Zenon DEF AskToEnd, JoinThread, runVars, flags
  <2>3. QED
    BY <2>1, <2>2 DEF ThreadBounds
<1>4. QED
  BY <1>1, <1>2, <1>3

LEMMA NextBounds == ASSUME ThreadInv, ThreadBounds, [Next]_vars PROVE ThreadBounds'
<1>1. CASE \E w \in Workers : Worker(w)
  BY <1>1, WorkersKeepBounds DEF Worker
<1>2. CASE RunThreadStep
  BY <1>2, RunThreadKeepsBounds DEF RunThreadStep
<1>3. CASE ModelStep \/ UNCHANGED vars
           \/ (caller = "agent" /\ AgentNext /\ UNCHANGED <<caller, serialVars>>)
  <2>1. \/ ModelEnds \/ (\E o \in Outs : ModelWrites(o))
        \/ Spawn \/ AskToEnd \/ JoinThread \/ UNCHANGED runVars
    BY <1>3 DEF ModelStep, vars, AgentNext, AgentStep, LookException, LookFinished,
                ReceiveNothing, JoinRun, Report, Leave, StartRun, LoseMaster, Receive,
                OnlyAgent
  <2>2. QED
    BY <2>1, OthersKeepBounds
<1>4. CASE caller = "serial" /\ SerialNext /\ UNCHANGED <<caller, agentVars>>
  <2>1. Spawn \/ AskToEnd \/ JoinThread \/ UNCHANGED runVars
    BY <1>4 DEF SerialNext, SerialStep, Watch, Queue, Run, NextPass, TakeRun, LookAtException,
                LookAtFinished, LookForStop, JoinTwice, JoinLast, CreateStop, RemoveStop, OnlySerial
  <2>2. QED
    BY <2>1, OthersKeepBounds
<1>5. QED
  BY <1>1, <1>2, <1>3, <1>4 DEF Next

(* Types and ranges: no worker takes a file that does not exist, no command      *)
(* beyond the last is run, no worker is joined that was not forked, and a status *)
(* byte is a byte however often a run fails.                                    *)
THEOREM TypeCorrect == Spec => []TypeOK
<1>1. Inv /\ ThreadBounds /\ [Next]_vars => ThreadBounds'
  BY NextBounds DEF Inv
<1>2. Inv /\ ThreadBounds => TypeOK
  <2> SUFFICES ASSUME Inv, ThreadBounds PROVE TypeOK
    OBVIOUS
  <2>1. flags \in BOOLEAN \X BOOLEAN \X BOOLEAN
    BY Zenon DEF Inv, ThreadInv, PoolTypeOK, ThreadBounds, flags
  <2>2. QED
    BY <2>1 DEF Inv, ThreadInv, PoolTypeOK, ThreadBounds, StatusOK, TypeOK, WorkerStates
<1>3. QED
  BY <1>1, <1>2, InitBounds, Invariance, PTL DEF Spec
=============================================================================
