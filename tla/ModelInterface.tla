--------------------------- MODULE ModelInterface ---------------------------
(***************************************************************************)
(* One model run (class ModelInterface): a run thread removes the old model *)
(* files, has worker threads write the input files from the templates, runs *)
(* the model's commands one after the other and has worker threads read the *)
(* output files.  It talks to whoever started it through three flags:       *)
(* terminate, finished and the exception pointer.                           *)
(*                                                                         *)
(* The branch for Linux is modelled.  A command that cannot be executed is  *)
(* one that ends without writing anything.  Killing one's own child is      *)
(* never refused.                                                           *)
(***************************************************************************)
EXTENDS Naturals, FiniteSets

CONSTANTS NInputs, NOutputs,   \* template and instruction files
          NThreads,            \* num_threads
          NCommands            \* comline_vec

ASSUME ModelFilesAssumption == NInputs \in Nat \ {0} /\ NOutputs \in Nat \ {0}
ASSUME ThreadsAssumption == NThreads \in Nat \ {0}
ASSUME CommandsAssumption == NCommands \in Nat

VARIABLES thread,      \* the run thread's next statement
          terminate, finished, exception,     \* the flags; exception: the pointer is set
          inputs,      \* input files that are there
          outputs,     \* output files: "absent", "stale" (of an earlier run) or "fresh"
          model,       \* the model's process: "none", "running", or how it ended
          command,     \* the command that is running or comes next
          left,        \* tpl_idx, ins_idx: the files 1 .. left are still to be taken
          worker,      \* what each worker thread does, and to which file
          raised,      \* exception_ptrs
          joining,     \* the worker the run thread looks at, and whether it found
          errors,      \* num_exp > 0: an exception
          got          \* the output files read, as they were then

flags == <<terminate, finished, exception>>
files == <<inputs, outputs>>
pool == <<left, worker, raised, joining, errors, got>>
runVars == <<thread, flags, files, model, command, pool>>

Workers == 1 .. NThreads
AllInputs == 1 .. NInputs
Outs == 1 .. NOutputs
NoWorkers == [w \in Workers |-> [st |-> "none", file |-> 0]]

Goes(l) == thread' = l
Throw == Goes("throwing")

-----------------------------------------------------------------------------
(* remove_existing gives up on files that cannot be deleted. *)
RemoveExisting ==
  /\ thread = "remove"
  /\ \/ Goes("write") /\ inputs' = {} /\ outputs' = [o \in Outs |-> "absent"]
     \/ /\ Throw /\ inputs' \in SUBSET inputs
        /\ \E gone \in SUBSET Outs :
             outputs' = [o \in Outs |-> IF o \in gone THEN "absent" ELSE outputs[o]]
        /\ inputs' # {} \/ \E o \in Outs : outputs'[o] # "absent"
  /\ UNCHANGED <<flags, model, command, pool>>

(* write_input_files and read_output_files start their workers alike. *)
Fork ==
  /\ thread \in {"write", "read"}
  /\ LET count == IF thread = "write" THEN NInputs ELSE NOutputs
     IN  /\ left' = count
         /\ worker' = [w \in Workers |->
              [st |-> IF w <= count THEN "take" ELSE "none", file |-> 0]]
  /\ raised' = [w \in Workers |-> FALSE]
  /\ joining' = 1 /\ errors' = FALSE /\ got' = {}
  /\ Goes(IF thread = "write" THEN "look write" ELSE "look read")
  /\ UNCHANGED <<flags, files, model, command>>

Writing == thread \in {"look write", "join write"}

(* A mutant: off by one at the end of the files. *)
TakePastEnd(w) ==
  /\ worker[w].st = "take"
  /\ worker' = [worker EXCEPT ![w] = [st |-> "work", file |-> left]]
  /\ left' = IF left = 0 THEN 0 ELSE left - 1
  /\ UNCHANGED <<thread, flags, files, model, command, raised, joining, errors, got>>

(* ThreadedTemplateProcess::work and ThreadedInstructionProcess::work. *)
Take(w) ==
  /\ worker[w].st = "take"
  /\ worker' = [worker EXCEPT ![w] = IF left = 0 THEN [st |-> "ended", file |-> 0]
                                     ELSE [st |-> "work", file |-> left]]
  /\ left' = IF left = 0 THEN 0 ELSE left - 1
  /\ UNCHANGED <<thread, flags, files, model, command, raised, joining, errors, got>>

Finishes(w) == worker' = [worker EXCEPT ![w].st = "take"]

WriteInput(w) ==
  /\ worker[w].st = "work" /\ Writing /\ Finishes(w)
  /\ inputs' = inputs \cup {worker[w].file}
  /\ UNCHANGED <<thread, flags, outputs, model, command, left, raised, joining, errors, got>>

ReadOutput(w) ==
  /\ worker[w].st = "work" /\ ~Writing /\ Finishes(w)
  /\ outputs[worker[w].file] # "absent"
  /\ got' = got \cup {<<worker[w].file, outputs[worker[w].file]>>}
  /\ UNCHANGED <<thread, flags, files, model, command, left, raised, joining, errors>>

(* process_template_file_thread, process_instruction_file_thread: a file that *)
(* cannot be processed ends the worker.                                       *)
Raise(w) ==
  /\ worker[w].st = "work"
  /\ raised' = [raised EXCEPT ![w] = TRUE]
  /\ worker' = [worker EXCEPT ![w].st = "ended"]
  /\ UNCHANGED <<thread, flags, files, model, command, left, joining, errors, got>>

WorkerStep(w) == Take(w) \/ WriteInput(w) \/ ReadOutput(w) \/ Raise(w)

Forked == {w \in Workers : worker[w].st # "none"}

(* The exception is looked at before the join and again after it. *)
Look ==
  /\ thread \in {"look write", "look read"} /\ joining \in Forked
  /\ errors' = (errors \/ raised[joining])
  /\ Goes(IF Writing THEN "join write" ELSE "join read")
  /\ UNCHANGED <<flags, files, model, command, left, worker, raised, joining, got>>

(* A mutant: no second look. *)
JoinBlindly ==
  /\ thread \in {"join write", "join read"} /\ worker[joining].st = "ended"
  /\ joining' = joining + 1
  /\ Goes(IF Writing THEN "look write" ELSE "look read")
  /\ UNCHANGED <<flags, files, model, command, left, worker, raised, errors, got>>

Join ==
  /\ thread \in {"join write", "join read"} /\ worker[joining].st = "ended"
  /\ joining' = joining + 1 /\ errors' = (errors \/ raised[joining])
  /\ Goes(IF Writing THEN "look write" ELSE "look read")
  /\ UNCHANGED <<flags, files, model, command, left, worker, raised, got>>

AllJoined == joining \notin Forked
RestDone == UNCHANGED <<files, model, command, left, raised, joining, errors, got>>

InputsWritten ==
  /\ thread = "look write" /\ AllJoined /\ worker' = NoWorkers
  /\ IF errors THEN Throw ELSE Goes("start")
  /\ RestDone /\ UNCHANGED flags

(* The names that were read may not be those of the control file. *)
OutputsRead ==
  /\ thread = "look read" /\ AllJoined /\ worker' = NoWorkers
  /\ \/ ~errors /\ Goes("ended") /\ finished' = TRUE
     \/ Throw /\ UNCHANGED finished
  /\ RestDone /\ UNCHANGED <<terminate, exception>>

-----------------------------------------------------------------------------
(* The commands. *)
StartCommand ==
  /\ thread = "start"
  /\ IF command > NCommands THEN Goes("read") /\ UNCHANGED model
     ELSE Goes("wait") /\ model' = "running"
  /\ UNCHANGED <<flags, files, command, pool>>

CommandDone ==
  /\ thread = "wait" /\ model = "ok"
  /\ model' = "none" /\ command' = command + 1 /\ Goes("start")
  /\ UNCHANGED <<flags, files, pool>>

(* finished is set, the exception only when it has been caught. *)
CommandFailed ==
  /\ thread = "wait" /\ model = "bad"
  /\ model' = "none" /\ finished' = TRUE /\ Throw
  /\ UNCHANGED <<terminate, exception, files, command, pool>>

(* Mutants: terminate is looked at between two commands only; the model is not  *)
(* killed.                                                                     *)
KillBetween ==
  /\ thread = "wait" /\ terminate /\ model # "running"
  /\ model' = "none" /\ Goes("ended")
  /\ UNCHANGED <<flags, files, command, pool>>

KillNothing ==
  /\ thread = "wait" /\ terminate /\ Goes("ended")
  /\ UNCHANGED <<flags, files, model, command, pool>>

(* The model was running when waitpid looked and may have ended since. *)
Kill ==
  /\ thread = "wait" /\ terminate
  /\ model' = "none" /\ Goes("ended")
  /\ UNCHANGED <<flags, files, command, pool>>

Catch ==
  /\ thread = "throwing" /\ exception' = TRUE /\ Goes("ended")
  /\ UNCHANGED <<terminate, finished, files, model, command, pool>>

RunThread ==
  \/ RemoveExisting \/ Fork \/ Look \/ Join \/ InputsWritten \/ OutputsRead
  \/ StartCommand \/ CommandDone \/ CommandFailed \/ Kill \/ Catch

(* The model itself: it may hang. *)
ModelWrites(o) ==
  /\ model = "running" /\ outputs' = [outputs EXCEPT ![o] = "fresh"]
  /\ UNCHANGED <<thread, flags, inputs, model, command, pool>>

ModelEnds ==
  /\ model = "running" /\ model' \in {"ok", "bad"}
  /\ UNCHANGED <<thread, flags, files, command, pool>>

RunNext ==
  \/ RunThread \/ (\E w \in Workers : WorkerStep(w))
  \/ ModelEnds \/ (\E o \in Outs : ModelWrites(o))

-----------------------------------------------------------------------------
(* What a caller does: start the run thread with new flags, ask it to end, and *)
(* join it.                                                                   *)
Spawn ==
  /\ Goes("remove") /\ command' = 1 /\ model' = "none"
  /\ terminate' = FALSE /\ finished' = FALSE /\ exception' = FALSE
  /\ outputs' = [o \in Outs |-> IF outputs[o] = "absent" THEN "absent" ELSE "stale"]
  /\ UNCHANGED <<inputs, pool>>

AskToEnd ==
  /\ terminate' = TRUE
  /\ UNCHANGED <<thread, finished, exception, files, model, command, pool>>

Joinable == thread = "ended"
JoinThread == Joinable /\ Goes("none") /\ UNCHANGED <<flags, files, model, command, pool>>

RunInit ==
  /\ thread = "none" /\ terminate = FALSE /\ finished = FALSE /\ exception = FALSE
  /\ inputs \in SUBSET AllInputs /\ outputs \in [Outs -> {"absent", "stale"}]
  /\ model = "none" /\ command = 1
  /\ left = 0 /\ worker = NoWorkers /\ raised = [w \in Workers |-> FALSE]
  /\ joining = 1 /\ errors = FALSE /\ got = {}

(* What a finished run must have: every command ended well, and every output    *)
(* file was read as this run's model left it.                                  *)
Complete == command > NCommands /\ got = Outs \X {"fresh"}
=============================================================================
