----------------------------- MODULE IdleThread -----------------------------
(***************************************************************************)
(* How the master's two threads share the agents.  Between two calls of     *)
(* run_until a second thread, run_idle_async, accepts, reads and pings the  *)
(* agents; run_until stops it with pause_idle and lets it go on with        *)
(* resume_idle, and the destructor ends it.  They talk through four flags,  *)
(* each a Boolean behind a mutex of its own (thread_flag), so one access of *)
(* a flag is one step.                                                      *)
(*                                                                         *)
(* An exception out of the idle thread ends the program and is left out.    *)
(***************************************************************************)
EXTENDS Naturals

VARIABLES main,                   \* what the program's thread does
          idler,                  \* the next statement of run_idle_async
          currently_idle,         \* main: the idle thread may work
          idling,                 \* idle thread: I am working
          terminate_idle_thread,  \* main: leave your loop
          idle_thread_finished,   \* idle thread: I have left it
          passes                  \* history: passes begun inside this run_until

flags == <<currently_idle, idling, terminate_idle_thread, idle_thread_finished>>
idleVars == <<main, idler, flags, passes>>

MainStates == {"program", "pausing", "clearing", "running", "draining",
               "killing", "resuming", "ending", "closed"}
IdlerStates == {"none", "begin", "loop", "check", "unmark", "mark", "init", "listen", "ping",
                "leave", "leaving", "done"}

Working == idler \in {"init", "listen", "ping"}
InRunUntil == main \in {"clearing", "running", "draining", "killing", "resuming"}
Started == idler # "none"               \* idle_thread # nullptr

-----------------------------------------------------------------------------
(* run_idle_async.                                                          *)

GoTo(l) == idler' = l
ByIdler == UNCHANGED <<main, currently_idle, terminate_idle_thread>>

Begin ==
  /\ idler = "begin" /\ GoTo("loop")
  /\ idle_thread_finished' = FALSE /\ idling' = FALSE
  /\ ByIdler /\ UNCHANGED passes

Loop ==
  /\ idler = "loop" /\ GoTo(IF terminate_idle_thread THEN "leave" ELSE "check")
  /\ ByIdler /\ UNCHANGED <<flags, passes>>

(* A mutant: a thread that does not look at currently_idle. *)
CheckNothing ==
  /\ idler = "check" /\ GoTo("mark")
  /\ ByIdler /\ UNCHANGED <<flags, passes>>

Check ==
  /\ idler = "check" /\ GoTo(IF currently_idle THEN "mark" ELSE "unmark")
  /\ ByIdler /\ UNCHANGED <<flags, passes>>

(* A mutant: the flag stays up while the thread sleeps. *)
UnmarkNot == idler = "unmark" /\ GoTo("loop") /\ ByIdler /\ UNCHANGED <<flags, passes>>

Unmark ==
  /\ idler = "unmark" /\ GoTo("loop") /\ idling' = FALSE
  /\ ByIdler /\ UNCHANGED <<idle_thread_finished, passes>>

Mark ==
  /\ idler = "mark" /\ GoTo("init") /\ idling' = TRUE
  /\ passes' = IF InRunUntil THEN passes + 1 ELSE passes
  /\ ByIdler /\ UNCHANGED idle_thread_finished

(* init_agents, listen and ping with a look at terminate_idle_thread between. *)
InitDone ==
  /\ idler = "init" /\ GoTo(IF terminate_idle_thread THEN "leave" ELSE "listen")
  /\ ByIdler /\ UNCHANGED <<flags, passes>>

ListenDone ==
  /\ idler = "listen" /\ GoTo(IF terminate_idle_thread THEN "leave" ELSE "ping")
  /\ ByIdler /\ UNCHANGED <<flags, passes>>

PingDone == idler = "ping" /\ GoTo("loop") /\ ByIdler /\ UNCHANGED <<flags, passes>>

Leave ==
  /\ idler = "leave" /\ GoTo("leaving") /\ idle_thread_finished' = TRUE
  /\ ByIdler /\ UNCHANGED <<idling, passes>>

Leaving ==
  /\ idler = "leaving" /\ GoTo("done") /\ idling' = FALSE
  /\ ByIdler /\ UNCHANGED <<idle_thread_finished, passes>>

IdlerNext ==
  \/ Begin \/ Loop \/ Check \/ Unmark \/ Mark
  \/ InitDone \/ ListenDone \/ PingDone \/ Leave \/ Leaving

-----------------------------------------------------------------------------
(* The program's thread.                                                    *)

Go(l) == main' = l
ByMain == UNCHANGED <<idling, idle_thread_finished, passes>>

(* run_until: pause_idle returns at once when there is no thread, else it      *)
(* lowers currently_idle ...                                                   *)
PauseIdle ==
  /\ main = "program" /\ ByMain /\ UNCHANGED <<idler, terminate_idle_thread>>
  /\ \/ ~Started /\ Go("clearing") /\ UNCHANGED currently_idle
     \/ Started /\ Go("pausing") /\ currently_idle' = FALSE

(* ... and waits until idling is down, or for IDLE_THREAD_SIGNAL_TIMEOUT_SECS. *)
Acknowledged ==
  /\ main = "pausing" /\ (~idling \/ idle_thread_finished)
  /\ Go("clearing") /\ ByMain /\ UNCHANGED <<idler, currently_idle, terminate_idle_thread>>

TimedOut ==
  /\ main = "pausing" /\ idling /\ ~idle_thread_finished
  /\ Go("clearing") /\ ByMain /\ UNCHANGED <<idler, currently_idle, terminate_idle_thread>>

(* What run_until does from here to resume_idle is left to who uses it. *)
RunUntilGoes(from, to) ==
  /\ main = from /\ Go(to) /\ UNCHANGED <<idler, flags, passes>>

(* A mutant: a thread that exists already is not told to go on. *)
ResumeOnce ==
  /\ main = "resuming" /\ Go("program") /\ passes' = 0
  /\ \/ ~Started /\ GoTo("begin") /\ currently_idle' = TRUE
     \/ Started /\ UNCHANGED <<idler, currently_idle>>
  /\ UNCHANGED <<idling, idle_thread_finished, terminate_idle_thread>>

(* resume_idle: start_run_idle_async the first time. *)
ResumeIdle ==
  /\ main = "resuming" /\ Go("program") /\ passes' = 0
  /\ currently_idle' = TRUE
  /\ \/ ~Started /\ GoTo("begin")
        /\ idling' = FALSE /\ idle_thread_finished' = FALSE /\ terminate_idle_thread' = FALSE
     \/ Started /\ UNCHANGED <<idler, idling, idle_thread_finished, terminate_idle_thread>>

(* A mutant: the thread is joined without being told to end. *)
EndWithoutFlag ==
  /\ main = "program" /\ ByMain /\ UNCHANGED <<idler, currently_idle, terminate_idle_thread>>
  /\ \/ ~Started /\ Go("closed")
     \/ Started /\ Go("ending")

(* The destructor: end_run_idle_async, which joins whether its wait has timed   *)
(* out or not.                                                                 *)
EndIdle ==
  /\ main = "program" /\ ByMain /\ UNCHANGED <<idler, currently_idle>>
  /\ \/ ~Started /\ Go("closed") /\ UNCHANGED terminate_idle_thread
     \/ Started /\ Go("ending") /\ terminate_idle_thread' = TRUE

Joined ==
  /\ main = "ending" /\ idler = "done"
  /\ Go("closed") /\ GoTo("none") /\ ByMain
  /\ UNCHANGED <<currently_idle, terminate_idle_thread>>

IdleInit ==
  /\ main = "program" /\ idler = "none" /\ passes = 0
  /\ currently_idle = TRUE /\ idling = FALSE
  /\ terminate_idle_thread = FALSE /\ idle_thread_finished = FALSE

IdleTypeOK ==
  /\ main \in MainStates /\ idler \in IdlerStates /\ passes \in Nat
  /\ currently_idle \in BOOLEAN /\ idling \in BOOLEAN
  /\ terminate_idle_thread \in BOOLEAN /\ idle_thread_finished \in BOOLEAN
=============================================================================
