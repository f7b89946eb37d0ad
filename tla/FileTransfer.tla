---------------------------- MODULE FileTransfer ----------------------------
(***************************************************************************)
(* The files that agents send to the master after a run, which whichever    *)
(* thread is listening writes to disk: IdleThread with what run_until and   *)
(* listen do to the streams.                                                *)
(*                                                                         *)
(* An agent sends its files one after the other, each as a START, a CONT    *)
(* for each piece and a FINISH.  The master forms the name of its copy from *)
(* the agent's host and directory, the run and the file, so an agent that   *)
(* comes back, and one that runs the same run again, means the same copy.   *)
(* The run's own messages are those of module Panther.                      *)
(***************************************************************************)
EXTENDS IdleThread, Sequences, FiniteSets

CONSTANTS Agents,      \* the agents, each with its socket
          Runs,        \* the runs they answer
          NFiles,      \* panther_transfer_on_finish lists the files 1 .. NFiles
          MaxPieces,   \* bound: pieces of a file
          MaxTurns,    \* bound: how many runs or connections an agent makes
          MaxInFlight  \* bound: messages of an agent that the master has not read

ASSUME FilesAssumption == NFiles \in Nat \ {0} /\ MaxPieces \in Nat
ASSUME TurnsAssumption == MaxTurns \in Nat /\ MaxInFlight \in Nat \ {0}

VARIABLES link,        \* each agent's connection: "up", "down" (the agent has gone) or "none"
          wire,        \* messages the master has not read
          snd,         \* what each agent is sending
          turns,       \* runs and connections each agent has made
          streams,     \* open_file_trans_streams: of each open name, the pieces written
          sockmap,     \* open_file_socket_map: the name each socket is sending
          stop,        \* pest.stp is there
          stopped      \* history: the drain loop of this run_until has found it

agentVars == <<link, wire, snd, turns>>
fileVars == <<streams, sockmap>>
stopVars == <<stop, stopped>>
vars == <<idleVars, agentVars, fileVars, stopVars>>

Names == Agents \X Runs \X (1 .. NFiles)
NoName == <<>>
Resting == [run |-> {}, file |-> 0, size |-> 0, next |-> 0]

-----------------------------------------------------------------------------
(* The agents: transfer_files.                                              *)

Up(a) == link[a] = "up"
NameOf(a) == <<a, CHOOSE r \in Runs : r \in snd[a].run, snd[a].file>>
Send(a, t, k) ==
  /\ Len(wire[a]) < MaxInFlight
  /\ wire' = [wire EXCEPT ![a] = Append(@, [type |-> t, name |-> NameOf(a), k |-> k])]
  /\ UNCHANGED <<link, turns>>
ByAgent == UNCHANGED <<idleVars, fileVars, stopVars>>

(* A run has ended; its result is sent. *)
RunEnds(a) ==
  /\ Up(a) /\ snd[a] = Resting /\ turns[a] < MaxTurns
  /\ turns' = [turns EXCEPT ![a] = @ + 1]
  /\ \E r \in Runs : snd' = [snd EXCEPT ![a] = [run |-> {r}, file |-> 1, size |-> 0, next |-> 0]]
  /\ ByAgent /\ UNCHANGED <<link, wire>>

FileAfter(s) == [run |-> s.run, file |-> s.file + 1, size |-> 0, next |-> 0]

(* A mutant: one file too many. *)
NextFileBeyond(a) ==
  snd' = [snd EXCEPT ![a] = IF snd[a].file > NFiles THEN Resting ELSE FileAfter(snd[a])]

NextFile(a) ==
  snd' = [snd EXCEPT ![a] = IF snd[a].file = NFiles THEN Resting ELSE FileAfter(snd[a])]

Sends(a) == Up(a) /\ snd[a] # Resting

SkipMissingFile(a) ==
  /\ Sends(a) /\ snd[a].next = 0 /\ NextFile(a)
  /\ ByAgent /\ UNCHANGED <<link, wire, turns>>

SendStart(a) ==
  /\ Sends(a) /\ snd[a].next = 0 /\ Send(a, "START", 0)
  /\ \E n \in 0 .. MaxPieces : snd' = [snd EXCEPT ![a].size = n, ![a].next = 1]
  /\ ByAgent

SendPiece(a) ==
  /\ Sends(a) /\ snd[a].next \in 1 .. snd[a].size /\ Send(a, "CONT", snd[a].next)
  /\ snd' = [snd EXCEPT ![a].next = @ + 1]
  /\ ByAgent

(* The number of pieces is not in the message: the properties compare it with *)
(* what the master wrote.                                                    *)
SendFinish(a) ==
  /\ Sends(a) /\ snd[a].next = snd[a].size + 1 /\ Send(a, "FINISH", snd[a].size)
  /\ NextFile(a)
  /\ ByAgent

Vanish(a) ==
  /\ Up(a)
  /\ link' = [link EXCEPT ![a] = "down"]
  /\ \E k \in 0 .. Len(wire[a]) :
       wire' = [wire EXCEPT ![a] = Append(SubSeq(@, 1, k), [type |-> "EOF", name |-> NoName, k |-> 0])]
  /\ snd' = [snd EXCEPT ![a] = Resting]
  /\ ByAgent /\ UNCHANGED turns

(* An agent comes back only after the master has read the end of its old        *)
(* connection: assumed, as init_agents also accepts an agent of the same host    *)
(* and directory while the old connection is half open.                        *)
Rejoin(a) ==
  /\ link[a] = "none" /\ turns[a] < MaxTurns
  /\ link' = [link EXCEPT ![a] = "up"] /\ turns' = [turns EXCEPT ![a] = @ + 1]
  /\ ByAgent /\ UNCHANGED <<wire, snd>>

-----------------------------------------------------------------------------
(* The master: process_message for the three messages and for EOF.           *)

Opened(n) == n \in DOMAIN streams
Close(ns) == streams' = [n \in DOMAIN streams \ ns |-> streams[n]]
Put(n, s) == streams' = [m \in DOMAIN streams \cup {n} |-> IF m = n THEN s ELSE streams[m]]

(* A copy that is open is not opened again; the first name of a socket stays. *)
OnStart(a, n) ==
  /\ IF Opened(n) THEN UNCHANGED fileVars
     ELSE /\ Put(n, <<>>)
          /\ sockmap' = [sockmap EXCEPT ![a] = IF @ = NoName THEN n ELSE @]
  /\ UNCHANGED link

(* A mutant: a piece of a file that is not open opens it. *)
OnPieceAnyway(n, k) ==
  /\ Put(n, IF Opened(n) THEN Append(streams[n], k) ELSE <<k>>)
  /\ UNCHANGED <<sockmap, link>>

OnPiece(n, k) ==
  /\ IF Opened(n) THEN Put(n, Append(streams[n], k)) ELSE UNCHANGED streams
  /\ UNCHANGED <<sockmap, link>>

(* A mutant: the socket keeps the name. *)
OnFinishKeeps(a, n) ==
  /\ Close({n})
  /\ UNCHANGED <<sockmap, link>>

OnFinish(a, n) ==
  /\ Close({n})
  /\ sockmap' = IF Opened(n) THEN [sockmap EXCEPT ![a] = NoName] ELSE sockmap
  /\ UNCHANGED link

(* A mutant: the file a lost agent was sending stays open. *)
OnLostKeeps(a) ==
  /\ link' = [link EXCEPT ![a] = "none"]
  /\ sockmap' = [sockmap EXCEPT ![a] = NoName]
  /\ UNCHANGED streams

(* close_agent closes the file the socket was sending. *)
OnLost(a) ==
  /\ link' = [link EXCEPT ![a] = "none"]
  /\ Close({sockmap[a]})
  /\ sockmap' = [sockmap EXCEPT ![a] = NoName]

Listening == main \in {"running", "draining", "killing"} \/ idler = "listen"

ProcessMessage(a) ==
  /\ Listening /\ wire[a] # <<>>
  /\ wire' = [wire EXCEPT ![a] = Tail(@)]
  /\ LET m == Head(wire[a])
     IN  \/ m.type = "START" /\ OnStart(a, m.name)
         \/ m.type = "CONT" /\ OnPiece(m.name, m.k)
         \/ m.type = "FINISH" /\ OnFinish(a, m.name)
         \/ m.type = "EOF" /\ OnLost(a)
  /\ UNCHANGED <<idleVars, snd, turns, stopVars>>

-----------------------------------------------------------------------------
(* run_until.                                                               *)

Held == {sockmap[a] : a \in Agents}
NoOne == [a \in Agents |-> NoName]

Clear ==
  /\ RunUntilGoes("clearing", "running")
  /\ streams' = <<>> /\ sockmap' = NoOne /\ stopped' = FALSE
  /\ UNCHANGED <<agentVars, stop>>

RunsComplete ==
  /\ RunUntilGoes("running", "draining") /\ UNCHANGED <<agentVars, fileVars, stopVars>>

NoAgentsLeft ==
  /\ main = "draining" /\ \A a \in Agents : link[a] = "none"
  /\ Close(Held) /\ sockmap' = NoOne
  /\ UNCHANGED <<idleVars, agentVars, stopVars>>

(* The names of the sockets are kept, unlike in NoAgentsLeft. *)
DrainFindsStop ==
  /\ main = "draining" /\ stop
  /\ Close(Held) /\ stopped' = TRUE
  /\ UNCHANGED <<idleVars, agentVars, sockmap, stop>>

Drained ==
  /\ streams = <<>> /\ \A a \in Agents : wire[a] = <<>>
  /\ RunUntilGoes("draining", "killing") /\ UNCHANGED <<agentVars, fileVars, stopVars>>

AllKilled ==
  /\ RunUntilGoes("killing", "resuming") /\ UNCHANGED <<agentVars, fileVars, stopVars>>

CreateStop == ~stop /\ InRunUntil /\ stop' = TRUE /\ UNCHANGED <<idleVars, agentVars, fileVars, stopped>>
RemoveStop == stop /\ main = "program" /\ stop' = FALSE /\ UNCHANGED <<idleVars, agentVars, fileVars, stopped>>

-----------------------------------------------------------------------------
Init ==
  /\ IdleInit
  /\ link = [a \in Agents |-> "up"] /\ wire = [a \in Agents |-> <<>>]
  /\ snd = [a \in Agents |-> Resting] /\ turns = [a \in Agents |-> 0]
  /\ streams = <<>> /\ sockmap = NoOne
  /\ stop = FALSE /\ stopped = FALSE

SenderStep(a) == SkipMissingFile(a) \/ SendStart(a) \/ SendPiece(a) \/ SendFinish(a)
AgentNext == \E a \in Agents : RunEnds(a) \/ SenderStep(a) \/ Vanish(a) \/ Rejoin(a)

NotFiles == UNCHANGED <<agentVars, fileVars, stopVars>>
ThreadStep == IdlerNext /\ NotFiles
Pausing == (Acknowledged \/ TimedOut) /\ NotFiles
RunUntilStep ==
  \/ Clear \/ RunsComplete \/ NoAgentsLeft \/ DrainFindsStop \/ Drained \/ AllKilled
  \/ ResumeIdle /\ NotFiles
ProgramStep == (PauseIdle \/ EndIdle \/ Joined) /\ NotFiles
MasterNext ==
  \/ ThreadStep \/ Pausing \/ RunUntilStep \/ ProgramStep
  \/ \E a \in Agents : ProcessMessage(a)

Next == MasterNext \/ AgentNext \/ CreateStop \/ RemoveStop
Spec == Init /\ [][Next]_vars

-----------------------------------------------------------------------------
TypeOK ==
  /\ IdleTypeOK
  /\ link \in [Agents -> {"up", "down", "none"}]
  /\ DOMAIN streams \subseteq Names
  /\ \A n \in DOMAIN streams : streams[n] \in Seq(1 .. MaxPieces)
  /\ sockmap \in [Agents -> Names \cup {NoName}]

(* AtMostOneLeftoverPass: the idle thread may have seen currently_idle just     *)
(* before pause_idle lowers it, and pause_idle may give up waiting; but inside  *)
(* one run_until it begins at most one more pass.                              *)
AtMostOneLeftoverPass == passes <= 1

Pieces(n) == [i \in 1 .. n |-> i]

(* WholeFiles: when the master calls a file closed on FINISH it has every piece *)
(* the agent sent, in order and once, whichever of its two threads read them,   *)
(* however the maps were cleared and closed on the way, and although an agent   *)
(* that comes back or repeats a run writes to the same name.  (Once the drain   *)
(* loop has met pest.stp a stream may lose its owner and so be written twice.)  *)
WholeFiles ==
  [][\A a \in Agents :
       ~stopped /\ wire[a] # <<>> /\ wire'[a] = Tail(wire[a]) /\ Head(wire[a]).type = "FINISH"
         /\ Opened(Head(wire[a]).name)
       => streams[Head(wire[a]).name] = Pieces(Head(wire[a]).k)]_vars

(* StreamsHaveOwners: the drain loop can close a stream only by its agent's     *)
(* FINISH or through the map of sockets.  Unless pest.stp made it close streams *)
(* early, every open stream is that of the socket of an agent that is still     *)
(* connected, so a file whose agent vanishes is closed too.                     *)
StreamsHaveOwners ==
  ~stopped => \A n \in DOMAIN streams : link[n[1]] # "none" /\ sockmap[n[1]] = n

-----------------------------------------------------------------------------
(* Liveness.  Both threads keep running and an agent that is there goes on with *)
(* the file it is sending.  Nothing is assumed of new runs, of agents that      *)
(* vanish or come back and of the user, and pause_idle need not time out.       *)
Fairness ==
  /\ WF_vars(ThreadStep) /\ WF_vars(RunUntilStep)
  /\ WF_vars(Acknowledged /\ NotFiles) /\ WF_vars(Joined /\ NotFiles)
  /\ \A a \in Agents : WF_vars(ProcessMessage(a)) /\ WF_vars(SenderStep(a))

FairSpec == Spec /\ Fairness

(* PauseIsAnswered: pause_idle always gets its answer, so its time-out only     *)
(* shortens the wait.                                                          *)
PauseIsAnswered == main = "pausing" ~> main = "clearing"

(* DrainEnds: run_until returns from waiting for files, although agents may     *)
(* vanish in the middle of one, unless it met pest.stp.                         *)
DrainEnds == main = "draining" ~> main # "draining" \/ stopped

(* StopEndsDrain: once pest.stp is found "the run manager will ... return       *)
(* control to the calling program" (users' manual, pest.stp).                   *)
StopEndsDrain == main = "draining" /\ stop ~> main # "draining"

(* ShutdownEnds: the destructor does not wait for ever for the idle thread.     *)
ShutdownEnds == main = "ending" ~> main = "closed"

(* IdleWorkResumes: as long as the program stays between two calls, agents are  *)
(* heard again and again, however the last pause and resume interleaved.        *)
IdleWorkResumes == <>[](main = "program" /\ Started) => []<>(idler = "listen")
=============================================================================
