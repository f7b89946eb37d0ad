-------------------------- MODULE FileTransferProofs --------------------------
(***************************************************************************)
(* Proofs about the idle thread and about the transfer of files, for any     *)
(* number of agents, runs, files, pieces and messages: inside a run_until    *)
(* the idle thread begins at most one pass, also when pause_idle gives up    *)
(* waiting; every open stream has a sender; and files arrive whole.          *)
(***************************************************************************)
EXTENDS FileTransfer, SequenceTheorems, TLAPS

(* The inductive invariant: between pause_idle and resume_idle currently_idle is *)
(* down, so the idle thread only gets to a pass it had decided on before, and it *)
(* can have decided on one only.                                               *)
Asked == main = "pausing" \/ InRunUntil
PassesOutside == ~InRunUntil => passes = 0
FlagIsDown == Asked /\ Started => ~currently_idle
DecidedOnce == idler = "mark" => passes = 0

IdleInv ==
  /\ IdleTypeOK /\ PassesOutside /\ FlagIsDown /\ DecidedOnce
  /\ AtMostOneLeftoverPass

LEMMA InitIdleInv == Init => IdleInv
<1> SUFFICES ASSUME Init PROVE IdleInv
  OBVIOUS
<1>1. /\ currently_idle \in BOOLEAN /\ idling \in BOOLEAN
      /\ terminate_idle_thread \in BOOLEAN /\ idle_thread_finished \in BOOLEAN
  BY Zenon DEF Init, IdleInit
<1>2. main = "program" /\ idler = "none" /\ passes = 0
  BY DEF Init, IdleInit
<1>3. QED
  BY <1>1, <1>2 DEF IdleInv, IdleTypeOK, PassesOutside, FlagIsDown, DecidedOnce,
         AtMostOneLeftoverPass, Asked, InRunUntil, Started, MainStates, IdlerStates

(* Steps that leave the idle thread and its flags alone. *)
LEMMA StutterIdleInv == ASSUME IdleInv, UNCHANGED idleVars PROVE IdleInv'
  BY DEF idleVars, flags, IdleInv, IdleTypeOK, PassesOutside, FlagIsDown, DecidedOnce,
         AtMostOneLeftoverPass, Asked, InRunUntil, Started

(* The steps of the idle thread itself. *)
LEMMA IdlerIdleInv == ASSUME IdleInv, IdlerNext PROVE IdleInv'
<1> USE DEF IdleInv, IdleTypeOK, PassesOutside, FlagIsDown, DecidedOnce,
            AtMostOneLeftoverPass, Asked, InRunUntil, Started, IdlerStates,
            GoTo, ByMain, ByIdler, flags
<1>1. CASE Begin   BY <1>1 DEF Begin
<1>2. CASE Loop    BY <1>2 DEF Loop
<1>3. CASE Check
  <2>1. currently_idle => passes = 0
    BY <1>3 DEF Check
  <2>2. QED
    BY <1>3, <2>1 DEF Check
<1>4. CASE Unmark  BY <1>4 DEF Unmark
<1>5. CASE Mark    BY <1>5 DEF Mark
<1>6. CASE InitDone   BY <1>6 DEF InitDone
<1>7. CASE ListenDone BY <1>7 DEF ListenDone
<1>8. CASE PingDone   BY <1>8 DEF PingDone
<1>9. CASE Leave      BY <1>9 DEF Leave
<1>10. CASE Leaving   BY <1>10 DEF Leaving
<1>11. QED
  BY <1>1, <1>2, <1>3, <1>4, <1>5, <1>6, <1>7, <1>8, <1>9, <1>10 DEF IdlerNext

(* run_until goes from one of its stages to the next. *)
LEMMA StageIdleInv ==
  ASSUME NEW from, NEW to, IdleInv, RunUntilGoes(from, to),
         from \in {"clearing", "running", "draining", "killing"},
         to \in {"clearing", "running", "draining", "killing", "resuming"}
  PROVE  IdleInv'
  BY DEF IdleInv, IdleTypeOK, PassesOutside, FlagIsDown, DecidedOnce,
         AtMostOneLeftoverPass, Asked, InRunUntil, Started, MainStates, RunUntilGoes, Go, flags

(* The steps of the program's thread that touch the flags. *)
LEMMA MainIdleInv ==
  ASSUME IdleInv,
         PauseIdle \/ Acknowledged \/ TimedOut \/ ResumeIdle \/ EndIdle \/ Joined
  PROVE  IdleInv'
<1> USE DEF IdleInv, IdleTypeOK, PassesOutside, FlagIsDown, DecidedOnce,
            AtMostOneLeftoverPass, Asked, InRunUntil, Started, MainStates, IdlerStates,
            Go, GoTo, ByMain, flags
<1>1. CASE PauseIdle    BY <1>1 DEF PauseIdle
<1>2. CASE Acknowledged BY <1>2 DEF Acknowledged
<1>3. CASE TimedOut     BY <1>3 DEF TimedOut
<1>4. CASE ResumeIdle
  <2>1. /\ currently_idle' \in BOOLEAN /\ idling' \in BOOLEAN
        /\ terminate_idle_thread' \in BOOLEAN /\ idle_thread_finished' \in BOOLEAN
    BY <1>4, Zenon DEF ResumeIdle
  <2>2. /\ main' = "program" /\ passes' = 0
        /\ idler' \in IdlerStates
    BY <1>4 DEF ResumeIdle
  <2>3. QED
    BY <2>1, <2>2
<1>5. CASE EndIdle      BY <1>5 DEF EndIdle
<1>6. CASE Joined       BY <1>6 DEF Joined
<1>7. QED
  BY <1>1, <1>2, <1>3, <1>4, <1>5, <1>6

LEMMA NextIdleInv == ASSUME IdleInv, [Next]_vars PROVE IdleInv'
<1>1. CASE ThreadStep
  BY <1>1, IdlerIdleInv DEF ThreadStep
<1>2. CASE Pausing \/ ProgramStep
  BY <1>2, MainIdleInv DEF Pausing, ProgramStep
<1>3. CASE RunUntilStep
  <2>1. CASE Clear        BY <2>1, StageIdleInv DEF Clear
  <2>2. CASE RunsComplete BY <2>2, StageIdleInv DEF RunsComplete
  <2>3. CASE NoAgentsLeft \/ DrainFindsStop
    BY <2>3, StutterIdleInv DEF NoAgentsLeft, DrainFindsStop
  <2>4. CASE Drained      BY <2>4, StageIdleInv DEF Drained
  <2>5. CASE AllKilled    BY <2>5, StageIdleInv DEF AllKilled
  <2>6. CASE ResumeIdle   BY <2>6, MainIdleInv
  <2>7. QED
    BY <1>3, <2>1, <2>2, <2>3, <2>4, <2>5, <2>6 DEF RunUntilStep
<1>4. ASSUME NEW a \in Agents, ProcessMessage(a) PROVE IdleInv'
  BY <1>4, StutterIdleInv DEF ProcessMessage
<1>5. CASE AgentNext
  <2>1. UNCHANGED idleVars
    BY <1>5 DEF AgentNext, RunEnds, SenderStep, SkipMissingFile, SendStart, SendPiece,
                SendFinish, Vanish, Rejoin, ByAgent
  <2>2. QED
    BY <2>1, StutterIdleInv
<1>6. CASE CreateStop \/ RemoveStop
  BY <1>6, StutterIdleInv DEF CreateStop, RemoveStop
<1>7. CASE UNCHANGED vars
  BY <1>7, StutterIdleInv DEF vars
<1>8. QED
  BY <1>1, <1>2, <1>3, <1>4, <1>5, <1>6, <1>7 DEF Next, MasterNext

(* The idle thread begins at most one pass inside a run_until. *)
THEOREM LeftoverPassBound == Spec => []AtMostOneLeftoverPass
<1>1. Init => IdleInv
  BY InitIdleInv
<1>2. IdleInv /\ [Next]_vars => IdleInv'
  BY NextIdleInv
<1>3. IdleInv => AtMostOneLeftoverPass
  BY DEF IdleInv
<1>4. QED
  BY <1>1, <1>2, <1>3, PTL DEF Spec
-----------------------------------------------------------------------------
(* The files.  An agent's messages stay in order: on each wire a file that has  *)
(* been begun goes on with its next piece, its end or the loss of the agent, and *)
(* the sender stands behind the last message.  So what the master has of a file  *)
(* and what is still to come are always one whole file.                         *)

(* What an agent may be sending, and what may be on its wire. *)
Sending == [run : {{r} : r \in Runs}, file : 1 .. NFiles, size : 0 .. MaxPieces, next : Nat]
Msgs == [type : {"START", "CONT", "FINISH", "EOF"}, name : Names \cup {NoName}, k : Nat]
Addressed(a, m) ==
  m.type # "EOF" => /\ m.name \in Names /\ m.name[1] = a
                    /\ m.type = "START" => m.k = 0
                    /\ m.type = "CONT" => m.k \in 1 .. MaxPieces

(* Nothing follows an EOF; a file that has been begun goes on with its next piece, *)
(* its end or the loss of its agent.                                              *)
InFile(m) == m.type \in {"START", "CONT"}
Continues(m, x) ==
  \/ x.type = "EOF"
  \/ x.type = "CONT" /\ x.name = m.name /\ x.k = m.k + 1
  \/ x.type = "FINISH" /\ x.name = m.name /\ x.k = m.k
Follows(m, x) == m.type # "EOF" /\ (InFile(m) => Continues(m, x))

(* The sender's next message is the one after m. *)
SenderAt(a, m) ==
  /\ link[a] = "up" /\ snd[a] # Resting
  /\ NameOf(a) = m.name /\ snd[a].next = m.k + 1
LastFits(a, m) ==
  /\ InFile(m) => SenderAt(a, m)
  /\ m.type = "EOF" => link[a] = "down"

WireInOrder(a) ==
  /\ \A i \in 1 .. Len(wire[a]) : Addressed(a, wire[a][i])
  /\ \A i \in 1 .. Len(wire[a]) - 1 : Follows(wire[a][i], wire[a][i + 1])
  /\ wire[a] # <<>> => LastFits(a, wire[a][Len(wire[a])])
  /\ link[a] = "none" => wire[a] = <<>>

SendInv ==
  /\ link \in [Agents -> {"up", "down", "none"}]
  /\ snd \in [Agents -> Sending \cup {Resting}]
  /\ wire \in [Agents -> Seq(Msgs)]
  /\ \A a \in Agents : WireInOrder(a)

(* What the master has of the file of a's socket: its first pieces, and the rest *)
(* is still to come.                                                            *)
Written(n) == [type |-> "CONT", name |-> n, k |-> Len(streams[n])]
StillToCome(a, m) ==
  IF wire[a] = <<>> THEN SenderAt(a, m) ELSE Continues(m, Head(wire[a]))
NoneOpen(a) == \A n \in DOMAIN streams : n[1] # a
OneOpen(a, n) ==
  /\ n \in DOMAIN streams /\ n[1] = a
  /\ \A m \in DOMAIN streams : m[1] = a => m = n
  /\ streams[n] = Pieces(Len(streams[n]))
  /\ StillToCome(a, Written(n))
Owned(a) == \/ sockmap[a] = NoName /\ NoneOpen(a)
            \/ OneOpen(a, sockmap[a])

StreamInv ==
  /\ DOMAIN streams \subseteq Names
  /\ \A n \in DOMAIN streams : streams[n] \in Seq(1 .. MaxPieces)
  /\ sockmap \in [Agents -> Names \cup {NoName}]
  /\ ~stopped => \A a \in Agents : Owned(a)
-----------------------------------------------------------------------------
LEMMA NamesOfSenders ==
  ASSUME NEW a \in Agents, NEW s \in Sending, snd[a] = s
  PROVE  NameOf(a) \in Names /\ NameOf(a)[1] = a
<1>1. PICK r \in Runs : s.run = {r}
  BY DEF Sending
<1>2. (CHOOSE q \in Runs : q \in snd[a].run) \in Runs
  BY <1>1
<1>3. snd[a].file \in 1 .. NFiles
  BY DEF Sending
<1> QED BY <1>2, <1>3 DEF NameOf, Names

LEMMA NameStays ==
  ASSUME NEW a, snd'[a].run = snd[a].run, snd'[a].file = snd[a].file
  PROVE  NameOf(a)' = NameOf(a)
BY DEF NameOf

(* A wire that nothing is done to. *)
LEMMA QuietWire ==
  ASSUME NEW a, WireInOrder(a), wire'[a] = wire[a], link'[a] = link[a], snd'[a] = snd[a]
  PROVE  WireInOrder(a)'
<1>1. NameOf(a)' = NameOf(a)
  BY NameStays
<1> QED BY <1>1 DEF WireInOrder, LastFits, SenderAt, Addressed

(* One more message on a wire. *)
LEMMA AppendInOrder ==
  ASSUME NEW w \in Seq(Msgs), NEW x \in Msgs, NEW a,
         \A i \in 1 .. Len(w) : Addressed(a, w[i]), Addressed(a, x),
         \A i \in 1 .. Len(w) - 1 : Follows(w[i], w[i + 1]),
         w # <<>> => Follows(w[Len(w)], x)
  PROVE  /\ Append(w, x) \in Seq(Msgs) /\ Append(w, x) # <<>>
         /\ Append(w, x)[Len(Append(w, x))] = x
         /\ \A i \in 1 .. Len(Append(w, x)) : Addressed(a, Append(w, x)[i])
         /\ \A i \in 1 .. Len(Append(w, x)) - 1 : Follows(Append(w, x)[i], Append(w, x)[i + 1])
<1> DEFINE v == Append(w, x)
<1>1. /\ v \in Seq(Msgs) /\ Len(v) = Len(w) + 1 /\ Len(w) \in Nat
      /\ \A i \in 1 .. Len(w) : v[i] = w[i]
      /\ v[Len(w) + 1] = x
  BY AppendProperties
<1>2. w = <<>> <=> Len(w) = 0
  BY EmptySeq
<1> HIDE DEF v
<1>3. v # <<>>
  BY <1>1, EmptySeq
<1>4. \A i \in 1 .. Len(v) : Addressed(a, v[i])
  BY <1>1
<1>5. ASSUME NEW i \in 1 .. Len(v) - 1 PROVE Follows(v[i], v[i + 1])
  <2>1. CASE i = Len(w)
    BY <1>1, <1>2, <2>1
  <2>2. CASE i # Len(w)
    <3>1. i \in 1 .. Len(w) - 1 /\ i + 1 \in 1 .. Len(w) /\ i \in 1 .. Len(w)
      BY <1>1, <2>2
    <3> QED BY <1>1, <3>1
  <2> QED BY <2>1, <2>2
<1> QED BY <1>1, <1>3, <1>4, <1>5 DEF v

(* An agent sends x and goes on to s. *)
LEMMA SendKeepsOrder ==
  ASSUME NEW a \in Agents, SendInv, NEW x \in Msgs, NEW s \in Sending \cup {Resting},
         Up(a), Addressed(a, x), x.type # "EOF",
         wire[a] # <<>> => Follows(wire[a][Len(wire[a])], x),
         wire' = [wire EXCEPT ![a] = Append(@, x)],
         snd' = [snd EXCEPT ![a] = s], UNCHANGED link,
         InFile(x) => SenderAt(a, x)'
  PROVE  SendInv'
<1>1. /\ wire[a] \in Seq(Msgs) /\ wire'[a] = Append(wire[a], x)
      /\ snd'[a] = s
      /\ \A b \in Agents : b # a => wire'[b] = wire[b] /\ snd'[b] = snd[b] /\ link'[b] = link[b]
  BY DEF SendInv
<1>2. WireInOrder(a)
  BY DEF SendInv
<1>3. WireInOrder(a)'
  <2>1. /\ wire'[a] \in Seq(Msgs) /\ wire'[a] # <<>>
        /\ wire'[a][Len(wire'[a])] = x
        /\ \A i \in 1 .. Len(wire'[a]) : Addressed(a, wire'[a][i])
        /\ \A i \in 1 .. Len(wire'[a]) - 1 : Follows(wire'[a][i], wire'[a][i + 1])
    <3> DEFINE w == wire[a]
    <3>1. /\ w \in Seq(Msgs) /\ wire'[a] = Append(w, x)
          /\ \A i \in 1 .. Len(w) : Addressed(a, w[i])
          /\ \A i \in 1 .. Len(w) - 1 : Follows(w[i], w[i + 1])
          /\ w # <<>> => Follows(w[Len(w)], x)
      BY <1>1, <1>2 DEF WireInOrder
    <3> HIDE DEF w
    <3> QED BY ONLY <3>1, AppendInOrder, x \in Msgs, Addressed(a, x)
  <2>2. LastFits(a, x)'
    BY DEF LastFits, InFile
  <2> QED BY <2>1, <2>2 DEF WireInOrder, Up
<1>4. \A b \in Agents : WireInOrder(b)'
  BY <1>1, <1>3, QuietWire DEF SendInv
<1>5. wire' \in [Agents -> Seq(Msgs)]
  <2>1. wire'[a] \in Seq(Msgs)
    BY <1>1, AppendProperties
  <2> QED BY <1>1, <2>1 DEF SendInv
<1>6. link' \in [Agents -> {"up", "down", "none"}] /\ snd' \in [Agents -> Sending \cup {Resting}]
  BY DEF SendInv
<1> QED BY <1>4, <1>5, <1>6 DEF SendInv

(* The sender goes on without a message. *)
LEMMA QuietSendKeepsOrder ==
  ASSUME NEW a \in Agents, SendInv, NEW s \in Sending \cup {Resting},
         snd' = [snd EXCEPT ![a] = s], UNCHANGED <<link, wire>>,
         wire[a] # <<>> => ~InFile(wire[a][Len(wire[a])])
  PROVE  SendInv'
<1>1. \A b \in Agents : b # a => snd'[b] = snd[b]
  BY DEF SendInv
<1>2. WireInOrder(a)'
  <2>1. WireInOrder(a)
    BY DEF SendInv
  <2> QED BY <2>1 DEF WireInOrder, LastFits, Addressed
<1>3. \A b \in Agents : WireInOrder(b)'
  BY <1>1, <1>2, QuietWire DEF SendInv
<1> QED BY <1>3 DEF SendInv

LEMMA SendersSend == ASSUME NEW a \in Agents, SendInv, Sends(a) PROVE snd[a] \in Sending
BY DEF SendInv, Sends

LEMMA NextFileIsSent ==
  ASSUME NEW a \in Agents, SendInv, Sends(a), NextFile(a)
  PROVE  \E s \in Sending \cup {Resting} : snd' = [snd EXCEPT ![a] = s]
<1>1. snd[a] \in Sending
  BY SendersSend
<1> DEFINE t == FileAfter(snd[a])
<1>2. CASE snd[a].file = NFiles
  BY <1>2 DEF NextFile
<1>3. CASE snd[a].file # NFiles
  <2>1. t \in Sending
    BY <1>1, <1>3, FilesAssumption DEF Sending, FileAfter
  <2>2. snd' = [snd EXCEPT ![a] = t]
    BY <1>3 DEF NextFile
  <2> QED BY <2>1, <2>2
<1> QED BY <1>2, <1>3

(* An agent that has not begun its file, or sends none, has left none unfinished. *)
LEMMA NothingBegun ==
  ASSUME NEW a \in Agents, SendInv, snd[a] = Resting \/ snd[a].next = 0, wire[a] # <<>>
  PROVE  ~InFile(wire[a][Len(wire[a])])
<1>1. wire[a][Len(wire[a])].k \in Nat
  <2>1. wire[a] \in Seq(Msgs) /\ Len(wire[a]) \in 1 .. Len(wire[a])
    BY EmptySeq DEF SendInv
  <2>2. wire[a][Len(wire[a])] \in Msgs
    BY <2>1, ElementOfSeq
  <2> QED BY <2>2 DEF Msgs
<1>2. WireInOrder(a)
  BY DEF SendInv
<1> QED BY <1>1, <1>2 DEF WireInOrder, LastFits, SenderAt

(* The next message of a sender follows its last one. *)
LEMMA NextFollows ==
  ASSUME NEW a \in Agents, SendInv, Sends(a), NEW x \in Msgs,
         x.name = NameOf(a),
         \/ x.type = "START" /\ snd[a].next = 0
         \/ x.type = "CONT" /\ x.k = snd[a].next
         \/ x.type = "FINISH" /\ x.k = snd[a].next - 1,
         wire[a] # <<>>
  PROVE  Follows(wire[a][Len(wire[a])], x)
<1> DEFINE m == wire[a][Len(wire[a])]
<1>1. m \in Msgs
  BY EmptySeq, ElementOfSeq DEF SendInv
<1>2. LastFits(a, m)
  BY DEF SendInv, WireInOrder
<1>3. snd[a].next \in Nat /\ link[a] = "up"
  BY SendersSend DEF Sending, Sends, Up
<1> HIDE DEF m
<1>4. m.type # "EOF"
  BY <1>2, <1>3 DEF LastFits
<1>5. ASSUME InFile(m) PROVE Continues(m, x)
  <2>1. x.name = m.name /\ snd[a].next = m.k + 1 /\ m.k \in Nat
    BY <1>1, <1>2, <1>5 DEF LastFits, SenderAt, Msgs
  <2> QED BY <1>3, <2>1 DEF Continues
<1> QED BY <1>4, <1>5 DEF Follows, m

LEMMA SkipKeepsOrder == ASSUME NEW a \in Agents, SendInv, SkipMissingFile(a) PROVE SendInv'
BY NothingBegun, NextFileIsSent, QuietSendKeepsOrder DEF SkipMissingFile

LEMMA RunEndsKeepsOrder == ASSUME NEW a \in Agents, SendInv, RunEnds(a) PROVE SendInv'
<1>1. PICK r \in Runs : snd' = [snd EXCEPT ![a] = [run |-> {r}, file |-> 1, size |-> 0, next |-> 0]]
  BY DEF RunEnds
<1>2. [run |-> {r}, file |-> 1, size |-> 0, next |-> 0] \in Sending
  BY FilesAssumption DEF Sending
<1>3. snd[a] = Resting /\ UNCHANGED <<link, wire>>
  BY DEF RunEnds
<1> QED BY <1>1, <1>2, <1>3, NothingBegun, QuietSendKeepsOrder

LEMMA StartKeepsOrder == ASSUME NEW a \in Agents, SendInv, SendStart(a) PROVE SendInv'
<1>1. PICK n \in 0 .. MaxPieces : snd' = [snd EXCEPT ![a].size = n, ![a].next = 1]
  BY DEF SendStart
<1>2. snd[a] \in Sending /\ snd \in [Agents -> Sending \cup {Resting}]
  BY SendersSend DEF SendStart, SendInv
<1>3. NameOf(a) \in Names /\ NameOf(a)[1] = a
  BY <1>2, NamesOfSenders
<1>4. PICK x \in Msgs : x = [type |-> "START", name |-> NameOf(a), k |-> 0]
  BY <1>3 DEF Msgs
<1>5. PICK s \in Sending : s = [snd[a] EXCEPT !.size = n, !.next = 1]
  BY <1>2 DEF Sending
<1>6. snd' = [snd EXCEPT ![a] = s] /\ snd'[a] = s
  BY <1>1, <1>2, <1>5
<1>7. NameOf(a)' = NameOf(a)
  BY <1>2, <1>5, <1>6, NameStays DEF Sending
<1>8. /\ Up(a) /\ UNCHANGED link /\ wire' = [wire EXCEPT ![a] = Append(@, x)]
      /\ Sends(a) /\ snd[a].next = 0
  BY <1>4 DEF SendStart, Send, Sends
<1>9. SenderAt(a, x)'
  BY <1>2, <1>4, <1>5, <1>6, <1>7, <1>8 DEF SenderAt, Up, Sending, Resting
<1>10. wire[a] # <<>> => Follows(wire[a][Len(wire[a])], x)
  BY <1>4, <1>8, NextFollows
<1>11. Addressed(a, x) /\ x.type # "EOF"
  BY <1>3, <1>4 DEF Addressed
<1> QED BY <1>5, <1>6, <1>8, <1>9, <1>10, <1>11, SendKeepsOrder

LEMMA PieceKeepsOrder == ASSUME NEW a \in Agents, SendInv, SendPiece(a) PROVE SendInv'
<1>1. snd[a] \in Sending /\ snd \in [Agents -> Sending \cup {Resting}]
  BY SendersSend DEF SendPiece, SendInv
<1>2. NameOf(a) \in Names /\ NameOf(a)[1] = a
  BY <1>1, NamesOfSenders
<1>3. snd[a].next \in 1 .. MaxPieces /\ snd[a].next \in Nat
  BY <1>1, FilesAssumption DEF SendPiece, Sending
<1>4. PICK x \in Msgs : x = [type |-> "CONT", name |-> NameOf(a), k |-> snd[a].next]
  BY <1>2, <1>3 DEF Msgs
<1>5. PICK s \in Sending : s = [snd[a] EXCEPT !.next = @ + 1]
  <2>1. [snd[a] EXCEPT !.next = @ + 1] \in Sending
    BY <1>1, <1>3 DEF Sending
  <2> QED BY <2>1
<1>6. snd' = [snd EXCEPT ![a] = s] /\ snd'[a] = s
  BY <1>1, <1>5 DEF SendPiece
<1>7. NameOf(a)' = NameOf(a)
  BY <1>1, <1>5, <1>6, NameStays DEF Sending
<1>8. Up(a) /\ UNCHANGED link /\ wire' = [wire EXCEPT ![a] = Append(@, x)] /\ Sends(a)
  BY <1>4 DEF SendPiece, Send, Sends
<1>9. SenderAt(a, x)'
  BY <1>1, <1>3, <1>4, <1>5, <1>6, <1>7, <1>8 DEF SenderAt, Up, Sending, Resting
<1>10. wire[a] # <<>> => Follows(wire[a][Len(wire[a])], x)
  BY <1>4, <1>8, NextFollows
<1>11. Addressed(a, x) /\ x.type # "EOF"
  BY <1>2, <1>3, <1>4 DEF Addressed
<1> QED BY <1>5, <1>6, <1>8, <1>9, <1>10, <1>11, SendKeepsOrder

LEMMA FinishKeepsOrder == ASSUME NEW a \in Agents, SendInv, SendFinish(a) PROVE SendInv'
<1>1. Sends(a) /\ NextFile(a) /\ snd[a].next = snd[a].size + 1
  BY DEF SendFinish
<1>2. snd[a] \in Sending
  BY <1>1, SendersSend
<1>3. NameOf(a) \in Names /\ NameOf(a)[1] = a
  BY <1>2, NamesOfSenders
<1>4. snd[a].size \in Nat
  BY <1>2, FilesAssumption DEF Sending
<1>5. PICK x \in Msgs : x = [type |-> "FINISH", name |-> NameOf(a), k |-> snd[a].size]
  BY <1>3, <1>4 DEF Msgs
<1>6. PICK s \in Sending \cup {Resting} : snd' = [snd EXCEPT ![a] = s]
  BY <1>1, NextFileIsSent
<1>7. Up(a) /\ UNCHANGED link /\ wire' = [wire EXCEPT ![a] = Append(@, x)]
  BY <1>5 DEF SendFinish, Send, Sends
<1>8. wire[a] # <<>> => Follows(wire[a][Len(wire[a])], x)
  BY <1>1, <1>4, <1>5, NextFollows
<1>9. Addressed(a, x) /\ x.type # "EOF" /\ ~InFile(x)
  BY <1>3, <1>5 DEF Addressed, InFile
<1> QED BY <1>6, <1>7, <1>8, <1>9, SendKeepsOrder

(* What the master has not read is lost with the connection. *)
LEMMA CutInOrder ==
  ASSUME NEW w \in Seq(Msgs), NEW k \in 0 .. Len(w), NEW a,
         \A i \in 1 .. Len(w) : Addressed(a, w[i]) /\ w[i].type # "EOF",
         \A i \in 1 .. Len(w) - 1 : Follows(w[i], w[i + 1]),
         NEW x \in Msgs, x.type = "EOF"
  PROVE  /\ Append(SubSeq(w, 1, k), x) \in Seq(Msgs) /\ Append(SubSeq(w, 1, k), x) # <<>>
         /\ Append(SubSeq(w, 1, k), x)[Len(Append(SubSeq(w, 1, k), x))] = x
         /\ \A i \in 1 .. Len(Append(SubSeq(w, 1, k), x)) :
              Addressed(a, Append(SubSeq(w, 1, k), x)[i])
         /\ \A i \in 1 .. Len(Append(SubSeq(w, 1, k), x)) - 1 :
              Follows(Append(SubSeq(w, 1, k), x)[i], Append(SubSeq(w, 1, k), x)[i + 1])
<1> DEFINE v == SubSeq(w, 1, k)
<1>1. Len(w) \in Nat /\ \A i \in 1 .. k : w[i] \in Msgs
  BY LenProperties, ElementOfSeq
<1>2. v \in Seq(Msgs) /\ Len(v) = k /\ \A i \in 1 .. k : v[i] = w[i]
  BY <1>1, SubSeqProperties
<1> HIDE DEF v
<1>3. \A i \in 1 .. Len(v) : Addressed(a, v[i])
  BY <1>1, <1>2
<1>4. \A i \in 1 .. Len(v) - 1 : Follows(v[i], v[i + 1])
  BY <1>1, <1>2
<1>5. Addressed(a, x)
  BY DEF Addressed
<1>6. v # <<>> => Follows(v[Len(v)], x)
  <2>1. v # <<>> => k \in 1 .. Len(w) /\ v[k] = w[k]
    BY <1>1, <1>2, EmptySeq
  <2> QED BY <1>2, <2>1 DEF Follows, Continues
<1>7. QED
  BY ONLY <1>2, <1>3, <1>4, <1>5, <1>6, x \in Msgs, AppendInOrder DEF v

LEMMA VanishKeepsOrder == ASSUME NEW a \in Agents, SendInv, Vanish(a) PROVE SendInv'
<1>1. PICK x \in Msgs : x = [type |-> "EOF", name |-> NoName, k |-> 0]
  BY DEF Msgs
<1>2. PICK k \in 0 .. Len(wire[a]) :
        wire' = [wire EXCEPT ![a] = Append(SubSeq(@, 1, k), x)]
  BY <1>1 DEF Vanish
<1>3. /\ link[a] = "up" /\ link' = [link EXCEPT ![a] = "down"]
      /\ snd' = [snd EXCEPT ![a] = Resting]
  BY DEF Vanish, Up
<1>4. wire[a] \in Seq(Msgs) /\ Len(wire[a]) \in Nat /\ WireInOrder(a)
  BY LenProperties DEF SendInv
<1>5. \A i \in 1 .. Len(wire[a]) : wire[a][i].type # "EOF"
  <2> TAKE i \in 1 .. Len(wire[a])
  <2>1. CASE i = Len(wire[a])
    <3>1. wire[a] # <<>>
      BY <1>4, <2>1, EmptySeq
    <3> QED BY <1>3, <1>4, <2>1, <3>1 DEF WireInOrder, LastFits
  <2>2. CASE i # Len(wire[a])
    <3>1. i \in 1 .. Len(wire[a]) - 1
      BY <1>4, <2>2
    <3> QED BY <1>4, <3>1 DEF WireInOrder, Follows
  <2> QED BY <2>1, <2>2
<1>6. /\ wire'[a] = Append(SubSeq(wire[a], 1, k), x) /\ link'[a] = "down"
      /\ \A b \in Agents : b # a => wire'[b] = wire[b] /\ snd'[b] = snd[b] /\ link'[b] = link[b]
  BY <1>2, <1>3 DEF SendInv
<1>7. /\ wire'[a] \in Seq(Msgs) /\ wire'[a] # <<>>
      /\ wire'[a][Len(wire'[a])] = x
      /\ \A i \in 1 .. Len(wire'[a]) : Addressed(a, wire'[a][i])
      /\ \A i \in 1 .. Len(wire'[a]) - 1 : Follows(wire'[a][i], wire'[a][i + 1])
  <2> DEFINE w == wire[a]
  <2>1. /\ w \in Seq(Msgs) /\ wire'[a] = Append(SubSeq(w, 1, k), x)
        /\ \A i \in 1 .. Len(w) : Addressed(a, w[i]) /\ w[i].type # "EOF"
        /\ \A i \in 1 .. Len(w) - 1 : Follows(w[i], w[i + 1])
        /\ x.type = "EOF" /\ k \in 0 .. Len(w)
    BY <1>1, <1>4, <1>5, <1>6 DEF WireInOrder
  <2> HIDE DEF w
  <2> DEFINE u == Append(SubSeq(w, 1, k), x)
  <2>2. /\ u \in Seq(Msgs) /\ u # <<>> /\ u[Len(u)] = x
        /\ \A i \in 1 .. Len(u) : Addressed(a, u[i])
        /\ \A i \in 1 .. Len(u) - 1 : Follows(u[i], u[i + 1])
    BY <2>1, CutInOrder
  <2>3. wire'[a] = u
    BY <2>1
  <2> HIDE DEF u
  <2> QED BY <2>2, <2>3
<1>8. LastFits(a, x)'
  BY <1>1, <1>6 DEF LastFits, InFile
<1>9. WireInOrder(a)'
  BY <1>6, <1>7, <1>8 DEF WireInOrder
<1>10. \A b \in Agents : WireInOrder(b)'
  BY <1>6, <1>9, QuietWire DEF SendInv
<1>11. wire' \in [Agents -> Seq(Msgs)]
  BY <1>2, <1>6, <1>7 DEF SendInv
<1>12. link' \in [Agents -> {"up", "down", "none"}] /\ snd' \in [Agents -> Sending \cup {Resting}]
  BY <1>3 DEF SendInv
<1> QED BY <1>10, <1>11, <1>12 DEF SendInv

LEMMA RejoinKeepsOrder == ASSUME NEW a \in Agents, SendInv, Rejoin(a) PROVE SendInv'
<1>1. /\ link[a] = "none" /\ link' = [link EXCEPT ![a] = "up"] /\ UNCHANGED <<wire, snd>>
  BY DEF Rejoin
<1>2. WireInOrder(a)'
  BY <1>1 DEF SendInv, WireInOrder, Addressed
<1>3. \A b \in Agents : WireInOrder(b)'
  BY <1>1, <1>2, QuietWire DEF SendInv
<1> QED BY <1>1, <1>3 DEF SendInv

(* The master reads the first message of a wire. *)
LEMMA TailInOrder ==
  ASSUME NEW w \in Seq(Msgs), w # <<>>, NEW a,
         \A i \in 1 .. Len(w) : Addressed(a, w[i]),
         \A i \in 1 .. Len(w) - 1 : Follows(w[i], w[i + 1])
  PROVE  /\ Tail(w) \in Seq(Msgs) /\ Addressed(a, Head(w))
         /\ \A i \in 1 .. Len(Tail(w)) : Addressed(a, Tail(w)[i])
         /\ \A i \in 1 .. Len(Tail(w)) - 1 : Follows(Tail(w)[i], Tail(w)[i + 1])
         /\ Tail(w) = <<>> => Head(w) = w[Len(w)]
         /\ Tail(w) # <<>> => /\ Tail(w)[Len(Tail(w))] = w[Len(w)]
                              /\ Follows(Head(w), Head(Tail(w)))
<1> DEFINE v == Tail(w)
<1>1. /\ v \in Seq(Msgs) /\ Len(w) \in Nat \ {0} /\ Len(v) = Len(w) - 1
      /\ \A i \in 1 .. Len(v) : v[i] = w[i + 1]
  BY HeadTailProperties, EmptySeq
<1>2. Head(w) = w[1] /\ Addressed(a, w[1])
  BY <1>1
<1>3. v # <<>> => Head(v) = v[1]
  BY <1>1
<1>4. v = <<>> <=> Len(v) = 0
  BY <1>1, EmptySeq
<1> HIDE DEF v
<1>5. \A i \in 1 .. Len(v) : Addressed(a, v[i])
  BY <1>1
<1>6. \A i \in 1 .. Len(v) - 1 : Follows(v[i], v[i + 1])
  BY <1>1
<1>7. v = <<>> => Head(w) = w[Len(w)]
  <2> SUFFICES ASSUME v = <<>> PROVE Head(w) = w[Len(w)]
    OBVIOUS
  <2>1. Len(w) = 1
    BY <1>1, <1>4
  <2> QED BY <1>2, <2>1
<1>8. v # <<>> => v[Len(v)] = w[Len(w)] /\ Follows(Head(w), Head(v))
  BY <1>1, <1>2, <1>3, <1>4
<1> QED BY <1>1, <1>2, <1>5, <1>6, <1>7, <1>8 DEF v

(* What a message that the master reads says of the wire and of its sender. *)
LEMMA MessageRead ==
  ASSUME NEW a \in Agents, SendInv, wire[a] # <<>>
  PROVE  /\ Tail(wire[a]) \in Seq(Msgs) /\ Addressed(a, Head(wire[a])) /\ Head(wire[a]) \in Msgs
         /\ \A i \in 1 .. Len(Tail(wire[a])) : Addressed(a, Tail(wire[a])[i])
         /\ \A i \in 1 .. Len(Tail(wire[a])) - 1 : Follows(Tail(wire[a])[i], Tail(wire[a])[i + 1])
         /\ Tail(wire[a]) = <<>> => LastFits(a, Head(wire[a]))
         /\ Tail(wire[a]) # <<>> => /\ LastFits(a, Tail(wire[a])[Len(Tail(wire[a]))])
                                    /\ Follows(Head(wire[a]), Head(Tail(wire[a])))
<1>1. WireInOrder(a) /\ wire[a] \in Seq(Msgs)
  BY DEF SendInv
<1>2. Head(wire[a]) \in Msgs
  BY <1>1, HeadTailProperties
<1> DEFINE w == wire[a]
<1>3. /\ w \in Seq(Msgs) /\ w # <<>> /\ LastFits(a, w[Len(w)])
      /\ \A i \in 1 .. Len(w) : Addressed(a, w[i])
      /\ \A i \in 1 .. Len(w) - 1 : Follows(w[i], w[i + 1])
  BY <1>1 DEF WireInOrder
<1> HIDE DEF w
<1>4. /\ Tail(w) \in Seq(Msgs) /\ Addressed(a, Head(w))
      /\ \A i \in 1 .. Len(Tail(w)) : Addressed(a, Tail(w)[i])
      /\ \A i \in 1 .. Len(Tail(w)) - 1 : Follows(Tail(w)[i], Tail(w)[i + 1])
      /\ Tail(w) = <<>> => Head(w) = w[Len(w)]
      /\ Tail(w) # <<>> => /\ Tail(w)[Len(Tail(w))] = w[Len(w)]
                           /\ Follows(Head(w), Head(Tail(w)))
  BY ONLY <1>3, TailInOrder
<1> QED BY <1>2, <1>3, <1>4 DEF w

LEMMA ReadKeepsOrder ==
  ASSUME NEW a \in Agents, SendInv, ProcessMessage(a)
  PROVE  SendInv'
<1>1. /\ wire[a] # <<>> /\ wire' = [wire EXCEPT ![a] = Tail(@)] /\ UNCHANGED snd
      /\ \/ Head(wire[a]).type # "EOF" /\ UNCHANGED link
         \/ Head(wire[a]).type = "EOF" /\ link' = [link EXCEPT ![a] = "none"]
  <2>1. wire[a] # <<>> /\ wire' = [wire EXCEPT ![a] = Tail(@)] /\ UNCHANGED snd
    BY DEF ProcessMessage
  <2>2. CASE Head(wire[a]).type = "START" /\ OnStart(a, Head(wire[a]).name)
    BY <2>1, <2>2 DEF OnStart
  <2>3. CASE Head(wire[a]).type = "CONT" /\ OnPiece(Head(wire[a]).name, Head(wire[a]).k)
    BY <2>1, <2>3 DEF OnPiece
  <2>4. CASE Head(wire[a]).type = "FINISH" /\ OnFinish(a, Head(wire[a]).name)
    BY <2>1, <2>4 DEF OnFinish
  <2>5. CASE Head(wire[a]).type = "EOF" /\ OnLost(a)
    BY <2>1, <2>5 DEF OnLost
  <2> QED BY <2>2, <2>3, <2>4, <2>5 DEF ProcessMessage
<1>2. /\ wire'[a] = Tail(wire[a])
      /\ \A b \in Agents : b # a => wire'[b] = wire[b] /\ snd'[b] = snd[b] /\ link'[b] = link[b]
      /\ wire' \in [Agents -> Seq(Msgs)] /\ snd'[a] = snd[a]
      /\ link' \in [Agents -> {"up", "down", "none"}]
  BY <1>1, MessageRead DEF SendInv
<1>3. /\ \A i \in 1 .. Len(wire'[a]) : Addressed(a, wire'[a][i])
      /\ \A i \in 1 .. Len(wire'[a]) - 1 : Follows(wire'[a][i], wire'[a][i + 1])
  BY <1>1, <1>2, MessageRead
<1>4. CASE Head(wire[a]).type = "EOF"
  <2>1. wire'[a] = <<>>
    BY <1>1, <1>2, <1>4, MessageRead DEF Follows
  <2>2. WireInOrder(a)'
    BY <1>3, <2>1 DEF WireInOrder
  <2>3. \A b \in Agents : WireInOrder(b)'
    BY <1>2, <2>2, QuietWire DEF SendInv
  <2> QED BY <1>1, <1>2, <2>3 DEF SendInv
<1>5. CASE Head(wire[a]).type # "EOF"
  <2>1. link'[a] = link[a] /\ NameOf(a)' = NameOf(a)
    BY <1>1, <1>2, <1>5, NameStays
  <2>2. wire'[a] # <<>> => LastFits(a, wire[a][Len(wire[a])])'
    <3>1. wire[a] \in Seq(Msgs) /\ WireInOrder(a)
      BY DEF SendInv
    <3> QED BY <1>1, <1>2, <2>1, <3>1 DEF WireInOrder, LastFits, SenderAt
  <2>3. link[a] = "none" => FALSE
    BY <1>1 DEF SendInv, WireInOrder
  <2>4. WireInOrder(a)'
    BY <1>3, <2>1, <2>2, <2>3 DEF WireInOrder
  <2>5. \A b \in Agents : WireInOrder(b)'
    BY <1>2, <2>4, QuietWire DEF SendInv
  <2> QED BY <1>1, <1>2, <2>5 DEF SendInv
<1> QED BY <1>4, <1>5

LEMMA InitSendInv == Init => SendInv
<1> SUFFICES ASSUME Init PROVE SendInv
  OBVIOUS
<1>1. /\ link = [a \in Agents |-> "up"] /\ wire = [a \in Agents |-> <<>>]
      /\ snd = [a \in Agents |-> Resting]
  BY DEF Init
<1>2. <<>> \in Seq(Msgs) /\ Len(<<>>) = 0
  BY EmptySeq
<1>3. \A a \in Agents : WireInOrder(a)
  BY <1>1, <1>2 DEF WireInOrder
<1> QED BY <1>1, <1>2, <1>3 DEF SendInv

LEMMA NextSendInv == ASSUME SendInv, [Next]_vars PROVE SendInv'
<1>1. CASE UNCHANGED <<link, wire, snd>>
  <2>1. \A b \in Agents : WireInOrder(b)'
    BY <1>1, QuietWire DEF SendInv
  <2> QED BY <1>1, <2>1 DEF SendInv
<1>2. ASSUME NEW a \in Agents, ProcessMessage(a) PROVE SendInv'
  BY <1>2, ReadKeepsOrder
<1>3. ASSUME NEW a \in Agents, RunEnds(a) \/ SenderStep(a) \/ Vanish(a) \/ Rejoin(a) PROVE SendInv'
  BY <1>3, RunEndsKeepsOrder, SkipKeepsOrder, StartKeepsOrder, PieceKeepsOrder, FinishKeepsOrder,
     VanishKeepsOrder, RejoinKeepsOrder DEF SenderStep
<1>4. CASE ThreadStep \/ Pausing \/ RunUntilStep \/ ProgramStep \/ CreateStop \/ RemoveStop
           \/ UNCHANGED vars
  <2>1. UNCHANGED <<link, wire, snd>>
    BY <1>4 DEF ThreadStep, Pausing, RunUntilStep, ProgramStep, NotFiles, CreateStop, RemoveStop,
       vars, agentVars, Clear, RunsComplete, NoAgentsLeft, DrainFindsStop, Drained, AllKilled
  <2> QED BY <1>1, <2>1
<1> QED BY <1>2, <1>3, <1>4 DEF Next, MasterNext, AgentNext

-----------------------------------------------------------------------------
(* The streams.                                                             *)

LEMMA PiecesGrow ==
  ASSUME NEW k \in Nat, NEW s, s = Pieces(k)
  PROVE  Append(s, k + 1) = Pieces(k + 1) /\ Len(s) = k /\ Len(Append(s, k + 1)) = k + 1
<1>1. s \in Seq(Nat) /\ Len(s) = k
  BY DEF Pieces
<1>2. Pieces(k + 1) \in Seq(Nat) /\ Len(Pieces(k + 1)) = k + 1
  BY DEF Pieces
<1>3. /\ Append(s, k + 1) \in Seq(Nat) /\ Len(Append(s, k + 1)) = k + 1
      /\ \A i \in 1 .. k : Append(s, k + 1)[i] = s[i]
      /\ Append(s, k + 1)[k + 1] = k + 1
  BY <1>1, AppendProperties
<1>4. \A i \in 1 .. k + 1 : Append(s, k + 1)[i] = Pieces(k + 1)[i]
  BY <1>3 DEF Pieces
<1>5. Append(s, k + 1) = Pieces(k + 1)
  BY <1>2, <1>3, <1>4, SeqEqual
<1> QED BY <1>1, <1>3, <1>5

LEMMA NoPieces == <<>> = Pieces(0) /\ Len(<<>>) = 0
BY DEF Pieces

(* An agent whose files and wire are left alone. *)
LEMMA QuietFile ==
  ASSUME NEW a, Owned(a), wire'[a] = wire[a], link'[a] = link[a], snd'[a] = snd[a],
         sockmap'[a] = sockmap[a],
         \A n : n[1] = a => (n \in DOMAIN streams' <=> n \in DOMAIN streams),
         \A n \in DOMAIN streams : n[1] = a => streams'[n] = streams[n]
  PROVE  Owned(a)'
<1>1. NameOf(a)' = NameOf(a)
  BY NameStays
<1>2. CASE sockmap[a] = NoName /\ NoneOpen(a)
  BY <1>2 DEF Owned, NoneOpen
<1>3. CASE OneOpen(a, sockmap[a])
  <2>1. Written(sockmap[a])' = Written(sockmap[a])
    BY <1>3 DEF Written, OneOpen
  <2>2. StillToCome(a, Written(sockmap[a]))'
    BY <1>1, <1>3, <2>1 DEF OneOpen, StillToCome, SenderAt
  <2> QED BY <1>3, <2>2 DEF Owned, OneOpen
<1> QED BY <1>2, <1>3 DEF Owned

(* The sender of an open file goes on with it. *)
LEMMA SentGoesOn ==
  ASSUME NEW a \in Agents, SendInv, NEW m, NEW x \in Msgs, StillToCome(a, m),
         wire' = [wire EXCEPT ![a] = Append(@, x)],
         SenderAt(a, m) => Continues(m, x)
  PROVE  wire'[a] # <<>> /\ Continues(m, Head(wire'[a]))
<1>1. wire[a] \in Seq(Msgs) /\ wire'[a] = Append(wire[a], x)
  BY DEF SendInv
<1>2. CASE wire[a] = <<>>
  BY <1>1, <1>2 DEF StillToCome
<1>3. CASE wire[a] # <<>>
  <2>1. Len(wire[a]) \in Nat \ {0}
    BY <1>1, <1>3, EmptySeq
  <2>2. wire'[a] # <<>> /\ Head(wire'[a]) = Head(wire[a])
    BY <1>1, <2>1, AppendProperties
  <2> QED BY <1>3, <2>2 DEF StillToCome
<1> QED BY <1>2, <1>3

LEMMA AgentGoesOn ==
  ASSUME NEW a \in Agents, SendInv, NEW m, m.k \in Nat, StillToCome(a, m),
         RunEnds(a) \/ SenderStep(a) \/ Vanish(a) \/ Rejoin(a)
  PROVE  wire'[a] # <<>> /\ Continues(m, Head(wire'[a]))
<1>1. CASE RunEnds(a) \/ SkipMissingFile(a)
  <2>1. wire' = wire /\ ~SenderAt(a, m)
    BY <1>1 DEF RunEnds, SkipMissingFile, SenderAt
  <2> QED BY <2>1 DEF StillToCome
<1>2. CASE SendStart(a)
  <2>1. ~SenderAt(a, m)
    BY <1>2 DEF SendStart, SenderAt
  <2>2. snd[a] \in Sending
    BY <1>2, SendersSend DEF SendStart
  <2>3. PICK x \in Msgs : x = [type |-> "START", name |-> NameOf(a), k |-> 0]
    BY <2>2, NamesOfSenders DEF Msgs
  <2>4. wire' = [wire EXCEPT ![a] = Append(@, x)]
    BY <1>2, <2>3 DEF SendStart, Send
  <2> QED BY <2>1, <2>4, SentGoesOn
<1>3. CASE SendPiece(a)
  <2>1. snd[a] \in Sending
    BY <1>3, SendersSend DEF SendPiece
  <2>2. NameOf(a) \in Names /\ snd[a].next \in Nat
    BY <2>1, NamesOfSenders DEF Sending
  <2>3. PICK x \in Msgs : x = [type |-> "CONT", name |-> NameOf(a), k |-> snd[a].next]
    BY <2>2 DEF Msgs
  <2>4. wire' = [wire EXCEPT ![a] = Append(@, x)]
    BY <1>3, <2>3 DEF SendPiece, Send
  <2>5. SenderAt(a, m) => Continues(m, x)
    BY <2>3 DEF SenderAt, Continues
  <2> QED BY <2>4, <2>5, SentGoesOn
<1>4. CASE SendFinish(a)
  <2>1. snd[a] \in Sending
    BY <1>4, SendersSend DEF SendFinish
  <2>2. NameOf(a) \in Names /\ snd[a].size \in Nat /\ snd[a].next = snd[a].size + 1
    BY <1>4, <2>1, NamesOfSenders, FilesAssumption DEF Sending, SendFinish
  <2>3. PICK x \in Msgs : x = [type |-> "FINISH", name |-> NameOf(a), k |-> snd[a].size]
    BY <2>2 DEF Msgs
  <2>4. wire' = [wire EXCEPT ![a] = Append(@, x)]
    BY <1>4, <2>3 DEF SendFinish, Send
  <2>5. SenderAt(a, m) => Continues(m, x)
    BY <2>2, <2>3 DEF SenderAt, Continues
  <2> QED BY <2>4, <2>5, SentGoesOn
<1>5. CASE Vanish(a)
  <2>1. PICK x \in Msgs : x = [type |-> "EOF", name |-> NoName, k |-> 0]
    BY DEF Msgs
  <2>2. PICK k \in 0 .. Len(wire[a]) :
          wire' = [wire EXCEPT ![a] = Append(SubSeq(@, 1, k), x)]
    BY <1>5, <2>1 DEF Vanish
  <2>3. wire[a] \in Seq(Msgs) /\ Len(wire[a]) \in Nat /\ wire'[a] = Append(SubSeq(wire[a], 1, k), x)
    BY <2>2, LenProperties DEF SendInv
  <2> DEFINE v == SubSeq(wire[a], 1, k)
  <2>4. \A i \in 1 .. k : wire[a][i] \in Msgs
    BY <2>3, ElementOfSeq
  <2>5. v \in Seq(Msgs) /\ Len(v) = k /\ \A i \in 1 .. k : v[i] = wire[a][i]
    BY <2>3, <2>4, SubSeqProperties
  <2>6. wire'[a] = Append(v, x)
    BY <2>3
  <2> HIDE DEF v
  <2>7. wire'[a] # <<>> /\ Head(wire'[a]) = IF k = 0 THEN x ELSE wire[a][1]
    BY <2>5, <2>6, AppendProperties
  <2>8. k # 0 => wire[a] # <<>> /\ Head(wire[a]) = wire[a][1]
    BY <2>3, EmptySeq
  <2> QED BY <2>1, <2>7, <2>8 DEF StillToCome, Continues
<1>6. CASE Rejoin(a)
  <2>1. link[a] = "none" /\ wire[a] = <<>>
    BY <1>6 DEF Rejoin, SendInv, WireInOrder
  <2> QED BY <2>1 DEF StillToCome, SenderAt
<1> QED BY <1>1, <1>2, <1>3, <1>4, <1>5, <1>6 DEF SenderStep

LEMMA AgentKeepsStreams ==
  ASSUME NEW a \in Agents, SendInv, StreamInv,
         RunEnds(a) \/ SenderStep(a) \/ Vanish(a) \/ Rejoin(a)
  PROVE  StreamInv'
<1>1. /\ UNCHANGED <<streams, sockmap, stopped>>
      /\ \A b \in Agents : b # a => wire'[b] = wire[b] /\ snd'[b] = snd[b] /\ link'[b] = link[b]
  BY DEF SendInv, ByAgent, fileVars, stopVars, RunEnds, SenderStep, SkipMissingFile, SendStart,
         SendPiece, SendFinish, Send, NextFile, Vanish, Rejoin
<1>2. ASSUME ~stopped, NEW b \in Agents PROVE Owned(b)'
  <2>1. Owned(b)
    BY <1>2 DEF StreamInv
  <2>2. CASE b # a
    BY <1>1, <2>1, <2>2, QuietFile
  <2>3. CASE b = a /\ sockmap[a] = NoName /\ NoneOpen(a)
    BY <1>1, <2>3 DEF Owned, NoneOpen
  <2>4. CASE b = a /\ OneOpen(a, sockmap[a])
    <3>1. PICK m : m = Written(sockmap[a])
      OBVIOUS
    <3>2. m' = Written(sockmap[a])'
      BY <1>1, <3>1 DEF Written
    <3>3. m.k \in Nat
      BY <2>4, <3>1, LenProperties DEF Written, OneOpen, StreamInv
    <3>4. wire'[a] # <<>> /\ Continues(m, Head(wire'[a]))
      BY <2>4, <3>1, <3>3, AgentGoesOn DEF OneOpen
    <3>5. StillToCome(a, Written(sockmap[a]))'
      BY <3>2, <3>4 DEF StillToCome
    <3> QED BY <1>1, <2>4, <3>5 DEF Owned, OneOpen
  <2> QED BY <2>1, <2>2, <2>3, <2>4 DEF Owned
<1> QED BY <1>1, <1>2 DEF StreamInv

LEMMA NoNameIsNoName == NoName \notin Names
BY DEF NoName, Names

LEMMA PutStream ==
  ASSUME NEW n, NEW s, Put(n, s)
  PROVE  /\ \A m : m \in DOMAIN streams' <=> m \in DOMAIN streams \/ m = n
         /\ streams'[n] = s
         /\ \A m \in DOMAIN streams : m # n => streams'[m] = streams[m]
<1>1. DOMAIN streams' = DOMAIN streams \cup {n}
  BY DEF Put
<1>2. \A m : m \in DOMAIN streams \cup {n} <=> m \in DOMAIN streams \/ m = n
  OBVIOUS
<1>3. \A m \in DOMAIN streams \cup {n} : streams'[m] = IF m = n THEN s ELSE streams[m]
  BY DEF Put
<1>4. \A m : m \in DOMAIN streams' <=> m \in DOMAIN streams \/ m = n
  BY <1>1, <1>2, Zenon
<1> QED BY <1>3, <1>4

LEMMA CloseStreams ==
  ASSUME NEW ns, Close(ns)
  PROVE  /\ \A m : m \in DOMAIN streams' <=> m \in DOMAIN streams /\ m \notin ns
         /\ \A m \in DOMAIN streams' : streams'[m] = streams[m]
<1>1. DOMAIN streams' = DOMAIN streams \ ns
  BY DEF Close
<1>2. \A m : m \in DOMAIN streams \ ns <=> m \in DOMAIN streams /\ m \notin ns
  OBVIOUS
<1>3. \A m \in DOMAIN streams \ ns : streams'[m] = streams[m]
  BY DEF Close
<1>4. \A m : m \in DOMAIN streams' <=> m \in DOMAIN streams /\ m \notin ns
  BY <1>1, <1>2, Zenon
<1> QED BY <1>1, <1>3, <1>4

(* A step that leaves the streams of b alone. *)
SparesFilesOf(b) ==
  /\ \A n : n[1] = b => (n \in DOMAIN streams' <=> n \in DOMAIN streams)
  /\ \A n \in DOMAIN streams : n[1] = b => streams'[n] = streams[n]

LEMMA PutElsewhere ==
  ASSUME NEW b, NEW n, n[1] # b, NEW s, Put(n, s)
  PROVE  SparesFilesOf(b)
<1>1. \A m : m[1] = b => m # n
  OBVIOUS
<1>2. \A m : m # n => (m \in DOMAIN streams' <=> m \in DOMAIN streams)
  BY PutStream
<1>3. \A m \in DOMAIN streams : m # n => streams'[m] = streams[m]
  BY PutStream
<1> QED BY ONLY <1>1, <1>2, <1>3 DEF SparesFilesOf

LEMMA CloseElsewhere ==
  ASSUME NEW b, NEW ns, \A n \in DOMAIN streams \cap ns : n[1] # b, Close(ns)
  PROVE  SparesFilesOf(b)
<1>1. \A m : m[1] = b /\ m \in DOMAIN streams => m \in DOMAIN streams'
  BY CloseStreams
<1> QED BY <1>1, CloseStreams DEF SparesFilesOf

(* The types, also after pest.stp made the drain loop close streams.         *)
StreamTypes ==
  /\ DOMAIN streams \subseteq Names
  /\ \A n \in DOMAIN streams : streams[n] \in Seq(1 .. MaxPieces)
  /\ sockmap \in [Agents -> Names \cup {NoName}]

LEMMA ClosingKeepsTypes ==
  ASSUME NEW ns, StreamTypes, Close(ns), sockmap' \in [Agents -> Names \cup {NoName}]
  PROVE  StreamTypes'
BY CloseStreams DEF StreamTypes

LEMMA PuttingKeepsTypes ==
  ASSUME NEW n \in Names, NEW s \in Seq(1 .. MaxPieces), StreamTypes, Put(n, s),
         sockmap' \in [Agents -> Names \cup {NoName}]
  PROVE  StreamTypes'
<1>1. \A m : m \in DOMAIN streams' <=> m \in DOMAIN streams \/ m = n
  BY PutStream
<1>2. \A m \in DOMAIN streams' : streams'[m] \in Seq(1 .. MaxPieces)
  <2> TAKE m \in DOMAIN streams'
  <2>1. CASE m = n
    BY <2>1, PutStream
  <2>2. CASE m # n
    <3>1. m \in DOMAIN streams /\ streams'[m] = streams[m]
      BY <1>1, <2>2, PutStream
    <3> QED BY <3>1 DEF StreamTypes
  <2> QED BY <2>1, <2>2
<1> QED BY <1>1, <1>2 DEF StreamTypes

LEMMA ReadKeepsTypes ==
  ASSUME NEW a \in Agents, SendInv, StreamTypes, ProcessMessage(a)
  PROVE  StreamTypes'
<1> DEFINE x == Head(wire[a])
<1>1. x \in Msgs /\ Addressed(a, x)
  BY MessageRead DEF ProcessMessage
<1> HIDE DEF x
<1>2. CASE x.type = "START" /\ OnStart(a, x.name)
  <2>1. x.name \in Names
    BY <1>1, <1>2 DEF Addressed
  <2>2. CASE Opened(x.name)
    BY <1>2, <2>2 DEF OnStart, fileVars, StreamTypes
  <2>3. CASE ~Opened(x.name)
    <3>1. /\ Put(x.name, <<>>)
          /\ sockmap' = [sockmap EXCEPT ![a] = IF @ = NoName THEN x.name ELSE @]
      BY <1>2, <2>3 DEF OnStart
    <3>2. sockmap' \in [Agents -> Names \cup {NoName}]
      BY <2>1, <3>1 DEF StreamTypes
    <3>3. <<>> \in Seq(1 .. MaxPieces)
      BY EmptySeq
    <3> QED BY <2>1, <3>1, <3>2, <3>3, PuttingKeepsTypes
  <2> QED BY <2>2, <2>3
<1>3. CASE x.type = "CONT" /\ OnPiece(x.name, x.k)
  <2>1. x.name \in Names /\ x.k \in 1 .. MaxPieces
    BY <1>1, <1>3 DEF Addressed
  <2>2. CASE ~Opened(x.name)
    BY <1>3, <2>2 DEF OnPiece, StreamTypes
  <2>3. CASE Opened(x.name)
    <3>1. streams[x.name] \in Seq(1 .. MaxPieces)
      BY <2>3 DEF Opened, StreamTypes
    <3>2. Append(streams[x.name], x.k) \in Seq(1 .. MaxPieces)
      BY <2>1, <3>1, AppendProperties
    <3>3. Put(x.name, Append(streams[x.name], x.k)) /\ sockmap' = sockmap
      BY <1>3, <2>3 DEF OnPiece
    <3> QED BY <2>1, <3>2, <3>3, PuttingKeepsTypes DEF StreamTypes
  <2> QED BY <2>2, <2>3
<1>4. CASE x.type = "FINISH" /\ OnFinish(a, x.name)
  <2>1. Close({x.name}) /\ sockmap' \in [Agents -> Names \cup {NoName}]
    BY <1>4 DEF OnFinish, StreamTypes
  <2> QED BY <2>1, ClosingKeepsTypes
<1>5. CASE x.type = "EOF" /\ OnLost(a)
  <2>1. Close({sockmap[a]}) /\ sockmap' \in [Agents -> Names \cup {NoName}]
    BY <1>5 DEF OnLost, StreamTypes
  <2> QED BY <2>1, ClosingKeepsTypes
<1> QED BY <1>2, <1>3, <1>4, <1>5 DEF ProcessMessage, x

(* A message of a touches only streams of a. *)
LEMMA OthersStreamsStay ==
  ASSUME NEW a \in Agents, NEW b \in Agents, a # b, SendInv, StreamTypes, Owned(a), Owned(b),
         ProcessMessage(a)
  PROVE  Owned(b)'
<1> DEFINE x == Head(wire[a])
<1>1. x.type # "EOF" => x.name[1] = a
  BY MessageRead DEF ProcessMessage, Addressed
<1> HIDE DEF x
<1>2. /\ wire'[b] = wire[b] /\ snd'[b] = snd[b] /\ link'[b] = link[b] /\ sockmap'[b] = sockmap[b]
  BY DEF ProcessMessage, OnStart, OnPiece, OnFinish, OnLost, fileVars, SendInv, StreamTypes
<1>3. SparesFilesOf(b)
  <2>1. CASE UNCHANGED streams
    BY <2>1 DEF SparesFilesOf
  <2>2. CASE x.type = "START" /\ OnStart(a, x.name)
    BY <1>1, <2>1, <2>2, PutElsewhere DEF OnStart, fileVars
  <2>3. CASE x.type = "CONT" /\ OnPiece(x.name, x.k)
    BY <1>1, <2>1, <2>3, PutElsewhere DEF OnPiece
  <2>4. CASE x.type = "FINISH" /\ OnFinish(a, x.name)
    BY <1>1, <2>4, CloseElsewhere DEF OnFinish
  <2>5. CASE x.type = "EOF" /\ OnLost(a)
    <3>1. \A n \in DOMAIN streams : n = sockmap[a] => n[1] = a
      BY NoNameIsNoName DEF Owned, NoneOpen, OneOpen, StreamTypes
    <3> QED BY <2>5, <3>1, CloseElsewhere DEF OnLost
  <2> QED BY <2>2, <2>3, <2>4, <2>5 DEF ProcessMessage, x
<1> QED BY <1>2, <1>3, QuietFile DEF SparesFilesOf

(* What is still to come once x has been read.                              *)
LEMMA RestToCome ==
  ASSUME NEW a \in Agents, SendInv, wire[a] # <<>>, wire'[a] = Tail(wire[a]),
         link'[a] = link[a], snd'[a] = snd[a], InFile(Head(wire[a])),
         NEW m, m.name = Head(wire[a]).name, m.k = Head(wire[a]).k
  PROVE  IF wire'[a] = <<>> THEN SenderAt(a, m)' ELSE Continues(m, Head(wire'[a]))
<1> DEFINE x == Head(wire[a])
<1>1. /\ Tail(wire[a]) = <<>> => LastFits(a, x)
      /\ Tail(wire[a]) # <<>> => Follows(x, Head(Tail(wire[a])))
      /\ InFile(x) /\ m.name = x.name /\ m.k = x.k
  BY MessageRead
<1>2. NameOf(a)' = NameOf(a)
  BY NameStays
<1> HIDE DEF x
<1>3. wire'[a] = <<>> => SenderAt(a, m)'
  BY <1>1, <1>2 DEF LastFits, SenderAt
<1>4. wire'[a] # <<>> => Continues(m, Head(wire'[a]))
  BY <1>1 DEF Follows, Continues
<1> QED BY <1>3, <1>4

(* The streams of the agent whose message is read. *)
LEMMA ReaderOwns ==
  ASSUME NEW a \in Agents, SendInv, StreamTypes, Owned(a), ProcessMessage(a)
  PROVE  Owned(a)'
<1>1. PICK x : x = Head(wire[a])
  OBVIOUS
<1>2. /\ wire[a] # <<>> /\ wire'[a] = Tail(wire[a]) /\ snd'[a] = snd[a]
      /\ Addressed(a, x) /\ x \in Msgs
  BY <1>1, MessageRead DEF ProcessMessage, SendInv
<1>3. x.type # "EOF" => x.name \in Names /\ x.name[1] = a
  BY <1>2 DEF Addressed
<1>4. OneOpen(a, sockmap[a]) => Continues(Written(sockmap[a]), x)
  BY <1>1, <1>2 DEF OneOpen, StillToCome
<1>5. CASE x.type = "START" /\ OnStart(a, x.name)
  <2>1. sockmap[a] = NoName /\ NoneOpen(a)
    BY <1>4, <1>5 DEF Owned, Continues
  <2>2. ~Opened(x.name)
    BY <1>3, <1>5, <2>1 DEF Opened, NoneOpen
  <2>3. Put(x.name, <<>>) /\ sockmap'[a] = x.name /\ link'[a] = link[a]
    BY <1>5, <2>1, <2>2 DEF OnStart, StreamTypes
  <2>4. /\ x.name \in DOMAIN streams' /\ streams'[x.name] = <<>>
        /\ \A m \in DOMAIN streams' : m[1] = a => m = x.name
    BY <2>1, <2>3, PutStream DEF NoneOpen
  <2>5. PICK w : w = [type |-> "CONT", name |-> x.name, k |-> 0]
    OBVIOUS
  <2>6. w = Written(x.name)'
    BY <2>4, <2>5, NoPieces DEF Written
  <2>7. x.k = 0 /\ InFile(x)
    BY <1>2, <1>5 DEF Addressed, InFile
  <2>8. IF wire'[a] = <<>> THEN SenderAt(a, w)' ELSE Continues(w, Head(wire'[a]))
    BY <1>1, <1>2, <2>3, <2>5, <2>7, RestToCome
  <2>9. StillToCome(a, w)'
    BY <2>8 DEF StillToCome
  <2>10. OneOpen(a, x.name)'
    BY <1>3, <1>5, <2>4, <2>6, <2>9, NoPieces DEF OneOpen
  <2> QED BY <2>3, <2>10 DEF Owned
<1>6. CASE x.type = "CONT" /\ OnPiece(x.name, x.k)
  <2>1. CASE sockmap[a] = NoName /\ NoneOpen(a)
    <3>1. ~Opened(x.name)
      BY <1>3, <1>6, <2>1 DEF Opened, NoneOpen
    <3> QED BY <1>6, <2>1, <3>1 DEF OnPiece, Owned, NoneOpen
  <2>2. CASE OneOpen(a, sockmap[a])
    <3>1. PICK j \in Nat : j = Len(streams[x.name])
      BY <1>4, <1>6, <2>2, LenProperties DEF OneOpen, StreamTypes, Continues, Written
    <3>2. /\ x.name = sockmap[a] /\ x.k = j + 1 /\ streams[x.name] = Pieces(j)
          /\ Opened(x.name)
      BY <1>4, <1>6, <2>2, <3>1 DEF OneOpen, Continues, Written, Opened
    <3>3. Put(x.name, Append(streams[x.name], x.k)) /\ sockmap'[a] = x.name /\ link'[a] = link[a]
      BY <1>6, <3>2 DEF OnPiece
    <3>4. streams'[x.name] = Pieces(j + 1) /\ Len(streams'[x.name]) = j + 1
      <4>1. PICK s : s = streams[x.name]
        OBVIOUS
      <4>2. Append(s, j + 1) = Pieces(j + 1) /\ Len(Append(s, j + 1)) = j + 1
        BY <3>2, <4>1, PiecesGrow
      <4>3. streams'[x.name] = Append(s, j + 1)
        BY <3>2, <3>3, <4>1, PutStream
      <4> QED BY <4>2, <4>3
    <3>5. /\ x.name \in DOMAIN streams'
          /\ \A m \in DOMAIN streams' : m[1] = a => m = x.name
      BY <2>2, <3>2, <3>3, PutStream DEF OneOpen
    <3>6. PICK w : w = [type |-> "CONT", name |-> x.name, k |-> j + 1]
      OBVIOUS
    <3>7. w = Written(x.name)'
      BY <3>4, <3>6 DEF Written
    <3>8. InFile(x)
      BY <1>6 DEF InFile
    <3>9. IF wire'[a] = <<>> THEN SenderAt(a, w)' ELSE Continues(w, Head(wire'[a]))
      BY <1>1, <1>2, <3>2, <3>3, <3>6, <3>8, RestToCome
    <3>10. StillToCome(a, w)'
      BY <3>9 DEF StillToCome
    <3>11. OneOpen(a, x.name)'
      BY <1>3, <1>6, <3>4, <3>5, <3>7, <3>10 DEF OneOpen
    <3> QED BY <3>3, <3>11 DEF Owned
  <2> QED BY <2>1, <2>2 DEF Owned
<1>7. CASE x.type = "FINISH" /\ OnFinish(a, x.name)
  <2>1. CASE sockmap[a] = NoName /\ NoneOpen(a)
    <3>1. ~Opened(x.name) /\ sockmap'[a] = NoName
      BY <1>3, <1>7, <2>1 DEF Opened, NoneOpen, OnFinish
    <3>2. NoneOpen(a)'
      BY <1>7, <2>1, CloseStreams DEF OnFinish, NoneOpen
    <3> QED BY <3>1, <3>2 DEF Owned
  <2>2. CASE OneOpen(a, sockmap[a])
    <3>1. x.name = sockmap[a] /\ Opened(x.name)
      BY <1>4, <1>7, <2>2 DEF OneOpen, Continues, Written, Opened
    <3>2. sockmap'[a] = NoName
      BY <1>7, <3>1 DEF OnFinish, StreamTypes
    <3>3. NoneOpen(a)'
      BY <1>7, <2>2, <3>1, CloseStreams DEF OnFinish, OneOpen, NoneOpen
    <3> QED BY <3>2, <3>3 DEF Owned
  <2> QED BY <2>1, <2>2 DEF Owned
<1>8. CASE x.type = "EOF" /\ OnLost(a)
  <2>1. Close({sockmap[a]}) /\ sockmap'[a] = NoName
    BY <1>8 DEF OnLost, StreamTypes
  <2>2. NoneOpen(a)'
    BY <2>1, CloseStreams DEF Owned, OneOpen, NoneOpen
  <2> QED BY <2>1, <2>2 DEF Owned
<1> QED BY <1>1, <1>5, <1>6, <1>7, <1>8 DEF ProcessMessage

LEMMA ReadKeepsStreams ==
  ASSUME NEW a \in Agents, SendInv, StreamInv, ProcessMessage(a)
  PROVE  StreamInv'
<1>1. StreamTypes /\ UNCHANGED stopped
  BY DEF StreamInv, StreamTypes, ProcessMessage, stopVars
<1>2. StreamTypes'
  BY <1>1, ReadKeepsTypes
<1>3. ASSUME ~stopped, NEW b \in Agents PROVE Owned(b)'
  BY <1>1, <1>3, ReaderOwns, OthersStreamsStay DEF StreamInv
<1> QED BY <1>1, <1>2, <1>3 DEF StreamInv, StreamTypes

(* An open stream has a sender that is still connected.                     *)
LEMMA OpenIsConnected ==
  ASSUME NEW a \in Agents, SendInv, OneOpen(a, sockmap[a])
  PROVE  link[a] # "none"
<1>1. link[a] = "none" => wire[a] = <<>>
  BY DEF SendInv, WireInOrder
<1> QED BY <1>1 DEF OneOpen, StillToCome, SenderAt

(* The stages of run_until that clear or close streams.                     *)
LEMMA RunUntilKeepsStreams ==
  ASSUME SendInv, StreamInv, Clear \/ NoAgentsLeft \/ DrainFindsStop
  PROVE  StreamInv'
<1>1. NoOne \in [Agents -> Names \cup {NoName}] /\ \A a \in Agents : NoOne[a] = NoName
  BY DEF NoOne
<1>2. StreamTypes
  BY DEF StreamInv, StreamTypes
<1>3. CASE Clear
  <2>1. streams' = <<>> /\ sockmap' = NoOne
    BY <1>3 DEF Clear
  <2>2. DOMAIN streams' = {}
    BY <2>1
  <2> QED BY <1>1, <2>1, <2>2 DEF StreamInv, Owned, NoneOpen
<1>4. CASE NoAgentsLeft
  <2>1. /\ Close(Held) /\ sockmap' = NoOne /\ UNCHANGED stopped
        /\ \A a \in Agents : link[a] = "none"
    BY <1>4 DEF NoAgentsLeft, stopVars
  <2>2. StreamTypes'
    BY <1>1, <1>2, <2>1, ClosingKeepsTypes
  <2>3. ASSUME ~stopped, NEW a \in Agents PROVE Owned(a)'
    <3>1. NoneOpen(a)
      BY <2>1, <2>3, OpenIsConnected DEF StreamInv, Owned
    <3> QED BY <1>1, <2>1, <3>1, CloseStreams DEF Owned, NoneOpen
  <2> QED BY <2>1, <2>2, <2>3 DEF StreamInv, StreamTypes
<1>5. CASE DrainFindsStop
  <2>1. Close(Held) /\ UNCHANGED sockmap /\ stopped'
    BY <1>5 DEF DrainFindsStop
  <2>2. StreamTypes'
    BY <1>2, <2>1, ClosingKeepsTypes DEF StreamTypes
  <2> QED BY <2>1, <2>2 DEF StreamInv, StreamTypes
<1> QED BY <1>3, <1>4, <1>5

LEMMA StutterKeepsStreams ==
  ASSUME StreamInv, UNCHANGED <<streams, sockmap, stopped, wire, link, snd>>
  PROVE  StreamInv'
<1>1. ASSUME NEW a \in Agents, Owned(a) PROVE Owned(a)'
  BY <1>1, QuietFile
<1> QED BY <1>1 DEF StreamInv

LEMMA NextStreamInv == ASSUME SendInv, StreamInv, [Next]_vars PROVE StreamInv'
<1>1. ASSUME NEW a \in Agents, ProcessMessage(a) PROVE StreamInv'
  BY <1>1, ReadKeepsStreams
<1>2. ASSUME NEW a \in Agents, RunEnds(a) \/ SenderStep(a) \/ Vanish(a) \/ Rejoin(a) PROVE StreamInv'
  BY <1>2, AgentKeepsStreams
<1>3. CASE Clear \/ NoAgentsLeft \/ DrainFindsStop
  BY <1>3, RunUntilKeepsStreams
<1>4. CASE ThreadStep \/ Pausing \/ ProgramStep \/ CreateStop \/ RemoveStop \/ RunsComplete
           \/ Drained \/ AllKilled \/ (ResumeIdle /\ NotFiles) \/ UNCHANGED vars
  <2>1. UNCHANGED <<streams, sockmap, stopped, wire, link, snd>>
    BY <1>4 DEF ThreadStep, Pausing, ProgramStep, NotFiles, CreateStop, RemoveStop, RunsComplete,
       Drained, AllKilled, vars, agentVars, fileVars, stopVars
  <2> QED BY <2>1, StutterKeepsStreams
<1> QED BY <1>1, <1>2, <1>3, <1>4 DEF Next, MasterNext, AgentNext, RunUntilStep

LEMMA InitStreamInv == Init => StreamInv
<1> SUFFICES ASSUME Init PROVE StreamInv
  OBVIOUS
<1>1. streams = <<>> /\ sockmap = NoOne
  BY DEF Init
<1>2. DOMAIN streams = {}
  BY <1>1
<1> QED BY <1>1, <1>2 DEF StreamInv, Owned, NoneOpen, NoOne

FilesInv == IdleInv /\ SendInv /\ StreamInv

LEMMA FilesInvHolds == Spec => []FilesInv
<1>1. Init => FilesInv
  BY InitIdleInv, InitSendInv, InitStreamInv DEF FilesInv
<1>2. FilesInv /\ [Next]_vars => FilesInv'
  BY NextIdleInv, NextSendInv, NextStreamInv DEF FilesInv
<1> QED BY <1>1, <1>2, PTL DEF Spec

(* TypeCorrect: names, streams, connections and the states of both threads.  *)
THEOREM TypeCorrect == Spec => []TypeOK
<1>1. FilesInv => TypeOK
  BY DEF FilesInv, IdleInv, SendInv, StreamInv, TypeOK
<1> QED BY <1>1, FilesInvHolds, PTL

(* OpenStreamsHaveOwners: for any number of agents, files and pieces, a file the *)
(* master has open is that of the socket of an agent that is still connected,    *)
(* until pest.stp makes the drain loop close streams early.                      *)
THEOREM OpenStreamsHaveOwners == Spec => []StreamsHaveOwners
<1>1. FilesInv => StreamsHaveOwners
  <2> SUFFICES ASSUME FilesInv, ~stopped, NEW n \in DOMAIN streams
               PROVE  link[n[1]] # "none" /\ sockmap[n[1]] = n
    BY DEF StreamsHaveOwners
  <2>1. n[1] \in Agents
    BY DEF FilesInv, StreamInv, Names
  <2>2. OneOpen(n[1], sockmap[n[1]])
    BY <2>1 DEF FilesInv, StreamInv, Owned, NoneOpen
  <2> QED BY <2>1, <2>2, OpenIsConnected DEF FilesInv, OneOpen
<1> QED BY <1>1, FilesInvHolds, PTL

(* FilesArriveWhole: for any number of agents, files and pieces, a file that the *)
(* master closes on FINISH has every piece the agent sent, once and in order.    *)
THEOREM FilesArriveWhole == Spec => WholeFiles
<1> DEFINE Whole(a) ==
      ~stopped /\ wire[a] # <<>> /\ wire'[a] = Tail(wire[a]) /\ Head(wire[a]).type = "FINISH"
        /\ Opened(Head(wire[a]).name)
      => streams[Head(wire[a]).name] = Pieces(Head(wire[a]).k)
<1>1. FilesInv /\ [Next]_vars => [\A a \in Agents : Whole(a)]_vars
  <2> SUFFICES ASSUME FilesInv, NEW a \in Agents, ~stopped, wire[a] # <<>>,
                      Head(wire[a]).type = "FINISH", Opened(Head(wire[a]).name)
               PROVE  streams[Head(wire[a]).name] = Pieces(Head(wire[a]).k)
    OBVIOUS
  <2> DEFINE x == Head(wire[a])
  <2>1. x \in Msgs /\ Addressed(a, x)
    BY MessageRead DEF FilesInv
  <2>2. x.type = "FINISH" /\ x.name[1] = a /\ x.name \in DOMAIN streams
    BY <2>1 DEF Addressed, Opened
  <2>3. OneOpen(a, sockmap[a])
    BY <2>2 DEF FilesInv, StreamInv, Owned, NoneOpen
  <2>4. x.name = sockmap[a] /\ Continues(Written(x.name), x)
    BY <2>2, <2>3 DEF OneOpen, StillToCome
  <2> HIDE DEF x
  <2>5. x.k = Len(streams[x.name])
    BY <2>2, <2>4 DEF Continues, Written
  <2>6. streams[x.name] = Pieces(Len(streams[x.name]))
    BY <2>3, <2>4 DEF OneOpen
  <2> QED BY <2>5, <2>6 DEF x
<1>2. Spec => [][\A a \in Agents : Whole(a)]_vars
  BY <1>1, FilesInvHolds, PTL DEF Spec
<1> QED BY <1>2 DEF WholeFiles
=============================================================================
