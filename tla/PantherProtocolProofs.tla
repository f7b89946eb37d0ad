----------------------- MODULE PantherProtocolProofs -----------------------
(***************************************************************************)
(* Proofs about the module Panther: the protocol of master and agents.      *)
(*                                                                         *)
(* What the master records about an agent, what is under way between the   *)
(* two and what the agent does fit together in one of a few ways, listed   *)
(* by AgentOK as a predicate of values, so that what a message does to one *)
(* agent is a fact without primes (KillOK, StartOK, ...); an action of the *)
(* master then does one of these things to each agent.                     *)
(***************************************************************************)
EXTENDS PantherProofs, SequenceTheorems

Kill == Plain("REQ_KILL")
Ready == Plain("READY")
Eof == Plain("EOF")
Kills == Seq({Kill})

Connecting == {"NEW", "CWD_REQ", "CWD_RCV", "NAMES_SENT", "LINPACK_REQ", "LINPACK_RCV"}
Working == {"ACTIVE", "KILLED", "COMPLETE"}

(* In what follows an agent is given by its connection l, its state st and run r *)
(* as the master records them, the messages inb to it and out from it, what its *)
(* process does, p, the group w whose run the master expects of it, and the     *)
(* last group P whose messages may be under way.                                *)
Nobody == -1

Past(g, P) == g \in Groups /\ g <= P

ConnectingOrders(st, inb) ==
  \/ st = "CWD_REQ" /\ inb = <<Plain("REQ_RUNDIR")>>
  \/ st = "NAMES_SENT" /\ inb = <<Plain("NAMES")>>
  \/ st = "LINPACK_REQ" /\ inb = <<Plain("NAMES"), Plain("REQ_LINPACK")>>
  \/ st = "LINPACK_REQ" /\ inb = <<Plain("REQ_LINPACK")>>
ConnectingAnswer(st, m) ==
  \/ st = "CWD_REQ" /\ m = Plain("RUNDIR")
  \/ st = "LINPACK_REQ" /\ m = Plain("LINPACK")

(* START_RUN is on its way: before it there are only kill requests that came    *)
(* too late for an earlier run, and behind it one only if the copy was killed.  *)
Told(st, r, inb, g) ==
  \E j \in 1 .. Len(inb) :
    /\ inb[j] = Msg("START_RUN", r, g)
    /\ \A i \in 1 .. Len(inb) : i # j => inb[i] = Kill
    /\ st = "ACTIVE" => j = Len(inb)

(* The answers an agent that works may give.                                 *)
Answers(r, w, P) ==
  {m \in [type : ResultType, run : {r}, grp : Groups] :
     m.grp <= P /\ (w # Nobody => m.type # "RUN_KILLED" /\ m.grp = w)}

IsConnecting(st, inb, out, p) ==
  /\ st \in Connecting /\ p = Idle
  /\ \/ ConnectingOrders(st, inb) /\ out = <<>>
     \/ inb = <<>> /\ \E m \in MasterMsg : ConnectingAnswer(st, m) /\ out = <<m>>
     \/ inb = <<>> /\ out = <<>> /\ st \notin {"CWD_REQ", "LINPACK_REQ"}
IsFree(st, inb, out, p) ==
  st = "WAITING" /\ p = Idle /\ out = <<>> /\ inb \in Kills
IsTold(st, r, inb, out, p, w, P) ==
  /\ st \in {"ACTIVE", "KILLED"} /\ p = Idle /\ out = <<>> /\ inb \in Seq(AgentMsg)
  /\ \E g \in Groups : Told(st, r, inb, g) /\ g <= P /\ (w # Nobody => g = w)
IsRunning(st, r, inb, out, p, w, P) ==
  /\ st \in {"ACTIVE", "KILLED"} /\ out = <<>> /\ inb \in Kills
  /\ st = "ACTIVE" => inb = <<>>
  /\ \E g \in Groups :
       p = [st |-> "running", run |-> r, grp |-> g] /\ g <= P /\ (w # Nobody => g = w)
HasAnswered(st, r, inb, out, p, w, P) ==
  /\ st \in Working /\ p.st = "sent" /\ inb \in Kills
  /\ \/ out = <<>> /\ w = Nobody
     \/ \E m \in Answers(r, w, P) : out = <<m>>
IsReady(st, r, inb, out, p, w, P) ==
  /\ st \in Working /\ p = Idle /\ inb \in Kills
  /\ \/ out = <<Ready>> /\ w = Nobody
     \/ \E m \in Answers(r, w, P) : out = <<m, Ready>>
IsWorking(st, r, inb, out, p, w, P) ==
  /\ r \in Runs
  /\ \/ IsTold(st, r, inb, out, p, w, P) \/ IsRunning(st, r, inb, out, p, w, P)
     \/ HasAnswered(st, r, inb, out, p, w, P) \/ IsReady(st, r, inb, out, p, w, P)

UpOK(st, r, inb, out, p, w, P) ==
  IsConnecting(st, inb, out, p) \/ IsFree(st, inb, out, p) \/ IsWorking(st, r, inb, out, p, w, P)

(* An agent that has gone: what it sent, or the first part of it, and EOF.   *)
DownOK(st, r, inb, out, p, w, P) ==
  /\ inb = <<>> /\ p = Idle
  /\ \/ st # "NONE" /\ out = <<Eof>>
     \/ \E m \in MasterMsg : ConnectingAnswer(st, m) /\ out = <<m, Eof>>
     \/ /\ st \in Working \cup {"KILLED_FAILED"} /\ r \in Runs
        /\ \/ out = <<Ready, Eof>> /\ w = Nobody
           \/ \E m \in Answers(r, w, P) : out = <<m, Eof>> \/ out = <<m, Ready, Eof>>

OffOK(st, inb, out, p) == st = "NONE" /\ inb = <<>> /\ out = <<>> /\ p = Idle

AgentOK(l, st, r, inb, out, p, w, P) ==
  /\ w # Nobody => st = "ACTIVE" /\ r \in Runs
  /\ l = "up" => UpOK(st, r, inb, out, p, w, P)
  /\ l = "down" => DownOK(st, r, inb, out, p, w, P)
  /\ l \notin {"up", "down"} => OffOK(st, inb, out, p)

-----------------------------------------------------------------------------
(* Sequences of at most three messages.                                     *)

(* Appending to a sequence of one or two messages.                           *)
LEMMA AppendShort ==
  ASSUME NEW S, NEW s \in Seq(S), NEW z \in S
  PROVE  /\ Len(s) = 1 => Append(s, z) = <<s[1], z>>
         /\ Len(s) = 2 => Append(s, z) = <<s[1], s[2], z>>
<1>1. /\ Append(s, z) \in Seq(S) /\ Len(Append(s, z)) = Len(s) + 1
      /\ Append(s, z)[Len(s) + 1] = z /\ \A i \in 1 .. Len(s) : Append(s, z)[i] = s[i]
  BY AppendProperties
<1>2. ASSUME Len(s) = 1
      PROVE  Append(s, z) = <<s[1], z>>
  <2>1. <<s[1], z>> \in Seq(S) /\ Len(Append(s, z)) = Len(<<s[1], z>>)
    BY <1>1, <1>2
  <2>2. \A i \in 1 .. Len(Append(s, z)) : Append(s, z)[i] = <<s[1], z>>[i]
    BY <1>1, <1>2
  <2> QED
    BY <1>1, <2>1, <2>2, SeqEqual, Zenon
<1>3. ASSUME Len(s) = 2
      PROVE  Append(s, z) = <<s[1], s[2], z>>
  <2>1. <<s[1], s[2], z>> \in Seq(S) /\ Len(Append(s, z)) = Len(<<s[1], s[2], z>>)
    BY <1>1, <1>3
  <2>2. \A i \in 1 .. Len(Append(s, z)) : Append(s, z)[i] = <<s[1], s[2], z>>[i]
    BY <1>1, <1>3
  <2> QED
    BY <1>1, <2>1, <2>2, SeqEqual, Zenon
<1> QED
  BY <1>2, <1>3

(* ... and to a pair.                                                        *)
LEMMA AppendThree ==
  ASSUME NEW x, NEW y, NEW z
  PROVE  Append(<<x, y>>, z) = <<x, y, z>>
<1>1. <<x, y>> \in Seq({x, y, z}) /\ Len(<<x, y>>) = 2 /\ <<x, y>>[1] = x /\ <<x, y>>[2] = y
  OBVIOUS
<1> QED
  BY <1>1, AppendShort

(* Head, Tail and Append of sequences of at most three messages.             *)
LEMMA Short ==
  ASSUME NEW x, NEW y, NEW z
  PROVE  /\ Head(<<x>>) = x /\ Head(<<x, y>>) = x /\ Head(<<x, y, z>>) = x
         /\ Tail(<<x>>) = <<>> /\ Tail(<<x, y>>) = <<y>> /\ Tail(<<x, y, z>>) = <<y, z>>
         /\ <<x>> # <<>> /\ <<x, y>> # <<>> /\ <<x, y, z>> # <<>>
         /\ Append(<<>>, x) = <<x>> /\ Append(<<x>>, y) = <<x, y>>
         /\ Append(<<x, y>>, z) = <<x, y, z>>
         /\ Len(<<>>) = 0 /\ Len(<<x>>) = 1 /\ Len(<<x, y>>) = 2
<1>1. <<x>> \in Seq({x, y}) /\ Len(<<x>>) = 1 /\ <<x>>[1] = x
  OBVIOUS
<1>3. Append(<<x>>, y) = <<x, y>>
  BY <1>1, AppendShort
<1>4. Append(<<x, y>>, z) = <<x, y, z>>
  BY AppendThree, Zenon
<1>5. Head(<<x>>) = x /\ Head(<<x, y>>) = x /\ Head(<<x, y, z>>) = x
  OBVIOUS
<1>6. Tail(<<x>>) = <<>>
  OBVIOUS
<1>7. Tail(<<x, y>>) = <<y>>
  OBVIOUS
<1>8. Tail(<<x, y, z>>) = <<y, z>>
  OBVIOUS
<1>9. /\ <<x>> # <<>> /\ <<x, y>> # <<>> /\ <<x, y, z>> # <<>>
      /\ Len(<<>>) = 0 /\ Len(<<x>>) = 1 /\ Len(<<x, y>>) = 2
  OBVIOUS
<1>10. Append(<<>>, x) = <<x>>
  OBVIOUS
<1> QED
  BY <1>3, <1>4, <1>5, <1>6, <1>7, <1>8, <1>9, <1>10

(* A sequence whose elements lie in T is a sequence over T.                  *)
LEMMA Narrow ==
  ASSUME NEW S, NEW T, NEW s \in Seq(S), \A i \in 1 .. Len(s) : s[i] \in T
  PROVE  s \in Seq(T) /\ (Len(s) = 0 => s = <<>>)
OBVIOUS

(* What is left of a short sequence when its end is cut off.                *)
LEMMA CutShort ==
  ASSUME NEW x, NEW y, NEW k
  PROVE  /\ SubSeq(<<>>, 1, 0) = <<>>
         /\ k \in 0 .. 1 => SubSeq(<<x>>, 1, k) = <<>> \/ SubSeq(<<x>>, 1, k) = <<x>>
         /\ k \in 0 .. 2 => \/ SubSeq(<<x, y>>, 1, k) = <<>>
                           \/ SubSeq(<<x, y>>, 1, k) = <<x>>
                           \/ SubSeq(<<x, y>>, 1, k) = <<x, y>>
<1>1. <<x>> \in Seq({x, y}) /\ <<x, y>> \in Seq({x, y}) /\ Len(<<x>>) = 1 /\ Len(<<x, y>>) = 2
  OBVIOUS
<1>2. SubSeq(<<x>>, 1, 1) = <<x>> /\ SubSeq(<<x, y>>, 1, 2) = <<x, y>>
  BY <1>1, SubSeqFull, Zenon
<1>3. \A s : SubSeq(s, 1, 0) = <<>>
  BY SubSeqEmpty
<1>4. SubSeq(<<x, y>>, 1, 1) = <<x>>
  <2>1. PICK s \in Seq({x, y}) : s = <<x, y>> /\ s[1] = x /\ Len(s) = 2
    BY <1>1
  <2>2. PICK t \in Seq({x, y}) : t = <<x>> /\ t[1] = x /\ Len(t) = 1
    BY <1>1
  <2>3. \A i \in 1 .. 1 : s[i] \in {x, y}
    BY <2>1
  <2>4. /\ SubSeq(s, 1, 1) \in Seq({x, y}) /\ Len(SubSeq(s, 1, 1)) = Len(t)
        /\ \A i \in 1 .. Len(SubSeq(s, 1, 1)) : SubSeq(s, 1, 1)[i] = t[i]
    BY <2>1, <2>2, <2>3, SubSeqProperties
  <2>5. SubSeq(s, 1, 1) = t
    BY <2>4, SeqEqual, Zenon
  <2> QED
    BY <2>1, <2>2, <2>5
<1>5. (k \in 0 .. 1 => k = 0 \/ k = 1) /\ (k \in 0 .. 2 => k = 0 \/ k = 1 \/ k = 2)
  OBVIOUS
<1> QED
  BY <1>2, <1>3, <1>4, <1>5, Zenon

(* The plain messages differ from each other and from a START_RUN or a result. *)
LEMMA Messages ==
  /\ \A t : Plain(t).type = t
  /\ \A t, r, g : Msg(t, r, g).type = t /\ Msg(t, r, g).run = r /\ Msg(t, r, g).grp = g
  /\ Kill.type = "REQ_KILL" /\ Ready.type = "READY" /\ Eof.type = "EOF"
  /\ Kill \in AgentMsg /\ Ready \in MasterMsg /\ Eof \in MasterMsg
BY PlainType DEF Plain, Msg, Kill, Ready, Eof, OrderType, ReplyType

(* Queues of kill requests only.                                             *)
LEMMA KillsType ==
  /\ <<>> \in Kills
  /\ \A s \in Kills : Append(s, Kill) \in Kills
  /\ \A s \in Kills : s # <<>> => Head(s) = Kill /\ Tail(s) \in Kills
  /\ \A s \in Kills : s \in Seq(AgentMsg)
<1>1. {Kill} \subseteq AgentMsg
  BY Messages
<1>2. Seq({Kill}) \subseteq Seq(AgentMsg)
  BY <1>1
<1> QED
  BY <1>2 DEF Kills

(* What an agent that works may answer: the master expects less of it once it   *)
(* no longer counts it, and more groups may be under way later.                *)
LEMMA AnswersGrow ==
  ASSUME NEW r, NEW w, NEW v \in {w, Nobody}, NEW P \in Int, NEW Q \in Int, P <= Q
  PROVE  Answers(r, w, P) \subseteq Answers(r, v, Q)
BY MaxGroupAssumption DEF Answers, Groups, Nobody

(* What fits a wanted copy fits one the master no longer counts, and later groups. *)
LEMMA ForgetOK ==
  ASSUME NEW l, NEW st, NEW r, NEW inb, NEW out, NEW p, NEW w, NEW v \in {w, Nobody},
         NEW P \in Int, NEW Q \in Int, P <= Q, AgentOK(l, st, r, inb, out, p, w, P)
  PROVE  AgentOK(l, st, r, inb, out, p, v, Q)
<1>1. Answers(r, w, P) \subseteq Answers(r, v, Q)
  BY AnswersGrow
<1>2. \A g \in Groups : g <= P /\ (w # Nobody => g = w) => g <= Q /\ (v # Nobody => g = v)
  BY MaxGroupAssumption DEF Groups
<1>3. CASE w # Nobody /\ v = Nobody
  <2>1. UpOK(st, r, inb, out, p, w, P) => UpOK(st, r, inb, out, p, v, Q)
    BY <1>1, <1>2, <1>3, Zenon DEF UpOK, IsWorking, IsTold, IsRunning, HasAnswered, IsReady
  <2>2. DownOK(st, r, inb, out, p, w, P) => DownOK(st, r, inb, out, p, v, Q)
    BY <1>1, <1>3, Zenon DEF DownOK
  <2> QED
    BY <2>1, <2>2, <1>3 DEF AgentOK
<1>4. CASE v = w
  <2>1. UpOK(st, r, inb, out, p, w, P) => UpOK(st, r, inb, out, p, v, Q)
    BY <1>1, <1>2, <1>4, Zenon DEF UpOK, IsWorking, IsTold, IsRunning, HasAnswered, IsReady
  <2>2. DownOK(st, r, inb, out, p, w, P) => DownOK(st, r, inb, out, p, v, Q)
    BY <1>1, <1>4, Zenon DEF DownOK
  <2> QED
    BY <2>1, <2>2, <1>4 DEF AgentOK
<1> QED
  BY <1>3, <1>4

(* What the master finds in an answer of an agent that works.                *)
LEMMA AnswersType ==
  ASSUME NEW r, NEW w, NEW P, NEW m \in Answers(r, w, P)
  PROVE  /\ m.type \in ResultType /\ m.run = r /\ m.grp \in Groups
         /\ m = Msg(m.type, r, m.grp)
         /\ w # Nobody => m.type # "RUN_KILLED" /\ m.grp = w
BY DEF Answers, Msg

(* kill_run: the master counts the copy no longer.                           *)
LEMMA KillOK ==
  ASSUME NEW l, NEW st \in {"ACTIVE", "KILLED_FAILED"}, NEW r, NEW inb, NEW out, NEW p, NEW w,
         NEW P \in Int, AgentOK(l, st, r, inb, out, p, w, P)
  PROVE  /\ l \in {"up", "down"}
         /\ l = "up" => AgentOK(l, "KILLED", r, inb \o <<Kill>>, out, p, Nobody, P)
         /\ l = "down" => \A s \in {"KILLED", "KILLED_FAILED"} :
                            AgentOK(l, s, r, inb, out, p, Nobody, P)
<1>1. AgentOK(l, st, r, inb, out, p, Nobody, P)
  BY ForgetOK
<1>2. l \in {"up", "down"}
  BY <1>1 DEF AgentOK, OffOK
<1>3. ASSUME l = "up"
      PROVE  UpOK("KILLED", r, inb \o <<Kill>>, out, p, Nobody, P)
  <2>1. IsWorking(st, r, inb, out, p, Nobody, P)
    BY <1>1, <1>3 DEF AgentOK, UpOK, IsConnecting, IsFree, Connecting
  <2>2. \A s \in Kills : s \o <<Kill>> \in Kills
    BY DEF Kills
  <2>3. CASE IsTold(st, r, inb, out, p, Nobody, P)
    <3>1. PICK g \in Groups : Told(st, r, inb, g) /\ g <= P
      BY <2>3 DEF IsTold
    <3>2. inb \in Seq(AgentMsg) /\ <<Kill>> \in Seq(AgentMsg) /\ Len(<<Kill>>) = 1 /\ <<Kill>>[1] = Kill
      BY <2>3, Messages DEF IsTold
    <3>3. /\ inb \o <<Kill>> \in Seq(AgentMsg) /\ Len(inb \o <<Kill>>) = Len(inb) + 1
          /\ \A i \in 1 .. Len(inb) + 1 : (inb \o <<Kill>>)[i] = IF i <= Len(inb) THEN inb[i] ELSE Kill
      BY <3>2
    <3>4. Told("KILLED", r, inb \o <<Kill>>, g)
      BY <3>1, <3>2, <3>3 DEF Told
    <3> QED
      BY <2>1, <2>3, <3>1, <3>3, <3>4 DEF UpOK, IsWorking, IsTold
  <2>4. CASE IsRunning(st, r, inb, out, p, Nobody, P)
    BY <2>1, <2>2, <2>4 DEF IsRunning, UpOK, IsWorking
  <2>5. CASE HasAnswered(st, r, inb, out, p, Nobody, P)
    BY <2>1, <2>2, <2>5 DEF HasAnswered, UpOK, IsWorking, Working
  <2>6. CASE IsReady(st, r, inb, out, p, Nobody, P)
    BY <2>1, <2>2, <2>6 DEF IsReady, UpOK, IsWorking, Working
  <2> QED
    BY <2>1, <2>3, <2>4, <2>5, <2>6 DEF IsWorking
<1>4. ASSUME l = "down", NEW s \in {"KILLED", "KILLED_FAILED"}
      PROVE  DownOK(s, r, inb, out, p, Nobody, P)
  BY <1>1, <1>4 DEF AgentOK, DownOK, Working, ConnectingAnswer
<1> QED
  BY <1>2, <1>3, <1>4 DEF AgentOK

(* schedule_run: a free agent is given run q of the group g.                 *)
LEMMA StartOK ==
  ASSUME NEW r, NEW inb, NEW out, NEW p, NEW w, NEW P, NEW q \in Runs, NEW g \in Groups, g <= P,
         AgentOK("up", "WAITING", r, inb, out, p, w, P)
  PROVE  AgentOK("up", "ACTIVE", q, inb \o <<Msg("START_RUN", q, g)>>, out, p, g, P)
<1> DEFINE s == inb \o <<Msg("START_RUN", q, g)>>
<1>1. p = Idle /\ out = <<>> /\ inb \in Kills
  BY DEF AgentOK, UpOK, IsConnecting, IsFree, IsWorking, IsTold, IsRunning, HasAnswered, IsReady,
         Connecting, Working
<1>2. inb \in Seq(AgentMsg) /\ \A i \in 1 .. Len(inb) : inb[i] = Kill
  BY <1>1, KillsType DEF Kills
<1>3. Msg("START_RUN", q, g) \in AgentMsg
  BY DEF Msg, AgentMsg
<1>4. /\ s \in Seq(AgentMsg) /\ Len(s) = Len(inb) + 1 /\ s[Len(inb) + 1] = Msg("START_RUN", q, g)
      /\ \A i \in 1 .. Len(inb) : s[i] = Kill
  <2>1. PICK m : m = Msg("START_RUN", q, g)
    OBVIOUS
  <2> QED
    BY <1>2, <1>3, <2>1
<1>5. Told("ACTIVE", q, s, g)
  BY <1>2, <1>4 DEF Told
<1>6. IsTold("ACTIVE", q, s, out, p, g, P)
  BY <1>1, <1>4, <1>5 DEF IsTold
<1> QED
  BY <1>6 DEF AgentOK, UpOK, IsWorking

(* add_agent, close_agent.                                                   *)
LEMMA AddOK ==
  ASSUME NEW l, l \notin {"up", "down"}, NEW st, NEW r, NEW inb, NEW out, NEW p, NEW w, NEW P,
         AgentOK(l, st, r, inb, out, p, w, P)
  PROVE  w = Nobody /\ AgentOK("up", "NEW", r, inb, out, p, w, P)
BY DEF AgentOK, OffOK, UpOK, IsConnecting, Connecting

(* close_agent of an agent that has gone, or is free.                        *)
LEMMA CloseOK ==
  ASSUME NEW l, NEW st, NEW r, NEW inb, NEW out, NEW p, NEW w, NEW P,
         AgentOK(l, st, r, inb, out, p, w, P), l = "down" \/ st = "WAITING"
  PROVE  p = Idle /\ AgentOK("none", "NONE", NoRun, <<>>, <<>>, p, Nobody, P)
BY DEF AgentOK, OffOK, UpOK, DownOK, IsConnecting, IsFree, IsWorking, IsTold, IsRunning, HasAnswered,
       IsReady, Connecting, Working

(* init_agents: the next step of the handshake with an agent.                *)
LEMMA HandshakeOK ==
  ASSUME NEW l, NEW st, NEW r, NEW inb \in Seq(AgentMsg), NEW out, NEW p, NEW w, NEW P,
         AgentOK(l, st, r, inb, out, p, w, P)
  PROVE  /\ l = "up" => AgentOK(l, HandshakeNext(st, TRUE), r, inb \o HandshakeMsg(st), out, p, w, P)
         /\ l # "up" => /\ AgentOK(l, HandshakeNext(st, TRUE), r, inb, out, p, w, P)
                        /\ AgentOK(l, HandshakeNext(st, FALSE), r, inb, out, p, w, P)
<1> DEFINE moving == {"NEW", "CWD_RCV", "NAMES_SENT", "LINPACK_RCV"}
<1>1. inb \o <<>> = inb
  OBVIOUS
<1>2. CASE st \notin moving
  <2>1. HandshakeNext(st, TRUE) = st /\ HandshakeNext(st, FALSE) = st /\ HandshakeMsg(st) = <<>>
    BY <1>2 DEF HandshakeNext, HandshakeMsg
  <2> QED
    BY <1>1, <2>1
<1>3. CASE st \in moving
  <2>1. w = Nobody
    BY <1>3 DEF AgentOK
  <2>2. HandshakeNext(st, TRUE) \in {"CWD_REQ", "NAMES_SENT", "LINPACK_REQ", "WAITING"}
    BY <1>3 DEF HandshakeNext
  <2>3. HandshakeNext(st, FALSE) \in {st, "WAITING"}
    BY <1>3 DEF HandshakeNext
  <2>4. ASSUME l = "down"
        PROVE  inb = <<>> /\ p = Idle /\ out = <<Eof>>
    BY <1>3, <2>4 DEF AgentOK, DownOK, ConnectingAnswer, Working
  <2>5. l \in {"up", "down"}
    BY <1>3 DEF AgentOK, OffOK
  <2>6. ASSUME l = "down", NEW s, s # "NONE"
        PROVE  AgentOK(l, s, r, inb, out, p, w, P)
    BY <2>1, <2>4, <2>6 DEF AgentOK, DownOK
  <2>7. ASSUME l = "up"
        PROVE  AgentOK(l, HandshakeNext(st, TRUE), r, inb \o HandshakeMsg(st), out, p, w, P)
    <3>1. IsConnecting(st, inb, out, p)
      BY <1>3, <2>7 DEF AgentOK, UpOK, IsFree, IsWorking, IsTold, IsRunning, HasAnswered, IsReady, Working
    <3>2. CASE st = "NEW"
      <4>1. inb = <<>> /\ out = <<>> /\ p = Idle
        BY <3>1, <3>2 DEF IsConnecting, ConnectingOrders, ConnectingAnswer
      <4>2. inb \o HandshakeMsg(st) = <<Plain("REQ_RUNDIR")>> /\ HandshakeNext(st, TRUE) = "CWD_REQ"
        BY <3>2, <4>1 DEF HandshakeMsg, HandshakeNext
      <4> QED
        BY <2>1, <2>7, <4>1, <4>2 DEF AgentOK, UpOK, IsConnecting, ConnectingOrders, Connecting
    <3>3. CASE st = "CWD_RCV"
      <4>1. inb = <<>> /\ out = <<>> /\ p = Idle
        BY <3>1, <3>3 DEF IsConnecting, ConnectingOrders, ConnectingAnswer
      <4>2. inb \o HandshakeMsg(st) = <<Plain("NAMES")>> /\ HandshakeNext(st, TRUE) = "NAMES_SENT"
        BY <3>3, <4>1 DEF HandshakeMsg, HandshakeNext
      <4> QED
        BY <2>1, <2>7, <4>1, <4>2 DEF AgentOK, UpOK, IsConnecting, ConnectingOrders, Connecting
    <3>4. CASE st = "NAMES_SENT"
      <4>1. inb \in {<<>>, <<Plain("NAMES")>>} /\ out = <<>> /\ p = Idle
        BY <3>1, <3>4 DEF IsConnecting, ConnectingOrders, ConnectingAnswer
      <4>2. HandshakeMsg(st) = <<Plain("REQ_LINPACK")>> /\ HandshakeNext(st, TRUE) = "LINPACK_REQ"
        BY <3>4 DEF HandshakeMsg, HandshakeNext
      <4>3. PICK x, y : x = Plain("NAMES") /\ y = Plain("REQ_LINPACK")
        OBVIOUS
      <4>4. <<>> \o <<y>> = <<y>> /\ <<x>> \o <<y>> = <<x, y>>
        <5>1. <<x>> \in Seq({x, y}) /\ <<>> \in Seq({x, y})
          OBVIOUS
        <5>2. <<x>> \o <<y>> = Append(<<x>>, y) /\ <<>> \o <<y>> = Append(<<>>, y)
          BY <5>1, AppendIsConcat
        <5> QED
          BY <5>2, Short
      <4>5. ConnectingOrders("LINPACK_REQ", inb \o HandshakeMsg(st))
        BY <4>1, <4>2, <4>3, <4>4 DEF ConnectingOrders
      <4> QED
        BY <2>1, <2>7, <4>1, <4>2, <4>5 DEF AgentOK, UpOK, IsConnecting, Connecting
    <3>5. CASE st = "LINPACK_RCV"
      <4>1. inb = <<>> /\ out = <<>> /\ p = Idle
        BY <3>1, <3>5 DEF IsConnecting, ConnectingOrders, ConnectingAnswer
      <4>2. HandshakeMsg(st) = <<>> /\ HandshakeNext(st, TRUE) = "WAITING"
        BY <3>5 DEF HandshakeMsg, HandshakeNext
      <4> QED
        BY <1>1, <2>1, <2>7, <4>1, <4>2, KillsType DEF AgentOK, UpOK, IsFree
    <3> QED
      BY <1>3, <3>2, <3>3, <3>4, <3>5
  <2> QED
    BY <1>3, <2>2, <2>3, <2>5, <2>6, <2>7
<1> QED
  BY <1>2, <1>3

-----------------------------------------------------------------------------
(* What an agent reads.                                                     *)

(* An agent that is not busy reads what the handshake asks for, a START_RUN, or *)
(* a kill request that came too late.                                          *)
LEMMA OrderOK ==
  ASSUME NEW st, NEW r, NEW inb \in Seq(AgentMsg), NEW out, NEW p, NEW w, NEW P,
         AgentOK("up", st, r, inb, out, p, w, P), p.st = "idle", inb # <<>>
  PROVE  LET m == Head(inb)
             Now(o) == AgentOK("up", st, r, Tail(inb), o, p, w, P)
         IN  /\ m.type = "REQ_RUNDIR" => Now(Append(out, Plain("RUNDIR")))
             /\ m.type = "NAMES" => Now(out)
             /\ m.type = "REQ_LINPACK" => Now(Append(out, Plain("LINPACK")))
             /\ m.type = "REQ_KILL" => Now(out)
             /\ m.type = "START_RUN" =>
                  AgentOK("up", st, r, Tail(inb), out,
                          [st |-> "running", run |-> m.run, grp |-> m.grp], w, P)
<1> DEFINE Now(o) == AgentOK("up", st, r, Tail(inb), o, p, w, P)
<1>1. UpOK(st, r, inb, out, p, w, P)
  BY DEF AgentOK
<1>2. CASE IsConnecting(st, inb, out, p)
  <2>1. ConnectingOrders(st, inb) /\ out = <<>> /\ p = Idle /\ w = Nobody
    BY <1>2 DEF IsConnecting, AgentOK, Connecting
  <2>2. /\ Plain("RUNDIR") \in MasterMsg /\ Plain("LINPACK") \in MasterMsg
        /\ \A t : Plain(t).type = t
    BY PlainType, Messages DEF ReplyType
  <2>3. \A x : Append(<<>>, x) = <<x>> /\ Head(<<x>>) = x /\ Tail(<<x>>) = <<>>
    BY Short
  <2>4. CASE st = "CWD_REQ" /\ inb = <<Plain("REQ_RUNDIR")>>
    <3>1. Head(inb).type = "REQ_RUNDIR" /\ Tail(inb) = <<>> /\ Append(out, Plain("RUNDIR")) = <<Plain("RUNDIR")>>
      BY <2>1, <2>2, <2>3, <2>4
    <3> QED
      BY <2>1, <2>2, <2>4, <3>1 DEF AgentOK, UpOK, IsConnecting, Connecting, ConnectingAnswer
  <2>5. CASE st = "NAMES_SENT" /\ inb = <<Plain("NAMES")>>
    <3>1. Head(inb).type = "NAMES" /\ Tail(inb) = <<>>
      BY <2>2, <2>3, <2>5
    <3> QED
      BY <2>1, <2>5, <3>1 DEF AgentOK, UpOK, IsConnecting, Connecting
  <2>6. CASE st = "LINPACK_REQ" /\ inb = <<Plain("NAMES"), Plain("REQ_LINPACK")>>
    <3>1. Head(inb).type = "NAMES" /\ Tail(inb) = <<Plain("REQ_LINPACK")>>
      BY <2>2, <2>6, Short
    <3> QED
      BY <2>1, <2>6, <3>1 DEF AgentOK, UpOK, IsConnecting, Connecting, ConnectingOrders
  <2>7. CASE st = "LINPACK_REQ" /\ inb = <<Plain("REQ_LINPACK")>>
    <3>1. Head(inb).type = "REQ_LINPACK" /\ Tail(inb) = <<>> /\ Append(out, Plain("LINPACK")) = <<Plain("LINPACK")>>
      BY <2>1, <2>2, <2>3, <2>7
    <3> QED
      BY <2>1, <2>2, <2>7, <3>1 DEF AgentOK, UpOK, IsConnecting, Connecting, ConnectingAnswer
  <2> QED
    BY <2>1, <2>4, <2>5, <2>6, <2>7 DEF ConnectingOrders
<1>3. ASSUME inb \in Kills
      PROVE  Head(inb).type = "REQ_KILL" /\ Tail(inb) \in Kills
  BY <1>3, KillsType, Messages
<1>4. CASE IsFree(st, inb, out, p)
  <2>1. inb \in Kills
    BY <1>4 DEF IsFree
  <2>2. Now(out)
    BY <1>3, <1>4, <2>1 DEF IsFree, AgentOK, UpOK
  <2> QED
    BY <1>3, <2>1, <2>2
<1>5. CASE r \in Runs /\ IsReady(st, r, inb, out, p, w, P)
  <2>1. inb \in Kills
    BY <1>5 DEF IsReady
  <2>2. IsReady(st, r, Tail(inb), out, p, w, P)
    BY <1>3, <1>5, <2>1, Zenon DEF IsReady
  <2>3. Now(out)
    BY <1>5, <2>2 DEF AgentOK, UpOK, IsWorking
  <2> QED
    BY <1>3, <2>1, <2>3
<1>6. CASE r \in Runs /\ IsTold(st, r, inb, out, p, w, P)
  <2>1. PICK g \in Groups, j \in 1 .. Len(inb) :
          /\ g <= P /\ (w # Nobody => g = w)
          /\ inb[j] = Msg("START_RUN", r, g)
          /\ \A i \in 1 .. Len(inb) : i # j => inb[i] = Kill
          /\ st = "ACTIVE" => j = Len(inb)
    BY <1>6 DEF IsTold, Told
  <2>2. /\ Head(inb) = inb[1] /\ Tail(inb) \in Seq(AgentMsg) /\ Len(Tail(inb)) = Len(inb) - 1
        /\ \A i \in 1 .. Len(Tail(inb)) : Tail(inb)[i] = inb[i + 1]
        /\ Len(inb) \in Nat /\ Len(inb) >= 1
    OBVIOUS
  <2>3. CASE j = 1
    <3>1. Head(inb) = Msg("START_RUN", r, g)
      BY <2>1, <2>2, <2>3
    <3>2. Tail(inb) \in Kills /\ (st = "ACTIVE" => Tail(inb) = <<>>)
      <4>1. \A i \in 1 .. Len(Tail(inb)) : Tail(inb)[i] \in {Kill}
        BY <2>1, <2>2, <2>3
      <4>2. st = "ACTIVE" => Len(Tail(inb)) = 0
        BY <2>1, <2>2, <2>3
      <4>3. Tail(inb) \in Seq({Kill}) /\ (Len(Tail(inb)) = 0 => Tail(inb) = <<>>)
        BY <2>2, <4>1, Narrow, Zenon
      <4> QED
        BY <4>2, <4>3 DEF Kills
    <3>3. IsRunning(st, r, Tail(inb), out, [st |-> "running", run |-> r, grp |-> g], w, P)
      BY <1>6, <2>1, <3>2 DEF IsRunning, IsTold
    <3>4. AgentOK("up", st, r, Tail(inb), out, [st |-> "running", run |-> r, grp |-> g], w, P)
      BY <1>6, <3>3 DEF AgentOK, UpOK, IsWorking
    <3>5. Head(inb).type = "START_RUN" /\ Head(inb).run = r /\ Head(inb).grp = g
      BY <3>1, Messages
    <3> QED
      BY <3>4, <3>5
  <2>4. CASE j # 1
    <3> DEFINE n == Len(inb)
               t == Tail(inb)
    <3>1. inb[1] = Kill
      <4>1. 1 \in 1 .. n
        BY <2>2
      <4> QED
        BY <2>1, <2>4, <4>1, Zenon
    <3>6. Head(inb).type = "REQ_KILL"
      BY <2>2, <3>1, Messages
    <3>9. n \in Nat /\ Len(t) \in Nat /\ Len(t) = n - 1 /\ \A i \in 1 .. Len(t) : t[i] = inb[i + 1]
      BY <2>2
    <3>7. j \in 1 .. n
      BY <2>1
    <3> HIDE DEF t, n
    <3>8. j - 1 \in 1 .. Len(t) /\ (j - 1) + 1 = j
      BY <2>4, <3>9, <3>7
    <3>2. j - 1 \in 1 .. Len(t) /\ t[j - 1] = Msg("START_RUN", r, g)
      BY <2>1, <3>9, <3>8, Zenon
    <3>3. ASSUME NEW i \in 1 .. Len(t), i # j - 1
          PROVE  t[i] = Kill
      <4>1. i + 1 \in 1 .. n /\ i + 1 # j
        BY <3>9, <3>3, <3>7
      <4> QED
        BY <2>1, <3>9, <4>1, Zenon DEF n
    <3>4. Told(st, r, t, g)
      <4>1. st = "ACTIVE" => j - 1 = Len(t)
        BY <2>1, <3>9, <3>7 DEF n
      <4> QED
        BY <3>2, <3>3, <4>1, Zenon DEF Told
    <3>5. Now(out)
      BY <1>6, <2>1, <2>2, <3>4 DEF AgentOK, UpOK, IsWorking, IsTold, t
    <3> QED
      BY <3>6, <3>5
  <2> QED
    BY <2>3, <2>4
<1> QED
  BY <1>1, <1>2, <1>4, <1>5, <1>6 DEF UpOK, IsWorking, IsRunning, HasAnswered

(* run_model: the model ends, or is killed.                                  *)
LEMMA BusyOK ==
  ASSUME NEW st, NEW r, NEW inb, NEW out, NEW p, NEW w, NEW P \in Int,
         AgentOK("up", st, r, inb, out, p, w, P), p.st = "running"
  PROVE  LET Sent(i, t) == AgentOK("up", st, r, i, Append(out, Msg(t, p.run, p.grp)),
                                   [p EXCEPT !.st = "sent"], w, P)
         IN  /\ r \in Runs
             /\ \A t \in {"RUN_FINISHED", "RUN_FAILED"} : Sent(inb, t)
             /\ inb # <<>> => /\ Head(inb).type = "REQ_KILL"
                              /\ \A t \in ResultType : Sent(Tail(inb), t)
<1>1. r \in Runs /\ IsRunning(st, r, inb, out, p, w, P)
  BY DEF AgentOK, UpOK, IsConnecting, IsFree, IsWorking, IsTold, HasAnswered, IsReady, Idle
<1>2. PICK g \in Groups :
        p = [st |-> "running", run |-> r, grp |-> g] /\ g <= P /\ (w # Nobody => g = w)
  BY <1>1 DEF IsRunning
<1>3. out = <<>> /\ inb \in Kills /\ st \in Working /\ (w # Nobody => inb = <<>>)
  BY <1>1 DEF IsRunning, AgentOK, Working
<1>4. \A m : Append(<<>>, m) = <<m>>
  BY Short
<1>5. [p EXCEPT !.st = "sent"].st = "sent" /\ p.run = r /\ p.grp = g
  BY <1>2
<1>6. ASSUME NEW i \in Kills, NEW t \in ResultType, w # Nobody => t # "RUN_KILLED"
      PROVE  AgentOK("up", st, r, i, Append(out, Msg(t, p.run, p.grp)), [p EXCEPT !.st = "sent"], w, P)
  <2>1. Msg(t, r, g) \in Answers(r, w, P)
    BY <1>2, <1>6 DEF Msg, Answers
  <2>2. HasAnswered(st, r, i, <<Msg(t, r, g)>>, [p EXCEPT !.st = "sent"], w, P)
    BY <1>3, <1>5, <1>6, <2>1 DEF HasAnswered
  <2>3. Append(out, Msg(t, p.run, p.grp)) = <<Msg(t, r, g)>>
    BY <1>3, <1>4, <1>5
  <2> QED
    BY <1>1, <2>2, <2>3 DEF AgentOK, UpOK, IsWorking
<1>7. inb # <<>> => Head(inb).type = "REQ_KILL" /\ Tail(inb) \in Kills
  BY <1>3, KillsType, Messages
<1> QED
  BY <1>1, <1>3, <1>6, <1>7 DEF ResultType

(* READY, after the files.                                                   *)
LEMMA SendReadyOK ==
  ASSUME NEW st, NEW r, NEW inb, NEW out, NEW p, NEW w, NEW P,
         AgentOK("up", st, r, inb, out, p, w, P), p.st = "sent"
  PROVE  AgentOK("up", st, r, inb, Append(out, Plain("READY")), Idle, w, P)
<1>1. r \in Runs /\ HasAnswered(st, r, inb, out, p, w, P)
  BY DEF AgentOK, UpOK, IsConnecting, IsFree, IsWorking, IsTold, IsRunning, IsReady, Idle
<1>2. \A m : Append(<<>>, Ready) = <<Ready>> /\ Append(<<m>>, Ready) = <<m, Ready>>
  BY Short
<1>3. IsReady(st, r, inb, Append(out, Ready), Idle, w, P)
  BY <1>1, <1>2 DEF HasAnswered, IsReady
<1> QED
  BY <1>1, <1>3 DEF AgentOK, UpOK, IsWorking, Ready

(* The agent goes; k of its messages still arrive.                           *)
LEMMA DisappearOK ==
  ASSUME NEW st, NEW r, NEW inb, NEW out, NEW p, NEW w, NEW P, NEW k \in 0 .. Len(out),
         AgentOK("up", st, r, inb, out, p, w, P)
  PROVE  AgentOK("down", st, r, <<>>, Append(SubSeq(out, 1, k), Plain("EOF")), Idle, w, P)
<1> DEFINE o == Append(SubSeq(out, 1, k), Plain("EOF"))
<1>1. st # "NONE" /\ (w # Nobody => st = "ACTIVE" /\ r \in Runs)
  BY DEF AgentOK, UpOK, IsConnecting, IsFree, IsWorking, IsTold, IsRunning, HasAnswered, IsReady,
         Connecting, Working
<1>2. SUFFICES DownOK(st, r, <<>>, o, Idle, w, P)
  BY <1>1 DEF AgentOK
<1>3. ASSUME SubSeq(out, 1, k) = <<>>
      PROVE  DownOK(st, r, <<>>, o, Idle, w, P)
  <2>1. o = <<Eof>>
    BY <1>3, Short DEF Eof
  <2> HIDE DEF o
  <2> QED
    BY <1>1, <2>1 DEF DownOK
<1>4. /\ Len(<<>>) = 0
      /\ \A m, n : Len(<<m>>) = 1 /\ Len(<<m, n>>) = 2
      /\ \A m : Append(<<m>>, Eof) = <<m, Eof>>
  BY Short, Zenon
<1>5. ASSUME NEW m, out = <<m>>
      PROVE  SubSeq(out, 1, k) = <<>> \/ o = <<m, Eof>>
  <2>1. k \in 0 .. 1
    BY <1>4, <1>5
  <2> QED
    BY <1>4, <1>5, <2>1, CutShort, Zenon DEF Eof
<1>6. ASSUME NEW m, NEW n, out = <<m, n>>
      PROVE  SubSeq(out, 1, k) = <<>> \/ o = <<m, Eof>> \/ o = <<m, n, Eof>>
  <2>1. k \in 0 .. 2
    BY <1>4, <1>6
  <2> QED
    BY <1>4, <1>6, <2>1, AppendThree, CutShort, Zenon DEF Eof
<1>7. out = <<>> => SubSeq(out, 1, k) = <<>>
  <2>1. out = <<>> => k = 0
    BY <1>4
  <2> QED
    BY <2>1, CutShort, Zenon
<1> HIDE DEF o
<1>8. CASE IsConnecting(st, inb, out, p)
  BY <1>3, <1>5, <1>7, <1>8 DEF IsConnecting, DownOK
<1>9. CASE IsFree(st, inb, out, p)
  BY <1>3, <1>7, <1>9 DEF IsFree
<1>10. CASE IsWorking(st, r, inb, out, p, w, P)
  <2>1. CASE out = <<>>
    BY <1>3, <1>7, <2>1
  <2>2. CASE HasAnswered(st, r, inb, out, p, w, P) /\ out # <<>>
    BY <1>3, <1>5, <1>10, <2>2 DEF HasAnswered, DownOK, IsWorking
  <2>3. CASE IsReady(st, r, inb, out, p, w, P)
    BY <1>3, <1>5, <1>6, <1>10, <2>3 DEF IsReady, DownOK, IsWorking
  <2> QED
    BY <1>10, <2>1, <2>2, <2>3 DEF IsWorking, IsTold, IsRunning
<1> QED
  BY <1>8, <1>9, <1>10 DEF AgentOK, UpOK

-----------------------------------------------------------------------------
(* What the master reads.                                                   *)

(* A connecting agent's reply, or READY.                                     *)
LEMMA ReplyOK ==
  ASSUME NEW l, NEW st, NEW r, NEW inb, NEW out, NEW p, NEW w, NEW P,
         AgentOK(l, st, r, inb, out, p, w, P), out # <<>>
  PROVE  LET t == Head(out).type
             Now(s) == w = Nobody /\ AgentOK(l, s, r, inb, Tail(out), p, w, P)
         IN  /\ t = "RUNDIR" => Now("CWD_RCV")
             /\ t = "LINPACK" => Now("LINPACK_RCV")
             /\ t = "READY" => Now("WAITING")
             /\ t = "EOF" => l = "down"
             /\ l \in {"up", "down"}
<1> DEFINE t == Head(out).type
           Now(s) == w = Nobody /\ AgentOK(l, s, r, inb, Tail(out), p, w, P)
<1>1. l \in {"up", "down"}
  BY DEF AgentOK, OffOK
<1>2. /\ \A m \in Answers(r, w, P) : m.type \in ResultType
      /\ \A m : ConnectingAnswer(st, m) => \/ st = "CWD_REQ" /\ m.type = "RUNDIR"
                                           \/ st = "LINPACK_REQ" /\ m.type = "LINPACK"
  BY AnswersType, Messages DEF ConnectingAnswer
<1>3. /\ \A x, y, z : Head(<<x>>) = x /\ Head(<<x, y>>) = x /\ Head(<<x, y, z>>) = x
      /\ \A x, y, z : Tail(<<x>>) = <<>> /\ Tail(<<x, y>>) = <<y>>
  BY Short
<1>4. Ready.type = "READY" /\ Eof.type = "EOF"
  BY Messages
<1>5. CASE l = "up"
  <2>1. CASE IsConnecting(st, inb, out, p)
    <3>1. PICK m : inb = <<>> /\ ConnectingAnswer(st, m) /\ out = <<m>> /\ p = Idle
      BY <2>1 DEF IsConnecting
    <3>2. Head(out) = m /\ Tail(out) = <<>>
      BY <1>3, <3>1
    <3>3. w = Nobody
      BY <2>1 DEF IsConnecting, Connecting, AgentOK
    <3>4. ASSUME NEW s \in {"CWD_RCV", "LINPACK_RCV"}
          PROVE  Now(s)
      BY <1>5, <3>1, <3>2, <3>3 DEF AgentOK, UpOK, IsConnecting, Connecting
    <3> QED
      BY <1>2, <1>5, <3>1, <3>2, <3>4
  <2>2. CASE r \in Runs /\ HasAnswered(st, r, inb, out, p, w, P)
    <3>1. t \in ResultType
      BY <1>2, <1>3, <2>2 DEF HasAnswered
    <3> QED
      BY <1>5, <3>1 DEF ResultType
  <2>3. CASE r \in Runs /\ IsReady(st, r, inb, out, p, w, P)
    <3>1. CASE out = <<Ready>> /\ w = Nobody
      <4>1. t = "READY" /\ Tail(out) = <<>>
        BY <1>3, <1>4, <3>1
      <4>2. Now("WAITING")
        BY <1>5, <2>3, <3>1, <4>1 DEF AgentOK, UpOK, IsFree, IsReady
      <4> QED
        BY <1>5, <4>1, <4>2
    <3>2. CASE \E m \in Answers(r, w, P) : out = <<m, Ready>>
      <4>1. t \in ResultType
        BY <1>2, <1>3, <3>2
      <4> QED
        BY <1>5, <4>1 DEF ResultType
    <3> QED
      BY <2>3, <3>1, <3>2 DEF IsReady
  <2> QED
    BY <1>5, <2>1, <2>2, <2>3 DEF AgentOK, UpOK, IsFree, IsWorking, IsTold, IsRunning
<1>6. CASE l = "down"
  <2>1. /\ inb = <<>> /\ p = Idle
        /\ \/ out = <<Eof>>
           \/ \E m : ConnectingAnswer(st, m) /\ out = <<m, Eof>>
           \/ out = <<Ready, Eof>> /\ w = Nobody
           \/ \E m \in Answers(r, w, P) : out = <<m, Eof>> \/ out = <<m, Ready, Eof>>
    BY <1>6 DEF AgentOK, DownOK
  <2>2. CASE out = <<Eof>>
    <3>1. t = "EOF"
      BY <1>3, <1>4, <2>2
    <3> QED
      BY <1>6, <3>1
  <2>3. ASSUME Tail(out) = <<Eof>>, w = Nobody, NEW s \in {"CWD_RCV", "LINPACK_RCV", "WAITING"}
        PROVE  Now(s)
    BY <1>6, <2>1, <2>3 DEF AgentOK, DownOK
  <2>4. ASSUME NEW m, ConnectingAnswer(st, m), out = <<m, Eof>>
        PROVE  t \in {"RUNDIR", "LINPACK"} /\ Tail(out) = <<Eof>> /\ w = Nobody
    <3>1. Head(out) = m /\ Tail(out) = <<Eof>>
      BY <1>3, <2>4
    <3> QED
      BY <1>2, <2>4, <3>1 DEF AgentOK
  <2>5. CASE out = <<Ready, Eof>> /\ w = Nobody
    <3>1. t = "READY" /\ Tail(out) = <<Eof>>
      BY <1>3, <1>4, <2>5
    <3> QED
      BY <1>6, <2>3, <2>5, <3>1
  <2>6. CASE \E m \in Answers(r, w, P) : out = <<m, Eof>> \/ out = <<m, Ready, Eof>>
    <3>1. t \in ResultType
      BY <1>2, <1>3, <2>6
    <3> QED
      BY <1>6, <3>1 DEF ResultType
  <2>7. CASE \E m : ConnectingAnswer(st, m) /\ out = <<m, Eof>>
    BY <1>6, <2>3, <2>4, <2>7
  <2> QED
    BY <2>1, <2>2, <2>5, <2>6, <2>7
<1> QED
  BY <1>1, <1>5, <1>6

(* A result names the run the master thinks the agent has; once it is read the  *)
(* master expects nothing more of the agent.                                   *)
LEMMA AnswerOK ==
  ASSUME NEW l, NEW st, NEW r, NEW inb, NEW out, NEW p, NEW w, NEW P \in Int,
         AgentOK(l, st, r, inb, out, p, w, P), out # <<>>, Head(out).type \in ResultType
  PROVE  /\ r \in Runs /\ Head(out) \in Answers(r, w, P)
         /\ AgentOK(l, st, r, inb, Tail(out), p, Nobody, P)
         /\ AgentOK(l, "COMPLETE", r, inb, Tail(out), p, Nobody, P)
<1>1. l \in {"up", "down"}
  BY DEF AgentOK, OffOK
<1>2. \A m : ConnectingAnswer(st, m) => m.type \notin ResultType
  BY Messages DEF ConnectingAnswer, ResultType
<1>3. /\ \A x, y, z : Head(<<x>>) = x /\ Head(<<x, y>>) = x /\ Head(<<x, y, z>>) = x
      /\ \A x, y, z : Tail(<<x>>) = <<>> /\ Tail(<<x, y>>) = <<y>> /\ Tail(<<x, y, z>>) = <<y, z>>
  BY Short
<1>4. Ready.type \notin ResultType /\ Eof.type \notin ResultType
  BY Messages DEF ResultType
<1>5. CASE l = "up"
  <2>1. r \in Runs /\ (HasAnswered(st, r, inb, out, p, w, P) \/ IsReady(st, r, inb, out, p, w, P))
    BY <1>2, <1>3, <1>5 DEF AgentOK, UpOK, IsConnecting, IsFree, IsWorking, IsTold, IsRunning
  <2>2. CASE HasAnswered(st, r, inb, out, p, w, P)
    <3>1. PICK m \in Answers(r, w, P) : out = <<m>>
      BY <2>2 DEF HasAnswered
    <3>2. Head(out) = m /\ Tail(out) = <<>>
      BY <1>3, <3>1
    <3>3. ASSUME NEW s \in {st, "COMPLETE"}
          PROVE  UpOK(s, r, inb, Tail(out), p, Nobody, P)
      BY <2>1, <2>2, <3>2 DEF UpOK, IsWorking, HasAnswered, Working
    <3> QED
      BY <1>5, <2>1, <3>2, <3>3 DEF AgentOK
  <2>3. CASE IsReady(st, r, inb, out, p, w, P)
    <3>1. PICK m \in Answers(r, w, P) : out = <<m, Ready>>
      BY <1>3, <1>4, <2>3 DEF IsReady
    <3>2. Head(out) = m /\ Tail(out) = <<Ready>>
      BY <1>3, <3>1
    <3>3. ASSUME NEW s \in {st, "COMPLETE"}
          PROVE  UpOK(s, r, inb, Tail(out), p, Nobody, P)
      BY <2>1, <2>3, <3>2 DEF UpOK, IsWorking, IsReady, Working
    <3> QED
      BY <1>5, <2>1, <3>2, <3>3 DEF AgentOK
  <2> QED
    BY <2>1, <2>2, <2>3
<1>6. CASE l = "down"
  <2>1. /\ inb = <<>> /\ p = Idle /\ r \in Runs /\ st \in Working \cup {"KILLED_FAILED"}
        /\ \E m \in Answers(r, w, P) : out = <<m, Eof>> \/ out = <<m, Ready, Eof>>
    BY <1>2, <1>3, <1>4, <1>6 DEF AgentOK, DownOK
  <2>2. PICK m \in Answers(r, w, P) : out = <<m, Eof>> \/ out = <<m, Ready, Eof>>
    BY <2>1
  <2>3. Head(out) = m /\ (Tail(out) = <<Eof>> \/ Tail(out) = <<Ready, Eof>>)
    <3>1. ASSUME out = <<m, Eof>> PROVE Head(out) = m /\ Tail(out) = <<Eof>>
      BY <1>3, <3>1
    <3>2. ASSUME out = <<m, Ready, Eof>> PROVE Head(out) = m /\ Tail(out) = <<Ready, Eof>>
      BY <1>3, <3>2
    <3> QED
      BY <2>2, <3>1, <3>2
  <2>4. ASSUME NEW s \in {st, "COMPLETE"}
        PROVE  DownOK(s, r, inb, Tail(out), p, Nobody, P)
    BY <2>1, <2>3 DEF DownOK, Working
  <2> QED
    BY <1>6, <2>1, <2>3, <2>4 DEF AgentOK
<1> QED
  BY <1>1, <1>5, <1>6

-----------------------------------------------------------------------------
(* The invariant.                                                           *)

(* The last group whose messages may be under way: no run of a group that is    *)
(* only queued has been sent to an agent.                                      *)
LastPast == IF pc = "queued" THEN group - 1 ELSE group

(* The group whose run the master expects of an agent.                       *)
Expected(a) == IF <<arun[a], a>> \in active THEN group ELSE Nobody

OK(a) == AgentOK(link[a], astate[a], arun[a], toAgent[a], toMaster[a], proc[a], Expected(a), LastPast)

CopiesOK == \A q \in active : arun[q[2]] = q[1] /\ ~Finished(q[1])

ProtocolInv ==
  /\ \A a \in Agents : OK(a)
  /\ CopiesOK
  /\ pc = "queued" => active = {}

(* What nearly all steps leave as it is.                                     *)
Steady == group' = group /\ (pc' = "queued" => pc = "queued")
SendNothing == UNCHANGED <<netVars, proc>>
FinishNothing == \A r \in Runs : Finished(r)' => Finished(r)

(* The last group whose messages may be under way only grows.                *)
LEMMA PastGrows ==
  ASSUME TypeOK, Steady
  PROVE  /\ LastPast \in Int /\ LastPast' \in Int /\ LastPast <= LastPast'
         /\ group \in Groups /\ group # Nobody
<1>1. group \in Int /\ group \in Groups /\ group # Nobody
  BY MaxGroupAssumption DEF TypeOK, MasterTypeOK, JobTypeOK, Groups, Nobody
<1> QED
  BY <1>1 DEF LastPast, Steady

(* The invariant holds of an agent after a step when it holds of its new values *)
(* and the master expects no more than before.                                *)
LEMMA Conclude ==
  ASSUME TypeOK, NEW b, NEW w, LastPast' \in Int, LastPast \in Int, LastPast <= LastPast',
         AgentOK(link'[b], astate'[b], arun'[b], toAgent'[b], toMaster'[b], proc'[b], w, LastPast),
         Expected(b)' \in {w, Nobody}
  PROVE  OK(b)'
<1> PICK v, Q : v = Expected(b)' /\ Q = LastPast'
  OBVIOUS
<1>1. AgentOK(link'[b], astate'[b], arun'[b], toAgent'[b], toMaster'[b], proc'[b], v, Q)
  BY ForgetOK
<1> QED
  BY <1>1 DEF OK

(* The master expects no more of an agent whose run is the same.             *)
LEMMA ExpectsLess ==
  ASSUME NEW b, group' = group, arun'[b] = arun[b], active' \subseteq active
  PROVE  /\ Expected(b)' \in {Expected(b), Nobody}
         /\ <<arun[b], b>> \notin active' => Expected(b)' = Nobody
BY DEF Expected

(* An agent about which nothing changes.                                     *)
LEMMA SameAgent ==
  ASSUME TypeOK, Steady, NEW b, OK(b), active' \subseteq active,
         link'[b] = link[b], astate'[b] = astate[b], arun'[b] = arun[b],
         toAgent'[b] = toAgent[b], toMaster'[b] = toMaster[b], proc'[b] = proc[b]
  PROVE  OK(b)'
<1>1. Expected(b)' \in {Expected(b), Nobody}
  BY ExpectsLess DEF Steady
<1>2. AgentOK(link'[b], astate'[b], arun'[b], toAgent'[b], toMaster'[b], proc'[b], Expected(b), LastPast)
  BY DEF OK
<1> QED
  BY <1>1, <1>2, PastGrows, Conclude

(* The agents of which the master expects something are those of the map.    *)
LEMMA ExpectedActive ==
  ASSUME TypeOK, ProtocolInv, NEW q \in active
  PROVE  /\ q[1] \in Runs /\ q[2] \in Agents /\ q = <<q[1], q[2]>>
         /\ astate[q[2]] = "ACTIVE" /\ arun[q[2]] = q[1] /\ ~Finished(q[1])
         /\ Expected(q[2]) = group /\ group # Nobody
<1>1. q[1] \in Runs /\ q[2] \in Agents /\ q = <<q[1], q[2]>>
  BY DEF TypeOK, MasterTypeOK, JobTypeOK
<1>2. arun[q[2]] = q[1] /\ ~Finished(q[1])
  BY DEF ProtocolInv, CopiesOK
<1>3. Expected(q[2]) = group
  BY <1>1, <1>2 DEF Expected
<1>4. group # Nobody
  BY MaxGroupAssumption DEF TypeOK, MasterTypeOK, JobTypeOK, Groups, Nobody
<1>5. OK(q[2])
  BY <1>1 DEF ProtocolInv
<1> QED
  BY <1>1, <1>2, <1>3, <1>4, <1>5 DEF OK, AgentOK

(* Steps after which the map is no larger and the runs of its agents the same.  *)
LEMMA FewerCopies ==
  ASSUME TypeOK, ProtocolInv, active' \subseteq active, FinishNothing, Steady,
         \A q \in active' : arun'[q[2]] = arun[q[2]]
  PROVE  CopiesOK' /\ (pc' = "queued" => active' = {})
<1>1. ASSUME NEW q \in active'
      PROVE  arun'[q[2]] = q[1] /\ ~Finished(q[1])'
  BY <1>1, ExpectedActive DEF FinishNothing
<1>2. CopiesOK'
  BY <1>1 DEF CopiesOK
<1> QED
  BY <1>2 DEF ProtocolInv, Steady

(* Steps that change nothing about the agents.                               *)
LEMMA QuietStep ==
  ASSUME TypeOK, ProtocolInv, Steady, UNCHANGED <<astate, arun>>, SendNothing,
         active' \subseteq active, FinishNothing
  PROVE  ProtocolInv'
<1>1. ASSUME NEW b \in Agents
      PROVE  OK(b)'
  <2>1. OK(b)
    BY DEF ProtocolInv
  <2>2. /\ link'[b] = link[b] /\ astate'[b] = astate[b] /\ arun'[b] = arun[b]
        /\ toAgent'[b] = toAgent[b] /\ toMaster'[b] = toMaster[b] /\ proc'[b] = proc[b]
    BY DEF SendNothing, netVars
  <2> QED
    BY <2>1, <2>2, SameAgent
<1>2. CopiesOK' /\ (pc' = "queued" => active' = {})
  BY FewerCopies
<1> QED
  BY <1>1, <1>2 DEF ProtocolInv

(* NewGroup and RunUntil: the map is emptied, and the next messages are those   *)
(* of the next group.                                                         *)
LEMMA NewGroupStep ==
  ASSUME TypeOK, ProtocolInv, NewGroup \/ RunUntil, UNCHANGED proc
  PROVE  ProtocolInv'
<1>1. /\ active' = {} /\ UNCHANGED <<astate, arun, link, toAgent, toMaster>>
      /\ \/ pc = "client" /\ pc' = "queued" /\ group' = group + 1
         \/ pc = "queued" /\ pc' = "top" /\ group' = group
  BY DEF NewGroup, RunUntil, agentInfo, netVars, GoTo
<1>2. group \in Int
  BY MaxGroupAssumption DEF TypeOK, MasterTypeOK, JobTypeOK, Groups
<1>3. LastPast \in Int /\ LastPast' \in Int /\ LastPast <= LastPast'
  BY <1>1, <1>2 DEF LastPast
<1>4. ASSUME NEW b \in Agents
      PROVE  OK(b)'
  <2>1. Expected(b)' = Nobody
    BY <1>1 DEF Expected
  <2>2. AgentOK(link'[b], astate'[b], arun'[b], toAgent'[b], toMaster'[b], proc'[b], Expected(b), LastPast)
    BY <1>1 DEF OK, ProtocolInv
  <2> QED
    BY <1>3, <2>1, <2>2, Conclude
<1> QED
  BY <1>1, <1>4 DEF ProtocolInv, CopiesOK

(* Sends to the agents.                                                     *)
LEMMA SendingAt ==
  ASSUME NEW msgs, NEW b \in Agents
  PROVE  Sending(msgs)[b] = IF link[b] = "up" THEN toAgent[b] \o msgs[b] ELSE toAgent[b]
BY DEF Sending, Up

(* Nothing sent leaves the queue to the agent as it is.                      *)
LEMMA NothingSent ==
  ASSUME TypeOK, NEW b \in Agents
  PROVE  toAgent[b] \o <<>> = toAgent[b] /\ toAgent[b] \in Seq(AgentMsg)
<1>1. toAgent[b] \in Seq(AgentMsg)
  BY DEF TypeOK, NetTypeOK
<1> QED
  BY <1>1, ConcatEmptySeq

(* kill_run of some agents: each of them that runs something is told.        *)
LEMMA KilledAgent ==
  ASSUME TypeOK, Steady, NEW V, NEW b \in Agents, NEW ok, OK(b),
         astate'[b] = StateAfterKill(V, ok)[b],
         toAgent'[b] = Sending(KillRequests(V))[b],
         active' \subseteq active, b \in V => <<arun[b], b>> \notin active',
         link'[b] = link[b], arun'[b] = arun[b], toMaster'[b] = toMaster[b], proc'[b] = proc[b]
  PROVE  OK(b)'
<1>1. toAgent'[b] = IF link[b] = "up" THEN toAgent[b] \o KillRequests(V)[b] ELSE toAgent[b]
  BY SendingAt
<1>2. CASE b \in V /\ Killable(b)
  <2>1. /\ astate'[b] \in {"KILLED", "KILLED_FAILED"}
        /\ link[b] = "up" => astate'[b] = "KILLED"
    BY <1>2 DEF StateAfterKill, SendOk, Up
  <2>2. KillRequests(V)[b] = <<Kill>>
    BY <1>2 DEF KillRequests, Kill
  <2>3. LastPast \in Int /\ LastPast' \in Int /\ LastPast <= LastPast'
    BY PastGrows
  <2>4. astate[b] \in {"ACTIVE", "KILLED_FAILED"}
    BY <1>2 DEF Killable
  <2>5. AgentOK(link[b], astate[b], arun[b], toAgent[b], toMaster[b], proc[b], Expected(b), LastPast)
    BY DEF OK
  <2>6. /\ link[b] \in {"up", "down"}
        /\ link[b] = "up" => AgentOK(link[b], "KILLED", arun[b], toAgent[b] \o <<Kill>>, toMaster[b],
                                     proc[b], Nobody, LastPast)
        /\ link[b] = "down" => \A s \in {"KILLED", "KILLED_FAILED"} :
              AgentOK(link[b], s, arun[b], toAgent[b], toMaster[b], proc[b], Nobody, LastPast)
    <3>1. PICK l, st, r, inb, out, p, w, P :
            /\ l = link[b] /\ st = astate[b] /\ r = arun[b] /\ inb = toAgent[b] /\ out = toMaster[b]
            /\ p = proc[b] /\ w = Expected(b) /\ P = LastPast
      OBVIOUS
    <3>2. P \in Int /\ st \in {"ACTIVE", "KILLED_FAILED"} /\ AgentOK(l, st, r, inb, out, p, w, P)
      BY <2>3, <2>4, <2>5, <3>1
    <3>3. /\ l \in {"up", "down"}
          /\ l = "up" => AgentOK(l, "KILLED", r, inb \o <<Kill>>, out, p, Nobody, P)
          /\ l = "down" => \A s \in {"KILLED", "KILLED_FAILED"} :
                             AgentOK(l, s, r, inb, out, p, Nobody, P)
      BY ONLY <3>2, KillOK, Zenon
    <3> QED
      BY <3>1, <3>3
  <2>7. AgentOK(link'[b], astate'[b], arun'[b], toAgent'[b], toMaster'[b], proc'[b], Nobody, LastPast)
    <3>1. CASE link[b] = "up"
      BY <1>1, <2>1, <2>2, <2>6, <3>1
    <3>2. CASE link[b] = "down"
      BY <1>1, <2>1, <2>6, <3>2
    <3> QED
      BY <2>6, <3>1, <3>2
  <2>8. Expected(b)' = Nobody
    BY <1>2, ExpectsLess DEF Steady
  <2> QED
    BY <2>3, <2>7, <2>8, Conclude
<1>3. CASE ~(b \in V /\ Killable(b))
  <2>1. astate'[b] = astate[b] /\ KillRequests(V)[b] = <<>>
    BY <1>3 DEF StateAfterKill, KillRequests
  <2>2. toAgent'[b] = toAgent[b]
    BY <1>1, <2>1, NothingSent
  <2> QED
    BY <2>1, <2>2, SameAgent
<1> QED
  BY <1>2, <1>3

(* kill_run for the agents of V keeps the protocol.                          *)
LEMMA KillStep ==
  ASSUME TypeOK, ProtocolInv, Steady, NEW V, KillAgents(V), UNCHANGED <<arun, link, toMaster, proc>>,
         active = {} \/ FinishNothing
  PROVE  ProtocolInv'
<1>1. active' \subseteq active /\ \A b \in V : <<arun[b], b>> \notin active'
  BY DEF KillAgents, ActiveWithout
<1>2. PICK ok : astate' = StateAfterKill(V, ok)
  BY DEF KillAgents
<1>3. ASSUME NEW b \in Agents
      PROVE  OK(b)'
  <2>1. OK(b)
    BY DEF ProtocolInv
  <2>2. /\ astate'[b] = StateAfterKill(V, ok)[b] /\ toAgent'[b] = Sending(KillRequests(V))[b]
        /\ link'[b] = link[b] /\ arun'[b] = arun[b] /\ toMaster'[b] = toMaster[b] /\ proc'[b] = proc[b]
    BY <1>2 DEF KillAgents
  <2> QED
    BY <1>1, <2>1, <2>2, KilledAgent
<1>4. CASE FinishNothing
  <2>1. CopiesOK' /\ (pc' = "queued" => active' = {})
    BY <1>1, <1>4, FewerCopies
  <2> QED
    BY <1>3, <2>1 DEF ProtocolInv
<1>5. CASE active = {}
  BY <1>1, <1>3, <1>5 DEF ProtocolInv, CopiesOK
<1> QED
  BY <1>4, <1>5

(* schedule_run: a run that is needed is sent to a free agent.               *)
LEMMA GivenAgent ==
  ASSUME NEW l, NEW r, NEW inb, NEW out, NEW p, NEW w, NEW P, NEW q \in Runs, NEW g \in Groups,
         l # "up", AgentOK(l, "WAITING", r, inb, out, p, w, P)
  PROVE  AgentOK(l, "ACTIVE", q, inb, out, p, g, P)
<1>1. l = "down"
  BY DEF AgentOK, OffOK
<1>2. inb = <<>> /\ p = Idle /\ out = <<Eof>>
  BY <1>1 DEF AgentOK, DownOK, ConnectingAnswer, Working
<1> QED
  BY <1>1, <1>2 DEF AgentOK, DownOK

(* schedule_run on a free agent keeps the protocol.                          *)
LEMMA StartStep ==
  ASSUME TypeOK, ProtocolInv, Steady, NEW r \in Runs, NEW a \in Free, ~Finished(r), StartOn(r, a),
         UNCHANGED <<status, link, toMaster, proc>>, pc # "queued"
  PROVE  ProtocolInv'
<1>1. a \in Agents /\ astate[a] = "WAITING"
  BY DEF Free
<1>2. LastPast = group /\ group \in Groups /\ group \in Int /\ group # Nobody /\ LastPast' = group
  BY MaxGroupAssumption DEF LastPast, Steady, TypeOK, MasterTypeOK, JobTypeOK, Groups, Nobody
<1>3. /\ active' = active \cup {<<r, a>>}
      /\ \A b \in Agents : /\ astate'[b] = IF b = a THEN "ACTIVE" ELSE astate[b]
                           /\ arun'[b] = IF b = a THEN r ELSE arun[b]
                           /\ link'[b] = link[b] /\ toMaster'[b] = toMaster[b] /\ proc'[b] = proc[b]
  BY DEF StartOn, SetState, TypeOK, MasterTypeOK, AgentInfoTypeOK
<1>4. \A b \in Agents : toAgent'[b] = IF link[b] = "up" /\ b = a
                                      THEN toAgent[b] \o <<Msg("START_RUN", r, group)>>
                                      ELSE toAgent[b]
  <2> DEFINE msgs == [b \in Agents |-> IF b = a THEN <<Msg("START_RUN", r, group)>> ELSE <<>>]
  <2> TAKE b \in Agents
  <2>1. toAgent'[b] = IF link[b] = "up" THEN toAgent[b] \o msgs[b] ELSE toAgent[b]
    BY SendingAt DEF StartOn
  <2>2. msgs[b] = IF b = a THEN <<Msg("START_RUN", r, group)>> ELSE <<>>
    OBVIOUS
  <2> QED
    BY <2>1, <2>2, NothingSent
<1>5. ASSUME NEW b \in Agents
      PROVE  OK(b)'
  <2>1. AgentOK(link[b], astate[b], arun[b], toAgent[b], toMaster[b], proc[b], Expected(b), LastPast)
    BY DEF OK, ProtocolInv
  <2>2. CASE b = a
    <3>1. PICK l, in, out, p, w, s, P :
            /\ l = link[a] /\ in = toAgent[a] /\ out = toMaster[a] /\ p = proc[a] /\ w = Expected(a)
            /\ s = arun[a] /\ P = LastPast
      OBVIOUS
    <3>2. AgentOK(l, "WAITING", s, in, out, p, w, P) /\ group <= P
      BY <1>1, <1>2, <2>1, <2>2, <3>1
    <3>3. l # "up" => AgentOK(l, "ACTIVE", r, in, out, p, group, P)
      BY <1>2, <3>2, GivenAgent
    <3>4. l = "up" => AgentOK("up", "ACTIVE", r, in \o <<Msg("START_RUN", r, group)>>, out, p, group, P)
      BY <1>2, <3>2, StartOK
    <3>5. AgentOK(link'[b], astate'[b], arun'[b], toAgent'[b], toMaster'[b], proc'[b], group, P)
      BY <1>3, <1>4, <2>2, <3>1, <3>3, <3>4
    <3>6. Expected(b)' = group
      BY <1>1, <1>3, <2>2 DEF Expected, Steady
    <3> QED
      BY <1>2, <3>1, <3>5, <3>6, Conclude
  <2>3. CASE b # a
    <3>1. Expected(b)' = Expected(b)
      BY <1>3, <2>3 DEF Expected, Steady
    <3>2. AgentOK(link'[b], astate'[b], arun'[b], toAgent'[b], toMaster'[b], proc'[b], Expected(b), LastPast)
      BY <1>3, <1>4, <2>1, <2>3
    <3> QED
      BY <1>2, <3>1, <3>2, Conclude
  <2> QED
    BY <2>2, <2>3
<1>6. ASSUME NEW q \in active'
      PROVE  arun'[q[2]] = q[1] /\ ~Finished(q[1])'
  <2>1. CASE q \in active
    <3>1. q[2] \in Agents /\ astate[q[2]] = "ACTIVE" /\ arun[q[2]] = q[1] /\ ~Finished(q[1])
      BY <2>1, ExpectedActive
    <3> QED
      BY <1>1, <1>3, <3>1 DEF Finished
  <2>2. CASE q = <<r, a>>
    BY <1>1, <1>3, <2>2 DEF Finished
  <2> QED
    BY <1>3, <2>1, <2>2
<1> QED
  BY <1>5, <1>6 DEF ProtocolInv, CopiesOK, Steady

-----------------------------------------------------------------------------
(* init_agents, close_agent, add_agent.                                     *)

(* init_agents, for one agent.                                               *)
LEMMA HandshakeAgent ==
  ASSUME TypeOK, Steady, NEW b \in Agents, NEW ok, OK(b),
         astate'[b] = HandshakeNext(astate[b], SendOk(b, ok)),
         toAgent'[b] = IF link[b] = "up" THEN toAgent[b] \o HandshakeMsg(astate[b]) ELSE toAgent[b],
         active' \subseteq active,
         link'[b] = link[b], arun'[b] = arun[b], toMaster'[b] = toMaster[b], proc'[b] = proc[b]
  PROVE  OK(b)'
<1>1. PICK l, st, r, in, out, p, w, P :
        /\ l = link[b] /\ st = astate[b] /\ r = arun[b] /\ in = toAgent[b] /\ out = toMaster[b]
        /\ p = proc[b] /\ w = Expected(b) /\ P = LastPast
  OBVIOUS
<1>2. AgentOK(l, st, r, in, out, p, w, P) /\ in \in Seq(AgentMsg)
  BY <1>1, NothingSent DEF OK
<1>3. /\ l = "up" => AgentOK(l, HandshakeNext(st, TRUE), r, in \o HandshakeMsg(st), out, p, w, P)
      /\ l # "up" => /\ AgentOK(l, HandshakeNext(st, TRUE), r, in, out, p, w, P)
                     /\ AgentOK(l, HandshakeNext(st, FALSE), r, in, out, p, w, P)
  BY <1>2, HandshakeOK
<1>4. /\ astate'[b] = HandshakeNext(st, TRUE) \/ astate'[b] = HandshakeNext(st, FALSE)
      /\ l = "up" => astate'[b] = HandshakeNext(st, TRUE)
  BY <1>1 DEF HandshakeNext, SendOk, Up
<1>5. AgentOK(link'[b], astate'[b], arun'[b], toAgent'[b], toMaster'[b], proc'[b], w, P)
  <2>1. CASE l = "up"
    BY <1>1, <1>3, <1>4, <2>1
  <2>2. CASE l # "up"
    BY <1>1, <1>3, <1>4, <2>2
  <2> QED
    BY <2>1, <2>2
<1>6. Expected(b)' \in {Expected(b), Nobody}
  BY ExpectsLess DEF Steady
<1> QED
  BY <1>1, <1>5, <1>6, PastGrows, Conclude

(* init_agents, for all.                                                     *)
LEMMA InitAgentsStep ==
  ASSUME TypeOK, ProtocolInv, InitAgents, UNCHANGED proc, pc' = "queued" => pc = "queued"
  PROVE  ProtocolInv'
<1>1. PICK ok : astate' = [a \in Agents |-> HandshakeNext(astate[a], SendOk(a, ok))]
  BY DEF InitAgents
<1>2. /\ active' = active /\ status' = status /\ arun' = arun /\ link' = link
      /\ toMaster' = toMaster /\ Steady
  BY DEF InitAgents, jobVars, Steady
<1>3. ASSUME NEW b \in Agents
      PROVE  OK(b)'
  <2>1. astate'[b] = HandshakeNext(astate[b], SendOk(b, ok))
    BY <1>1
  <2>2. toAgent'[b] = IF link[b] = "up" THEN toAgent[b] \o HandshakeMsg(astate[b]) ELSE toAgent[b]
    BY SendingAt DEF InitAgents
  <2>3. OK(b)
    BY DEF ProtocolInv
  <2> QED
    BY <1>2, <2>1, <2>2, <2>3, HandshakeAgent
<1>4. CopiesOK' /\ (pc' = "queued" => active' = {})
  BY <1>2, FewerCopies DEF FinishNothing, Finished
<1> QED
  BY <1>3, <1>4 DEF ProtocolInv

(* A round of kill_all_active_runs: a kill request or a step of the handshake to each. *)
LEMMA KillRoundStep ==
  ASSUME TypeOK, ProtocolInv, KillRound, UNCHANGED proc
  PROVE  ProtocolInv'
<1> DEFINE V == {a \in Agents : Killable(a)}
           msgs == [a \in Agents |-> IF a \in V THEN KillRequests(V)[a] ELSE HandshakeMsg(astate[a])]
<1>1. PICK ok : astate' = [a \in Agents |-> IF a \in V THEN StateAfterKill(V, ok)[a]
                                            ELSE HandshakeNext(astate[a], SendOk(a, ok))]
  BY DEF KillRound
<1>2. /\ active' \subseteq active /\ \A b \in V : <<arun[b], b>> \notin active'
      /\ status' = status /\ arun' = arun /\ link' = link /\ toMaster' = toMaster
      /\ toAgent' = Sending(msgs) /\ Steady
  BY DEF KillRound, ActiveWithout, Steady, GoTo
<1>3. ASSUME NEW b \in Agents
      PROVE  OK(b)'
  <2>1. OK(b)
    BY DEF ProtocolInv
  <2>2. toAgent'[b] = IF link[b] = "up" THEN toAgent[b] \o msgs[b] ELSE toAgent[b]
    BY <1>2, SendingAt
  <2>3. CASE b \in V
    <3>1. msgs[b] = KillRequests(V)[b] /\ astate'[b] = StateAfterKill(V, ok)[b]
      BY <1>1, <2>3
    <3>2. toAgent'[b] = Sending(KillRequests(V))[b]
      BY <2>2, <3>1, SendingAt
    <3> HIDE DEF V, msgs
    <3> QED
      BY <1>2, <2>1, <3>1, <3>2, KilledAgent
  <2>4. CASE b \notin V
    <3>1. msgs[b] = HandshakeMsg(astate[b]) /\ astate'[b] = HandshakeNext(astate[b], SendOk(b, ok))
      BY <1>1, <2>4
    <3> HIDE DEF V, msgs
    <3> QED
      BY <1>2, <2>1, <2>2, <3>1, HandshakeAgent
  <2> QED
    BY <2>3, <2>4
<1>4. CopiesOK' /\ (pc' = "queued" => active' = {})
  BY <1>2, FewerCopies DEF FinishNothing, Finished
<1> QED
  BY <1>3, <1>4 DEF ProtocolInv

(* close_agent of a free agent or of one that is gone.                       *)
LEMMA ClosedAgent ==
  ASSUME TypeOK, Steady, NEW b \in Agents, OK(b), link[b] = "down" \/ astate[b] = "WAITING",
         link'[b] = "none", astate'[b] = "NONE", arun'[b] = NoRun, toAgent'[b] = <<>>,
         toMaster'[b] = <<>>, proc'[b] = proc[b], active' \subseteq active
  PROVE  OK(b)'
<1>1. <<NoRun, b>> \notin active
  BY DEF TypeOK, MasterTypeOK, JobTypeOK, Runs, NoRun
<1>2. Expected(b)' = Nobody
  BY <1>1 DEF Expected
<1>3. AgentOK(link[b], astate[b], arun[b], toAgent[b], toMaster[b], proc[b], Expected(b), LastPast)
  BY DEF OK
<1>4. AgentOK("none", "NONE", NoRun, <<>>, <<>>, proc[b], Nobody, LastPast)
  <2>1. PICK l, st, r, in, out, p, w, P :
          /\ l = link[b] /\ st = astate[b] /\ r = arun[b] /\ in = toAgent[b] /\ out = toMaster[b]
          /\ p = proc[b] /\ w = Expected(b) /\ P = LastPast
    OBVIOUS
  <2>2. AgentOK(l, st, r, in, out, p, w, P) /\ (l = "down" \/ st = "WAITING")
    BY <1>3, <2>1
  <2>3. AgentOK("none", "NONE", NoRun, <<>>, <<>>, p, Nobody, P)
    BY ONLY <2>2, CloseOK
  <2> QED
    BY <2>1, <2>3
<1> QED
  BY <1>2, <1>4, PastGrows, Conclude

(* close_agent for a set of free agents.                                     *)
LEMMA CloseFreeStep ==
  ASSUME TypeOK, ProtocolInv, NEW S, S \subseteq Free, CloseFree(S), UNCHANGED proc,
         pc' = "queued" => pc = "queued"
  PROVE  ProtocolInv'
<1>1. /\ active' = ActiveWithout(S) /\ Steady /\ status' = status
      /\ \A b \in Agents :
           /\ proc'[b] = proc[b]
           /\ astate'[b] = IF b \in S THEN "NONE" ELSE astate[b]
           /\ arun'[b] = IF b \in S THEN NoRun ELSE arun[b]
           /\ link'[b] = IF b \in S THEN "none" ELSE link[b]
           /\ toAgent'[b] = IF b \in S THEN <<>> ELSE toAgent[b]
           /\ toMaster'[b] = IF b \in S THEN <<>> ELSE toMaster[b]
  BY DEF CloseFree, Steady
<1>2. active' \subseteq active
  BY <1>1 DEF ActiveWithout
<1>3. ASSUME NEW b \in Agents
      PROVE  OK(b)'
  <2>1. OK(b)
    BY DEF ProtocolInv
  <2>2. CASE b \in S
    BY <1>1, <1>2, <2>1, <2>2, ClosedAgent DEF Free
  <2>3. CASE b \notin S
    BY <1>1, <1>2, <2>1, <2>3, SameAgent
  <2> QED
    BY <2>2, <2>3
<1>4. ASSUME NEW q \in active'
      PROVE  arun'[q[2]] = arun[q[2]]
  <2>1. q \in active /\ q[2] \in Agents /\ q = <<arun[q[2]], q[2]>>
    BY <1>2, ExpectedActive
  <2>2. q[2] \notin S
    BY <1>1, <2>1 DEF ActiveWithout
  <2> QED
    BY <1>1, <2>1, <2>2
<1>5. CopiesOK' /\ (pc' = "queued" => active' = {})
  BY <1>1, <1>2, <1>4, FewerCopies DEF FinishNothing, Finished
<1> QED
  BY <1>3, <1>5 DEF ProtocolInv

(* add_agent.                                                                *)
LEMMA AddAgentStep ==
  ASSUME TypeOK, ProtocolInv, NEW a \in Agents, AddAgent(a), UNCHANGED proc,
         pc' = "queued" => pc = "queued"
  PROVE  ProtocolInv'
<1>1. /\ active' = active /\ status' = status /\ arun' = arun /\ toAgent' = toAgent
      /\ toMaster' = toMaster /\ proc' = proc /\ Steady /\ link[a] = "pending"
      /\ \A b \in Agents : /\ link'[b] = IF b = a THEN "up" ELSE link[b]
                           /\ astate'[b] = IF b = a THEN "NEW" ELSE astate[b]
  BY DEF AddAgent, SetState, jobVars, Steady, TypeOK, MasterTypeOK, AgentInfoTypeOK, NetTypeOK
<1>2. ASSUME NEW b \in Agents
      PROVE  OK(b)'
  <2>1. AgentOK(link[b], astate[b], arun[b], toAgent[b], toMaster[b], proc[b], Expected(b), LastPast)
    BY DEF OK, ProtocolInv
  <2>2. CASE b = a
    <3>1. AgentOK("up", "NEW", arun[b], toAgent[b], toMaster[b], proc[b], Expected(b), LastPast)
      <4>1. PICK l, st, r, in, out, p, w, P :
              /\ l = link[b] /\ st = astate[b] /\ r = arun[b] /\ in = toAgent[b] /\ out = toMaster[b]
              /\ p = proc[b] /\ w = Expected(b) /\ P = LastPast
        OBVIOUS
      <4>2. AgentOK(l, st, r, in, out, p, w, P) /\ l \notin {"up", "down"}
        BY <1>1, <2>1, <2>2, <4>1
      <4>3. AgentOK("up", "NEW", r, in, out, p, w, P)
        BY ONLY <4>2, AddOK
      <4> QED
        BY <4>1, <4>3
    <3>2. AgentOK(link'[b], astate'[b], arun'[b], toAgent'[b], toMaster'[b], proc'[b], Expected(b), LastPast)
      BY <1>1, <2>2, <3>1
    <3>3. Expected(b)' \in {Expected(b), Nobody}
      BY <1>1, ExpectsLess DEF Steady
    <3> QED
      BY <1>1, <3>2, <3>3, PastGrows, Conclude
  <2>3. CASE b # a
    <3>1. OK(b)
      BY DEF ProtocolInv
    <3> QED
      BY <1>1, <2>3, <3>1, SameAgent
  <2> QED
    BY <2>2, <2>3
<1>3. CopiesOK' /\ (pc' = "queued" => active' = {})
  BY <1>1, FewerCopies DEF FinishNothing, Finished
<1> QED
  BY <1>2, <1>3 DEF ProtocolInv

-----------------------------------------------------------------------------
(* process_message.                                                         *)

(* Agent a after a message of it has been read, in state s, when the master     *)
(* expects nothing of it.                                                     *)
ReadBy(a, s) ==
  AgentOK(link[a], s, arun[a], toAgent[a], Tail(toMaster[a]), proc[a], Nobody, LastPast)

(* What follows from a message that is no result being the next one.         *)
LEMMA HeadReply ==
  ASSUME NEW a, OK(a), toMaster[a] # <<>>
  PROVE  /\ link[a] \in {"up", "down"}
         /\ Head(toMaster[a]).type = "RUNDIR" => Expected(a) = Nobody /\ ReadBy(a, "CWD_RCV")
         /\ Head(toMaster[a]).type = "LINPACK" => Expected(a) = Nobody /\ ReadBy(a, "LINPACK_RCV")
         /\ Head(toMaster[a]).type = "READY" => Expected(a) = Nobody /\ ReadBy(a, "WAITING")
         /\ Head(toMaster[a]).type = "EOF" => link[a] = "down"
<1>1. PICK l, st, r, in, out, p, w, P :
        /\ l = link[a] /\ st = astate[a] /\ r = arun[a] /\ in = toAgent[a] /\ out = toMaster[a]
        /\ p = proc[a] /\ w = Expected(a) /\ P = LastPast
  OBVIOUS
<1>2. AgentOK(l, st, r, in, out, p, w, P) /\ out # <<>>
  BY <1>1 DEF OK
<1>3. /\ l \in {"up", "down"}
      /\ \A t, s : \/ t = "RUNDIR" /\ s = "CWD_RCV"
                   \/ t = "LINPACK" /\ s = "LINPACK_RCV"
                   \/ t = "READY" /\ s = "WAITING"
            => (Head(out).type = t => w = Nobody /\ AgentOK(l, s, r, in, Tail(out), p, w, P))
      /\ Head(out).type = "EOF" => l = "down"
  BY ONLY <1>2, ReplyOK
<1> QED
  BY <1>1, <1>3 DEF ReadBy

(* What follows from a result being the next message: it is of the run the agent works on. *)
LEMMA HeadAnswer ==
  ASSUME TypeOK, NEW a, OK(a), toMaster[a] # <<>>, Head(toMaster[a]).type \in ResultType
  PROVE  /\ Head(toMaster[a]).run = arun[a] /\ arun[a] \in Runs
         /\ Head(toMaster[a]).grp <= LastPast
         /\ Expected(a) # Nobody => /\ Head(toMaster[a]).type # "RUN_KILLED"
                                    /\ Head(toMaster[a]).grp = Expected(a)
         /\ ReadBy(a, astate[a]) /\ ReadBy(a, "COMPLETE")
<1>1. PICK l, st, r, in, out, p, w, P :
        /\ l = link[a] /\ st = astate[a] /\ r = arun[a] /\ in = toAgent[a] /\ out = toMaster[a]
        /\ p = proc[a] /\ w = Expected(a) /\ P = LastPast
  OBVIOUS
<1>2. /\ AgentOK(l, st, r, in, out, p, w, P) /\ out # <<>> /\ Head(out).type \in ResultType
      /\ P \in Int
  <2>1. LastPast \in Int
    BY MaxGroupAssumption DEF LastPast, TypeOK, MasterTypeOK, JobTypeOK, Groups
  <2> QED
    BY <1>1, <2>1 DEF OK
<1>3. /\ r \in Runs /\ Head(out) \in Answers(r, w, P)
      /\ AgentOK(l, st, r, in, Tail(out), p, Nobody, P)
      /\ AgentOK(l, "COMPLETE", r, in, Tail(out), p, Nobody, P)
  BY ONLY <1>2, AnswerOK
<1>4. /\ Head(out).run = r /\ Head(out).grp <= P
      /\ w # Nobody => Head(out).type # "RUN_KILLED" /\ Head(out).grp = w
  BY <1>3 DEF Answers
<1> QED
  BY <1>1, <1>3, <1>4 DEF ReadBy

(* The other agents do not notice, and the map is no larger.                 *)
LEMMA ReadStep ==
  ASSUME TypeOK, ProtocolInv, Steady, NEW a \in Agents, Read(a), ReadBy(a, astate'[a]),
         UNCHANGED <<arun, link, toAgent, proc>>, FinishNothing,
         \A b \in Agents : b # a => astate'[b] = astate[b],
         active' \subseteq active, <<arun[a], a>> \notin active'
  PROVE  ProtocolInv'
<1>1. \A b \in Agents : toMaster'[b] = IF b = a THEN Tail(toMaster[a]) ELSE toMaster[b]
  BY DEF Read, TypeOK, NetTypeOK
<1>2. ASSUME NEW b \in Agents
      PROVE  OK(b)'
  <2>1. CASE b = a
    <3>1. Expected(a)' = Nobody
      BY ExpectsLess DEF Steady
    <3>2. AgentOK(link'[a], astate'[a], arun'[a], toAgent'[a], toMaster'[a], proc'[a], Nobody, LastPast)
      BY <1>1, <2>1 DEF ReadBy
    <3> QED
      BY <2>1, <3>1, <3>2, PastGrows, Conclude
  <2>2. CASE b # a
    <3>1. OK(b)
      BY DEF ProtocolInv
    <3> QED
      BY <1>1, <2>2, <3>1, SameAgent
  <2> QED
    BY <2>1, <2>2
<1>3. CopiesOK' /\ (pc' = "queued" => active' = {})
  BY FewerCopies
<1> QED
  BY <1>2, <1>3 DEF ProtocolInv

(* process_message of a lost connection.                                     *)
LEMMA OnLostStep ==
  ASSUME TypeOK, ProtocolInv, NEW a \in Agents, OnLost(a), UNCHANGED proc, pc' = "queued" => pc = "queued"
  PROVE  ProtocolInv'
<1>1. /\ active' = ActiveWithout({a}) /\ Steady /\ status' = status
      /\ \A b \in Agents :
           /\ proc'[b] = proc[b]
           /\ astate'[b] = IF b = a THEN "NONE" ELSE astate[b]
           /\ arun'[b] = IF b = a THEN NoRun ELSE arun[b]
           /\ link'[b] = IF b = a THEN "none" ELSE link[b]
           /\ toAgent'[b] = IF b = a THEN <<>> ELSE toAgent[b]
           /\ toMaster'[b] = IF b = a THEN <<>> ELSE toMaster[b]
  BY DEF OnLost, CloseAgent, SetState, Steady, TypeOK, MasterTypeOK, AgentInfoTypeOK, NetTypeOK
<1>2. active' \subseteq active
  BY <1>1 DEF ActiveWithout
<1>3. link[a] = "down"
  BY HeadReply DEF OnLost, HeadIs, ProtocolInv
<1>4. ASSUME NEW b \in Agents
      PROVE  OK(b)'
  <2>1. OK(b)
    BY DEF ProtocolInv
  <2>2. CASE b = a
    BY <1>1, <1>2, <1>3, <2>1, <2>2, ClosedAgent
  <2>3. CASE b # a
    BY <1>1, <1>2, <2>1, <2>3, SameAgent
  <2> QED
    BY <2>2, <2>3
<1>5. ASSUME NEW q \in active'
      PROVE  arun'[q[2]] = arun[q[2]]
  <2>1. q \in active /\ q[2] \in Agents /\ q = <<arun[q[2]], q[2]>>
    BY <1>2, ExpectedActive
  <2>2. q[2] # a
    BY <1>1, <2>1 DEF ActiveWithout
  <2> QED
    BY <1>1, <2>1, <2>2
<1>6. CopiesOK' /\ (pc' = "queued" => active' = {})
  BY <1>1, <1>2, <1>5, FewerCopies DEF FinishNothing, Finished
<1> QED
  BY <1>4, <1>6 DEF ProtocolInv

(* process_model_run: the answer is read and the other copies are killed.    *)
LEMMA OnFinishedStep ==
  ASSUME TypeOK, ProtocolInv, NEW a \in Agents, OnFinished(a), UNCHANGED proc,
         pc' = "queued" => pc = "queued"
  PROVE  ProtocolInv'
<1>1. PICK r : r = arun[a]
  OBVIOUS
<1>2. OK(a) /\ toMaster[a] # <<>> /\ Head(toMaster[a]).type \in ResultType
  BY DEF ProtocolInv, OnFinished, IsResult, HeadIs, ResultType
<1>3. Head(toMaster[a]).run = r /\ r \in Runs /\ ReadBy(a, "COMPLETE")
  BY <1>1, <1>2, HeadAnswer
<1> DEFINE others == {b \in Agents : <<r, b>> \in ActiveWithout({a})}
<1>4. PICK ok :
        /\ astate' = [StateAfterKill(others, ok) EXCEPT ![a] = "COMPLETE"]
        /\ active' = ActiveWithout({a} \cup others) /\ toAgent' = Sending(KillRequests(others))
        /\ status' = [status EXCEPT ![r] = 1]
  BY <1>3 DEF OnFinished
<1>5. arun' = arun /\ link' = link /\ Steady /\ Read(a)
  BY DEF OnFinished, Steady
<1>6. a \notin others
  BY <1>1 DEF ActiveWithout
<1>7. StateAfterKill(others, ok) \in [Agents -> AgentState]
  BY KillType DEF TypeOK, MasterTypeOK
<1> HIDE DEF others
<1>8. /\ astate'[a] = "COMPLETE"
      /\ \A b \in Agents : b # a => astate'[b] = StateAfterKill(others, ok)[b]
      /\ \A b \in Agents : toMaster'[b] = IF b = a THEN Tail(toMaster[a]) ELSE toMaster[b]
  BY <1>4, <1>5, <1>7 DEF Read, TypeOK, NetTypeOK
<1>9. active' \subseteq active /\ \A b \in {a} \cup others : <<arun[b], b>> \notin active'
  BY <1>4 DEF ActiveWithout
<1>10. ASSUME NEW b \in Agents
       PROVE  OK(b)'
  <2>1. CASE b = a
    <3>1. toAgent'[a] = toAgent[a]
      <4>1. KillRequests(others)[a] = <<>>
        BY <1>6 DEF KillRequests
      <4> QED
        BY <1>4, <4>1, SendingAt, NothingSent
    <3>2. Expected(a)' = Nobody
      BY <1>5, <1>9, ExpectsLess DEF Steady
    <3>3. AgentOK(link'[a], astate'[a], arun'[a], toAgent'[a], toMaster'[a], proc'[a], Nobody, LastPast)
      BY <1>3, <1>5, <1>8, <3>1 DEF ReadBy
    <3> QED
      BY <1>5, <2>1, <3>2, <3>3, PastGrows, Conclude
  <2>2. CASE b # a
    <3>1. OK(b)
      BY DEF ProtocolInv
    <3>2. /\ astate'[b] = StateAfterKill(others, ok)[b] /\ toAgent'[b] = Sending(KillRequests(others))[b]
          /\ link'[b] = link[b] /\ arun'[b] = arun[b] /\ toMaster'[b] = toMaster[b] /\ proc'[b] = proc[b]
      BY <1>4, <1>5, <1>8, <2>2
    <3> QED
      BY <1>5, <1>9, <3>1, <3>2, KilledAgent
  <2> QED
    BY <2>1, <2>2
<1>11. ASSUME NEW q \in active'
       PROVE  arun'[q[2]] = q[1] /\ ~Finished(q[1])'
  <2>1. /\ q \in active /\ q[1] \in Runs /\ q[2] \in Agents /\ q = <<q[1], q[2]>>
        /\ arun[q[2]] = q[1] /\ ~Finished(q[1])
    BY <1>9, ExpectedActive
  <2>2. q[1] # r
    <3>1. SUFFICES ASSUME q[1] = r
                   PROVE  FALSE
      OBVIOUS
    <3>2. q[2] \notin {a} \cup others
      BY <1>9, <2>1
    <3>3. <<r, q[2]>> \in ActiveWithout({a})
      BY <1>1, <2>1, <3>1, <3>2 DEF ActiveWithout
    <3> QED
      BY <2>1, <3>2, <3>3 DEF others
  <2>3. status'[q[1]] = status[q[1]]
    BY <1>4, <2>1, <2>2 DEF TypeOK, MasterTypeOK, JobTypeOK
  <2> QED
    BY <1>5, <2>1, <2>3 DEF Finished
<1>12. pc' = "queued" => active' = {}
  BY <1>9 DEF ProtocolInv
<1> QED
  BY <1>10, <1>11, <1>12 DEF ProtocolInv, CopiesOK

(* A late result is dropped: the master expects nothing of an agent whose       *)
(* result is of an earlier group or of a finished run.                         *)
LEMMA OnDroppedStep ==
  ASSUME TypeOK, ProtocolInv, NEW a \in Agents, OnOldResult(a) \/ OnResultOfFinishedRun(a),
         UNCHANGED proc, pc' = "queued" => pc = "queued"
  PROVE  ProtocolInv'
<1>1. /\ Read(a) /\ Steady /\ toMaster[a] # <<>> /\ Head(toMaster[a]).type \in ResultType
      /\ active' = active /\ status' = status
      /\ UNCHANGED <<astate, arun, link, toAgent>>
  BY DEF OnOldResult, OnResultOfFinishedRun, IsResult, HeadIs, ResultType, jobVars, agentInfo, Steady
<1>2. OK(a)
  BY DEF ProtocolInv
<1>3. ReadBy(a, astate[a]) /\ Head(toMaster[a]).run = arun[a]
      /\ (Expected(a) # Nobody => Head(toMaster[a]).grp = Expected(a))
  BY <1>1, <1>2, HeadAnswer
<1>4. ASSUME <<arun[a], a>> \in active
      PROVE  FALSE
  <2>1. Expected(a) = group /\ group # Nobody /\ ~Finished(arun[a])
    BY <1>4, ExpectedActive
  <2> QED
    BY <1>3, <2>1 DEF OnOldResult, OnResultOfFinishedRun
<1> QED
  BY <1>1, <1>3, <1>4, ReadStep DEF FinishNothing, Finished

(* process_message, every case.                                              *)
LEMMA ProcessMessageStep ==
  ASSUME TypeOK, ProtocolInv, NEW a \in Agents, ProcessMessage(a), UNCHANGED proc,
         pc' = "queued" => pc = "queued"
  PROVE  ProtocolInv'
<1>1. OK(a)
  BY DEF ProtocolInv
<1>2. CASE OnHandshake(a)
  <2>1. /\ Read(a) /\ Steady /\ toMaster[a] # <<>> /\ active' = active /\ status' = status
        /\ UNCHANGED <<arun, link, toAgent>>
    BY <1>2 DEF OnHandshake, HeadIs, jobVars, Steady
  <2>2. /\ Expected(a) = Nobody /\ ReadBy(a, astate'[a])
        /\ \A b \in Agents : b # a => astate'[b] = astate[b]
    BY <1>1, <1>2, HeadReply DEF OnHandshake, HeadIs, SetState, TypeOK, MasterTypeOK, AgentInfoTypeOK
  <2>3. <<arun[a], a>> \notin active
    BY <2>2, MaxGroupAssumption DEF Expected, Nobody, TypeOK, MasterTypeOK, JobTypeOK, Groups
  <2> QED
    BY <2>1, <2>2, <2>3, ReadStep DEF FinishNothing, Finished
<1>3. CASE OnFailed(a) \/ OnKilled(a)
  <2>1. /\ Read(a) /\ Steady /\ toMaster[a] # <<>> /\ Head(toMaster[a]).type \in ResultType
        /\ active' = ActiveWithout({a}) /\ UNCHANGED <<astate, arun, link, toAgent>>
    BY <1>3 DEF OnFailed, OnKilled, IsResult, HeadIs, ResultType, agentInfo, Steady
  <2>2. ReadBy(a, astate[a]) /\ Head(toMaster[a]).run \in Runs
    BY <1>1, <2>1, HeadAnswer
  <2>3. FinishNothing
    <3>1. CASE OnKilled(a)
      BY <3>1 DEF OnKilled, FinishNothing, Finished
    <3>2. CASE OnFailed(a)
      <4>1. PICK r \in Runs : Charge(r, {a})
        BY <2>2, <3>2 DEF OnFailed
      <4>2. Cardinality({a}) = 1
        BY FS_Singleton
      <4> QED
        BY <4>1, <4>2 DEF Charge, FinishNothing, Finished, TypeOK, MasterTypeOK, JobTypeOK
    <3> QED
      BY <1>3, <3>1, <3>2
  <2>4. active' \subseteq active /\ <<arun[a], a>> \notin active'
    BY <2>1 DEF ActiveWithout
  <2> QED
    BY <2>1, <2>2, <2>3, <2>4, ReadStep
<1> QED
  BY <1>2, <1>3, OnLostStep, OnFinishedStep, OnDroppedStep DEF ProcessMessage

-----------------------------------------------------------------------------
(* The steps of the master.                                                 *)

(* A pending run that is charged with failures is not finished by them.      *)
LEMMA ChargeFinishesNothing ==
  ASSUME TypeOK, NEW r \in Runs, NEW S, S \subseteq Agents, Charge(r, S)
  PROVE  FinishNothing
<1>1. Cardinality(S) \in Nat
  BY AgentsAssumption, FS_Subset, FS_CardinalityType
<1> QED
  BY <1>1 DEF Charge, FinishNothing, Finished, TypeOK, MasterTypeOK, JobTypeOK

(* The steps that send nothing and read nothing.                             *)
LEMMA QuietSteps ==
  ASSUME TypeOK, ProtocolInv, UNCHANGED proc,
         \/ AllRunsComplete \/ MarkWaitingFailed \/ StopBeforePass
         \/ AssignNotNeeded \/ AssignLater \/ AssignDone
         \/ (\E a \in Agents : LeaveOrDuplicate(a)) \/ OverdueDone \/ Listen
         \/ Drain \/ DrainCheckStop \/ CreateStop \/ RemoveStop
  PROVE  ProtocolInv'
<1>1. UNCHANGED <<active, group, astate, arun, netVars>>
  <2>1. CASE AllRunsComplete \/ MarkWaitingFailed \/ StopBeforePass
    BY <2>1 DEF AllRunsComplete, MarkWaitingFailed, StopBeforePass, jobVars, agentInfo, netVars
  <2>2. CASE AssignNotNeeded \/ AssignLater \/ AssignDone
    BY <2>2 DEF AssignNotNeeded, AssignLater, AssignDone, jobVars, agentInfo, netVars
  <2>3. CASE (\E a \in Agents : LeaveOrDuplicate(a)) \/ OverdueDone \/ Listen
    BY <2>3 DEF LeaveOrDuplicate, Visit, OverdueDone, Listen, jobVars, agentInfo, netVars
  <2>4. CASE Drain \/ DrainCheckStop \/ CreateStop \/ RemoveStop
    BY <2>4 DEF Drain, DrainCheckStop, CreateStop, RemoveStop, jobVars, agentInfo, netVars
  <2> QED
    BY <2>1, <2>2, <2>3, <2>4
<1>2. pc' = "queued" => pc = "queued"
  <2>1. CASE AllRunsComplete \/ MarkWaitingFailed \/ StopBeforePass
    BY <2>1 DEF AllRunsComplete, MarkWaitingFailed, StopBeforePass, CallKillAll, GoTo
  <2>2. CASE AssignNotNeeded \/ AssignLater \/ AssignDone
    BY <2>2 DEF AssignNotNeeded, AssignLater, AssignDone, ToListen
  <2>3. CASE (\E a \in Agents : LeaveOrDuplicate(a)) \/ OverdueDone
    BY <2>3 DEF LeaveOrDuplicate, OverdueDone, ToListen
  <2>4. CASE Listen
    BY <2>4 DEF Listen, EndListen, TypeOK, MasterTypeOK, CallTypeOK, ListenRet, KillRet
  <2>5. CASE Drain \/ DrainCheckStop \/ CreateStop \/ RemoveStop
    BY <2>5 DEF Drain, DrainCheckStop, CreateStop, RemoveStop, CallKillAll, GoTo
  <2> QED
    BY <2>1, <2>2, <2>3, <2>4, <2>5
<1>3. FinishNothing
  <2>1. CASE MarkWaitingFailed
    <3>1. \A r \in Runs : ~Finished(r) => status[r] < 1 \/ status'[r] = status[r]
      BY <2>1 DEF MarkWaitingFailed, Finished
    <3>2. ASSUME NEW r \in Runs, status[r] < 1
          PROVE  status'[r] # 1
      <4>1. PICK k \in Nat : status'[r] = status[r] - k
        <5> DEFINE K == {i \in DOMAIN waiting : waiting[i] = r}
        <5>1. waiting \in Seq(Runs)
          BY DEF TypeOK, MasterTypeOK, JobTypeOK
        <5>2. K \subseteq 1 .. Len(waiting) /\ IsFiniteSet(1 .. Len(waiting))
          BY <5>1, FS_Interval
        <5>3. Cardinality(K) \in Nat
          BY <5>2, FS_Subset, FS_CardinalityType
        <5>4. status'[r] = status[r] - Cardinality(K)
          BY <2>1, <3>2 DEF MarkWaitingFailed
        <5> QED
          BY <5>3, <5>4
      <4> QED
        BY <3>2, <4>1 DEF TypeOK, MasterTypeOK, JobTypeOK
    <3> QED
      BY <3>1, <3>2 DEF FinishNothing, Finished
  <2>2. CASE AllRunsComplete \/ StopBeforePass \/ AssignNotNeeded \/ AssignLater \/ AssignDone
    BY <2>2 DEF AllRunsComplete, StopBeforePass, AssignNotNeeded, AssignLater, AssignDone, jobVars,
                FinishNothing, Finished
  <2>3. CASE (\E a \in Agents : LeaveOrDuplicate(a)) \/ OverdueDone \/ Listen
    BY <2>3 DEF LeaveOrDuplicate, OverdueDone, Listen, jobVars, FinishNothing, Finished
  <2>4. CASE Drain \/ DrainCheckStop \/ CreateStop \/ RemoveStop
    BY <2>4 DEF Drain, DrainCheckStop, CreateStop, RemoveStop, jobVars, FinishNothing, Finished
  <2> QED
    BY <2>1, <2>2, <2>3, <2>4
<1> QED
  BY <1>1, <1>2, <1>3, QuietStep DEF Steady, SendNothing

(* The steps of the overdue loop that kill.                                  *)
LEMMA OverdueSteps ==
  ASSUME TypeOK, ProtocolInv, UNCHANGED proc, NEW a \in Agents,
         GiveUpRun(a) \/ RestartRun(a) \/ KillOverdue(a)
  PROVE  ProtocolInv'
<1>1. Visit(a)
  BY DEF GiveUpRun, RestartRun, KillOverdue
<1>2. arun[a] \in Runs /\ UNCHANGED <<group, arun, link, toMaster>> /\ pc = "overdue"
  BY <1>1 DEF Visit, ToVisit, TypeOK, MasterTypeOK, AgentInfoTypeOK
<1>3. Steady
  BY <1>2 DEF Steady, GiveUpRun, RestartRun, KillOverdue
<1>4. \E V \in SUBSET Agents : KillAgents(V) /\ Charge(arun[a], V)
  BY <1>2 DEF GiveUpRun, RestartRun, KillOverdue, KillCopies, Copies
<1>5. PICK V \in SUBSET Agents : KillAgents(V) /\ Charge(arun[a], V)
  BY <1>4
<1>6. FinishNothing
  BY <1>2, <1>5, ChargeFinishesNothing
<1> QED
  BY <1>2, <1>3, <1>5, <1>6, KillStep

(* The steps that may start a run.                                           *)
LEMMA StartSteps ==
  ASSUME TypeOK, ProtocolInv, UNCHANGED proc, AssignStart \/ Reschedule
  PROVE  ProtocolInv'
<1>1. CASE AssignStart
  <2>1. waiting[cursor] \in Runs
    BY <1>1 DEF AssignStart, AtWaiting, TypeOK, MasterTypeOK, JobTypeOK, LoopTypeOK
  <2>2. PICK a \in Free : StartOn(waiting[cursor], a)
    BY <1>1 DEF AssignStart, Candidates
  <2>3. Steady /\ UNCHANGED <<status, link, toMaster, proc>> /\ pc # "queued" /\ ~Finished(waiting[cursor])
    BY <1>1 DEF AssignStart, AtWaiting, Steady, NotNeeded
  <2> QED
    BY <2>1, <2>2, <2>3, StartStep
<1>2. CASE Reschedule
  <2>1. Steady /\ UNCHANGED <<status, link, toMaster, proc>> /\ pc # "queued" /\ resched \in Runs
    BY <1>2 DEF Reschedule, Steady, TypeOK, MasterTypeOK, CallTypeOK
  <2>2. ASSUME NEW a \in Free, StartOn(resched, a), ~Finished(resched)
        PROVE  ProtocolInv'
    BY <2>1, <2>2, StartStep
  <2>3. ASSUME UNCHANGED <<active, agentInfo, toAgent>>
        PROVE  ProtocolInv'
    BY <2>1, <2>3, QuietStep DEF agentInfo, SendNothing, netVars, FinishNothing, Finished
  <2> QED
    BY <1>2, <2>2, <2>3 DEF Reschedule, Candidates, NotNeeded
<1> QED
  BY <1>1, <1>2

(* The steps that may close free agents.                                     *)
LEMMA ClosingSteps ==
  ASSUME TypeOK, ProtocolInv, UNCHANGED proc, CloseSurplus \/ Return
  PROVE  ProtocolInv'
<1>1. pc' # "queued"
  BY DEF CloseSurplus, Return, GoTo
<1>2. ASSUME UNCHANGED <<jobVars, agentInfo, netVars>>
      PROVE  ProtocolInv'
  BY <1>1, <1>2, QuietStep DEF jobVars, agentInfo, Steady, SendNothing, FinishNothing, Finished
<1>3. ASSUME NEW S \in SUBSET Free, CloseFree(S)
      PROVE  ProtocolInv'
  BY <1>1, <1>3, CloseFreeStep
<1> QED
  BY <1>2, <1>3 DEF CloseSurplus, Return

(* The steps that read, and those that go on with the handshake.             *)
LEMMA ListenSteps ==
  ASSUME TypeOK, ProtocolInv, UNCHANGED proc, ReadOne \/ IdleStep \/ StartPass
  PROVE  ProtocolInv'
<1>1. pc' = "queued" => pc = "queued"
  BY DEF ReadOne, EndListen, IdleStep, IdleInit, IdleRead, StartPass, GoTo,
         TypeOK, MasterTypeOK, CallTypeOK, ListenRet, KillRet
<1>2. ASSUME NEW a \in Agents, ProcessMessage(a) \/ AddAgent(a)
      PROVE  ProtocolInv'
  BY <1>1, <1>2, ProcessMessageStep, AddAgentStep
<1>3. ASSUME InitAgents
      PROVE  ProtocolInv'
  BY <1>1, <1>3, InitAgentsStep
<1> QED
  BY <1>2, <1>3 DEF ReadOne, IdleStep, IdleInit, IdleRead, StartPass, TypeOK, MasterTypeOK, LoopTypeOK

(* update_run of the program.                                                *)
LEMMA UpdateRunStep ==
  ASSUME TypeOK, ProtocolInv, UNCHANGED proc, NEW r \in Runs, UpdateRun(r)
  PROVE  ProtocolInv'
<1>1. active = {} /\ Steady /\ KillAgents(Copies(r)) /\ UNCHANGED <<arun, link, toMaster, proc>>
  BY DEF UpdateRun, ProtocolInv, Steady
<1> QED
  BY <1>1, KillStep

(* Every step of the master keeps the protocol.                              *)
LEMMA MasterProtocol ==
  ASSUME TypeOK, ProtocolInv, MasterNext, UNCHANGED agentVars
  PROVE  ProtocolInv'
<1>1. UNCHANGED proc
  BY DEF agentVars
<1>2. CASE RunStep
  <2>1. CASE \/ AllRunsComplete \/ MarkWaitingFailed \/ StopBeforePass
             \/ AssignNotNeeded \/ AssignLater \/ AssignDone
             \/ (\E a \in Agents : LeaveOrDuplicate(a)) \/ OverdueDone \/ Listen
             \/ Drain \/ DrainCheckStop
    BY <1>1, <2>1, QuietSteps
  <2>2. CASE \E a \in Agents : GiveUpRun(a) \/ RestartRun(a) \/ KillOverdue(a)
    BY <1>1, <2>2, OverdueSteps
  <2>3. CASE AssignStart \/ Reschedule
    BY <1>1, <2>3, StartSteps
  <2>4. CASE CloseSurplus \/ Return
    BY <1>1, <2>4, ClosingSteps
  <2>5. CASE ReadOne \/ StartPass
    BY <1>1, <2>5, ListenSteps
  <2>6. CASE KillRound
    BY <1>1, <2>6, KillRoundStep
  <2> QED
    BY <1>2, <2>1, <2>2, <2>3, <2>4, <2>5, <2>6 DEF RunStep
<1>3. CASE IdleStep
  BY <1>1, <1>3, ListenSteps
<1>4. CASE ProgramStep
  BY <1>1, <1>4, NewGroupStep, UpdateRunStep, QuietSteps DEF ProgramStep
<1>5. CASE CreateStop
  BY <1>1, <1>5, QuietSteps
<1> QED
  BY <1>2, <1>3, <1>4, <1>5 DEF MasterNext

-----------------------------------------------------------------------------
(* The steps of the agents.                                                 *)

(* A step of one agent concerns that agent alone.                            *)
LEMMA AgentMoves ==
  ASSUME TypeOK, ProtocolInv, UNCHANGED masterVars, NEW a \in Agents,
         AgentOK(link'[a], astate[a], arun[a], toAgent'[a], toMaster'[a], proc'[a], Expected(a), LastPast),
         \A b \in Agents : b # a => /\ link'[b] = link[b] /\ toAgent'[b] = toAgent[b]
                                    /\ toMaster'[b] = toMaster[b] /\ proc'[b] = proc[b]
  PROVE  ProtocolInv'
<1>1. UNCHANGED <<active, status, group, astate, arun, pc>>
  BY DEF masterVars, jobVars, agentInfo
<1>2. Steady /\ FinishNothing /\ active' \subseteq active
  BY <1>1 DEF Steady, FinishNothing, Finished
<1>3. ASSUME NEW b \in Agents
      PROVE  OK(b)'
  <2>1. CASE b = a
    <3>1. Expected(a)' \in {Expected(a), Nobody}
      BY <1>1, ExpectsLess
    <3>2. AgentOK(link'[a], astate'[a], arun'[a], toAgent'[a], toMaster'[a], proc'[a], Expected(a), LastPast)
      BY <1>1
    <3> QED
      BY <1>2, <2>1, <3>1, <3>2, PastGrows, Conclude
  <2>2. CASE b # a
    <3>1. OK(b)
      BY DEF ProtocolInv
    <3> QED
      BY <1>1, <1>2, <2>2, <3>1, SameAgent
  <2> QED
    BY <2>1, <2>2
<1>4. CopiesOK' /\ (pc' = "queued" => active' = {})
  BY <1>1, <1>2, FewerCopies
<1> QED
  BY <1>3, <1>4 DEF ProtocolInv

(* Every step of an agent keeps the protocol.                                *)
LEMMA AgentStepProtocol ==
  ASSUME TypeOK, ProtocolInv, UNCHANGED masterVars, NEW a \in Agents,
         Connect(a) \/ AgentStep(a) \/ Disappear(a)
  PROVE  ProtocolInv'
<1>1. PICK l, st, r, in, out, p, w, P :
        /\ l = link[a] /\ st = astate[a] /\ r = arun[a] /\ in = toAgent[a] /\ out = toMaster[a]
        /\ p = proc[a] /\ w = Expected(a) /\ P = LastPast
  OBVIOUS
<1>2. AgentOK(l, st, r, in, out, p, w, P) /\ in \in Seq(AgentMsg) /\ P \in Int
  <2>1. LastPast \in Int
    BY MaxGroupAssumption DEF LastPast, TypeOK, MasterTypeOK, JobTypeOK, Groups
  <2> QED
    BY <1>1, <2>1, NothingSent DEF OK, ProtocolInv
<1> DEFINE Others == \A b \in Agents : b # a => /\ link'[b] = link[b] /\ toAgent'[b] = toAgent[b]
                                                /\ toMaster'[b] = toMaster[b] /\ proc'[b] = proc[b]
<1>3. SUFFICES /\ AgentOK(link'[a], st, r, toAgent'[a], toMaster'[a], proc'[a], w, P)
               /\ Others
  BY <1>1, AgentMoves
<1>4. /\ link \in [Agents -> LinkState] /\ toAgent \in [Agents -> Seq(AgentMsg)]
      /\ toMaster \in [Agents -> Seq(MasterMsg)] /\ proc \in [Agents -> ProcState]
  BY DEF TypeOK, NetTypeOK, AgentTypeOK
<1>5. CASE Connect(a)
  <2>1. /\ l = "none" /\ link'[a] = "pending" /\ toAgent'[a] = in /\ toMaster'[a] = out /\ proc'[a] = p
        /\ Others
    BY <1>1, <1>4, <1>5 DEF Connect
  <2> QED
    BY <1>2, <2>1 DEF AgentOK
<1>6. CASE Answer(a)
  <2>1. /\ l = "up" /\ link'[a] = l /\ p.st = "idle" /\ in # <<>> /\ toAgent'[a] = Tail(in) /\ proc'[a] = p
        /\ \/ Head(in).type = "REQ_RUNDIR" /\ toMaster'[a] = Append(out, Plain("RUNDIR"))
           \/ Head(in).type = "NAMES" /\ toMaster'[a] = out
           \/ Head(in).type = "REQ_LINPACK" /\ toMaster'[a] = Append(out, Plain("LINPACK"))
           \/ Head(in).type = "REQ_KILL" /\ toMaster'[a] = out
    BY <1>1, <1>4, <1>6 DEF Answer, Inbox, Send, Consume, Up, agentVars
  <2>2. Others
    BY <1>4, <1>6 DEF Answer, Send, Consume, agentVars
  <2> HIDE DEF Others
  <2>3. LET m == Head(in)
            Now(o) == AgentOK("up", st, r, Tail(in), o, p, w, P)
        IN  /\ m.type = "REQ_RUNDIR" => Now(Append(out, Plain("RUNDIR")))
            /\ m.type = "NAMES" => Now(out)
            /\ m.type = "REQ_LINPACK" => Now(Append(out, Plain("LINPACK")))
            /\ m.type = "REQ_KILL" => Now(out)
    BY <1>2, <2>1, OrderOK
  <2> QED
    BY <2>1, <2>2, <2>3
<1>7. CASE StartRun(a)
  <2>1. /\ l = "up" /\ link'[a] = l /\ p.st = "idle" /\ in # <<>> /\ toAgent'[a] = Tail(in) /\ toMaster'[a] = out
        /\ Head(in).type = "START_RUN"
        /\ proc'[a] = [st |-> "running", run |-> Head(in).run, grp |-> Head(in).grp]
    BY <1>1, <1>4, <1>7 DEF StartRun, Inbox, Consume, Up
  <2>2. Others
    BY <1>4, <1>7 DEF StartRun, Consume
  <2> HIDE DEF Others
  <2>3. AgentOK("up", st, r, Tail(in), out,
                [st |-> "running", run |-> Head(in).run, grp |-> Head(in).grp], w, P)
    BY <1>2, <2>1, OrderOK
  <2> QED
    BY <2>1, <2>2, <2>3
<1>8. CASE ModelEnds(a) \/ ModelKilled(a)
  <2>1. PICK t \in ResultType :
          /\ SendResult(a, t)
          /\ \/ t \in {"RUN_FINISHED", "RUN_FAILED"} /\ UNCHANGED toAgent
             \/ Inbox(a, "REQ_KILL") /\ Consume(a)
    BY <1>8 DEF ModelEnds, ModelKilled, ResultType
  <2>2. l = "up" /\ p.st = "running"
    BY <1>1, <1>8 DEF ModelEnds, ModelKilled, Up
  <2>3. /\ link'[a] = l /\ toMaster'[a] = Append(out, Msg(t, p.run, p.grp))
        /\ proc'[a] = [p EXCEPT !.st = "sent"]
        /\ \/ t \in {"RUN_FINISHED", "RUN_FAILED"} /\ toAgent'[a] = in
           \/ in # <<>> /\ toAgent'[a] = Tail(in)
    BY <1>1, <1>4, <2>1 DEF SendResult, Send, Inbox, Consume
  <2>4. Others
    BY <1>4, <2>1 DEF SendResult, Send, Consume
  <2> HIDE DEF Others
  <2>5. LET Sent(i, k) == AgentOK("up", st, r, i, Append(out, Msg(k, p.run, p.grp)),
                                  [p EXCEPT !.st = "sent"], w, P)
        IN  /\ \A k \in {"RUN_FINISHED", "RUN_FAILED"} : Sent(in, k)
            /\ in # <<>> => \A k \in ResultType : Sent(Tail(in), k)
    BY <1>2, <2>2, BusyOK
  <2> QED
    BY <2>2, <2>3, <2>4, <2>5
<1>9. CASE SendReady(a)
  <2>1. /\ l = "up" /\ link'[a] = l /\ p.st = "sent" /\ toAgent'[a] = in
        /\ toMaster'[a] = Append(out, Plain("READY")) /\ proc'[a] = Idle
    BY <1>1, <1>4, <1>9 DEF SendReady, Send, Up
  <2>2. Others
    BY <1>4, <1>9 DEF SendReady, Send
  <2> HIDE DEF Others
  <2>3. AgentOK("up", st, r, in, Append(out, Plain("READY")), Idle, w, P)
    BY <1>2, <2>1, SendReadyOK
  <2> QED
    BY <2>1, <2>2, <2>3
<1>10. CASE Disappear(a)
  <2>1. PICK k \in 0 .. Len(toMaster[a]) :
          toMaster' = [toMaster EXCEPT ![a] = Append(SubSeq(@, 1, k), Plain("EOF"))]
    BY <1>10 DEF Disappear
  <2>2. /\ l = "up" /\ link'[a] = "down" /\ toAgent'[a] = <<>> /\ proc'[a] = Idle
        /\ toMaster'[a] = Append(SubSeq(out, 1, k), Plain("EOF")) /\ k \in 0 .. Len(out)
    BY <1>1, <1>4, <1>10, <2>1 DEF Disappear, Up
  <2>3. Others
    BY <1>4, <1>10, <2>1 DEF Disappear
  <2> HIDE DEF Others
  <2>4. AgentOK("down", st, r, <<>>, Append(SubSeq(out, 1, k), Plain("EOF")), Idle, w, P)
    BY <1>2, <2>2, DisappearOK
  <2> QED
    BY <2>2, <2>3, <2>4
<1> QED
  BY <1>5, <1>6, <1>7, <1>8, <1>9, <1>10 DEF AgentStep

(* The protocol holds in the beginning.                                      *)
LEMMA InitProtocol == Init => ProtocolInv
<1> SUFFICES ASSUME Init
             PROVE  ProtocolInv
  OBVIOUS
<1>1. active = {} /\ pc = "client" /\ group = 0
  BY DEF Init, MasterInit
<1>2. ASSUME NEW b \in Agents
      PROVE  OK(b)
  <2>1. Expected(b) = Nobody
    BY <1>1 DEF Expected
  <2>2. toAgent[b] = <<>> /\ toMaster[b] = <<>> /\ proc[b] = Idle
    BY DEF Init, AgentInit
  <2>3. CASE b \in Handshaken
    <3>1. link[b] = "up" /\ astate[b] = "WAITING"
      BY <2>3 DEF Init, MasterInit
    <3> QED
      BY <2>1, <2>2, <3>1, KillsType DEF OK, AgentOK, UpOK, IsFree
  <2>4. CASE b \notin Handshaken
    <3>1. link[b] = "none" /\ astate[b] = "NONE"
      BY <2>4 DEF Init, MasterInit
    <3> QED
      BY <2>1, <2>2, <3>1 DEF OK, AgentOK, OffOK
  <2> QED
    BY <2>3, <2>4
<1> QED
  BY <1>1, <1>2 DEF ProtocolInv, CopiesOK

(* Every step of the master, of an agent or of neither keeps the invariant.   *)
LEMMA NextKeepsProtocol ==
  ASSUME TypeOK, ProtocolInv, [Next]_vars
  PROVE  ProtocolInv'
<1>1. CASE MasterNext /\ UNCHANGED agentVars
  BY <1>1, MasterProtocol
<1>2. CASE AgentNext /\ UNCHANGED masterVars
  BY <1>2, AgentStepProtocol DEF AgentNext
<1>3. CASE UNCHANGED vars
  <2>1. UNCHANGED <<active, status, group, astate, arun, pc, netVars, proc>>
    BY <1>3 DEF vars, masterVars, jobVars, agentInfo, agentVars
  <2> QED
    BY <2>1, QuietStep DEF Steady, SendNothing, FinishNothing, Finished
<1> QED
  BY <1>1, <1>2, <1>3 DEF Next

(* Protocol: master and agents keep the invariant of their protocol.         *)
THEOREM Protocol == Spec => []ProtocolInv
<1>1. TypeOK /\ ProtocolInv /\ [Next]_vars => ProtocolInv'
  BY NextKeepsProtocol
<1> QED
  BY <1>1, InitProtocol, TypeCorrect, PTL DEF Spec

-----------------------------------------------------------------------------
(* What it says of the run manager.                                         *)

(* ActiveMapMatches: in every state of every call of run_until each entry of    *)
(* active_runid_to_iterset_map is of an agent in state ACTIVE for that run, so  *)
(* that get_n_concurrent and kill_runs, which read the map alone, see the       *)
(* agents as they are.                                                        *)
THEOREM MapMatchesAgents == Spec => []ActiveMapMatches
<1>1. TypeOK /\ ProtocolInv => ActiveMapMatches
  BY ExpectedActive DEF ActiveMapMatches
<1> QED
  BY <1>1, TypeCorrect, Protocol, PTL

(* FinishedRunsStop: when the result of a run is stored the master counts no    *)
(* copy of it any more, however many it had started.                           *)
THEOREM FinishedRunsHaveNoCopy == Spec => []FinishedRunsStop
<1>1. ASSUME TypeOK, ProtocolInv, NEW r \in Runs, Finished(r)
      PROVE  NConcurrent(r) = 0
  <2>1. RunningOn(active, astate, r) = {}
    BY <1>1, ExpectedActive DEF RunningOn
  <2> QED
    BY <2>1, FS_EmptySet DEF NConcurrent
<1>2. TypeOK /\ ProtocolInv => FinishedRunsStop
  BY <1>1 DEF FinishedRunsStop
<1> QED
  BY <1>2, TypeCorrect, Protocol, PTL

(* EveryCopyAnswers: every copy of a run that the master waits for is under way *)
(* to its agent, runs there with no kill request on its way, has answered, or   *)
(* is on an agent that is gone and about to be noticed.                        *)
THEOREM CopiesAnswer == Spec => []EveryCopyAnswers
<1>1. ASSUME TypeOK, ProtocolInv, NEW q \in active
      PROVE  LET r == q[1]
                 a == q[2]
                 n == Len(toAgent[a])
             IN  \/ link[a] = "down"
                 \/ n > 0 /\ toAgent[a][n] = Msg("START_RUN", r, group)
                 \/ proc[a] = [st |-> "running", run |-> r, grp |-> group] /\ ~InboxHas(a, "REQ_KILL")
                 \/ ResultOnItsWay(a, r)
  <2>1. PICK r \in Runs, a \in Agents : q = <<r, a>>
    BY <1>1 DEF TypeOK, MasterTypeOK, JobTypeOK
  <2>2. astate[a] = "ACTIVE" /\ arun[a] = r /\ Expected(a) = group /\ group # Nobody
    BY <1>1, <2>1, ExpectedActive
  <2>3. AgentOK(link[a], "ACTIVE", r, toAgent[a], toMaster[a], proc[a], group, LastPast)
    BY <1>1, <2>2 DEF ProtocolInv, OK
  <2>4. CASE link[a] # "up"
    BY <2>1, <2>3, <2>4 DEF AgentOK, OffOK
  <2>5. CASE link[a] = "up"
    <3>1. IsWorking("ACTIVE", r, toAgent[a], toMaster[a], proc[a], group, LastPast)
      BY <2>3, <2>5 DEF AgentOK, UpOK, IsConnecting, IsFree, Connecting
    <3>2. CASE IsTold("ACTIVE", r, toAgent[a], toMaster[a], proc[a], group, LastPast)
      <4>1. PICK j \in 1 .. Len(toAgent[a]) :
              toAgent[a][j] = Msg("START_RUN", r, group) /\ j = Len(toAgent[a])
        BY <2>2, <3>2 DEF IsTold, Told
      <4> QED
        BY <2>1, <4>1
    <3>3. CASE IsRunning("ACTIVE", r, toAgent[a], toMaster[a], proc[a], group, LastPast)
      <4>1. proc[a] = [st |-> "running", run |-> r, grp |-> group] /\ toAgent[a] = <<>>
        BY <2>2, <3>3 DEF IsRunning
      <4>2. ~InboxHas(a, "REQ_KILL")
        BY <4>1 DEF InboxHas
      <4> QED
        BY <2>1, <4>1, <4>2
    <3>4. CASE \E m \in Answers(r, group, LastPast) : toMaster[a] = <<m>> \/ toMaster[a] = <<m, Ready>>
      <4>1. PICK m \in Answers(r, group, LastPast) : toMaster[a] = <<m>> \/ toMaster[a] = <<m, Ready>>
        BY <3>4
      <4>2. 1 \in DOMAIN toMaster[a] /\ toMaster[a][1] = m
        BY <4>1
      <4>3. m.type \in ResultType /\ m.run = r /\ m.grp = group
        BY <2>2, AnswersType
      <4>4. ResultOnItsWay(a, r)
        BY <4>2, <4>3 DEF ResultOnItsWay
      <4> QED
        BY <2>1, <4>4
    <3> QED
      BY <2>2, <3>1, <3>2, <3>3, <3>4 DEF IsWorking, HasAnswered, IsReady
  <2> QED
    BY <2>4, <2>5
<1>2. TypeOK /\ ProtocolInv => EveryCopyAnswers
  BY <1>1 DEF EveryCopyAnswers
<1> QED
  BY <1>2, TypeCorrect, Protocol, PTL

(* OnlyKillsReachABusyAgent: run_model of an agent, which gives up its run over *)
(* any message it does not expect, never meets one but REQ_KILL, and no agent   *)
(* has two START_RUN before it.                                               *)
THEOREM BusyAgentsSeeOnlyKills == Spec => []OnlyKillsReachABusyAgent
<1>1. ASSUME TypeOK, ProtocolInv, NEW a \in Agents
      PROVE  /\ proc[a].st # "idle" => \A i \in DOMAIN toAgent[a] : toAgent[a][i].type = "REQ_KILL"
             /\ \A i, j \in DOMAIN toAgent[a] :
                  toAgent[a][i].type = "START_RUN" /\ toAgent[a][j].type = "START_RUN" => i = j
  <2>1. PICK l, st, r, in, out, p, w, P :
          /\ l = link[a] /\ st = astate[a] /\ r = arun[a] /\ in = toAgent[a] /\ out = toMaster[a]
          /\ p = proc[a] /\ w = Expected(a) /\ P = LastPast
    OBVIOUS
  <2>2. AgentOK(l, st, r, in, out, p, w, P)
    BY <1>1, <2>1 DEF ProtocolInv, OK
  <2>3. ASSUME in \in Kills
        PROVE  \A i \in DOMAIN in : in[i].type = "REQ_KILL"
    <3>1. \A i \in DOMAIN in : in[i] = Kill
      BY <2>3 DEF Kills
    <3> QED
      BY <3>1, Messages
  <2>4. ASSUME in = <<>> \/ in \in Kills
        PROVE  \A i \in DOMAIN in : in[i].type = "REQ_KILL"
    BY <2>3, <2>4, KillsType
  <2>5. ASSUME NEW g, Told(st, r, in, g), in \in Seq(AgentMsg)
        PROVE  \A i, j \in DOMAIN in : in[i].type = "START_RUN" /\ in[j].type = "START_RUN" => i = j
    <3>1. PICK k \in 1 .. Len(in) : \A i \in 1 .. Len(in) : i # k => in[i] = Kill
      BY <2>5 DEF Told
    <3>2. \A i \in 1 .. Len(in) : i # k => in[i].type # "START_RUN"
      BY <3>1, Messages
    <3>3. DOMAIN in = 1 .. Len(in)
      BY <2>5
    <3> QED
      BY <3>2, <3>3
  <2>6. ASSUME ConnectingOrders(st, in)
        PROVE  \A i \in DOMAIN in : in[i].type # "START_RUN"
    <3>1. \A i \in DOMAIN in : in[i] \in {Plain("REQ_RUNDIR"), Plain("NAMES"), Plain("REQ_LINPACK")}
      BY <2>6 DEF ConnectingOrders
    <3> QED
      BY <3>1, Messages
  <2>7. \/ in = <<>> \/ in \in Kills
        \/ p.st = "idle" /\ ConnectingOrders(st, in)
        \/ p.st = "idle" /\ in \in Seq(AgentMsg) /\ \E g \in Groups : Told(st, r, in, g)
    BY <2>2 DEF AgentOK, OffOK, DownOK, UpOK, IsConnecting, IsFree, IsWorking, IsTold, IsRunning,
                HasAnswered, IsReady, Idle
  <2>8. /\ p.st # "idle" => \A i \in DOMAIN in : in[i].type = "REQ_KILL"
        /\ \A i, j \in DOMAIN in : in[i].type = "START_RUN" /\ in[j].type = "START_RUN" => i = j
    BY <2>4, <2>5, <2>6, <2>7
  <2> QED
    BY <2>1, <2>8
<1>2. TypeOK /\ ProtocolInv => OnlyKillsReachABusyAgent
  BY <1>1 DEF OnlyKillsReachABusyAgent
<1> QED
  BY <1>2, TypeCorrect, Protocol, PTL

-----------------------------------------------------------------------------
(* No run is lost.                                                          *)

Has(s, r) == \E i \in DOMAIN s : s[i] = r

(* What a concatenation of queues contains.                                  *)
LEMMA Concat ==
  ASSUME NEW S, NEW u \in Seq(S), NEW v \in Seq(S), NEW r
  PROVE  Has(u \o v, r) <=> Has(u, r) \/ Has(v, r)
<1>1. /\ u \o v \in Seq(S) /\ Len(u \o v) = Len(u) + Len(v)
      /\ \A i \in 1 .. Len(u) + Len(v) : (u \o v)[i] = IF i <= Len(u) THEN u[i] ELSE v[i - Len(u)]
  BY ConcatProperties
<1> PICK t, m, n : t = u \o v /\ m = Len(u) /\ n = Len(v)
  OBVIOUS
<1>2. /\ t = u \o v /\ t \in Seq(S) /\ m \in Nat /\ n \in Nat /\ Len(t) = m + n
      /\ \A i \in 1 .. m + n : t[i] = IF i <= m THEN u[i] ELSE v[i - m]
      /\ DOMAIN t = 1 .. m + n /\ DOMAIN u = 1 .. m /\ DOMAIN v = 1 .. n
  <2>1. t \in Seq(S) /\ Len(t) = m + n /\ m \in Nat /\ n \in Nat
    BY <1>1
  <2>2. \A i \in 1 .. m + n : t[i] = IF i <= m THEN u[i] ELSE v[i - m]
    BY <1>1, Zenon
  <2>3. DOMAIN t = 1 .. m + n /\ DOMAIN u = 1 .. m /\ DOMAIN v = 1 .. n
    BY <2>1
  <2> QED
    BY <2>1, <2>2, <2>3
<1>3. ASSUME NEW i \in 1 .. m
      PROVE  i \in 1 .. m + n /\ t[i] = u[i]
  BY <1>2
<1>4. ASSUME NEW i \in 1 .. n
      PROVE  i + m \in 1 .. m + n /\ t[i + m] = v[i]
  <2>1. i + m \in 1 .. m + n /\ ~(i + m <= m) /\ (i + m) - m = i
    OBVIOUS
  <2> QED
    BY <1>2, <2>1
<1>5. ASSUME NEW i \in 1 .. m + n
      PROVE  (i \in 1 .. m /\ t[i] = u[i]) \/ (i - m \in 1 .. n /\ t[i] = v[i - m])
  BY <1>2
<1>6. Has(t, r) => Has(u, r) \/ Has(v, r)
  BY <1>2, <1>5 DEF Has
<1>7. Has(u, r) \/ Has(v, r) => Has(t, r)
  BY <1>2, <1>3, <1>4 DEF Has
<1> QED
  BY <1>2, <1>6, <1>7

(* A run that is put back to the front of the queue is in it, with all others. *)
LEMMA PushFront ==
  ASSUME NEW S, NEW s \in Seq(S), NEW q \in S
  PROVE  Has(<<q>> \o s, q) /\ \A r : Has(s, r) => Has(<<q>> \o s, r)
<1>1. <<q>> \in Seq(S) /\ Has(<<q>>, q)
  BY DEF Has
<1> QED
  BY <1>1, Concat

(* Removing an entry of the queue leaves every other run in it.              *)
LEMMA RemoveOne ==
  ASSUME NEW S, NEW s \in Seq(S), NEW k \in 1 .. Len(s), NEW r, r # s[k], Has(s, r)
  PROVE  Has(RemoveAt(s, k), r)
<1>1. PICK j \in 1 .. Len(s) : s[j] = r /\ j # k
  BY DEF Has
<1>2. Len(s) \in Nat /\ \A i \in 1 .. Len(s) : s[i] \in S
  OBVIOUS
<1> DEFINE u == SubSeq(s, 1, k - 1)
           v == SubSeq(s, k + 1, Len(s))
<1>3. u \in Seq(S) /\ (j < k => Has(u, r))
  <2>1. PICK n \in Int : n = k - 1 /\ \A i \in 1 .. n : s[i] \in S
    BY <1>2
  <2>2. /\ SubSeq(s, 1, n) \in Seq(S) /\ Len(SubSeq(s, 1, n)) = IF 1 <= n THEN n - 1 + 1 ELSE 0
        /\ \A i \in 1 .. n - 1 + 1 : SubSeq(s, 1, n)[i] = s[1 + i - 1]
    BY <2>1, SubSeqProperties
  <2>3. u \in Seq(S) /\ Len(u) = n /\ \A i \in 1 .. n : u[i] = s[i]
    BY <1>2, <2>1, <2>2
  <2> HIDE DEF u
  <2>4. j < k => j \in DOMAIN u /\ u[j] = r
    BY <1>1, <2>1, <2>3
  <2> QED
    BY <2>3, <2>4 DEF Has
<1>4. v \in Seq(S) /\ (j > k => Has(v, r))
  <2>1. PICK m \in Int, n \in Int : m = k + 1 /\ n = Len(s) /\ \A i \in m .. n : s[i] \in S
    BY <1>2
  <2>2. /\ SubSeq(s, m, n) \in Seq(S) /\ Len(SubSeq(s, m, n)) = IF m <= n THEN n - m + 1 ELSE 0
        /\ \A i \in 1 .. n - m + 1 : SubSeq(s, m, n)[i] = s[m + i - 1]
    BY <2>1, SubSeqProperties
  <2>3. v \in Seq(S) /\ Len(v) = n - k /\ \A i \in 1 .. n - k : v[i] = s[k + i]
    BY <1>2, <2>1, <2>2
  <2> HIDE DEF v
  <2>4. j > k => j - k \in DOMAIN v /\ v[j - k] = r
    BY <1>1, <2>1, <2>3
  <2> QED
    BY <2>3, <2>4 DEF Has
<1>5. j < k \/ j > k
  BY <1>1, <1>2
<1> HIDE DEF u, v
<1>6. Has(u \o v, r)
  BY <1>3, <1>4, <1>5, Concat
<1> QED
  BY <1>6 DEF RemoveAt, u, v

(* A run the master knows of: settled, waiting, or with a copy in the map.      *)
Copied(r) == \E a \in Agents : <<r, a>> \in active
Known(r) == NotNeeded(r) \/ Queued(r) \/ Copied(r)

(* What run_until calls when nothing is left to do.                          *)
Ending == \/ pc \in {"stopped", "init", "drain", "drained", "return", "killall"}
          \/ killRet # "" \/ listenRet = "drained"

(* A call that is over has been forgotten. *)
CallsOK ==
  /\ pc \notin {"listen", "read"} => listenRet = ""
  /\ pc \notin {"listen", "read", "killall"} => killRet = ""
  /\ pc \in {"listen", "read"} => \/ listenRet \in {"top", "drained"} /\ killRet = ""
                                  \/ listenRet \in {"killall", killRet} /\ killRet # ""

RunsInv ==
  /\ CallsOK
  /\ pc = "queued" => \A r \in Runs : failure_map[r].n = 0
  /\ pc # "client" /\ ~stop => \A r \in Runs : Known(r) \/ (pc = "resched" /\ resched = r)
  /\ Ending /\ ~stop => \A r \in Runs : NotNeeded(r)

(* Steps after which no run is less known than before.                       *)
StaysSettled == \A r \in Runs : NotNeeded(r) => NotNeeded(r)'
StaysKnown == \A r \in Runs : Known(r) => Known(r)'
(* A run is accounted for when it is known or about to be scheduled again.   *)
Accounted(r) == Known(r) \/ (pc = "resched" /\ resched = r)
StaysAccounted == \A r \in Runs : Accounted(r) => Accounted(r)'
(* Steps that stay within a call of run_until. *)
StaysInCall ==
  /\ CallsOK'
  /\ pc' = "queued" => pc = "queued" /\ failure_map' = failure_map
  /\ pc' # "client" /\ ~stop' => pc # "client" /\ ~stop
  /\ Ending' /\ ~stop' => Ending /\ ~stop

(* A step that loses no run, unsettles none and stays in its call keeps the invariant. *)
LEMMA KeepsRuns ==
  ASSUME RunsInv, StaysSettled, StaysKnown, StaysInCall, pc # "resched"
  PROVE  RunsInv' /\ StaysAccounted
BY DEF RunsInv, StaysSettled, StaysKnown, StaysInCall, Accounted, StaysAccounted

(* A step that leaves queue, failures and status alone and drops no copy.    *)
LEMMA JobsSame ==
  ASSUME waiting' = waiting, active \subseteq active', failure_map' = failure_map, status' = status
  PROVE  StaysSettled /\ StaysKnown
BY DEF StaysSettled, StaysKnown, NotNeeded, Finished, GivenUp, Known, Queued, Copied

(* update_run_failed counts the failures of one run and unsettles none.      *)
LEMMA ChargeSettles ==
  ASSUME TypeOK, NEW q \in Runs, NEW S, S \subseteq Agents, Charge(q, S)
  PROVE  /\ StaysSettled /\ Cardinality(S) \in Nat
         /\ \A r \in Runs : failure_map'[r].n = IF r = q THEN failure_map[r].n + Cardinality(S)
                                                ELSE failure_map[r].n
<1>1. Cardinality(S) \in Nat
  BY AgentsAssumption, FS_Subset, FS_CardinalityType
<1>2. \A r \in Runs : failure_map'[r].n = IF r = q THEN failure_map[r].n + Cardinality(S)
                                          ELSE failure_map[r].n
  BY DEF Charge, TypeOK, MasterTypeOK, JobTypeOK
<1>3. \A r \in Runs : failure_map[r].n \in Nat
  BY DEF TypeOK, MasterTypeOK, JobTypeOK
<1>4. ASSUME NEW r \in Runs, Finished(r)
      PROVE  Finished(r)'
  BY <1>4 DEF Charge, Finished, TypeOK, MasterTypeOK, JobTypeOK
<1>5. ASSUME NEW r \in Runs, GivenUp(r)
      PROVE  GivenUp(r)'
  BY <1>1, <1>2, <1>3, <1>5, MaxRunFailAssumption DEF GivenUp
<1> QED
  BY <1>1, <1>2, <1>4, <1>5 DEF StaysSettled, NotNeeded

(* The agents that get_n_concurrent counts are those of the map.              *)
LEMMA CopiesRun ==
  ASSUME TypeOK, ProtocolInv, NEW act, act \subseteq active, NEW r
  PROVE  RunningOn(act, astate, r) = {a \in Agents : <<r, a>> \in act}
BY ExpectedActive DEF RunningOn

(* Killing copies of one run, or losing an agent, takes no copy of another run. *)
LEMMA OtherCopies ==
  ASSUME TypeOK, ProtocolInv, NEW V, NEW q, \A a \in V : <<arun[a], a>> \in active => arun[a] = q,
         NEW r, r # q, Copied(r), active' = ActiveWithout(V)
  PROVE  Copied(r)'
<1>1. PICK a \in Agents : <<r, a>> \in active
  BY DEF Copied
<1>2. arun[a] = r
  BY <1>1, ExpectedActive
<1>3. <<r, a>> \in active'
  BY <1>1, <1>2 DEF ActiveWithout
<1> QED
  BY <1>3 DEF Copied

(* process_message loses no run.                                            *)
LEMMA ReadKeepsRuns ==
  ASSUME TypeOK, ProtocolInv, NEW a \in Agents, ProcessMessage(a) \/ AddAgent(a)
  PROVE  /\ StaysSettled /\ StaysKnown
         /\ pc = "queued" => failure_map' = failure_map
<1>1. OK(a) /\ waiting \in Seq(Runs)
  BY DEF ProtocolInv, TypeOK, MasterTypeOK, JobTypeOK
<1>2. ASSUME UNCHANGED jobVars
      PROVE  StaysSettled /\ StaysKnown /\ failure_map' = failure_map
  BY <1>2, JobsSame DEF jobVars
<1>3. CASE OnHandshake(a) \/ OnOldResult(a) \/ OnResultOfFinishedRun(a) \/ AddAgent(a)
  BY <1>2, <1>3 DEF OnHandshake, OnOldResult, OnResultOfFinishedRun, AddAgent
<1>4. CASE OnLost(a)
  <2>1. PICK q : q = arun[a]
    OBVIOUS
  <2>2. /\ active' = ActiveWithout({a}) /\ failure_map' = failure_map /\ status' = status
        /\ waiting' = IF q # NoRun /\ astate[a] = "ACTIVE" /\ RunningOn(ActiveWithout({a}), astate, q) = {}
                      THEN <<q>> \o waiting ELSE waiting
    BY <1>4, <2>1 DEF OnLost, CloseAgent
  <2>3. StaysSettled
    BY <2>2 DEF StaysSettled, NotNeeded, Finished, GivenUp
  <2>4. q \in Runs \cup {NoRun}
    BY <2>1 DEF TypeOK, MasterTypeOK, AgentInfoTypeOK
  <2>5. \A r \in Runs : Queued(r) => Queued(r)'
    <3>1. \A r \in Runs : Has(waiting, r) => Has(waiting', r)
      BY <1>1, <2>2, <2>4, PushFront
    <3> QED
      BY <3>1 DEF Has, Queued
  <2>6. ASSUME NEW r \in Runs, Copied(r)
        PROVE  Copied(r)' \/ Queued(r)'
    <3>1. CASE r # q
      BY <2>1, <2>2, <2>6, <3>1, OtherCopies
    <3>2. CASE r = q
      <4>1. CASE RunningOn(ActiveWithout({a}), astate, q) = {}
        <5>1. PICK b \in Agents : <<r, b>> \in active
          BY <2>6 DEF Copied
        <5>2. <<q, b>> \notin ActiveWithout({a})
          <6>1. ActiveWithout({a}) \subseteq active
            BY DEF ActiveWithout
          <6>2. RunningOn(ActiveWithout({a}), astate, q) = {c \in Agents : <<q, c>> \in ActiveWithout({a})}
            BY <6>1, CopiesRun
          <6> QED
            BY <4>1, <5>1, <6>2
        <5>3. b = a
          BY <3>2, <5>1, <5>2 DEF ActiveWithout
        <5>4. astate[a] = "ACTIVE"
          BY <5>1, <5>3, ExpectedActive
        <5>5. q # NoRun
          BY <3>2 DEF Runs, NoRun
        <5>6. Has(waiting', r)
          BY <1>1, <2>2, <3>2, <4>1, <5>4, <5>5, PushFront
        <5> QED
          BY <5>6 DEF Has, Queued
      <4>2. CASE RunningOn(ActiveWithout({a}), astate, q) # {}
        <5>1. PICK b \in Agents : <<q, b>> \in ActiveWithout({a})
          BY <4>2 DEF RunningOn
        <5> QED
          BY <2>2, <3>2, <5>1 DEF Copied
      <4> QED
        BY <4>1, <4>2
    <3> QED
      BY <3>1, <3>2
  <2> QED
    BY <2>2, <2>3, <2>5, <2>6 DEF StaysKnown, StaysSettled, Known
<1>5. CASE OnFinished(a)
  <2>1. Head(toMaster[a]).run = arun[a] /\ arun[a] \in Runs
    BY <1>1, <1>5, HeadAnswer DEF OnFinished, IsResult, HeadIs, ResultType
  <2>2. PICK q \in Runs : q = arun[a]
    BY <2>1
  <2>3. PICK others : /\ others = {b \in Agents : <<q, b>> \in ActiveWithout({a})}
                      /\ active' = ActiveWithout({a} \cup others)
                      /\ waiting' = waiting /\ failure_map' = failure_map
                      /\ status' = [status EXCEPT ![q] = 1]
    BY <1>5, <2>1, <2>2 DEF OnFinished
  <2>4. \A r \in Runs : status'[r] = IF r = q THEN 1 ELSE status[r]
    BY <2>3 DEF TypeOK, MasterTypeOK, JobTypeOK
  <2>5. StaysSettled /\ Finished(q)'
    BY <2>3, <2>4 DEF StaysSettled, NotNeeded, Finished, GivenUp
  <2>6. ASSUME NEW b \in {a} \cup others, <<arun[b], b>> \in active
        PROVE  arun[b] = q
    <3>1. CASE b = a
      BY <2>2, <3>1
    <3>2. CASE b \in others
      <4>1. <<q, b>> \in active
        BY <2>3, <3>2 DEF ActiveWithout
      <4> QED
        BY <4>1, ExpectedActive
    <3> QED
      BY <2>6, <3>1, <3>2
  <2>7. ASSUME NEW r \in Runs, Copied(r), r # q
        PROVE  Copied(r)'
    BY <2>3, <2>6, <2>7, OtherCopies
  <2> QED
    BY <2>3, <2>5, <2>7 DEF StaysKnown, StaysSettled, Known, NotNeeded, Queued
<1>6. CASE OnFailed(a)
  <2>1. /\ Head(toMaster[a]).run = arun[a] /\ arun[a] \in Runs /\ Head(toMaster[a]).grp <= LastPast
        /\ Head(toMaster[a]).grp = group
    BY <1>1, <1>6, HeadAnswer DEF OnFailed, IsResult, HeadIs, ResultType
  <2>2. pc # "queued"
    BY <2>1, MaxGroupAssumption DEF LastPast, TypeOK, MasterTypeOK, JobTypeOK, Groups
  <2>3. PICK q \in Runs : q = arun[a]
    BY <2>1
  <2>4. /\ Charge(q, {a}) /\ active' = ActiveWithout({a})
        /\ waiting' = IF RunningOn(ActiveWithout({a}), astate, q) = {} /\ failure_map'[q].n < MaxRunFail
                      THEN <<q>> \o waiting ELSE waiting
    BY <1>6, <2>1, <2>3 DEF OnFailed
  <2>5. StaysSettled /\ failure_map'[q].n \in Nat
    <3>1. failure_map[q].n \in Nat
      BY DEF TypeOK, MasterTypeOK, JobTypeOK
    <3> QED
      BY <2>4, <3>1, ChargeSettles
  <2>6. \A r \in Runs : Queued(r) => Queued(r)'
    <3>1. \A r \in Runs : Has(waiting, r) => Has(waiting', r)
      BY <1>1, <2>4, PushFront
    <3> QED
      BY <3>1 DEF Has, Queued
  <2>7. ASSUME NEW r \in Runs, Copied(r)
        PROVE  Known(r)'
    <3>1. CASE r # q
      BY <2>3, <2>4, <2>7, <3>1, OtherCopies DEF Known
    <3>2. CASE r = q
      <4>1. CASE RunningOn(ActiveWithout({a}), astate, q) # {}
        <5>1. PICK b \in Agents : <<q, b>> \in ActiveWithout({a})
          BY <4>1 DEF RunningOn
        <5> QED
          BY <2>4, <3>2, <5>1 DEF Copied, Known
      <4>2. CASE failure_map'[q].n >= MaxRunFail
        BY <3>2, <4>2 DEF Known, NotNeeded, GivenUp
      <4>3. CASE RunningOn(ActiveWithout({a}), astate, q) = {} /\ failure_map'[q].n < MaxRunFail
        <5>1. Has(waiting', r)
          BY <1>1, <2>4, <3>2, <4>3, PushFront
        <5> QED
          BY <5>1 DEF Has, Queued, Known
      <4> QED
        BY <2>5, <4>1, <4>2, <4>3, MaxRunFailAssumption
    <3> QED
      BY <3>1, <3>2
  <2> QED
    BY <2>2, <2>5, <2>6, <2>7 DEF StaysKnown, StaysSettled, Known
<1>7. CASE OnKilled(a)
  <2>1. Expected(a) = Nobody
    BY <1>1, <1>7, HeadAnswer DEF OnKilled, IsResult, HeadIs, ResultType
  <2>2. <<arun[a], a>> \notin active
    BY <2>1, ExpectedActive
  <2>3. active' = active
    BY <1>7, <2>2 DEF OnKilled, ActiveWithout
  <2> QED
    BY <1>7, <2>3, JobsSame DEF OnKilled
<1> QED
  BY <1>3, <1>4, <1>5, <1>6, <1>7 DEF ProcessMessage

(* The loop over the overdue runs: whatever it kills is given up or scheduled   *)
(* again, for a run killed as overdue is one that may fail once more.          *)
LEMMA OverdueKeepsRuns ==
  ASSUME TypeOK, ProtocolInv, RunsInv, NEW a \in Agents, GiveUpRun(a) \/ RestartRun(a) \/ KillOverdue(a)
  PROVE  RunsInv' /\ StaysAccounted
<1>1. PICK q : q = arun[a]
  OBVIOUS
<1>2. /\ Visit(a) /\ pc = "overdue" /\ q \in Runs /\ a \in Agents /\ astate[a] = "ACTIVE"
      /\ UNCHANGED <<waiting, killRet, listenRet, stop>>
  BY <1>1 DEF GiveUpRun, RestartRun, KillOverdue, Visit, ToVisit, envVars, TypeOK, MasterTypeOK,
              AgentInfoTypeOK
<1>3. \/ GiveUpRun(a) /\ KillAgents(Copies(q)) /\ Charge(q, Copies(q))
      \/ RestartRun(a) /\ KillAgents(Copies(q)) /\ Charge(q, Copies(q))
      \/ KillOverdue(a) /\ KillAgents({a}) /\ Charge(q, {a})
  BY <1>1 DEF GiveUpRun, RestartRun, KillOverdue, KillCopies
<1>4. PICK V \in SUBSET Agents :
        /\ KillAgents(V) /\ Charge(q, V) /\ \A b \in V : <<arun[b], b>> \in active => arun[b] = q
        /\ GiveUpRun(a) \/ RestartRun(a) => V = Copies(q)
        /\ KillOverdue(a) => V = {a}
  <2>1. \A b \in Copies(q) : arun[b] = q
    BY ExpectedActive DEF Copies
  <2>2. Copies(q) \subseteq Agents
    BY DEF Copies
  <2>3. ~(GiveUpRun(a) /\ KillOverdue(a)) /\ ~(RestartRun(a) /\ KillOverdue(a))
    BY DEF GiveUpRun, RestartRun, KillOverdue
  <2> QED
    BY <1>1, <1>2, <1>3, <2>1, <2>2, <2>3
<1>5. /\ StaysSettled /\ Cardinality(V) \in Nat /\ failure_map[q].n \in Nat
      /\ failure_map'[q].n = failure_map[q].n + Cardinality(V)
  <2>1. failure_map[q].n \in Nat
    BY <1>2 DEF TypeOK, MasterTypeOK, JobTypeOK
  <2> QED
    BY <1>2, <1>4, <2>1, ChargeSettles
<1>6. ASSUME NEW r \in Runs, r # q, Known(r)
      PROVE  Known(r)'
  <2>1. CASE NotNeeded(r)
    BY <1>5, <2>1 DEF StaysSettled, Known
  <2>2. CASE Queued(r)
    BY <1>2, <2>2 DEF Queued, Known
  <2>3. CASE Copied(r)
    <3>1. Copied(r)'
      BY <1>4, <1>6, <2>3, OtherCopies DEF KillAgents
    <3> QED
      BY <3>1 DEF Known
  <2> QED
    BY <1>6, <2>1, <2>2, <2>3 DEF Known
<1>7. NotNeeded(q)' \/ (pc' = "resched" /\ resched' = q)
  <2>1. CASE GiveUpRun(a)
    <3>1. Overdue(q) \subseteq V /\ IsFiniteSet(V)
      BY <1>4, <2>1, AgentsAssumption, FS_Subset DEF Overdue, RunningOn, Copies
    <3>2. Cardinality(Overdue(q)) <= Cardinality(V) /\ Cardinality(Overdue(q)) \in Nat
      BY <3>1, FS_Subset, FS_CardinalityType
    <3>3. failure_map[q].n + Cardinality(Overdue(q)) >= MaxRunFail
      BY <1>1, <2>1 DEF GiveUpRun, TooManyFailures
    <3>4. failure_map'[q].n >= MaxRunFail
      BY <1>5, <3>2, <3>3, MaxRunFailAssumption
    <3> QED
      BY <3>4 DEF NotNeeded, GivenUp
  <2>2. CASE RestartRun(a)
    BY <1>1, <2>2 DEF RestartRun
  <2>3. CASE KillOverdue(a)
    <3>1. Cardinality(V) = 1
      BY <1>4, <2>3, FS_Singleton
    <3>2. Cardinality(Overdue(q)) \in Nat
      <4>1. Overdue(q) \subseteq Agents
        BY DEF Overdue, RunningOn
      <4> QED
        BY <4>1, AgentsAssumption, FS_Subset, FS_CardinalityType
    <3>3. ~(failure_map[q].n + Cardinality(Overdue(q)) >= MaxRunFail)
      BY <1>1, <2>3 DEF KillOverdue, TooManyFailures
    <3>4. failure_map'[q].n + Cardinality(Overdue(q)) <= MaxRunFail
      BY <1>5, <3>1, <3>2, <3>3, MaxRunFailAssumption
    <3> QED
      BY <1>1, <2>3, <3>4 DEF KillOverdue
  <2> QED
    BY <2>1, <2>2, <2>3
<1>8. pc' \in {"overdue", "resched"}
  BY <1>2 DEF GiveUpRun, RestartRun, KillOverdue
<1>9. killRet = "" /\ listenRet = ""
  BY <1>2 DEF RunsInv, CallsOK
<1>10. CallsOK' /\ ~Ending'
  BY <1>2, <1>8, <1>9 DEF CallsOK, Ending
<1>11. ASSUME NEW r \in Runs, Accounted(r)
       PROVE  Accounted(r)'
  <2>1. Known(r)
    BY <1>2, <1>11 DEF Accounted
  <2>2. CASE r # q
    BY <1>6, <2>1, <2>2 DEF Accounted
  <2>3. CASE r = q
    BY <1>7, <2>3 DEF Known, Accounted
  <2> QED
    BY <2>2, <2>3
<1>12. ~stop' => \A r \in Runs : Accounted(r)'
  BY <1>2, <1>11 DEF RunsInv, Accounted
<1> QED
  BY <1>8, <1>10, <1>11, <1>12 DEF RunsInv, Accounted, StaysAccounted

(* should_schedule.                                                         *)
LEMMA RescheduleKeepsRuns ==
  ASSUME TypeOK, ProtocolInv, RunsInv, Reschedule
  PROVE  RunsInv' /\ StaysAccounted
<1>1. /\ pc = "resched" /\ pc' = "overdue" /\ UNCHANGED <<killRet, listenRet, stop, failure_map, status>>
      /\ resched \in Runs /\ waiting \in Seq(Runs) /\ active \subseteq active'
  BY DEF Reschedule, StartOn, envVars, TypeOK, MasterTypeOK, CallTypeOK, JobTypeOK
<1>2. PICK q \in Runs : q = resched
  BY <1>1
<1>3. waiting' = IF RunningOn(active', astate', q) = {} THEN <<q>> \o waiting ELSE waiting
  BY <1>2 DEF Reschedule
<1>4. killRet = "" /\ listenRet = ""
  BY <1>1 DEF RunsInv, CallsOK
<1>5. CallsOK' /\ ~Ending'
  BY <1>1, <1>4 DEF CallsOK, Ending
<1>6. \A r \in Runs : NotNeeded(r)' <=> NotNeeded(r)
  BY <1>1 DEF NotNeeded, Finished, GivenUp
<1>7. \A r \in Runs : Queued(r) => Queued(r)'
  <2>1. \A r \in Runs : Has(waiting, r) => Has(waiting', r)
    BY <1>1, <1>3, PushFront
  <2> QED
    BY <2>1 DEF Has, Queued
<1>8. \A r \in Runs : Copied(r) => Copied(r)'
  BY <1>1 DEF Copied
<1>9. Known(q)'
  <2>1. CASE RunningOn(active', astate', q) = {}
    <3>1. Has(waiting', q)
      BY <1>1, <1>3, <2>1, PushFront
    <3> QED
      BY <3>1 DEF Has, Queued, Known
  <2>2. CASE RunningOn(active', astate', q) # {}
    BY <2>2 DEF RunningOn, Copied, Known
  <2> QED
    BY <2>1, <2>2
<1>10. ASSUME NEW r \in Runs, Accounted(r)
       PROVE  Known(r)'
  <2>1. Known(r) \/ r = q
    BY <1>1, <1>2, <1>10 DEF Accounted
  <2> QED
    BY <1>6, <1>7, <1>8, <1>9, <2>1 DEF Known
<1>11. ~stop' => \A r \in Runs : Known(r)'
  BY <1>1, <1>10 DEF RunsInv, Accounted
<1> QED
  BY <1>1, <1>5, <1>10, <1>11 DEF RunsInv, Accounted, StaysAccounted

(* The steps that move on: they change nothing about the jobs, and where        *)
(* run_until goes next fits what it knows.                                     *)
LEMMA MovesOn ==
  ASSUME RunsInv, pc # "resched", UNCHANGED <<waiting, active, failure_map, status>>, StaysInCall
  PROVE  RunsInv' /\ StaysAccounted
BY JobsSame, KeepsRuns

(* The steps of the loops that move on without touching a run.               *)
LEMMA LoopMoves ==
  ASSUME TypeOK, RunsInv,
         AssignLater \/ AssignDone \/ (\E a \in Agents : LeaveOrDuplicate(a)) \/ OverdueDone
           \/ StopBeforePass \/ CreateStop \/ RemoveStop
  PROVE  RunsInv' /\ StaysAccounted
<1>1. UNCHANGED <<waiting, active, failure_map, status>>
  BY DEF AssignLater, AssignDone, LeaveOrDuplicate, Visit, OverdueDone, StopBeforePass, CreateStop,
         RemoveStop, jobVars
<1>2. CASE AssignLater \/ AssignDone \/ OverdueDone
  <2>1. /\ pc \in {"assign", "overdue"} /\ pc' \in {"assign", "overdue", "surplus", "listen"}
        /\ killRet' = killRet /\ stop' = stop
        /\ listenRet' = IF pc' = "listen" THEN "top" ELSE listenRet
    BY <1>2 DEF AssignLater, AtWaiting, AssignDone, OverdueDone, ToListen, envVars
  <2>2. killRet = "" /\ listenRet = ""
    BY <2>1 DEF RunsInv, CallsOK
  <2>3. StaysInCall
    BY <2>1, <2>2 DEF StaysInCall, CallsOK, Ending
  <2> QED
    BY <1>1, <2>1, <2>3, MovesOn
<1>3. CASE \E a \in Agents : LeaveOrDuplicate(a)
  <2>1. /\ pc = "overdue" /\ pc' \in {"overdue", "resched"} /\ UNCHANGED <<killRet, listenRet, stop>>
    BY <1>3 DEF LeaveOrDuplicate, Visit, envVars
  <2>2. killRet = "" /\ listenRet = ""
    BY <2>1 DEF RunsInv, CallsOK
  <2>3. StaysInCall
    BY <2>1, <2>2 DEF StaysInCall, CallsOK, Ending
  <2> QED
    BY <1>1, <2>1, <2>3, MovesOn
<1>4. CASE StopBeforePass
  <2>1. pc = "top" /\ pc' = "killall" /\ killRet' = "init" /\ listenRet' = listenRet /\ stop'
    BY <1>4 DEF StopBeforePass, RunsRemain, CallKillAll
  <2>2. listenRet = ""
    BY <2>1 DEF RunsInv, CallsOK
  <2>3. StaysInCall
    BY <2>1, <2>2 DEF StaysInCall, CallsOK
  <2> QED
    BY <1>1, <2>1, <2>3, MovesOn
<1>5. CASE CreateStop
  <2>1. stop' /\ UNCHANGED <<pc, killRet, listenRet, failure_map>> /\ pc # "queued"
    BY <1>5 DEF CreateStop, loopVars, jobVars
  <2>2. CallsOK'
    BY <2>1 DEF RunsInv, CallsOK
  <2>3. StaysKnown /\ resched' = resched
    BY <1>1, <1>5, JobsSame DEF CreateStop, loopVars
  <2> QED
    BY <2>1, <2>2, <2>3 DEF RunsInv, StaysKnown, Accounted, StaysAccounted
<1>6. CASE RemoveStop
  <2>1. pc = "client" /\ UNCHANGED <<pc, killRet, listenRet>>
    BY <1>6 DEF RemoveStop, loopVars
  <2>2. killRet = "" /\ listenRet = ""
    BY <2>1 DEF RunsInv, CallsOK
  <2>3. StaysKnown
    BY <1>1, JobsSame
  <2> QED
    BY <2>1, <2>2, <2>3 DEF RunsInv, CallsOK, Ending, StaysKnown, Accounted, StaysAccounted
<1> QED
  BY <1>2, <1>3, <1>4, <1>5, <1>6

(* schedule_runs, the loop over the queue.                                   *)
LEMMA AssignKeepsRuns ==
  ASSUME TypeOK, ProtocolInv, RunsInv, AssignNotNeeded \/ AssignStart
  PROVE  RunsInv' /\ StaysAccounted
<1>1. /\ pc = "assign" /\ pc' = pc /\ UNCHANGED <<killRet, listenRet, stop, failure_map, status>>
      /\ waiting' = RemoveAt(waiting, cursor)
  BY DEF AssignNotNeeded, AssignStart, AtWaiting, loopVars, envVars
<1>2. waiting \in Seq(Runs) /\ cursor \in 1 .. Len(waiting) /\ waiting[cursor] \in Runs
  BY DEF AssignNotNeeded, AssignStart, AtWaiting, TypeOK, MasterTypeOK, JobTypeOK, LoopTypeOK
<1>3. PICK q \in Runs : q = waiting[cursor]
  BY <1>2
<1>4. NotNeeded(q) \/ Copied(q)'
  <2>1. CASE AssignNotNeeded
    BY <1>3, <2>1 DEF AssignNotNeeded
  <2>2. CASE AssignStart
    <3>1. PICK a \in Agents : StartOn(q, a)
      BY <1>3, <2>2 DEF AssignStart, Candidates, Free
    <3> QED
      BY <3>1 DEF StartOn, Copied
  <2> QED
    BY <2>1, <2>2
<1>5. active \subseteq active'
  BY DEF AssignNotNeeded, AssignStart, StartOn
<1>6. \A r \in Runs : NotNeeded(r)' <=> NotNeeded(r)
  BY <1>1 DEF NotNeeded, Finished, GivenUp
<1>7. ASSUME NEW r \in Runs, r # q, Queued(r)
      PROVE  Queued(r)'
  <2>1. Has(RemoveAt(waiting, cursor), r)
    BY <1>2, <1>3, <1>7, RemoveOne DEF Has, Queued
  <2> QED
    BY <1>1, <2>1 DEF Has, Queued
<1>8. \A r \in Runs : Copied(r) => Copied(r)'
  BY <1>5 DEF Copied
<1>9. StaysKnown /\ StaysSettled
  BY <1>4, <1>6, <1>7, <1>8 DEF StaysKnown, StaysSettled, Known
<1>10. StaysInCall
  BY <1>1 DEF StaysInCall, RunsInv, CallsOK, Ending
<1> QED
  BY <1>1, <1>9, <1>10, KeepsRuns

(* all_runs_complete is true of run_until only when every run is settled: the   *)
(* queue is empty and so, the agents of the map being active, is the map.       *)
LEMMA AllRunsCompleteKeepsRuns ==
  ASSUME TypeOK, ProtocolInv, RunsInv, AllRunsComplete
  PROVE  RunsInv' /\ StaysAccounted
<1>1. pc = "top" /\ UNCHANGED <<waiting, active, failure_map, status, listenRet, stop>>
  BY DEF AllRunsComplete, jobVars, envVars
<1>2. listenRet = "" /\ killRet = ""
  BY <1>1 DEF RunsInv, CallsOK
<1>3. StaysAccounted
  BY <1>1, JobsSame DEF StaysKnown, Accounted, StaysAccounted
<1>4. CASE stop
  <2>1. pc' = "killall" /\ killRet' = "stopped"
    BY <1>4 DEF AllRunsComplete, CallKillAll
  <2> QED
    BY <1>1, <1>2, <1>3, <1>4, <2>1 DEF RunsInv, CallsOK
<1>5. CASE ~stop
  <2>1. waiting = <<>> /\ NothingRunning /\ pc' = "drain" /\ killRet' = killRet
    BY <1>5 DEF AllRunsComplete, GoTo
  <2>2. active = {}
    BY <2>1, ExpectedActive DEF NothingRunning
  <2>3. ASSUME NEW r \in Runs
        PROVE  NotNeeded(r)
    <3>1. ~Copied(r)
      BY <2>2 DEF Copied
    <3>2. ~Queued(r)
      BY <2>1 DEF Queued
    <3> QED
      BY <1>1, <1>5, <3>1, <3>2 DEF RunsInv, Known
  <2>4. \A r \in Runs : NotNeeded(r)'
    BY <1>1, <2>3 DEF NotNeeded, Finished, GivenUp
  <2> QED
    BY <1>1, <1>2, <1>3, <2>1, <2>4 DEF RunsInv, CallsOK, Known
<1> QED
  BY <1>3, <1>4, <1>5

(* The steps once nothing is left to do.                                     *)
LEMMA EndingKeepsRuns ==
  ASSUME TypeOK, ProtocolInv, RunsInv,
         MarkWaitingFailed \/ KillRound \/ Drain \/ DrainCheckStop \/ Return
  PROVE  RunsInv'
<1>1. /\ pc \in {"stopped", "killall", "drain", "drained", "return"} /\ pc' # "queued"
      /\ pc' # "resched" /\ stop' = stop /\ failure_map' = failure_map
      /\ ~MarkWaitingFailed => status' = status
  BY DEF MarkWaitingFailed, KillRound, Drain, DrainCheckStop, Return, CloseFree, GoTo, CallKillAll, jobVars,
         envVars
<1>2. Ending
  BY <1>1 DEF Ending
<1>3. StaysSettled
  <2>1. ASSUME NEW r \in Runs, Finished(r)
        PROVE  Finished(r)'
    <3>1. CASE MarkWaitingFailed
      <4> DEFINE n == Cardinality({i \in DOMAIN waiting : waiting[i] = r})
      <4>1. status'[r] = IF status[r] < 1 THEN status[r] - n ELSE status[r]
        BY <3>1, Zenon DEF MarkWaitingFailed
      <4> HIDE DEF n
      <4>2. status[r] = 1
        BY <2>1 DEF Finished
      <4>3. status'[r] = 1
        BY <4>1, <4>2
      <4> QED
        BY <4>3 DEF Finished
    <3>2. CASE ~MarkWaitingFailed
      BY <1>1, <2>1, <3>2 DEF Finished
    <3> QED
      BY <3>1, <3>2
  <2> QED
    BY <1>1, <2>1 DEF StaysSettled, NotNeeded, GivenUp
<1>4. CallsOK'
  <2>1. CASE MarkWaitingFailed \/ Return
    <3>1. pc \in {"stopped", "return"} /\ pc' \in {"drain", "client"} /\ UNCHANGED <<killRet, listenRet>>
      BY <2>1 DEF MarkWaitingFailed, Return, GoTo, loopVars
    <3> QED
      BY <3>1 DEF RunsInv, CallsOK
  <2>2. CASE KillRound
    <3>1. /\ pc' = "listen" /\ killRet' = killRet /\ listenRet' \in {"killall", killRet} /\ killRet # ""
      BY <2>2 DEF KillRound, GoTo, TypeOK, MasterTypeOK, CallTypeOK
    <3> QED
      BY <3>1 DEF CallsOK
  <2>3. CASE Drain \/ DrainCheckStop
    <3>1. /\ pc \in {"drain", "drained"}
          /\ \/ pc' = "killall" /\ killRet' \in {"return", "drain"} /\ listenRet' = listenRet
             \/ pc' = "listen" /\ listenRet' = "drained" /\ killRet' = killRet
             \/ pc' = "drain" /\ listenRet' = listenRet /\ killRet' = killRet
      BY <2>3 DEF Drain, DrainCheckStop, GoTo, CallKillAll
    <3> QED
      BY <3>1 DEF RunsInv, CallsOK
  <2> QED
    BY <2>1, <2>2, <2>3
<1>5. ASSUME ~stop', NEW r \in Runs
      PROVE  NotNeeded(r)'
  BY <1>1, <1>2, <1>3, <1>5 DEF RunsInv, StaysSettled
<1> QED
  BY <1>1, <1>4, <1>5 DEF RunsInv, Known

(* listen returns to its caller.                                             *)
LEMMA ReturnsToCaller ==
  ASSUME TypeOK, RunsInv, pc \in {"listen", "read"}, stop' = stop,
         EndListen \/ (pc' = "read" /\ UNCHANGED <<killRet, listenRet>>)
  PROVE  StaysInCall
<1>1. listenRet \in ListenRet /\ killRet \in KillRet \cup {""}
  BY DEF TypeOK, MasterTypeOK, CallTypeOK
<1>2. \/ listenRet \in {"top", "drained"} /\ killRet = ""
      \/ listenRet \in {"killall", killRet} /\ killRet # ""
  BY DEF RunsInv, CallsOK
<1>3. CASE pc' = "read" /\ UNCHANGED <<killRet, listenRet>>
  BY <1>2, <1>3 DEF StaysInCall, CallsOK, Ending
<1>4. CASE EndListen
  <2>1. /\ pc' = listenRet /\ listenRet' = ""
        /\ IF listenRet = killRet THEN killRet' = "" ELSE killRet' = killRet
    BY <1>4 DEF EndListen
  <2>2. CASE listenRet \in {"top", "drained"} /\ killRet = ""
    BY <2>1, <2>2 DEF StaysInCall, CallsOK, Ending
  <2>3. CASE listenRet = "killall" /\ killRet # ""
    <3>1. killRet' = killRet
      BY <1>1, <2>1, <2>3 DEF KillRet
    <3> QED
      BY <2>1, <2>3, <3>1 DEF StaysInCall, CallsOK, Ending
  <2>4. CASE listenRet = killRet /\ killRet # ""
    <3>1. pc' \in KillRet /\ killRet' = ""
      BY <1>1, <2>1, <2>4
    <3> QED
      BY <2>1, <2>4, <3>1 DEF StaysInCall, CallsOK, Ending, KillRet
  <2> QED
    BY <1>2, <2>2, <2>3, <2>4
<1> QED
  BY <1>3, <1>4

(* Listening and what it reads keep the invariant.                           *)
LEMMA ListenKeepsRuns ==
  ASSUME TypeOK, ProtocolInv, RunsInv, Listen \/ ReadOne \/ StartPass \/ CloseSurplus
  PROVE  RunsInv' /\ StaysAccounted
<1>1. CASE Listen
  <2>1. /\ pc = "listen" /\ stop' = stop /\ UNCHANGED <<waiting, active, failure_map, status>>
        /\ EndListen \/ (pc' = "read" /\ UNCHANGED <<killRet, listenRet>>)
    BY <1>1 DEF Listen, jobVars, envVars
  <2>2. StaysInCall
    BY <2>1, ReturnsToCaller
  <2> QED
    BY <2>1, <2>2, MovesOn
<1>2. CASE ReadOne
  <2>1. /\ pc = "read" /\ stop' = stop
        /\ EndListen \/ (pc' = "read" /\ UNCHANGED <<killRet, listenRet>>)
    BY <1>2 DEF ReadOne, envVars
  <2>2. PICK a \in Agents : ProcessMessage(a) \/ AddAgent(a)
    BY <1>2 DEF ReadOne, TypeOK, MasterTypeOK, LoopTypeOK
  <2>3. StaysInCall
    BY <2>1, ReturnsToCaller
  <2>4. StaysSettled /\ StaysKnown
    BY <2>2, ReadKeepsRuns
  <2> QED
    BY <2>1, <2>3, <2>4, KeepsRuns
<1>3. CASE StartPass
  <2>1. /\ pc' = "assign" /\ UNCHANGED <<killRet, listenRet, stop, waiting, active, failure_map, status>>
        /\ pc = "top" \/ pc = "init"
    BY <1>3 DEF StartPass, RunsRemain, InitAgents, GoTo, jobVars, envVars
  <2>2. StaysInCall
    BY <2>1 DEF RunsInv, StaysInCall, CallsOK, Ending
  <2> QED
    BY <2>1, <2>2, MovesOn
<1>4. CASE CloseSurplus
  <2>1. /\ pc = "surplus" /\ pc' = "listen" /\ listenRet' = "top" /\ UNCHANGED <<killRet, stop>>
        /\ UNCHANGED <<waiting, failure_map, status>>
    BY <1>4 DEF CloseSurplus, CloseFree, jobVars, envVars
  <2>2. active' = active
    <3>1. ASSUME NEW S \in SUBSET Free
          PROVE  ActiveWithout(S) = active
      BY ExpectedActive DEF ActiveWithout, Free
    <3> QED
      BY <1>4, <3>1 DEF CloseSurplus, CloseFree, jobVars
  <2>3. StaysInCall
    BY <2>1 DEF RunsInv, StaysInCall, CallsOK, Ending
  <2> QED
    BY <2>1, <2>2, <2>3, MovesOn
<1> QED
  BY <1>1, <1>2, <1>3, <1>4

(* Between two calls of run_until.                                           *)
LEMMA ClientKeepsRuns ==
  ASSUME TypeOK, ProtocolInv, RunsInv,
         IdleStep \/ NewGroup \/ (\E r \in Runs : UpdateRun(r)) \/ RunUntil
  PROVE  RunsInv' /\ StaysAccounted
<1>1. pc \in {"client", "queued"} /\ UNCHANGED <<killRet, listenRet, stop>>
  BY DEF IdleStep, IdleInit, IdleRead, Idling, NewGroup, UpdateRun, RunUntil, loopVars, envVars
<1>2. killRet = "" /\ listenRet = ""
  BY <1>1 DEF RunsInv, CallsOK
<1>3. CASE IdleStep
  <2>1. pc' = pc
    BY <1>3 DEF IdleStep, IdleInit, IdleRead
  <2>2. StaysSettled /\ StaysKnown /\ (pc = "queued" => failure_map' = failure_map)
    <3>1. CASE InitAgents
      BY <3>1, JobsSame DEF InitAgents, jobVars
    <3>2. CASE \E a \in Agents : ProcessMessage(a) \/ AddAgent(a)
      BY <3>2, ReadKeepsRuns
    <3> QED
      BY <1>3, <3>1, <3>2 DEF IdleStep, IdleInit, IdleRead
  <2>3. StaysInCall
    BY <1>1, <1>2, <2>1, <2>2 DEF StaysInCall, CallsOK, Ending
  <2> QED
    BY <1>1, <2>2, <2>3, KeepsRuns
<1>4. CASE NewGroup
  <2>1. /\ pc' = "queued" /\ waiting' = [i \in 1 .. NRuns |-> i]
        /\ failure_map' = [r \in Runs |-> NoFailure]
    BY <1>4 DEF NewGroup, GoTo
  <2>2. ASSUME NEW r \in Runs
        PROVE  Queued(r)' /\ failure_map'[r].n = 0
    BY <2>1 DEF Queued, Runs, NoFailure
  <2> QED
    BY <1>1, <1>2, <2>1, <2>2 DEF RunsInv, CallsOK, Known, Ending, Accounted, StaysAccounted
<1>5. ASSUME NEW q \in Runs, UpdateRun(q)
      PROVE  RunsInv' /\ StaysAccounted
  <2>1. /\ pc = "queued" /\ pc' = pc /\ failure_map' = failure_map /\ active = {}
        /\ status' = [status EXCEPT ![q] = 1]
    BY <1>5 DEF UpdateRun, ProtocolInv
  <2>2. PICK i \in DOMAIN waiting : waiting[i] = q /\ waiting' = RemoveAt(waiting, i)
    BY <1>5 DEF UpdateRun
  <2>3. \A r \in Runs : status'[r] = IF r = q THEN 1 ELSE status[r]
    BY <2>1 DEF TypeOK, MasterTypeOK, JobTypeOK
  <2>4. StaysSettled /\ NotNeeded(q)'
    BY <2>1, <2>3 DEF StaysSettled, NotNeeded, Finished, GivenUp
  <2>5. ASSUME NEW r \in Runs, r # q, Queued(r)
        PROVE  Queued(r)'
    <3>1. waiting \in Seq(Runs) /\ i \in 1 .. Len(waiting)
      BY DEF TypeOK, MasterTypeOK, JobTypeOK
    <3>2. Has(RemoveAt(waiting, i), r)
      BY <2>2, <2>5, <3>1, RemoveOne DEF Has, Queued
    <3> QED
      BY <2>2, <3>2 DEF Has, Queued
  <2>6. StaysKnown
    BY <2>1, <2>4, <2>5 DEF StaysKnown, StaysSettled, Known, Copied
  <2>7. StaysInCall
    BY <1>1, <1>2, <2>1 DEF StaysInCall, CallsOK, Ending
  <2> QED
    BY <2>1, <2>4, <2>6, <2>7, KeepsRuns
<1>6. CASE RunUntil
  <2>1. /\ pc = "queued" /\ pc' = "top" /\ waiting' = waiting /\ status' = status /\ active = {}
        /\ failure_map' = [r \in Runs |-> NoFailure]
    BY <1>6 DEF RunUntil, GoTo, ProtocolInv
  <2>2. ASSUME NEW r \in Runs, Known(r)
        PROVE  Known(r)'
    <3>1. ~GivenUp(r)
      BY <2>1, MaxRunFailAssumption DEF RunsInv, GivenUp
    <3>2. Finished(r) \/ Queued(r)
      BY <2>1, <2>2, <3>1 DEF Known, NotNeeded, Copied
    <3> QED
      BY <2>1, <3>2 DEF Known, NotNeeded, Finished, Queued
  <2>3. ~stop => \A r \in Runs : Known(r)'
    BY <2>1, <2>2 DEF RunsInv
  <2> QED
    BY <1>1, <1>2, <2>1, <2>2, <2>3 DEF RunsInv, CallsOK, Ending, Accounted, StaysAccounted
<1> QED
  BY <1>3, <1>4, <1>5, <1>6

(* Every step keeps the invariant.                                           *)
LEMMA NextKeepsRuns ==
  ASSUME TypeOK, ProtocolInv, RunsInv, [Next]_vars
  PROVE  RunsInv'
<1>1. CASE UNCHANGED masterVars
  <2>1. /\ UNCHANGED <<waiting, active, failure_map, status, pc, killRet, listenRet, resched, stop>>
    BY <1>1 DEF masterVars, jobVars, loopVars, envVars
  <2>2. StaysSettled /\ StaysKnown
    BY <2>1, JobsSame
  <2>3. CallsOK'
    BY <2>1 DEF RunsInv, CallsOK
  <2>4. Ending' => Ending
    BY <2>1 DEF Ending
  <2> QED
    BY <2>1, <2>2, <2>3, <2>4 DEF RunsInv, StaysSettled, StaysKnown
<1>2. CASE MasterNext
  <2>1. CASE RunStep
    BY <2>1, LoopMoves, AssignKeepsRuns, OverdueKeepsRuns, RescheduleKeepsRuns, ListenKeepsRuns,
       AllRunsCompleteKeepsRuns, EndingKeepsRuns DEF RunStep
  <2>2. CASE IdleStep \/ ProgramStep \/ CreateStop
    BY <2>2, ClientKeepsRuns, LoopMoves DEF ProgramStep
  <2> QED
    BY <1>2, <2>1, <2>2 DEF MasterNext
<1>3. UNCHANGED vars => UNCHANGED masterVars
  BY DEF vars
<1> QED
  BY <1>1, <1>2, <1>3 DEF Next

(* The steps of a call before it ends lose no run, with or without pest.stp.    *)
LEMMA StepsAccount ==
  ASSUME TypeOK, ProtocolInv, RunsInv, [Next]_vars,
         ~(KillRound \/ MarkWaitingFailed \/ Drain \/ DrainCheckStop \/ Return)
  PROVE  StaysAccounted
<1>1. CASE UNCHANGED masterVars
  <2>1. UNCHANGED <<waiting, active, failure_map, status, pc, resched>>
    BY <1>1 DEF masterVars, jobVars, loopVars
  <2>2. StaysKnown
    BY <2>1, JobsSame
  <2> QED
    BY <2>1, <2>2 DEF StaysKnown, Accounted, StaysAccounted
<1>2. CASE MasterNext
  <2>1. CASE RunStep
    BY <2>1, LoopMoves, AssignKeepsRuns, OverdueKeepsRuns, RescheduleKeepsRuns, ListenKeepsRuns,
       AllRunsCompleteKeepsRuns DEF RunStep
  <2>2. CASE IdleStep \/ ProgramStep \/ CreateStop
    BY <2>2, ClientKeepsRuns, LoopMoves DEF ProgramStep
  <2> QED
    BY <1>2, <2>1, <2>2 DEF MasterNext
<1>3. UNCHANGED vars => UNCHANGED masterVars
  BY DEF vars
<1> QED
  BY <1>1, <1>2, <1>3 DEF Next

(* The invariant holds in the beginning.                                     *)
LEMMA InitRuns == Init => RunsInv
BY DEF Init, MasterInit, RunsInv, CallsOK, Ending

(* RunsAreKnown: between reinitialize and the end of run_until the master knows  *)
(* of every run that is neither finished nor given up, unless pest.stp is there; *)
(* once it sets out to return there is no such run.                            *)
THEOREM RunsAreKnown == Spec => []RunsInv
<1>1. TypeOK /\ ProtocolInv /\ RunsInv /\ [Next]_vars => RunsInv'
  BY NextKeepsRuns
<1> QED
  BY <1>1, InitRuns, TypeCorrect, Protocol, PTL DEF Spec

(* NoRunLost: whatever the agents do, whenever run_until asks                  *)
(* all_runs_complete every run that is neither finished nor given up is in the  *)
(* queue or has a copy on an agent that the master counts.                     *)
THEOREM NoRunIsLost == Spec => []NoRunLost
<1>1. ASSUME TypeOK, ProtocolInv, RunsInv
      PROVE  NoRunLost
  <2>1. ASSUME NEW r \in Runs, Copied(r)
        PROVE  NConcurrent(r) > 0
    <3>1. PICK a \in Agents : <<r, a>> \in active /\ astate[a] = "ACTIVE"
      BY <1>1, <2>1, ExpectedActive DEF Copied
    <3>2. a \in RunningOn(active, astate, r) /\ RunningOn(active, astate, r) \subseteq Agents
      BY <3>1 DEF RunningOn
    <3>3. IsFiniteSet(RunningOn(active, astate, r))
      BY <3>2, AgentsAssumption, FS_Subset
    <3>4. NConcurrent(r) \in Nat /\ NConcurrent(r) # 0
      BY <3>2, <3>3, FS_CardinalityType, FS_EmptySet DEF NConcurrent
    <3> QED
      BY <3>4
  <2> QED
    BY <1>1, <2>1 DEF NoRunLost, RunsInv, Known
<1> QED
  BY <1>1, TypeCorrect, Protocol, RunsAreKnown, PTL
=============================================================================
