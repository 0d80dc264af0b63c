------------------------- MODULE ChannelVersionProofs -------------------------
(***************************************************************************)
(* The version the client of the command channel unpacks with, for every   *)
(* set of versions, number of commands and capacity of the sockets.  Which *)
(* packets under way tell the server's version depends on how far a change *)
(* has come: all of them until the server accepts it, then only those      *)
(* behind the answer to the query that confirms it, then all of them.      *)
(* That is so in the sessions whose datagrams keep their order.            *)
(***************************************************************************)
EXTENDS CommandChannelProofs

Telling == {"SERVERINFO", "STRING", "FRAMEOFDATA"}
Tells(m, v) == m.kind \in Telling => m.ver = v
Refusal(m) == m.kind = "UNRECOGNIZED" \/ (m.kind = "NUMBER" /\ m.value = 1)

\* Of a queue: what it tells is v; what stands behind an answer does, and the answer
\* is that to a query; it holds no answer; it holds a refusal; an announcement.
AllTell(q, v) == \A i \in 1..Len(q) : Tells(q[i], v)
TellsFromAnswerOn(q, v) ==
    \A i \in 1..Len(q) : IsAnswer(q[i]) =>
        q[i].kind = "STRING" /\ \A j \in i..Len(q) : Tells(q[j], v)
NoAnswer(q) == \A i \in 1..Len(q) : ~IsAnswer(q[i])
HasRefusal(q) == \E i \in 1..Len(q) : Refusal(q[i])
HasInfo(q) == \E i \in 1..Len(q) : q[i].kind = "SERVERINFO"
HasSet(q) == \E i \in 1..Len(q) : q[i].kind = "set"

\* A command is that of its job.
JobInv ==
    /\ mainPc \in {"start", "connect", "keys"} => job = "none"
    /\ mainPc \in {"send", "wait"} =>
          /\ command.kind = "set" <=> job = "set"
          /\ job = "confirm" => command.kind = "query"

\* One thread stores the version and unpacks with it; in a unicast session the other
\* has nothing to read.
UnpackInv ==
    /\ pc["cmd"] = "recv" => msg["cmd"].kind = "none"
    /\ pc["cmd"] \in {"infoMinor", "infoCan"} => msg["cmd"].kind = "SERVERINFO"
    /\ pc["cmd"] = "tokenMinor" => msg["cmd"].kind = "STRING"
    /\ pc["cmd"] \in {"params", "test", "suffix"} =>
          msg["cmd"].kind = "FRAMEOFDATA" /\ use["cmd"] = version
    /\ pc["cmd"] = "minor" => use["cmd"][1] = version[1]
    /\ unicast => in["data"] = <<>> /\ pc["data"] = "recv"

\* An announcement that was not lost is stored or waits to be.
AnnouncedInv ==
    ~lost /\ connect = "answered" => version # NoVersion \/ HasInfo(in["cmd"])

\* What the client holds and what is on its way to it is the server's version.
Current ==
    /\ AllTell(in["cmd"], serverVer)
    /\ Tells(msg["cmd"], serverVer)
    /\ IF pc["cmd"] \in {"infoMinor", "tokenMinor"}
       THEN version[1] = serverVer[1]
       ELSE version \in {NoVersion, serverVer}

\* The server has not accepted a change that is not confirmed yet.
Settled ==
    \/ job \notin {"set", "confirm"}
    \/ /\ job = "set"
       /\ mainPc = "send" \/ response = 1 \/ HasSet(toServer) \/ HasRefusal(in["cmd"])
    \/ job = "confirm" /\ response # NoResponse

ChangeInv ==
    ~late =>
        /\ \A i \in 1..Len(toServer) : Awaited(toServer[i]) =>
              /\ toServer[i].kind = "set" <=> job = "set"
              /\ job = "confirm" => toServer[i].kind = "query"
        /\ Settled => Current
        /\ job = "confirm" => TellsFromAnswerOn(in["cmd"], serverVer)

FollowInv == JobInv /\ UnpackInv /\ AnnouncedInv /\ ChangeInv

-----------------------------------------------------------------------------
(* Queues                                                                   *)

\* What is left behind the first of a queue was there before.
LEMMA TailKeeps ==
    ASSUME NEW q \in Seq(Datagrams), q # <<>>, NEW v
    PROVE  /\ Tail(q) \in Seq(Datagrams)
           /\ AllTell(q, v) => AllTell(Tail(q), v) /\ Tells(Head(q), v)
           /\ TellsFromAnswerOn(q, v) => TellsFromAnswerOn(Tail(q), v)
           /\ TellsFromAnswerOn(q, v) /\ IsAnswer(Head(q)) =>
                 AllTell(q, v) /\ Head(q).kind = "STRING"
           /\ HasRefusal(Tail(q)) \/ Refusal(Head(q)) => HasRefusal(q)
           /\ HasInfo(q) /\ Head(q).kind # "SERVERINFO" => HasInfo(Tail(q))
  <1>1. /\ Tail(q) \in Seq(Datagrams) /\ Head(q) = q[1] /\ 1 \in 1..Len(q)
        /\ Len(q) \in Nat /\ Len(Tail(q)) = Len(q) - 1
        /\ \A i \in 1..Len(Tail(q)) : Tail(q)[i] = q[i + 1]
    OBVIOUS
  <1>2. \A i \in 1..Len(Tail(q)) : i + 1 \in 1..Len(q) /\ Tail(q)[i] = q[i + 1]
    BY <1>1
  <1>3. AllTell(q, v) => AllTell(Tail(q), v) /\ Tells(Head(q), v)
    BY <1>1, <1>2 DEF AllTell
  <1>4. ASSUME TellsFromAnswerOn(q, v) PROVE TellsFromAnswerOn(Tail(q), v)
    <2>1. ASSUME NEW i \in 1..Len(Tail(q)), IsAnswer(Tail(q)[i])
          PROVE  Tail(q)[i].kind = "STRING" /\ \A j \in i..Len(Tail(q)) : Tells(Tail(q)[j], v)
      <3>1. q[i + 1].kind = "STRING" /\ \A j \in (i + 1)..Len(q) : Tells(q[j], v)
        BY <1>2, <1>4, <2>1 DEF TellsFromAnswerOn
      <3>2. \A j \in i..Len(Tail(q)) : j \in 1..Len(Tail(q)) /\ j + 1 \in (i + 1)..Len(q)
        BY <1>1
      <3> QED
        BY <1>2, <3>1, <3>2
    <2> QED
      BY <2>1 DEF TellsFromAnswerOn
  <1>5. TellsFromAnswerOn(q, v) /\ IsAnswer(Head(q)) => AllTell(q, v) /\ Head(q).kind = "STRING"
    BY <1>1 DEF TellsFromAnswerOn, AllTell
  <1>6. HasRefusal(Tail(q)) \/ Refusal(Head(q)) => HasRefusal(q)
    BY <1>1, <1>2 DEF HasRefusal
  <1>7. ASSUME HasInfo(q), Head(q).kind # "SERVERINFO" PROVE HasInfo(Tail(q))
    <2>1. PICK i \in 1..Len(q) : q[i].kind = "SERVERINFO"
      BY <1>7 DEF HasInfo
    <2>2. i - 1 \in 1..Len(Tail(q)) /\ (i - 1) + 1 = i
      BY <1>1, <1>7, <2>1
    <2>3. Tail(q)[i - 1].kind = "SERVERINFO"
      BY <1>2, <2>1, <2>2
    <2> QED
      BY <2>2, <2>3 DEF HasInfo
  <1> QED
    BY <1>1, <1>3, <1>4, <1>5, <1>6, <1>7

\* What is delivered stands behind the rest.
LEMMA AppendKeeps ==
    ASSUME NEW q \in Seq(Datagrams), NEW m \in Datagrams, NEW v
    PROVE  /\ AllTell(q, v) /\ Tells(m, v) => AllTell(Append(q, m), v)
           /\ TellsFromAnswerOn(q, v) /\ Tells(m, v) /\ (IsAnswer(m) => m.kind = "STRING")
                 => TellsFromAnswerOn(Append(q, m), v)
           /\ HasRefusal(Append(q, m)) => HasRefusal(q) \/ Refusal(m)
           /\ HasInfo(q) \/ m.kind = "SERVERINFO" => HasInfo(Append(q, m))
           /\ NoAnswer(q) => ~HasRefusal(q) /\ TellsFromAnswerOn(q, v)
  <1> DEFINE r == Append(q, m)
  <1>1. /\ Len(q) \in Nat /\ Len(r) = Len(q) + 1 /\ r[Len(q) + 1] = m
        /\ \A i \in 1..Len(q) : r[i] = q[i]
    OBVIOUS
  <1> HIDE DEF r
  <1>2. \A i \in 1..Len(r) : (i \in 1..Len(q) /\ r[i] = q[i]) \/ (i = Len(q) + 1 /\ r[i] = m)
    BY <1>1
  <1>3. \A i \in 1..Len(q) : i \in 1..Len(r) /\ r[i] = q[i]
    BY <1>1
  <1>4. Len(q) + 1 \in 1..Len(r)
    BY <1>1
  <1>5. AllTell(q, v) /\ Tells(m, v) => AllTell(r, v)
    BY <1>2 DEF AllTell
  <1>6. ASSUME TellsFromAnswerOn(q, v), Tells(m, v), IsAnswer(m) => m.kind = "STRING"
        PROVE  TellsFromAnswerOn(r, v)
    <2>1. ASSUME NEW i \in 1..Len(r), IsAnswer(r[i])
          PROVE  r[i].kind = "STRING" /\ \A j \in i..Len(r) : Tells(r[j], v)
      <3>1. CASE i \in 1..Len(q)
        <4>1. r[i].kind = "STRING" /\ \A j \in i..Len(q) : Tells(q[j], v)
          BY <1>3, <1>6, <2>1, <3>1 DEF TellsFromAnswerOn
        <4>2. \A j \in i..Len(r) : j \in 1..Len(r) /\ (j \in 1..Len(q) => j \in i..Len(q))
          BY <1>1
        <4> QED
          BY <1>2, <1>6, <4>1, <4>2
      <3>2. CASE i = Len(q) + 1
        <4>1. \A j \in i..Len(r) : r[j] = m
          BY <1>1, <3>2
        <4> QED
          BY <1>1, <1>6, <2>1, <3>2, <4>1
      <3> QED
        BY <1>2, <3>1, <3>2
    <2> QED
      BY <2>1 DEF TellsFromAnswerOn
  <1>7. HasRefusal(r) => HasRefusal(q) \/ Refusal(m)
    BY <1>2 DEF HasRefusal
  <1>8. HasInfo(q) \/ m.kind = "SERVERINFO" => HasInfo(r)
    BY <1>1, <1>3, <1>4 DEF HasInfo
  <1>9. NoAnswer(q) => ~HasRefusal(q) /\ TellsFromAnswerOn(q, v)
    BY DEF NoAnswer, HasRefusal, Refusal, IsAnswer, TellsFromAnswerOn
  <1> QED
    BY <1>5, <1>6, <1>7, <1>8, <1>9 DEF r

-----------------------------------------------------------------------------
(* Initial states and steps of the main thread                              *)

\* At the start nothing is under way and no version is known.
LEMMA FollowInit == Init => FollowInv
  <1> SUFFICES ASSUME Init PROVE FollowInv
    OBVIOUS
  <1>1. JobInv /\ AnnouncedInv
    BY DEF Init, JobInv, AnnouncedInv
  <1>2. Nothing.kind = "none" /\ \A t \in Threads : msg[t] = Nothing /\ in[t] = <<>> /\ pc[t] = "recv"
    BY DEF Init, Nothing, Datagram
  <1>3. UnpackInv
    BY <1>2, Constants DEF UnpackInv
  <1>4. Current
    BY <1>2, Constants DEF Init, Current, AllTell, Tells, Telling
  <1>5. ChangeInv
    BY <1>4, <1>2, Constants DEF Init, ChangeInv, TellsFromAnswerOn
  <1> QED
    BY <1>1, <1>3, <1>5 DEF FollowInv

\* Whoever leaves the command listener, its socket and the server alone leaves what
\* they say of the version.
LEMMA SameHeld ==
    ASSUME UNCHANGED <<version, pc, msg, use, in, serverVer, unicast>>
    PROVE  /\ UnpackInv => UnpackInv'
           /\ Current => Current'
           /\ TellsFromAnswerOn(in["cmd"], serverVer) => TellsFromAnswerOn(in["cmd"], serverVer)'
           /\ UNCHANGED <<connect, lost>> /\ AnnouncedInv => AnnouncedInv'
  BY DEF UnpackInv, Current, AllTell, Tells, TellsFromAnswerOn, AnnouncedInv, HasInfo

\* At rest nothing waits for an answer, and no change is under way.
LEMMA AtKeys ==
    ASSUME ChannelInv, FollowInv, mainPc \in {"start", "connect", "keys"}, ~late
    PROVE  /\ job = "none" /\ Current
           /\ \A i \in 1..Len(toServer) : toServer[i].kind = "modeldef"
  <1>1. job = "none" /\ Current
    BY DEF FollowInv, JobInv, ChangeInv, Settled
  <1>2. \A i \in 1..Len(toServer) : ~Awaited(toServer[i])
    BY DEF ChannelInv, AnswerInv
  <1> QED
    BY <1>1, <1>2 DEF Awaited

\* When SendCommand has seen an answer nothing waits for one.
LEMMA AtReturn ==
    ASSUME ChannelInv, Return, ~late'
    PROVE  /\ ~late /\ response # NoResponse /\ mainPc = "wait"
           /\ \A i \in 1..Len(toServer) : toServer[i].kind = "modeldef"
           /\ NoAnswer(in["cmd"])
  <1>1. ~late /\ response # NoResponse /\ mainPc = "wait"
    BY DEF Return, ChannelInv, TypeOK, MainTypes
  <1>2. \A i \in 1..Len(toServer) : ~Awaited(toServer[i])
    BY <1>1 DEF ChannelInv, AnswerInv
  <1>3. NoAnswer(in["cmd"])
    BY <1>1 DEF ChannelInv, AnswerInv, NoAnswer
  <1> QED
    BY <1>1, <1>2, <1>3 DEF Awaited

\* Keys and SendCommand: a change that returns with an answer leaves the invariant.
LEMMA MainFollows == ChannelInv /\ FollowInv /\ Main => FollowInv'
  <1> SUFFICES ASSUME ChannelInv, FollowInv, Main PROVE FollowInv'
    OBVIOUS
  <1>1. CASE StartVersion
    <2>1. /\ UNCHANGED <<version, pc, msg, use, in, serverVer, unicast, connect, lost>>
          /\ UNCHANGED <<job, late, toServer>> /\ mainPc' = "connect" /\ job = "none"
      BY <1>1 DEF StartVersion, StartFrame, threadVars, serverVars, ChannelInv, StartInv,
         FollowInv, JobInv
    <2>2. UnpackInv' /\ AnnouncedInv' /\ JobInv'
      BY <2>1, SameHeld DEF FollowInv, JobInv
    <2>3. ChangeInv'
      BY <1>1, <2>1, SameHeld, AtKeys DEF StartVersion, ChangeInv
    <2> QED
      BY <2>2, <2>3 DEF FollowInv
  <1>2. CASE StartConnect
    <2>1. /\ UNCHANGED <<version, pc, msg, use, in, serverVer, unicast, lost>>
          /\ UNCHANGED <<job, late, toServer>> /\ mainPc' = "keys" /\ job = "none"
          /\ connect' = "sent"
      BY <1>2 DEF StartConnect, StartFrame, threadVars, serverVars, FollowInv, JobInv
    <2>2. UnpackInv' /\ AnnouncedInv' /\ JobInv'
      BY <2>1, SameHeld DEF FollowInv, JobInv, AnnouncedInv
    <2>3. ChangeInv'
      BY <1>2, <2>1, SameHeld, AtKeys DEF StartConnect, ChangeInv
    <2> QED
      BY <2>2, <2>3 DEF FollowInv
  <1>3. CASE KeyCommand \/ KeyVersion \/ \E v \in UserVersions : KeyBitstream(v)
    <2>1. /\ UNCHANGED <<late, toServer>> /\ mainPc = "keys" /\ mainPc' = "send"
          /\ job' # "confirm" /\ (command'.kind = "set" <=> job' = "set")
      BY <1>3 DEF KeyCommand, KeyVersion, KeyBitstream, Idle, StartCommand, Command
    <2>2. UNCHANGED <<version, pc, msg, use, in, serverVer, unicast, connect, lost>>
      BY <1>3 DEF KeyCommand, KeyVersion, KeyBitstream, MainFrame, versionVars, threadVars,
         serverVars
    <2>3. UnpackInv' /\ AnnouncedInv' /\ JobInv'
      BY <2>1, <2>2, SameHeld DEF FollowInv, JobInv
    <2>4. ASSUME ~late PROVE \A i \in 1..Len(toServer') : ~Awaited(toServer'[i])
      BY <2>1, <2>4, AtKeys DEF Awaited
    <2>5. ChangeInv'
      <3>1. late' = late /\ job' # "confirm"
        BY <2>1
      <3>2. ~late => Current'
        BY <2>1, <2>2, SameHeld, AtKeys
      <3> QED
        BY <2>4, <3>1, <3>2 DEF ChangeInv
    <2> QED
      BY <2>3, <2>5 DEF FollowInv
  <1>4. CASE KeyDescriptions
    <2>1. /\ UNCHANGED <<version, pc, msg, use, in, serverVer, unicast, connect, lost>>
          /\ UNCHANGED <<job, late, mainPc>> /\ mainPc = "keys"
          /\ toServer' = Append(toServer, Command(issued + 1, "modeldef", NoVersion))
      BY <1>4 DEF KeyDescriptions, Idle, MainFrame, versionVars, threadVars, serverVars
    <2>2. UnpackInv' /\ AnnouncedInv' /\ JobInv'
      BY <2>1, SameHeld DEF FollowInv, JobInv
    <2>3. ASSUME ~late, NEW i \in 1..Len(toServer') PROVE toServer'[i].kind = "modeldef"
      <3>1. toServer \in Seq(Commands)
        BY DEF ChannelInv, TypeOK, NetTypes
      <3>2. \/ i \in 1..Len(toServer) /\ toServer'[i] = toServer[i]
            \/ toServer'[i] = Command(issued + 1, "modeldef", NoVersion)
        BY <2>1, <3>1
      <3> QED
        BY <2>1, <2>3, <3>2, AtKeys DEF Command
    <2>4. ChangeInv'
      BY <2>1, <2>3, SameHeld, AtKeys DEF ChangeInv
    <2> QED
      BY <2>2, <2>4 DEF FollowInv
  <1>5. CASE KeyQuit
    <2>1. /\ UNCHANGED <<version, pc, msg, use, in, serverVer, unicast, connect, lost>>
          /\ UNCHANGED <<job, late, toServer>> /\ mainPc = "keys" /\ mainPc' = "quit"
      BY <1>5 DEF KeyQuit, MainFrame, versionVars, threadVars, serverVars
    <2>2. UnpackInv' /\ AnnouncedInv' /\ JobInv'
      BY <2>1, SameHeld DEF FollowInv, JobInv
    <2>3. ChangeInv'
      BY <2>1, SameHeld, AtKeys DEF ChangeInv
    <2> QED
      BY <2>2, <2>3 DEF FollowInv
  <1>6. CASE SendTo
    <2>1. /\ UNCHANGED <<version, pc, msg, use, in, serverVer, unicast, connect, lost>>
          /\ UNCHANGED <<job, late, command, response>> /\ mainPc = "send" /\ mainPc' = "wait"
          /\ toServer' = Append(toServer, command)
      BY <1>6 DEF SendTo, MainFrame, versionVars, threadVars, serverVars
    <2>2. UnpackInv' /\ AnnouncedInv' /\ JobInv'
      BY <2>1, SameHeld DEF FollowInv, JobInv
    <2>3. ASSUME ~late, NEW i \in 1..Len(toServer')
          PROVE  Awaited(toServer'[i]) =>
                    /\ toServer'[i].kind = "set" <=> job = "set"
                    /\ job = "confirm" => toServer'[i].kind = "query"
      <3>1. toServer \in Seq(Commands)
        BY DEF ChannelInv, TypeOK, NetTypes
      <3>2. \/ i \in 1..Len(toServer) /\ toServer'[i] = toServer[i]
            \/ toServer'[i] = command
        BY <2>1, <3>1
      <3> QED
        BY <2>1, <2>3, <3>2 DEF FollowInv, JobInv, ChangeInv
    <2>4. ASSUME ~late, Settled' PROVE Settled
      BY <2>1, <2>4 DEF Settled, ChannelInv, AnswerInv
    <2>5. ChangeInv'
      BY <2>1, <2>3, <2>4, SameHeld DEF ChangeInv, FollowInv
    <2> QED
      BY <2>2, <2>5 DEF FollowInv
  <1>7. CASE ReturnToKeys \/ ReturnSetFailed
    <2>1. /\ UNCHANGED <<version, pc, msg, use, in, serverVer, unicast, connect, lost>>
          /\ UNCHANGED toServer /\ Return /\ mainPc' = "keys" /\ job' = "none"
          /\ job = "set" => response # 0
      BY <1>7 DEF ReturnToKeys, ReturnSetFailed, BackToKeys, MainFrame, versionVars, threadVars,
         serverVars
    <2>2. UnpackInv' /\ AnnouncedInv' /\ JobInv'
      BY <2>1, SameHeld DEF FollowInv, JobInv
    <2>3. ASSUME ~late' PROVE Current
      <3>1. ~late /\ response # NoResponse
        BY <2>1, <2>3, AtReturn
      <3>2. job = "set" => response = 1
        BY <2>1, <3>1 DEF ChannelInv, TypeOK, MainTypes
      <3> QED
        BY <3>1, <3>2 DEF FollowInv, ChangeInv, Settled
    <2>4. ChangeInv'
      BY <2>1, <2>3, SameHeld, AtReturn DEF ChangeInv
    <2> QED
      BY <2>2, <2>4 DEF FollowInv
  <1>8. CASE ReturnSetDone
    <2>1. /\ UNCHANGED <<version, pc, msg, use, in, serverVer, unicast, connect, lost>>
          /\ UNCHANGED toServer /\ Return /\ mainPc' = "send" /\ job' = "confirm"
          /\ command'.kind = "query" /\ response' = NoResponse
      BY <1>8 DEF ReturnSetDone, StartCommand, Command, MainFrame, versionVars, threadVars,
         serverVars
    <2>2. UnpackInv' /\ AnnouncedInv' /\ JobInv'
      BY <2>1, SameHeld DEF FollowInv, JobInv
    <2>3. ASSUME ~late' PROVE TellsFromAnswerOn(in["cmd"], serverVer)
      BY <2>1, <2>3, AtReturn DEF NoAnswer, TellsFromAnswerOn
    <2>4. ~Settled'
      BY <2>1 DEF Settled
    <2>5. ChangeInv'
      BY <2>1, <2>3, <2>4, SameHeld, AtReturn DEF ChangeInv, Awaited
    <2> QED
      BY <2>2, <2>5 DEF FollowInv
  <1> QED
    BY <1>1, <1>2, <1>3, <1>4, <1>5, <1>6, <1>7, <1>8 DEF Main

-----------------------------------------------------------------------------
(* Steps of the listeners                                                   *)

\* What is taken off a socket is the first there.
LEMMA TakesHead ==
    ASSUME TypeOK, NEW t \in Threads, NEW kind, Take(t, kind)
    PROVE  /\ in[t] \in Seq(Datagrams) /\ in[t] # <<>> /\ in'[t] = Tail(in[t])
           /\ Head(in[t]) \in Datagrams /\ Head(in[t]).kind = kind
           /\ \A u \in Threads : u # t => in'[u] = in[u]
           /\ pc[t] = "recv"
  BY Taken DEF Take, At, TypeOK, NetTypes

\* What a step of the command listener leaves alone.
CmdFrame ==
    /\ UNCHANGED <<mainPc, command, job, toServer, late, serverVer, connect, lost, unicast>>
    /\ in'["data"] = in["data"] /\ pc'["data"] = pc["data"]
    /\ \/ in'["cmd"] = in["cmd"]
       \/ in["cmd"] \in Seq(Datagrams) /\ in["cmd"] # <<>> /\ in'["cmd"] = Tail(in["cmd"])

\* A step of the command listener leaves the jobs alone; what is left to show is that
\* what it holds is current.
LEMMA CmdChange ==
    ASSUME FollowInv, CmdFrame, ~late /\ Settled' => Current'
    PROVE  JobInv' /\ ChangeInv'
  <1>1. JobInv'
    BY DEF CmdFrame, FollowInv, JobInv
  <1>2. TellsFromAnswerOn(in["cmd"], serverVer) => TellsFromAnswerOn(in["cmd"], serverVer)'
    BY TailKeeps DEF CmdFrame, TellsFromAnswerOn
  <1>3. ChangeInv'
    BY <1>2 DEF CmdFrame, FollowInv, ChangeInv
  <1> QED
    BY <1>1, <1>3

\* No step of a listener but one that stores an answer settles anything.
LEMMA WasSettled ==
    ASSUME CmdFrame, Settled'
    PROVE  \/ Settled
           \/ job = "set" /\ response' = 1 /\ response # 1
           \/ job = "confirm" /\ response' # response
  <1>1. HasRefusal(in["cmd"])' => HasRefusal(in["cmd"])
    BY TailKeeps DEF CmdFrame, HasRefusal
  <1>2. HasSet(toServer)' = HasSet(toServer)
    BY DEF CmdFrame, HasSet
  <1> QED
    BY <1>1, <1>2 DEF CmdFrame, Settled

\* Where the command listener goes.
LEMMA CmdGoes ==
    ASSUME TypeOK, NEW position
    PROVE  /\ Goto("cmd", position) => pc'["cmd"] = position /\ pc'["data"] = pc["data"]
           /\ Done("cmd") =>
                 /\ pc'["cmd"] = "recv" /\ pc'["data"] = pc["data"]
                 /\ msg'["cmd"].kind = "none"
  BY DEF TypeOK, ThreadTypes, Goto, Done, Threads, Nothing, Datagram

\* Announcements and answers: the string that confirms a change makes everything current.
LEMMA AnswersFollow == ChannelInv /\ FollowInv /\ Answers => FollowInv'
  <1> SUFFICES ASSUME ChannelInv, FollowInv, Answers PROVE FollowInv'
    OBVIOUS
  <1>0. TypeOK /\ VersionInv /\ "cmd" \in Threads /\ "data" \in Threads
        /\ UnpackInv /\ AnnouncedInv /\ ChangeInv
    BY Constants DEF ChannelInv, FollowInv
  <1> DEFINE head == Head(in["cmd"])
  <1>1. CASE ServerInfo
    <2>1. Take("cmd", "SERVERINFO") /\ msg'["cmd"] = head /\ UNCHANGED response
      BY <1>0, <1>1 DEF ServerInfo, TypeOK, ThreadTypes, responseVars
    <2>2. /\ in["cmd"] \in Seq(Datagrams) /\ in["cmd"] # <<>> /\ in'["cmd"] = Tail(in["cmd"])
          /\ head.kind = "SERVERINFO" /\ in'["data"] = in["data"] /\ pc["cmd"] = "recv"
          /\ head.ver \in Versions
      BY <1>0, <2>1, TakesHead, TakenVersions
    <2>3. \/ /\ version = NoVersion /\ version' = <<head.ver[1], version[2]>>
             /\ Goto("cmd", "infoMinor")
          \/ version # NoVersion /\ version' = version /\ Goto("cmd", "infoCan")
      BY <1>1, <2>1 DEF ServerInfo
    <2>4. /\ pc'["data"] = pc["data"]
          /\ \/ version'[1] = head.ver[1] /\ version' # NoVersion /\ pc'["cmd"] = "infoMinor"
             \/ version # NoVersion /\ version' = version /\ pc'["cmd"] = "infoCan"
      BY <1>0, <2>2, <2>3, CmdGoes, Constants
    <2>5. CmdFrame
      BY <1>1, <2>2, <2>4 DEF ServerInfo, ListenFrame, CmdFrame, mainVars, serverVars
    <2>6. UnpackInv'
      BY <1>0, <2>1, <2>2, <2>4, <2>5 DEF UnpackInv, CmdFrame
    <2>7. AnnouncedInv'
      BY <1>0, <2>4 DEF AnnouncedInv
    <2>8. ASSUME ~late, Settled' PROVE Current'
      <3>1. Current
        BY <1>0, <2>1, <2>5, <2>8, WasSettled DEF ChangeInv
      <3>2. AllTell(Tail(in["cmd"]), serverVer) /\ head.ver = serverVer
        BY <2>2, <3>1, TailKeeps DEF Current, Tells, Telling
      <3> QED
        BY <2>1, <2>2, <2>4, <2>5, <3>1, <3>2 DEF Current, CmdFrame, AllTell, Tells
    <2> QED
      BY <2>5, <2>6, <2>7, <2>8, CmdChange DEF FollowInv
  <1>2. CASE ServerInfoMinor
    <2>1. /\ pc["cmd"] = "infoMinor" /\ Goto("cmd", "infoCan")
          /\ UNCHANGED <<msg, in, use, response>> /\ version' = <<version[1], msg["cmd"].ver[2]>>
      BY <1>2 DEF ServerInfoMinor, At, responseVars
    <2>2. pc'["cmd"] = "infoCan" /\ pc'["data"] = pc["data"] /\ version'[1] = version[1]
          /\ version[1] # 0 /\ version' # NoVersion /\ msg["cmd"].kind = "SERVERINFO"
      BY <1>0, <2>1, CmdGoes, Constants DEF VersionInv, UnpackInv
    <2>3. CmdFrame
      BY <1>2, <2>1, <2>2 DEF ServerInfoMinor, ListenFrame, CmdFrame, mainVars, serverVars
    <2>4. UnpackInv'
      BY <1>0, <2>1, <2>2, <2>3 DEF UnpackInv, CmdFrame
    <2>5. AnnouncedInv'
      BY <2>2 DEF AnnouncedInv
    <2>6. ASSUME ~late, Settled' PROVE Current'
      <3>1. Current
        BY <1>0, <2>1, <2>3, <2>6, WasSettled DEF ChangeInv
      <3>2. msg["cmd"].ver = serverVer /\ version[1] = serverVer[1]
        BY <2>1, <2>2, <3>1 DEF Current, Tells, Telling
      <3>3. version' = serverVer
        BY <1>0, <2>1, <3>2, Constants DEF TypeOK, NetTypes
      <3> QED
        BY <2>1, <2>2, <2>3, <3>1, <3>3 DEF Current, CmdFrame, AllTell, Tells
    <2> QED
      BY <2>3, <2>4, <2>5, <2>6, CmdChange DEF FollowInv
  <1>3. CASE ServerInfoCanChange
    <2>1. /\ pc["cmd"] = "infoCan" /\ Done("cmd") /\ UNCHANGED <<version, in, response>>
      BY <1>3 DEF ServerInfoCanChange, At, responseVars
    <2>2. pc'["cmd"] = "recv" /\ pc'["data"] = pc["data"] /\ msg'["cmd"].kind = "none"
      BY <1>0, <2>1, CmdGoes
    <2>3. CmdFrame
      BY <1>3, <2>1, <2>2 DEF ServerInfoCanChange, ListenFrame, CmdFrame, mainVars, serverVars
    <2>4. UnpackInv'
      BY <1>0, <2>1, <2>2, <2>3 DEF UnpackInv, CmdFrame
    <2>5. AnnouncedInv'
      BY <1>0, <2>1, <2>3 DEF AnnouncedInv, CmdFrame
    <2>6. ASSUME ~late, Settled' PROVE Current'
      <3>1. Current
        BY <1>0, <2>1, <2>3, <2>6, WasSettled DEF ChangeInv
      <3> QED
        BY <2>1, <2>2, <2>3, <3>1 DEF Current, CmdFrame, AllTell, Tells, Telling
    <2> QED
      BY <2>3, <2>4, <2>5, <2>6, CmdChange DEF FollowInv
  <1>4. CASE ResponseNumber \/ Unrecognized
    <2>1. PICK kind \in {"NUMBER", "UNRECOGNIZED"} :
             /\ Take("cmd", kind) /\ UNCHANGED <<pc, msg, use>>
             /\ response' = 1 => Refusal(head)
      <3>1. CASE ResponseNumber
        BY <1>0, <3>1, TakesHead DEF ResponseNumber, threadVars, Refusal
      <3>2. CASE Unrecognized
        BY <1>0, <3>2, TakesHead DEF Unrecognized, threadVars, Refusal
      <3> QED
        BY <1>4, <3>1, <3>2
    <2>2. /\ in["cmd"] \in Seq(Datagrams) /\ in["cmd"] # <<>> /\ in'["cmd"] = Tail(in["cmd"])
          /\ head.kind = kind /\ in'["data"] = in["data"] /\ pc["cmd"] = "recv"
      BY <1>0, <2>1, TakesHead
    <2>3. UNCHANGED version
      <3>1. version = <<version[1], version[2]>> /\ (text # 0 => version[1] = text)
        BY <1>0 DEF TypeOK, VersionTypes, VersionInv
      <3> QED
        BY <1>4, <3>1 DEF ResponseNumber, Unrecognized, versionVars
    <2>4. CmdFrame
      BY <1>4, <2>1, <2>2 DEF ResponseNumber, Unrecognized, ListenFrame, CmdFrame, mainVars,
         serverVars
    <2>5. UnpackInv'
      BY <1>0, <2>1, <2>2, <2>3, <2>4 DEF UnpackInv, CmdFrame
    <2>6. AnnouncedInv'
      BY <1>0, <2>1, <2>2, <2>3, <2>4, TailKeeps DEF AnnouncedInv, CmdFrame
    <2>7. ASSUME ~late, Settled' PROVE Current'
      <3>1. Current
        <4>1. job # "confirm"
          BY <1>0, <2>1, <2>2, <2>7, TailKeeps DEF ChangeInv, IsAnswer
        <4>2. response' = 1 => HasRefusal(in["cmd"])
          BY <2>1, <2>2, TailKeeps
        <4> QED
          BY <1>0, <2>4, <2>7, <4>1, <4>2, WasSettled DEF ChangeInv, Settled
      <3>2. AllTell(Tail(in["cmd"]), serverVer)
        BY <2>2, <3>1, TailKeeps DEF Current
      <3> QED
        BY <2>1, <2>2, <2>3, <2>4, <3>1, <3>2 DEF Current, CmdFrame, AllTell, Tells
    <2> QED
      BY <2>4, <2>5, <2>6, <2>7, CmdChange DEF FollowInv
  <1>5. CASE ResponseString
    <2>1. /\ Take("cmd", "STRING") /\ msg'["cmd"] = head /\ response' = 0
          /\ version' = <<head.ver[1], version[2]>> /\ Goto("cmd", "tokenMinor")
      BY <1>0, <1>5 DEF ResponseString, TypeOK, ThreadTypes
    <2>2. /\ in["cmd"] \in Seq(Datagrams) /\ in["cmd"] # <<>> /\ in'["cmd"] = Tail(in["cmd"])
          /\ head.kind = "STRING" /\ in'["data"] = in["data"] /\ pc["cmd"] = "recv"
          /\ head.ver \in Versions
      BY <1>0, <2>1, TakesHead, TakenVersions
    <2>3. /\ pc'["data"] = pc["data"] /\ pc'["cmd"] = "tokenMinor"
          /\ version'[1] = head.ver[1] /\ version' # NoVersion
      BY <1>0, <2>1, <2>2, CmdGoes, Constants
    <2>4. CmdFrame
      BY <1>5, <2>2, <2>3 DEF ResponseString, ListenFrame, CmdFrame, mainVars, serverVars
    <2>5. UnpackInv'
      BY <1>0, <2>1, <2>2, <2>3, <2>4 DEF UnpackInv, CmdFrame
    <2>6. AnnouncedInv'
      BY <2>3 DEF AnnouncedInv
    <2>7. ASSUME ~late, Settled' PROVE Current'
      <3>1. AllTell(in["cmd"], serverVer)
        <4>1. CASE job = "confirm"
          BY <1>0, <2>2, <2>7, <4>1, TailKeeps DEF ChangeInv, IsAnswer
        <4>2. CASE job # "confirm"
          BY <1>0, <2>1, <2>4, <2>7, <4>2, WasSettled DEF ChangeInv, Current
        <4> QED
          BY <4>1, <4>2
      <3>2. AllTell(Tail(in["cmd"]), serverVer) /\ head.ver = serverVer
        BY <2>2, <3>1, TailKeeps DEF Tells, Telling
      <3> QED
        BY <2>1, <2>2, <2>3, <2>4, <3>2 DEF Current, CmdFrame, AllTell, Tells
    <2> QED
      BY <2>4, <2>5, <2>6, <2>7, CmdChange DEF FollowInv
  <1>6. CASE ResponseStringMinor
    <2>1. /\ pc["cmd"] = "tokenMinor" /\ Done("cmd") /\ UNCHANGED <<in, response>>
          /\ version' = <<version[1], msg["cmd"].ver[2]>>
      BY <1>6 DEF ResponseStringMinor, At, responseVars
    <2>2. /\ pc'["cmd"] = "recv" /\ pc'["data"] = pc["data"] /\ msg'["cmd"].kind = "none"
          /\ version[1] # 0 /\ version' # NoVersion /\ msg["cmd"].kind = "STRING"
      BY <1>0, <2>1, CmdGoes, Constants DEF VersionInv, UnpackInv
    <2>3. CmdFrame
      BY <1>6, <2>1, <2>2 DEF ResponseStringMinor, ListenFrame, CmdFrame, mainVars, serverVars
    <2>4. UnpackInv'
      BY <1>0, <2>1, <2>2, <2>3 DEF UnpackInv, CmdFrame
    <2>5. AnnouncedInv'
      BY <2>2 DEF AnnouncedInv
    <2>6. ASSUME ~late, Settled' PROVE Current'
      <3>1. Current
        BY <1>0, <2>1, <2>3, <2>6, WasSettled DEF ChangeInv
      <3>2. msg["cmd"].ver = serverVer /\ version[1] = serverVer[1]
        BY <2>1, <2>2, <3>1 DEF Current, Tells, Telling
      <3>3. version' = serverVer
        BY <1>0, <2>1, <3>2, Constants DEF TypeOK, NetTypes
      <3> QED
        BY <2>1, <2>2, <2>3, <3>1, <3>3 DEF Current, CmdFrame, AllTell, Tells, Telling
    <2> QED
      BY <2>3, <2>4, <2>5, <2>6, CmdChange DEF FollowInv
  <1> QED
    BY <1>1, <1>2, <1>3, <1>4, <1>5, <1>6 DEF Answers

\* The data listener has something to do in a multicast session only, and then
\* nothing that the command listener knows changes.
LEMMA DataSide ==
    ASSUME FollowInv, ~unicast,
           UNCHANGED <<mainPc, command, job, toServer, late, serverVer, connect, lost, unicast,
                       version, response>>,
           in'["cmd"] = in["cmd"], pc'["cmd"] = pc["cmd"], msg'["cmd"] = msg["cmd"],
           use'["cmd"] = use["cmd"]
    PROVE  FollowInv'
  <1>1. JobInv' /\ UnpackInv' /\ AnnouncedInv'
    BY DEF FollowInv, JobInv, UnpackInv, AnnouncedInv
  <1>2. Settled' = Settled /\ Current' = Current
    BY DEF Settled, Current
  <1>3. ChangeInv'
    BY <1>2 DEF FollowInv, ChangeInv
  <1> QED
    BY <1>1, <1>3 DEF FollowInv

\* The steps of the data listener.
LEMMA DataFollows ==
    ChannelInv /\ FollowInv /\ (Unpack("data") \/ DataTooLong) => FollowInv'
  <1> SUFFICES ASSUME ChannelInv, FollowInv, Unpack("data") \/ DataTooLong PROVE FollowInv'
    OBVIOUS
  <1>0. TypeOK /\ "cmd" \in Threads /\ "data" \in Threads
    BY Constants DEF ChannelInv
  <1>1. CASE Unpack("data")
    <2>1. UNCHANGED <<mainPc, command, job, toServer, late, serverVer, connect, lost, unicast,
                      version, response>>
      BY <1>1 DEF Unpack, UnpackMajor, UnpackMinor, UnpackParams, UnpackTest, UnpackSuffix,
         UnpackFrame, ListenFrame, mainVars, responseVars, versionVars, serverVars
    <2>2. in["data"] # <<>> \/ pc["data"] # "recv"
      BY <1>1 DEF Unpack, UnpackMajor, UnpackMinor, UnpackParams, UnpackTest, UnpackSuffix,
         Take, At
    <2>3. ~unicast
      BY <2>2 DEF FollowInv, UnpackInv
    <2>4. in'["cmd"] = in["cmd"]
      BY <1>0, <1>1 DEF Unpack, UnpackMajor, UnpackMinor, UnpackParams, UnpackTest,
         UnpackSuffix, Take, TypeOK, NetTypes
    <2>5. pc'["cmd"] = pc["cmd"] /\ msg'["cmd"] = msg["cmd"] /\ use'["cmd"] = use["cmd"]
      BY <1>0, <1>1 DEF Unpack, UnpackMajor, UnpackMinor, UnpackParams, UnpackTest,
         UnpackSuffix, Done, Goto, TypeOK, ThreadTypes
    <2> QED
      BY <2>1, <2>3, <2>4, <2>5, DataSide
  <1>2. CASE DataTooLong
    <2>1. TooLong
      BY <1>2 DEF DataTooLong
    <2>2. UNCHANGED <<mainPc, command, job, toServer, late, serverVer, connect, lost, unicast,
                      version, response, pc, msg, use>>
      BY <2>1 DEF TooLong, mainVars, responseVars, versionVars, threadVars, serverVars
    <2>3. Take("data", "FRAMEOFDATA")
      BY <2>1 DEF TooLong
    <2>4. ~unicast /\ in'["cmd"] = in["cmd"]
      BY <1>0, <2>3, TakesHead DEF FollowInv, UnpackInv, Threads
    <2> QED
      BY <2>2, <2>4, DataSide
  <1> QED
    BY <1>1, <1>2

\* The command listener unpacks with the version it stored itself.
LEMMA UnpackFollows == ChannelInv /\ FollowInv /\ Unpack("cmd") => FollowInv'
  <1> SUFFICES ASSUME ChannelInv, FollowInv, Unpack("cmd") PROVE FollowInv'
    OBVIOUS
  <1>0. TypeOK /\ "cmd" \in Threads /\ "data" \in Threads
        /\ UnpackInv /\ AnnouncedInv /\ ChangeInv
    BY Constants DEF ChannelInv, FollowInv
  <1>1. UNCHANGED <<mainPc, command, job, toServer, late, serverVer, connect, lost, unicast,
                    version, response>>
    BY DEF Unpack, UnpackMajor, UnpackMinor, UnpackParams, UnpackTest, UnpackSuffix, UnpackFrame,
       ListenFrame, mainVars, responseVars, versionVars, serverVars
  <1>2. /\ pc["cmd"] \in {"recv", "minor", "params", "test", "suffix"}
        /\ pc'["cmd"] \in {"recv", "minor", "params", "test", "suffix"}
        /\ pc'["data"] = pc["data"]
    BY <1>0, CmdGoes DEF Unpack, UnpackMajor, UnpackMinor, UnpackParams, UnpackTest, UnpackSuffix,
       Take, At
  \* Something is taken, or the packet in hand is gone on with, or it is done with.
  <1>3. /\ \/ UnpackMajor("cmd")
           \/ /\ in' = in /\ msg' = msg
              /\ pc'["cmd"] \in {"params", "test", "suffix"} /\ msg["cmd"].kind = "FRAMEOFDATA"
              /\ use'["cmd"] = version
           \/ in' = in /\ pc'["cmd"] = "recv" /\ msg'["cmd"].kind = "none"
    <2>1. CASE UnpackMinor("cmd") /\ msg["cmd"].kind = "FRAMEOFDATA"
      <3>1. version = <<version[1], version[2]>>
        BY <1>0 DEF TypeOK, VersionTypes
      <3>2. pc["cmd"] = "minor" /\ use' = [use EXCEPT !["cmd"] = <<use["cmd"][1], version[2]>>]
            /\ Goto("cmd", "params") /\ msg' = msg /\ in' = in
        BY <2>1 DEF UnpackMinor, At
      <3>3. use'["cmd"] = version
        BY <1>0, <3>1, <3>2 DEF UnpackInv, TypeOK, ThreadTypes
      <3> QED
        BY <1>0, <2>1, <3>2, <3>3, CmdGoes
    <2>2. CASE UnpackMinor("cmd") /\ msg["cmd"].kind # "FRAMEOFDATA"
      BY <1>0, <2>2, CmdGoes DEF UnpackMinor
    <2>3. CASE UnpackParams("cmd")
      BY <1>0, <2>3, CmdGoes DEF UnpackParams, At, UnpackInv
    <2>4. CASE UnpackTest("cmd")
      BY <1>0, <2>4, CmdGoes DEF UnpackTest, At, UnpackInv
    <2>5. CASE UnpackSuffix("cmd")
      BY <1>0, <2>5, CmdGoes DEF UnpackSuffix
    <2> QED
      BY <2>1, <2>2, <2>3, <2>4, <2>5 DEF Unpack
  <1>4. CASE UnpackMajor("cmd")
    <2>1. PICK kind \in {"FRAMEOFDATA", "MODELDEF"} : Take("cmd", kind)
      BY <1>4 DEF UnpackMajor
    <2>2. /\ in["cmd"] \in Seq(Datagrams) /\ in["cmd"] # <<>> /\ in'["cmd"] = Tail(in["cmd"])
          /\ Head(in["cmd"]).kind = kind /\ in'["data"] = in["data"] /\ Head(in["cmd"]) \in Datagrams
      BY <1>0, <2>1, TakesHead
    <2>3. /\ pc'["cmd"] = "minor" /\ use'["cmd"][1] = version[1]
          /\ msg'["cmd"].kind = Head(in["cmd"]).kind /\ msg'["cmd"].ver = Head(in["cmd"]).ver
      <3>1. /\ msg' = [msg EXCEPT !["cmd"] = [Head(in["cmd"]) EXCEPT !.len = 0]]
            /\ use' = [use EXCEPT !["cmd"] = <<version[1], 0>>] /\ Goto("cmd", "minor")
        BY <1>4 DEF UnpackMajor
      <3>2. msg'["cmd"] = [Head(in["cmd"]) EXCEPT !.len = 0] /\ use'["cmd"] = <<version[1], 0>>
        BY <1>0, <3>1 DEF TypeOK, ThreadTypes
      <3> QED
        BY <1>0, <2>2, <3>1, <3>2, CmdGoes DEF Datagrams
    <2>4. CmdFrame
      BY <1>1, <1>2, <2>2 DEF CmdFrame
    <2>5. UnpackInv'
      BY <1>0, <1>1, <2>2, <2>3, <2>4 DEF UnpackInv, CmdFrame
    <2>6. AnnouncedInv'
      BY <1>0, <1>1, <2>2, TailKeeps DEF AnnouncedInv
    <2>7. ASSUME ~late, Settled' PROVE Current'
      <3>1. Current
        BY <1>0, <1>1, <2>4, <2>7, WasSettled DEF ChangeInv
      <3>2. AllTell(Tail(in["cmd"]), serverVer) /\ Tells(Head(in["cmd"]), serverVer)
        BY <2>2, <3>1, TailKeeps DEF Current
      <3> QED
        BY <1>1, <1>2, <2>2, <2>3, <3>1, <3>2 DEF Current, AllTell, Tells
    <2> QED
      BY <2>4, <2>5, <2>6, <2>7, CmdChange DEF FollowInv
  <1>5. CASE ~UnpackMajor("cmd")
    <2>1. CmdFrame
      BY <1>1, <1>2, <1>3, <1>5 DEF CmdFrame
    <2>2. UnpackInv'
      BY <1>0, <1>1, <1>2, <1>3, <1>5 DEF UnpackInv
    <2>3. AnnouncedInv'
      BY <1>0, <1>1, <1>3, <1>5 DEF AnnouncedInv
    <2>4. ASSUME ~late, Settled' PROVE Current'
      <3>1. Current
        BY <1>0, <1>1, <2>1, <2>4, WasSettled DEF ChangeInv
      <3> QED
        BY <1>1, <1>2, <1>3, <1>5, <3>1 DEF Current, AllTell, Tells, Telling
    <2> QED
      BY <2>1, <2>2, <2>3, <2>4, CmdChange DEF FollowInv
  <1> QED
    BY <1>4, <1>5

-----------------------------------------------------------------------------
(* Steps of the server and of the network                                   *)

\* What the server sends on its own tells its version and answers nothing.
LEMMA SentFollows ==
    ASSUME ChannelInv, FollowInv, NEW m \in Datagrams, Deliver("cmd", m), Tells(m, serverVer),
           ~IsAnswer(m), UNCHANGED <<ClientVars, toServer, lost, serverVer>>,
           connect' = connect \/ m.kind = "SERVERINFO"
    PROVE  FollowInv'
  <1>1. /\ in["cmd"] \in Seq(Datagrams) /\ in'["cmd"] = Append(in["cmd"], m)
        /\ in'["data"] = in["data"]
    BY Constants DEF Deliver, ChannelInv, TypeOK, NetTypes, Threads
  <1>2. UNCHANGED <<mainPc, command, job, unicast, response, version, pc, msg, use, late>>
    BY DEF ClientVars, mainVars, responseVars, versionVars, threadVars
  <1>3. JobInv' /\ UnpackInv'
    BY <1>1, <1>2 DEF FollowInv, JobInv, UnpackInv
  <1>4. AnnouncedInv'
    BY <1>1, <1>2, AppendKeeps DEF FollowInv, AnnouncedInv
  <1>5. Settled' => Settled
    BY <1>1, <1>2, AppendKeeps DEF Settled, HasSet, Refusal, IsAnswer
  <1>6. Current => Current'
    BY <1>1, <1>2, AppendKeeps DEF Current, Tells
  <1>7. TellsFromAnswerOn(in["cmd"], serverVer) => TellsFromAnswerOn(in["cmd"], serverVer)'
    <2>1. TellsFromAnswerOn(in["cmd"], serverVer)
             => TellsFromAnswerOn(Append(in["cmd"], m), serverVer)
      BY <1>1, AppendKeeps
    <2> QED
      BY <1>1, <2>1 DEF TellsFromAnswerOn
  <1>8. ChangeInv'
    BY <1>2, <1>5, <1>6, <1>7 DEF FollowInv, ChangeInv
  <1> QED
    BY <1>3, <1>4, <1>8 DEF FollowInv

\* What the server sends for a command tells its version, and only one that accepts a
\* change changes that.
LEMMA ServerSends ==
    ASSUME ChannelInv, ServerAnswers, NEW c, c = Head(toServer)
    PROVE  /\ toServer # <<>> /\ toServer' = Tail(toServer)
           /\ c \in Commands /\ c = toServer[1] /\ 1 \in 1..Len(toServer)
           /\ \A i \in 1..Len(toServer') :
                 /\ i + 1 \in 1..Len(toServer) /\ i + 1 # 1
                 /\ toServer'[i] = toServer[i + 1]
           /\ \E m \in Datagrams :
                 /\ in["cmd"] \in Seq(Datagrams) /\ in'["cmd"] = Append(in["cmd"], m)
                 /\ in'["data"] = in["data"] /\ Tells(m, serverVer)
                 /\ IsAnswer(m) => Awaited(c)
                 /\ c.kind = "query" /\ IsAnswer(m) => m.kind = "STRING"
                 /\ \/ serverVer' = serverVer
                    \/ c.kind = "set" /\ ~Refusal(m)
  <1>1. /\ toServer # <<>> /\ c \in Commands /\ toServer' = Tail(toServer)
        /\ c = toServer[1] /\ 1 \in 1..Len(toServer) /\ in["cmd"] \in Seq(Datagrams)
        /\ \A i \in 1..Len(toServer') :
              /\ i + 1 \in 1..Len(toServer) /\ i + 1 # 1
              /\ toServer'[i] = toServer[i + 1]
    BY Constants DEF ServerAnswers, ChannelInv, TypeOK, NetTypes
  <1>2. c.id \in 0..MaxCommands /\ serverVer \in Known
    BY <1>1, Constants, CommandShape DEF ChannelInv, TypeOK, NetTypes
  <1>3. PICK m \in Datagrams :
           /\ Deliver("cmd", m) /\ Tells(m, serverVer)
           /\ IsAnswer(m) => Awaited(c)
           /\ c.kind = "query" /\ IsAnswer(m) => m.kind = "STRING"
           /\ \/ serverVer' = serverVer
              \/ c.kind = "set" /\ ~Refusal(m)
    <2>1. /\ Answer("NUMBER", c.id, 0, NoVersion) \in Datagrams
          /\ Answer("NUMBER", c.id, 1, NoVersion) \in Datagrams
          /\ Answer("UNRECOGNIZED", c.id, 0, NoVersion) \in Datagrams
          /\ Answer("STRING", c.id, 0, serverVer) \in Datagrams
          /\ Answer("MODELDEF", 0, 0, serverVer) \in Datagrams
      BY <1>2, Constants, Shapes
    <2>2. /\ \A value \in {0, 1} : /\ Answer("NUMBER", c.id, value, NoVersion).kind = "NUMBER"
                                   /\ Answer("NUMBER", c.id, value, NoVersion).value = value
          /\ Answer("UNRECOGNIZED", c.id, 0, NoVersion).kind = "UNRECOGNIZED"
          /\ Answer("STRING", c.id, 0, serverVer).kind = "STRING"
          /\ Answer("STRING", c.id, 0, serverVer).ver = serverVer
          /\ Answer("MODELDEF", 0, 0, serverVer).kind = "MODELDEF"
      BY DEF Answer, Datagram
    <2>3. CASE c.kind \in {"plain", "set"} /\ ServerRefuses(c.id) /\ UNCHANGED serverVer
      BY <2>1, <2>2, <2>3 DEF ServerRefuses, IsAnswer, Awaited, Tells, Telling
    <2>4. CASE /\ c.kind = "plain" /\ Deliver("cmd", Answer("NUMBER", c.id, 0, NoVersion))
               /\ UNCHANGED serverVer
      BY <2>1, <2>2, <2>4 DEF IsAnswer, Awaited, Tells, Telling
    <2>5. CASE c.kind = "set" /\ Deliver("cmd", Answer("NUMBER", c.id, 0, NoVersion))
      BY <2>1, <2>2, <2>5 DEF IsAnswer, Awaited, Tells, Telling, Refusal
    <2>6. CASE /\ c.kind = "query" /\ Deliver("cmd", Answer("STRING", c.id, 0, serverVer))
               /\ UNCHANGED serverVer
      BY <2>1, <2>2, <2>6 DEF IsAnswer, Awaited, Tells, Telling
    <2>7. CASE /\ c.kind = "modeldef" /\ Deliver("cmd", Answer("MODELDEF", 0, 0, serverVer))
               /\ UNCHANGED serverVer
      BY <2>1, <2>2, <2>7 DEF IsAnswer, Awaited, Tells, Telling
    <2> QED
      BY <2>3, <2>4, <2>5, <2>6, <2>7 DEF ServerAnswers
  <1>4. in'["cmd"] = Append(in["cmd"], m) /\ in'["data"] = in["data"]
    BY <1>3, Constants DEF Deliver, ChannelInv, TypeOK, NetTypes, Threads
  <1> QED
    BY <1>1, <1>3, <1>4

\* An answer of the server; only one that accepts a change makes old packets of what is sent.
LEMMA AnswerFollows == ChannelInv /\ FollowInv /\ ServerAnswers => FollowInv'
  <1> SUFFICES ASSUME ChannelInv, FollowInv, ServerAnswers PROVE FollowInv'
    OBVIOUS
  <1> DEFINE c == Head(toServer)
  <1>1. /\ toServer # <<>> /\ toServer' = Tail(toServer)
        /\ c \in Commands /\ c = toServer[1] /\ 1 \in 1..Len(toServer)
        /\ \A i \in 1..Len(toServer') :
              i + 1 \in 1..Len(toServer) /\ i + 1 # 1 /\ toServer'[i] = toServer[i + 1]
    BY ServerSends
  <1>2. UNCHANGED <<mainPc, command, job, unicast, response, version, pc, msg, use, late,
                    connect, lost>>
    BY DEF ServerAnswers, ClientVars, mainVars, responseVars, versionVars, threadVars
  <1>4. PICK m \in Datagrams :
           /\ in["cmd"] \in Seq(Datagrams) /\ in'["cmd"] = Append(in["cmd"], m)
           /\ in'["data"] = in["data"] /\ Tells(m, serverVer)
           /\ IsAnswer(m) => Awaited(c)
           /\ c.kind = "query" /\ IsAnswer(m) => m.kind = "STRING"
           /\ \/ serverVer' = serverVer
              \/ c.kind = "set" /\ ~Refusal(m)
    BY ServerSends
  <1>6. JobInv' /\ UnpackInv'
    BY <1>2, <1>4 DEF FollowInv, JobInv, UnpackInv
  <1>7. AnnouncedInv'
    BY <1>1, <1>2, <1>4, AppendKeeps DEF FollowInv, AnnouncedInv
  <1>8. ASSUME ~late PROVE ChangeInv'
    <2>1. /\ \A i \in 1..Len(toServer) : Awaited(toServer[i]) =>
                /\ toServer[i].kind = "set" <=> job = "set"
                /\ job = "confirm" => toServer[i].kind = "query"
          /\ Settled => Current
          /\ job = "confirm" => TellsFromAnswerOn(in["cmd"], serverVer)
      BY <1>8 DEF FollowInv, ChangeInv
    <2>2. \A i \in 1..Len(toServer') : Awaited(toServer'[i]) =>
             /\ toServer'[i].kind = "set" <=> job = "set"
             /\ job = "confirm" => toServer'[i].kind = "query"
      BY <1>1, <2>1
    <2>3. HasSet(toServer)' => HasSet(toServer)
      BY <1>1 DEF HasSet
    <2>4. CASE serverVer' = serverVer
      <3>1. Settled' => Settled
        <4>1. Refusal(m) /\ job = "set" => HasSet(toServer)
          BY <1>1, <1>4, <2>1 DEF HasSet, Refusal, IsAnswer
        <4> QED
          BY <1>1, <1>2, <1>4, <2>3, <4>1, AppendKeeps DEF Settled
      <3>2. Current => Current'
        BY <1>1, <1>2, <1>4, <2>4, AppendKeeps DEF Current, Tells
      <3>3. job = "confirm" => TellsFromAnswerOn(in["cmd"], serverVer)'
        <4>1. job = "confirm" => (IsAnswer(m) => m.kind = "STRING")
          BY <1>1, <1>4, <2>1
        <4>2. job = "confirm" => TellsFromAnswerOn(Append(in["cmd"], m), serverVer)
          BY <1>1, <1>4, <2>1, <4>1, AppendKeeps
        <4> QED
          BY <1>4, <2>4, <4>2 DEF TellsFromAnswerOn
      <3> QED
        BY <1>2, <2>1, <2>2, <3>1, <3>2, <3>3 DEF ChangeInv
    <2>5. CASE c.kind = "set" /\ ~Refusal(m)
      <3>1. /\ mainPc = "wait" /\ response = NoResponse /\ NoAnswer(in["cmd"]) /\ job = "set"
            /\ \A i \in 1..Len(toServer) : Awaited(toServer[i]) => i = 1
        BY <1>1, <1>8, <2>1, <2>5 DEF ChannelInv, AnswerInv, Awaited, NoAnswer
      <3>2. ~HasSet(toServer)'
        BY <1>1, <3>1 DEF HasSet, Awaited
      <3>3. ~HasRefusal(in["cmd"])'
        <4>1. ~HasRefusal(Append(in["cmd"], m))
          BY <1>4, <2>5, <3>1, AppendKeeps
        <4> QED
          BY <1>4, <4>1 DEF HasRefusal
      <3>4. ~Settled'
        BY <1>2, <3>1, <3>2, <3>3 DEF Settled, NoResponse
      <3> QED
        BY <1>2, <2>2, <3>1, <3>4 DEF ChangeInv
    <2> QED
      BY <1>4, <2>4, <2>5
  <1>9. late => ChangeInv'
    BY <1>2 DEF ChangeInv
  <1> QED
    BY <1>6, <1>7, <1>8, <1>9 DEF FollowInv

\* Connection, frames and losses.
LEMMA NetworkFollows ==
    ChannelInv /\ FollowInv /\ (ServerConnect \/ ServerFrame \/ Lose) => FollowInv'
  <1> SUFFICES ASSUME ChannelInv, FollowInv, ServerConnect \/ ServerFrame \/ Lose
               PROVE  FollowInv'
    OBVIOUS
  <1>0. /\ serverVer \in Known /\ changeDue \in BOOLEAN /\ "cmd" \in Threads /\ "data" \in Threads
        /\ TypeOK /\ UnpackInv /\ AnnouncedInv /\ ChangeInv
    BY Constants DEF ChannelInv, TypeOK, NetTypes, FollowInv
  <1>1. CASE ServerConnect
    <2>1. /\ Info(serverVer) \in Datagrams /\ Info(serverVer).kind = "SERVERINFO"
          /\ Info(serverVer).ver = serverVer
      BY <1>0, Shapes
    <2> QED
      BY <1>1, <2>1, SentFollows DEF ServerConnect, serverVars, IsAnswer, Tells
  <1>2. CASE ServerFrame /\ unicast
    <2>1. /\ Frame(serverVer, changeDue, 0) \in Datagrams
          /\ Frame(serverVer, changeDue, 0).kind = "FRAMEOFDATA"
          /\ Frame(serverVer, changeDue, 0).ver = serverVer
      BY <1>0, Shapes DEF Frame, Datagram
    <2>2. Deliver("cmd", Frame(serverVer, changeDue, 0))
          /\ UNCHANGED <<ClientVars, toServer, lost, serverVer, connect>>
      BY <1>2 DEF ServerFrame
    <2> QED
      BY <2>1, <2>2, SentFollows DEF IsAnswer, Tells
  <1>3. CASE ServerFrame /\ ~unicast
    <2>1. \E m : Deliver("data", m)
      BY <1>3 DEF ServerFrame
    <2>2. in'["cmd"] = in["cmd"]
      BY <1>0, <2>1 DEF Deliver, TypeOK, NetTypes
    <2>3. UNCHANGED <<mainPc, command, job, toServer, late, serverVer, connect, lost, unicast,
                      version, response, pc, msg, use>>
      BY <1>3 DEF ServerFrame, ClientVars, mainVars, responseVars, versionVars, threadVars
    <2> QED
      BY <1>3, <2>2, <2>3, DataSide
  <1>4. CASE Lose
    <2>1. /\ UNCHANGED <<mainPc, command, job, unicast, response, version, pc, msg, use, late,
                         serverVer>>
          /\ lost' = TRUE
          /\ toServer' = toServer \/ (toServer # <<>> /\ toServer' = Tail(toServer))
          /\ \/ in' = in
             \/ \E t \in Threads : in[t] # <<>> /\ in' = [in EXCEPT ![t] = Tail(@)]
      BY <1>4 DEF Lose, ClientVars, mainVars, responseVars, versionVars, threadVars, serverVars
    <2>2. /\ in["cmd"] \in Seq(Datagrams)
          /\ in'["cmd"] = in["cmd"] \/ (in["cmd"] # <<>> /\ in'["cmd"] = Tail(in["cmd"]))
          /\ in["data"] = <<>> => in'["data"] = <<>>
      BY <1>0, <2>1 DEF TypeOK, NetTypes, Threads
    <2>3. JobInv' /\ UnpackInv'
      BY <1>0, <2>1, <2>2 DEF FollowInv, JobInv, UnpackInv
    <2>4. AnnouncedInv'
      BY <2>1 DEF AnnouncedInv
    <2>5. \A i \in 1..Len(toServer') : \E j \in 1..Len(toServer) : toServer'[i] = toServer[j]
      <3>1. CASE toServer' = toServer
        BY <3>1
      <3>2. CASE toServer # <<>> /\ toServer' = Tail(toServer)
        <4>1. \A i \in 1..Len(Tail(toServer)) :
                 i + 1 \in 1..Len(toServer) /\ Tail(toServer)[i] = toServer[i + 1]
          BY <1>0, <3>2 DEF TypeOK, NetTypes
        <4> QED
          BY <3>2, <4>1
      <3> QED
        BY <2>1, <3>1, <3>2
    <2>6. Settled' => Settled
      <3>1. HasSet(toServer)' => HasSet(toServer)
        BY <2>5 DEF HasSet
      <3>2. HasRefusal(in["cmd"])' => HasRefusal(in["cmd"])
        BY <2>2, TailKeeps DEF HasRefusal
      <3> QED
        BY <2>1, <3>1, <3>2 DEF Settled
    <2>7. Current => Current'
      <3>1. AllTell(in["cmd"], serverVer) => AllTell(in["cmd"], serverVer)'
        BY <2>1, <2>2, TailKeeps DEF AllTell
      <3> QED
        BY <2>1, <3>1 DEF Current, Tells
    <2>8. TellsFromAnswerOn(in["cmd"], serverVer) => TellsFromAnswerOn(in["cmd"], serverVer)'
      BY <2>1, <2>2, TailKeeps DEF TellsFromAnswerOn
    <2>9. ChangeInv'
      <3>1. \A i \in 1..Len(toServer') : ~late /\ Awaited(toServer'[i]) =>
               /\ toServer'[i].kind = "set" <=> job = "set"
               /\ job = "confirm" => toServer'[i].kind = "query"
        BY <1>0, <2>5 DEF ChangeInv
      <3> QED
        BY <1>0, <2>1, <2>6, <2>7, <2>8, <3>1 DEF ChangeInv
    <2> QED
      BY <2>3, <2>4, <2>9 DEF FollowInv
  <1> QED
    BY <1>1, <1>2, <1>3, <1>4

\* The invariant is inductive, relative to ChannelInv.
LEMMA FollowStep ==
    ASSUME orderly, ChannelInv, FollowInv, [Next]_vars
    PROVE  FollowInv'
  <1>1. CASE UNCHANGED vars
    <2>1. UNCHANGED <<mainPc, command, job, toServer, late, serverVer, connect, lost, unicast,
                      version, response, pc, msg, use, in>>
      BY <1>1 DEF vars, mainVars, responseVars, versionVars, threadVars, serverVars, netVars
    <2>2. JobInv' /\ UnpackInv' /\ AnnouncedInv'
      BY <2>1, SameHeld DEF FollowInv, JobInv
    <2>3. Settled' = Settled
      BY <2>1 DEF Settled
    <2>4. ChangeInv'
      BY <2>1, <2>3, SameHeld DEF FollowInv, ChangeInv
    <2> QED
      BY <2>2, <2>4 DEF FollowInv
  <1>2. CASE Next
    BY <1>1, <1>2, MainFollows, AnswersFollow, UnpackFollows, DataFollows, AnswerFollows,
       NetworkFollows DEF Next, Threads, Terminated, Overtake, Duplicate
  <1> QED
    BY <1>1, <1>2

\* Whether datagrams keep their order is settled for the whole session.
LEMMA OrderStays == ASSUME [Next]_vars PROVE orderly' = orderly
  <1>1. CASE UNCHANGED vars
    BY <1>1 DEF vars, mainVars
  <1>2. CASE Main
    BY <1>2 DEF Main, StartVersion, StartConnect, StartFrame, KeyCommand, KeyVersion,
       KeyDescriptions, KeyQuit, KeyBitstream, SendTo, ReturnToKeys, ReturnSetFailed,
       ReturnSetDone, MainFrame
  <1>3. CASE Answers
    BY <1>3 DEF Answers, ServerInfo, ServerInfoMinor, ServerInfoCanChange, ResponseNumber,
       ResponseString, ResponseStringMinor, Unrecognized, ListenFrame, mainVars
  <1>4. ASSUME NEW t \in Threads, Unpack(t) PROVE orderly' = orderly
    BY <1>4 DEF Unpack, UnpackMajor, UnpackMinor, UnpackParams, UnpackTest, UnpackSuffix,
       UnpackFrame, ListenFrame, mainVars
  <1>5. CASE \/ DataTooLong \/ ServerConnect \/ ServerAnswers \/ ServerFrame
             \/ Lose \/ Overtake \/ Duplicate
    BY <1>5 DEF DataTooLong, TooLong, ServerConnect, ServerAnswers, ServerFrame, Lose, Overtake,
       Duplicate, ClientVars, mainVars
  <1> QED
    BY <1>1, <1>2, <1>3, <1>4, <1>5 DEF Next, Terminated

\* Which packets tell the server's version at each stage of a change, where the
\* network keeps their order.
THEOREM FollowInvariant == Spec => [](orderly => FollowInv)
  <1>1. ChannelInv /\ (orderly => FollowInv) /\ [Next]_vars => (orderly => FollowInv)'
    BY FollowStep, OrderStays
  <1> QED
    BY <1>1, FollowInit, ChannelInvariant, PTL DEF Spec

\* A frame is unpacked with a version other than its own only while
\* SetBitstreamVersion is under way, whatever the server answers or the network
\* loses, as long as no command times out.  It is the order of the datagrams that
\* keeps a frame from being read after the answer that changes the version.
THEOREM OnlyChangesMislead == Spec => []WrongVersionOnlyInChange
  <1>1. ChannelInv /\ (orderly => FollowInv) => WrongVersionOnlyInChange
    <2> SUFFICES ASSUME orderly, ChannelInv, FollowInv, NEW t \in Threads, pc[t] = "suffix", unicast, ~late,
                        use[t] # msg[t].ver, use[t] # NoVersion
                 PROVE  mainPc # "keys" /\ job \in {"set", "confirm"}
      BY DEF WrongVersionOnlyInChange
    <2>1. t = "cmd"
      BY DEF FollowInv, UnpackInv, Threads
    <2>2. msg["cmd"].kind = "FRAMEOFDATA" /\ use["cmd"] = version
      BY <2>1 DEF FollowInv, UnpackInv
    <2>3. ~Current
      BY <2>1, <2>2 DEF Current, Tells, Telling
    <2>4. job \in {"set", "confirm"}
      BY <2>3 DEF FollowInv, ChangeInv, Settled
    <2> QED
      BY <2>4 DEF FollowInv, JobInv
  <1> QED
    BY <1>1, ChannelInvariant, FollowInvariant, PTL
=============================================================================
