--------------------------- MODULE ChannelCellProofs ---------------------------
(***************************************************************************)
(* Until an answer may come too late or too often, every step of the       *)
(* command channel is one of the cell of NegotiatedVersion, and the        *)
(* version it takes is the one the server has: for every set of versions,  *)
(* number of commands and capacity of the sockets, and in whatever order   *)
(* the datagrams come.                                                     *)
(*                                                                         *)
(* What carries the proof is that a server has no change to make while the *)
(* answer to a query is under way, as main waits for one command at a      *)
(* time.  From it follows what the client holds at rest.                   *)
(*                                                                         *)
(* Behind it, where the network keeps the order: what ends the skipping of *)
(* frames, and that it is under way as long as frames are skipped.         *)
(***************************************************************************)
EXTENDS ChannelVersionProofs

TellsVersion(m) == m.kind \in {"SERVERINFO", "STRING"}
Storing == pc["cmd"] \in {"infoMinor", "tokenMinor"}

\* What is on the way to the command listener, and to the server.
Waiting == {in["cmd"][i] : i \in 1..Len(in["cmd"])}
Sent == {toServer[i] : i \in 1..Len(toServer)}

\* The user has changed nothing yet, as far as the client knows.
HoldsFirst == StandingVersion \in {NoVersion, ServerVersion}
AllFirst == \A m \in Waiting : TellsVersion(m) => m.ver = ServerVersion

\* A server that was asked for no change tells its first version only; the answer to a
\* query tells the version it has.
ToldInv ==
    /\ serverVer \in {ServerVersion} \cup UserVersions
    /\ ~canChange => serverVer = ServerVersion
    /\ ~canChange \/ serverVer \notin UserVersions => AllFirst /\ HoldsFirst
    /\ ~late => \A m \in Waiting : m.kind = "STRING" => m.ver = serverVer

\* A change is under way only where it was offered.
AskedFor(c) == c.kind = "set" => canChange /\ c.ver \in UserVersions
AskedInv == AskedFor(command) /\ \A c \in Sent : AskedFor(c)

\* A store in progress has stored the major; an offer proves a version.
StandInv ==
    /\ Storing => msg["cmd"].ver \in Versions /\ version[1] = msg["cmd"].ver[1]
    /\ canChange \/ pc["cmd"] = "infoCan" => StandingVersion # NoVersion
    /\ canChange => unicast

CellInv == ToldInv /\ AskedInv /\ StandInv

\* A step of the cell, or none, that takes the version the server has.
Negotiates ==
    /\ [Cell!Next]_(Cell!cellVars)
    /\ StandingVersion' # StandingVersion => StandingVersion' = serverVer

-----------------------------------------------------------------------------
(* What is under way                                                        *)

\* What was taken was under way, and so is what is left.
LEMMA TailWaits ==
    ASSUME ChannelInv, in["cmd"] # <<>>, in'["cmd"] = Tail(in["cmd"])
    PROVE  Waiting' \subseteq Waiting /\ Head(in["cmd"]) \in Waiting
  <1>1. in["cmd"] \in Seq(Datagrams)
    BY Constants DEF ChannelInv, TypeOK, NetTypes
  <1>2. Head(in["cmd"]) = in["cmd"][1] /\ 1 \in 1..Len(in["cmd"])
    BY <1>1
  <1>3. \A i \in 1..Len(in'["cmd"]) :
           i + 1 \in 1..Len(in["cmd"]) /\ in'["cmd"][i] = in["cmd"][i + 1]
    BY <1>1
  <1> QED
    BY <1>2, <1>3 DEF Waiting

\* A datagram joins what is under way.
LEMMA AppendWaits ==
    ASSUME ChannelInv, NEW m \in Datagrams, in'["cmd"] = Append(in["cmd"], m)
    PROVE  Waiting' \subseteq Waiting \cup {m}
  <1>1. in["cmd"] \in Seq(Datagrams)
    BY Constants DEF ChannelInv, TypeOK, NetTypes
  <1>2. \A i \in 1..Len(in'["cmd"]) :
           in'["cmd"][i] = m \/ (i \in 1..Len(in["cmd"]) /\ in'["cmd"][i] = in["cmd"][i])
    BY <1>1
  <1> QED
    BY <1>2 DEF Waiting

\* The network loses, reorders and copies, but makes nothing.
LEMMA NetworkMakesNothing ==
    ASSUME ChannelInv, Lose \/ Overtake \/ Duplicate
    PROVE  Waiting' \subseteq Waiting /\ Sent' \subseteq Sent
  <1>0. /\ TypeOK /\ "cmd" \in Threads /\ toServer \in Seq(Commands)
        /\ in \in [Threads -> Seq(Datagrams)] /\ in["cmd"] \in Seq(Datagrams)
    BY Constants DEF ChannelInv, TypeOK, NetTypes
  <1>1. CASE Lose
    <2>1. Waiting' \subseteq Waiting
      <3>1. in'["cmd"] = in["cmd"] \/ (in["cmd"] # <<>> /\ in'["cmd"] = Tail(in["cmd"]))
        BY <1>0, <1>1 DEF Lose
      <3> QED
        BY <3>1, TailWaits DEF Waiting
    <2>2. Sent' \subseteq Sent
      <3>1. toServer' = toServer \/ (toServer # <<>> /\ toServer' = Tail(toServer))
        BY <1>1 DEF Lose
      <3>2. toServer # <<>> => \A i \in 1..Len(Tail(toServer)) :
               i + 1 \in 1..Len(toServer) /\ Tail(toServer)[i] = toServer[i + 1]
        BY <1>0
      <3> QED
        BY <3>1, <3>2 DEF Sent
    <2> QED
      BY <2>1, <2>2
  <1>2. CASE Overtake
    <2>1. Permuted(toServer', toServer) /\ Permuted(in'["cmd"], in["cmd"])
      BY <1>0, <1>2, Overtaken
    <2>2. \A i \in 1..Len(toServer') : \E j \in 1..Len(toServer) : toServer'[i] = toServer[j]
      BY <2>1 DEF Permuted
    <2>3. \A i \in 1..Len(in'["cmd"]) : \E j \in 1..Len(in["cmd"]) : in'["cmd"][i] = in["cmd"][j]
      BY <2>1 DEF Permuted
    <2> QED
      BY <2>2, <2>3 DEF Waiting, Sent
  <1>3. CASE Duplicate
    <2>1. Waiting' \subseteq Waiting
      BY <1>0, <1>3, Duplicated DEF Waiting
    <2>2. \A i \in 1..Len(toServer') : \E j \in 1..Len(toServer) : toServer'[i] = toServer[j]
      <3>1. toServer' = toServer \/ \E k \in 1..Len(toServer) : toServer' = Append(toServer, toServer[k])
        BY <1>3 DEF Duplicate
      <3>2. ASSUME NEW k \in 1..Len(toServer), toServer' = Append(toServer, toServer[k])
            PROVE  \A i \in 1..Len(toServer') :
                      \/ i \in 1..Len(toServer) /\ toServer'[i] = toServer[i]
                      \/ toServer'[i] = toServer[k]
        BY <1>0, <3>2
      <3> QED
        BY <3>1, <3>2
    <2> QED
      BY <2>1, <2>2 DEF Sent
  <1> QED
    BY <1>1, <1>2, <1>3

\* A command joins what is on the way to the server.
LEMMA SentJoins ==
    ASSUME ChannelInv, NEW c, toServer' = Append(toServer, c)
    PROVE  Sent' \subseteq Sent \cup {c}
  <1>1. toServer \in Seq(Commands)
    BY DEF ChannelInv, TypeOK, NetTypes
  <1>2. \A i \in 1..Len(toServer') :
           toServer'[i] = c \/ (i \in 1..Len(toServer) /\ toServer'[i] = toServer[i])
    BY <1>1
  <1> QED
    BY <1>2 DEF Sent

\* An announcement that is overtaken, or stands before a copy, is still there.
LEMMA InfoWaitsOn ==
    ASSUME NEW q \in Seq(Datagrams), NEW r, HasInfo(q),
           \/ r = q
           \/ \E i \in 1..(Len(q) - 1) : r = Swap(q, i)
           \/ \E i \in 1..Len(q) : r = Append(q, q[i])
    PROVE  HasInfo(r)
  <1>1. PICK k \in 1..Len(q) : q[k].kind = "SERVERINFO"
    BY DEF HasInfo
  <1>2. ASSUME NEW i \in 1..(Len(q) - 1), r = Swap(q, i) PROVE HasInfo(r)
    <2>1. /\ Len(q) \in Nat /\ i \in 1..Len(q) /\ i + 1 \in 1..Len(q) /\ i # i + 1
          /\ q \in [1..Len(q) -> Datagrams]
      OBVIOUS
    <2>2. Len(r) = Len(q)
      BY <1>2, SwapPermutes DEF Permuted
    <2>3. r[i] = q[i + 1] /\ r[i + 1] = q[i] /\ \A j \in 1..Len(q) : j # i /\ j # i + 1 => r[j] = q[j]
      BY <1>2, <2>1 DEF Swap
    <2> QED
      BY <1>1, <2>1, <2>2, <2>3 DEF HasInfo
  <1>3. ASSUME NEW i \in 1..Len(q), r = Append(q, q[i]) PROVE HasInfo(r)
    BY <1>3, AppendKeeps
  <1> QED
    BY <1>2, <1>3

\* Nothing is told but what was told before, or what the server has.
LEMMA ToldKept ==
    ASSUME ChannelInv, ToldInv, UNCHANGED <<canChange, serverVer>>, late => late',
           StandingVersion' = StandingVersion,
           \E m : /\ Waiting' \subseteq Waiting \cup {m}
                  /\ TellsVersion(m) => m.ver = serverVer
    PROVE  ToldInv'
  <1>1. HoldsFirst' = HoldsFirst
    BY DEF HoldsFirst
  <1>2. AllFirst /\ serverVer = ServerVersion => AllFirst'
    BY DEF AllFirst
  <1>3. ~canChange \/ serverVer \notin UserVersions => serverVer = ServerVersion
    BY DEF ToldInv
  <1>4. late \in BOOLEAN
    BY DEF ChannelInv, TypeOK, MainTypes
  <1>5. ASSUME ~late' PROVE \A m \in Waiting' : m.kind = "STRING" => m.ver = serverVer
    BY <1>4, <1>5 DEF ToldInv, TellsVersion
  <1> QED
    BY <1>1, <1>2, <1>3, <1>5 DEF ToldInv

\* A version that is taken leaves the others.
LEMMA NothingTold ==
    ASSUME Waiting' \subseteq Waiting
    PROVE  \E m : Waiting' \subseteq Waiting \cup {m} /\ (TellsVersion(m) => m.ver = serverVer)
  <1>1. ~TellsVersion(Nothing)
    BY DEF TellsVersion, Nothing, Datagram
  <1> QED
    BY <1>1

\* What is history of a session, and what is chosen with its start.
LEMMA LateStays ==
    ASSUME ChannelInv, [Next]_vars
    PROVE  unicast' = unicast /\ (late => late')
  <1>1. CASE Main
    <2>1. unicast' = unicast /\ (UNCHANGED late \/ Return)
      BY <1>1 DEF Main, StartVersion, StartConnect, StartFrame, KeyCommand, KeyVersion,
         KeyDescriptions, KeyQuit, KeyBitstream, SendTo, ReturnToKeys, ReturnSetFailed,
         ReturnSetDone, MainFrame, mainVars
    <2>2. late \in BOOLEAN
      BY DEF ChannelInv, TypeOK, MainTypes
    <2> QED
      BY <2>1, <2>2 DEF Return
  <1>2. CASE Answers
    BY <1>2 DEF Answers, ServerInfo, ServerInfoMinor, ServerInfoCanChange, ResponseNumber,
       ResponseString, ResponseStringMinor, Unrecognized, ListenFrame, mainVars
  <1>3. CASE \E t \in Threads : Unpack(t)
    <2>1. UNCHANGED <<unicast, late>>
      BY <1>3 DEF Unpack, UnpackMajor, UnpackMinor, UnpackParams, UnpackTest, UnpackSuffix,
         UnpackFrame, ListenFrame, mainVars
    <2> QED
      BY <2>1
  <1>4. CASE DataTooLong \/ ServerConnect \/ ServerAnswers \/ ServerFrame \/ Lose
    BY <1>4 DEF DataTooLong, TooLong, ServerConnect, ServerAnswers, ServerFrame, Lose,
       ClientVars, mainVars
  <1>6. CASE Overtake \/ Duplicate
    BY <1>6 DEF Overtake, Duplicate, ClientVars, mainVars
  <1>5. CASE UNCHANGED vars
    BY <1>5 DEF vars, mainVars
  <1> QED
    BY <1>1, <1>2, <1>3, <1>4, <1>5, <1>6 DEF Next, Terminated

-----------------------------------------------------------------------------
(* Steps that leave the version                                             *)

LEMMA CellInit == Init => CellInv /\ Cell!Init
  BY Constants
     DEF Init, CellInv, ToldInv, AskedInv, StandInv, AllFirst, Waiting, Sent, HoldsFirst,
         AskedFor, Storing, StandingVersion, NoCommand, Command, Threads, Cell!Init

\* Whoever leaves the command listener alone leaves what it stands by.
LEMMA StandKept ==
    ASSUME StandInv, UNCHANGED <<version, canChange, unicast>>, pc'["cmd"] = pc["cmd"],
           msg'["cmd"] = msg["cmd"]
    PROVE  StandInv' /\ StandingVersion' = StandingVersion
  BY DEF StandInv, StandingVersion, Storing

\* A packet that tells no version is taken, read or done with.
LEMMA StandRead ==
    ASSUME StandInv, UNCHANGED <<version, canChange, unicast>>,
           pc["cmd"] \notin {"infoMinor", "infoCan", "tokenMinor"},
           pc'["cmd"] \notin {"infoMinor", "infoCan", "tokenMinor"}
    PROVE  StandInv' /\ StandingVersion' = StandingVersion
  BY DEF StandInv, StandingVersion, Storing

\* Main, a server that sends and the network do not touch the listener.
LEMMA NotTheListener ==
    ASSUME ChannelInv, CellInv, UNCHANGED <<version, canChange, unicast, pc, msg, serverVer>>,
           AskedInv', late => late',
           \E m : Waiting' \subseteq Waiting \cup {m} /\ (TellsVersion(m) => m.ver = serverVer)
    PROVE  CellInv' /\ Negotiates
  BY StandKept, ToldKept DEF CellInv, Negotiates, Cell!cellVars

\* Main leaves the listeners alone, and the version once it has asked for a connection.
LEMMA MainLeaves ==
    ASSUME ChannelInv, Main
    PROVE  UNCHANGED <<version, canChange, unicast, pc, msg, serverVer, in, lost>>
  <1>1. UNCHANGED <<canChange, unicast, pc, msg, serverVer, in, lost>>
    BY DEF Main, StartVersion, StartConnect, StartFrame, KeyCommand, KeyVersion, KeyDescriptions,
       KeyQuit, KeyBitstream, SendTo, ReturnToKeys, ReturnSetFailed, ReturnSetDone, MainFrame,
       mainVars, versionVars, threadVars, serverVars
  <1>2. UNCHANGED version
    BY DEF Main, StartVersion, StartConnect, StartFrame, KeyCommand, KeyVersion, KeyDescriptions,
       KeyQuit, KeyBitstream, SendTo, ReturnToKeys, ReturnSetFailed, ReturnSetDone, MainFrame,
       versionVars, ChannelInv, StartInv
  <1> QED
    BY <1>1, <1>2

\* Keys and SendCommand.
LEMMA MainKeepsCell == ChannelInv /\ CellInv /\ Main => CellInv' /\ Negotiates
  <1> SUFFICES ASSUME ChannelInv, CellInv, Main PROVE CellInv' /\ Negotiates
    OBVIOUS
  <1>1. UNCHANGED <<canChange, unicast, pc, msg, serverVer, in>>
    BY MainLeaves
  <1>2. UNCHANGED version
    BY MainLeaves
  \* A command that is given, and one that is sent.
  <1>3. AskedFor(command')
    BY DEF Main, StartVersion, StartConnect, StartFrame, KeyCommand, KeyVersion, KeyDescriptions,
       KeyQuit, KeyBitstream, SendTo, ReturnToKeys, ReturnSetFailed, ReturnSetDone, MainFrame,
       mainVars, BackToKeys, StartCommand, Command, NoCommand, CellInv, AskedInv, AskedFor
  <1>4. \/ toServer' = toServer
        \/ \E c : toServer' = Append(toServer, c) /\ AskedFor(c)
    BY DEF Main, StartVersion, StartConnect, StartFrame, KeyCommand, KeyVersion, KeyDescriptions,
       KeyQuit, KeyBitstream, SendTo, ReturnToKeys, ReturnSetFailed, ReturnSetDone, MainFrame,
       Command, CellInv, AskedInv, AskedFor
  <1>5. toServer \in Seq(Commands)
    BY DEF ChannelInv, TypeOK, NetTypes
  <1>6. \A c \in Sent' : AskedFor(c)
    <2>1. ASSUME NEW c, toServer' = Append(toServer, c), AskedFor(c)
          PROVE  \A i \in 1..Len(toServer') : AskedFor(toServer'[i])
      <3>1. \A i \in 1..Len(toServer') :
               toServer'[i] = c \/ (i \in 1..Len(toServer) /\ toServer'[i] = toServer[i])
        BY <1>5, <2>1
      <3> QED
        BY <2>1, <3>1 DEF CellInv, AskedInv, Sent
    <2> QED
      BY <1>4, <2>1 DEF CellInv, AskedInv, Sent
  <1>7. AskedInv'
    BY <1>1, <1>3, <1>6 DEF AskedInv, AskedFor
  <1>8. late => late'
    BY LateStays DEF Next
  <1>9. Waiting' = Waiting
    BY <1>1 DEF Waiting
  <1> QED
    BY <1>1, <1>2, <1>7, <1>8, <1>9, NothingTold, NotTheListener

-----------------------------------------------------------------------------
(* Steps of the listeners                                                   *)

\* Announcements and answers: the version that is taken is the server's, and it is
\* another one than before only if the server announced it first or was asked for it.
LEMMA AnswersKeepCell ==
    ChannelInv /\ CellInv /\ Answers => CellInv' /\ (~late => Negotiates)
  <1> SUFFICES ASSUME ChannelInv, CellInv, Answers
               PROVE  CellInv' /\ (~late => Negotiates)
    OBVIOUS
  <1> DEFINE q == in["cmd"]
             m == Head(q)
  <1>0. /\ TypeOK /\ VersionInv /\ ToldInv /\ StandInv /\ "cmd" \in Threads
        /\ q \in Seq(Datagrams) /\ version = <<version[1], version[2]>>
    BY Constants DEF ChannelInv, CellInv, TypeOK, NetTypes, VersionTypes
  <1>1. UNCHANGED <<unicast, serverVer, late>> /\ AskedInv'
    <2>1. UNCHANGED <<command, toServer, unicast, serverVer, late>>
      BY DEF Answers, ServerInfo, ServerInfoMinor, ServerInfoCanChange, ResponseNumber,
         ResponseString, ResponseStringMinor, Unrecognized, ListenFrame, mainVars, serverVars
    <2>2. UNCHANGED canChange \/ ServerInfoCanChange
      BY DEF Answers, ServerInfo, ServerInfoMinor, ResponseNumber, ResponseString,
         ResponseStringMinor, Unrecognized, versionVars
    <2>3. canChange => canChange'
      BY <2>2 DEF ServerInfoCanChange
    <2> QED
      BY <2>1, <2>3 DEF CellInv, AskedInv, AskedFor, Sent
  \* A version that is told is taken from what is under way.
  <1>2. ASSUME NEW kind \in {"SERVERINFO", "STRING"}, Take("cmd", kind)
        PROVE  /\ pc["cmd"] = "recv" /\ StandingVersion = version
               /\ m.kind = kind /\ m \in Waiting /\ m.ver \in Versions
               /\ Waiting' \subseteq Waiting
               /\ ~canChange \/ serverVer \notin UserVersions =>
                     m.ver = ServerVersion /\ serverVer = ServerVersion /\ HoldsFirst
               /\ kind = "STRING" /\ ~late => m.ver = serverVer
    <2>1. /\ pc["cmd"] = "recv" /\ m \in Datagrams /\ m.kind = kind /\ q # <<>>
          /\ in'["cmd"] = Tail(q)
      BY <1>0, <1>2, TakesHead
    <2>2. m.ver \in Versions
      BY <1>0, <1>2, TakenVersions
    <2>3. StandingVersion = version /\ TellsVersion(m)
      BY <1>2, <2>1 DEF StandingVersion, TellsVersion
    <2>4. Waiting' \subseteq Waiting /\ m \in Waiting
      BY <2>1, TailWaits
    <2> QED
      BY <1>0, <2>1, <2>2, <2>3, <2>4 DEF ToldInv, AllFirst
  \* What is told after a version has become the one the client stands by.
  <1>3. ASSUME NEW kind \in {"SERVERINFO", "STRING"}, Take("cmd", kind), UNCHANGED canChange,
               StandingVersion' = m.ver
        PROVE  ToldInv'
    <2>1. ~canChange \/ serverVer \notin UserVersions => AllFirst' /\ HoldsFirst'
      BY <1>0, <1>2, <1>3 DEF ToldInv, AllFirst, HoldsFirst
    <2>2. ~late => \A d \in Waiting' : d.kind = "STRING" => d.ver = serverVer
      BY <1>0, <1>2, <1>3 DEF ToldInv
    <2> QED
      BY <1>0, <1>1, <1>3, <2>1, <2>2 DEF ToldInv
  <1>4. CASE ServerInfo
    <2>1. Take("cmd", "SERVERINFO") /\ UNCHANGED canChange
      BY <1>4 DEF ServerInfo, versionVars
    <2>2. msg'["cmd"] = m
      BY <1>0, <1>4 DEF ServerInfo, TypeOK, ThreadTypes
    <2>3. CASE version = NoVersion
      <3>1. pc'["cmd"] = "infoMinor" /\ version' = <<m.ver[1], version[2]>>
        BY <1>0, <1>4, <2>2, <2>3, CmdGoes DEF ServerInfo
      <3>2. StandingVersion' = m.ver
        BY <2>2, <3>1 DEF StandingVersion
      <3>3. ~canChange
        BY <1>2, <2>1, <2>3 DEF CellInv, StandInv
      <3>4. /\ m.ver = ServerVersion /\ m.ver \in Versions /\ StandingVersion = NoVersion
            /\ serverVer = ServerVersion
        BY <1>2, <2>1, <2>3, <3>3
      <3>5. StandInv'
        BY <2>1, <2>2, <3>1, <3>3, <3>4 DEF StandInv, Storing
      <3>6. Negotiates
        BY <2>1, <3>2, <3>4 DEF Negotiates, Cell!Next, Cell!Negotiate
      <3> QED
        BY <1>1, <1>3, <2>1, <3>2, <3>5, <3>6 DEF CellInv
    <2>4. CASE version # NoVersion
      <3>1. pc'["cmd"] = "infoCan" /\ version' = version
        BY <1>0, <1>4, <2>4, CmdGoes DEF ServerInfo
      <3>2. StandingVersion = version /\ StandingVersion' = version
        BY <1>2, <2>1, <3>1 DEF StandingVersion
      <3>3. ToldInv'
        BY <1>0, <1>1, <1>2, <2>1, <3>2, NothingTold, ToldKept
      <3>4. StandInv'
        BY <1>0, <1>1, <2>1, <2>4, <3>1, <3>2 DEF StandInv, Storing
      <3> QED
        BY <1>1, <2>1, <3>2, <3>3, <3>4 DEF CellInv, Negotiates, Cell!cellVars
    <2> QED
      BY <2>3, <2>4
  <1>5. CASE ServerInfoMinor \/ ResponseStringMinor
    <2>1. /\ Storing /\ in' = in /\ UNCHANGED canChange
          /\ version' = <<version[1], msg["cmd"].ver[2]>>
      BY <1>5 DEF ServerInfoMinor, ResponseStringMinor, At, Storing, versionVars
    <2>2. pc'["cmd"] \in {"infoCan", "recv"}
      BY <1>0, <1>5, CmdGoes DEF ServerInfoMinor, ResponseStringMinor
    <2>3. version' = msg["cmd"].ver /\ msg["cmd"].ver # NoVersion
      BY <1>0, <2>1, Constants DEF StandInv
    <2>4. StandingVersion = msg["cmd"].ver /\ StandingVersion' = msg["cmd"].ver
      BY <2>1, <2>2, <2>3 DEF StandingVersion, Storing
    <2>5. Waiting' \subseteq Waiting
      BY <2>1 DEF Waiting
    <2>6. ToldInv'
      BY <1>0, <1>1, <2>1, <2>4, <2>5, NothingTold, ToldKept
    <2>7. StandInv'
      BY <1>0, <1>1, <2>1, <2>2, <2>3, <2>4 DEF StandInv, Storing
    <2> QED
      BY <1>1, <2>1, <2>4, <2>6, <2>7 DEF CellInv, Negotiates, Cell!cellVars
  <1>6. CASE ServerInfoCanChange
    <2>1. /\ pc["cmd"] = "infoCan" /\ pc'["cmd"] = "recv" /\ in' = in /\ version' = version
          /\ canChange' \in {canChange, unicast}
      BY <1>0, <1>6, CmdGoes DEF ServerInfoCanChange, At, TypeOK, VersionTypes, MainTypes
    <2>2. StandingVersion = version /\ StandingVersion' = version /\ version # NoVersion
      BY <1>0, <2>1 DEF StandingVersion, StandInv
    <2>3. canChange => canChange'
      BY <1>6 DEF ServerInfoCanChange
    <2>4. ToldInv'
      BY <1>0, <1>1, <2>1, <2>2, <2>3 DEF ToldInv, AllFirst, Waiting, HoldsFirst
    <2>5. StandInv'
      BY <1>0, <1>1, <2>1, <2>2 DEF StandInv, Storing
    <2>6. canChange' \in BOOLEAN /\ canChange \in BOOLEAN
      BY <1>0, <2>1 DEF TypeOK, VersionTypes, MainTypes
    <2>7. Cell!Offer \/ UNCHANGED Cell!cellVars
      BY <2>2, <2>3, <2>6 DEF Cell!Offer, Cell!cellVars
    <2> QED
      BY <1>1, <2>2, <2>4, <2>5, <2>7 DEF CellInv, Negotiates, Cell!Next
  <1>7. CASE ResponseString
    <2>1. /\ Take("cmd", "STRING") /\ UNCHANGED canChange
          /\ version' = <<msg'["cmd"].ver[1], version[2]>>
      BY <1>7 DEF ResponseString
    <2>2. msg'["cmd"] = m
      BY <1>0, <1>7 DEF ResponseString, TypeOK, ThreadTypes
    <2>3. pc'["cmd"] = "tokenMinor"
      BY <1>0, <1>7, CmdGoes DEF ResponseString
    <2>4. StandingVersion' = m.ver
      BY <2>2, <2>3 DEF StandingVersion
    <2>5. m.ver \in Versions /\ m.ver # NoVersion
      BY <1>2, <2>1, Constants
    <2>6. StandInv'
      BY <1>0, <1>1, <2>1, <2>2, <2>3, <2>4, <2>5 DEF StandInv, Storing
    <2>7. ToldInv'
      BY <1>3, <2>1, <2>4
    <2>8. ASSUME ~late PROVE Negotiates
      <3>1. StandingVersion' = serverVer /\ serverVer \in {ServerVersion} \cup UserVersions
        BY <1>0, <1>2, <2>1, <2>4, <2>8 DEF ToldInv
      <3>2. CASE StandingVersion = NoVersion
        BY <2>1, <3>1, <3>2 DEF Negotiates, Cell!Next, Cell!Negotiate
      <3>3. CASE StandingVersion # NoVersion /\ canChange /\ serverVer \in UserVersions
        BY <2>1, <3>1, <3>3 DEF Negotiates, Cell!Next, Cell!Change
      <3>4. CASE StandingVersion # NoVersion /\ ~(canChange /\ serverVer \in UserVersions)
        <4>1. StandingVersion' = StandingVersion
          BY <1>2, <2>1, <3>1, <3>4 DEF HoldsFirst
        <4> QED
          BY <2>1, <4>1 DEF Negotiates, Cell!cellVars
      <3> QED
        BY <3>2, <3>3, <3>4
    <2> QED
      BY <1>1, <2>6, <2>7, <2>8 DEF CellInv
  <1>8. CASE ResponseNumber \/ Unrecognized
    <2>1. PICK kind : Take("cmd", kind)
      BY <1>8 DEF ResponseNumber, Unrecognized
    <2>2. Waiting' \subseteq Waiting
      BY <1>0, <2>1, TakesHead, TailWaits
    <2>3. UNCHANGED <<version, canChange, pc, msg>>
      BY <1>0, <1>8 DEF ResponseNumber, Unrecognized, versionVars, threadVars, VersionInv
    <2> QED
      BY <1>1, <2>2, <2>3, NothingTold, NotTheListener
  <1> QED
    BY <1>4, <1>5, <1>6, <1>7, <1>8 DEF Answers

\* Unpack stores no version.
LEMMA UnpackKeepsCell ==
    ChannelInv /\ CellInv /\ (DataTooLong \/ \E t \in Threads : Unpack(t))
        => CellInv' /\ Negotiates
  <1> SUFFICES ASSUME ChannelInv, CellInv, NEW t \in Threads,
                      Unpack(t) \/ (t = "data" /\ DataTooLong)
               PROVE  CellInv' /\ Negotiates
    BY Constants
  <1>0. TypeOK /\ StandInv /\ ToldInv /\ "cmd" \in Threads
    BY Constants DEF ChannelInv, CellInv
  <1>1. UNCHANGED <<version, canChange, unicast, command, toServer, serverVer>>
    <2>1. CASE Unpack(t)
      BY <2>1 DEF Unpack, UnpackMajor, UnpackMinor, UnpackParams, UnpackTest, UnpackSuffix,
         UnpackFrame, ListenFrame, mainVars, versionVars, serverVars
    <2>2. CASE DataTooLong
      BY <2>2 DEF DataTooLong, TooLong, mainVars, versionVars, serverVars
    <2> QED
      BY <2>1, <2>2
  <1>2. AskedInv'
    BY <1>1 DEF CellInv, AskedInv, AskedFor, Sent
  <1>3. in'["cmd"] = in["cmd"] \/ (in["cmd"] # <<>> /\ in'["cmd"] = Tail(in["cmd"]))
    <2>1. in' = in \/ \E kind : Take(t, kind)
      <3>1. CASE Unpack(t)
        BY <3>1 DEF Unpack, UnpackMajor, UnpackMinor, UnpackParams, UnpackTest, UnpackSuffix
      <3>2. CASE t = "data" /\ DataTooLong
        BY <3>2 DEF DataTooLong, TooLong
      <3> QED
        BY <3>1, <3>2
    <2> QED
      BY <1>0, <2>1, TakesHead
  <1>4. StandInv' /\ StandingVersion' = StandingVersion
    <2>1. CASE t = "cmd" /\ Unpack("cmd")
      <3>1. pc["cmd"] \notin {"infoMinor", "infoCan", "tokenMinor"}
        BY <2>1 DEF Unpack, UnpackMajor, UnpackMinor, UnpackParams, UnpackTest, UnpackSuffix, Take,
           At
      <3>2. pc'["cmd"] \in {"recv", "minor", "params", "test", "suffix"}
        BY <1>0, <2>1, CmdGoes
           DEF Unpack, UnpackMajor, UnpackMinor, UnpackParams, UnpackTest, UnpackSuffix
      <3> QED
        BY <1>0, <1>1, <3>1, <3>2, StandRead
    <2>2. CASE t = "data"
      <3>1. pc'["cmd"] = pc["cmd"] /\ msg'["cmd"] = msg["cmd"]
        <4>1. CASE Unpack("data")
          BY <1>0, <4>1 DEF Unpack, UnpackMajor, UnpackMinor, UnpackParams, UnpackTest,
             UnpackSuffix, Done, Goto, TypeOK, ThreadTypes
        <4>2. CASE DataTooLong
          BY <4>2 DEF DataTooLong, TooLong, threadVars
        <4> QED
          BY <2>2, <4>1, <4>2
      <3> QED
        BY <1>0, <1>1, <3>1, StandKept
    <2> QED
      BY <2>1, <2>2 DEF Threads
  <1>5. Waiting' \subseteq Waiting
    BY <1>3, TailWaits DEF Waiting
  <1>6. late => late'
    BY LateStays, Constants DEF Next
  <1> QED
    BY <1>0, <1>1, <1>2, <1>4, <1>5, <1>6, NothingTold, ToldKept DEF CellInv, Negotiates, Cell!cellVars

-----------------------------------------------------------------------------
(* Steps of the server and of the network                                   *)

\* What is left of the commands was asked for.
LEMMA CommandsLeft ==
    ASSUME ChannelInv, AskedInv, UNCHANGED <<command, canChange>>,
           toServer' = toServer \/ (toServer # <<>> /\ toServer' = Tail(toServer))
    PROVE  AskedInv'
  <1>1. toServer \in Seq(Commands)
    BY DEF ChannelInv, TypeOK, NetTypes
  <1>2. toServer # <<>> => \A i \in 1..Len(Tail(toServer)) :
           i + 1 \in 1..Len(toServer) /\ Tail(toServer)[i] = toServer[i + 1]
    BY <1>1
  <1> QED
    BY <1>2 DEF AskedInv, AskedFor, Sent

\* What a server or a network does not touch.
LEMMA ClientFrame ==
    UNCHANGED ClientVars => UNCHANGED <<command, version, canChange, unicast, pc, msg, late>>
  BY DEF ClientVars, mainVars, versionVars, threadVars

\* The server tells its version, and takes another one if the user asked for it.
LEMMA ServerKeepsCell ==
    ChannelInv /\ CellInv /\ ServerAnswers => CellInv' /\ Negotiates
  <1> SUFFICES ASSUME ChannelInv, CellInv, ServerAnswers
               PROVE  CellInv' /\ Negotiates
    OBVIOUS
  <1> DEFINE c == Head(toServer)
  <1>0. /\ serverVer \in Known /\ serverVer \in Versions /\ TypeOK /\ toServer \in Seq(Commands)
        /\ in["cmd"] \in Seq(Datagrams) /\ "cmd" \in Threads /\ ToldInv /\ StandInv
    BY Constants DEF ChannelInv, TypeOK, NetTypes, CellInv
  <1>1. /\ UNCHANGED <<command, version, canChange, unicast, pc, msg, late>>
        /\ toServer # <<>> /\ toServer' = Tail(toServer)
    BY ClientFrame DEF ServerAnswers
  <1>2. AskedInv'
    BY <1>1, CommandsLeft DEF CellInv
  <1>3. c \in Commands /\ c.id \in 0..MaxCommands /\ AskedFor(c)
    <2>1. c = toServer[1] /\ 1 \in 1..Len(toServer) /\ c \in Commands
      BY <1>0, <1>1
    <2>2. c.id \in 0..MaxCommands
      BY <2>1, CommandShape, Constants
    <2> QED
      BY <2>1, <2>2 DEF CellInv, AskedInv, Sent
  <1>4. \/ /\ serverVer' = serverVer
           /\ \E m \in Datagrams : Deliver("cmd", m) /\ (TellsVersion(m) => m.ver = serverVer)
        \/ /\ serverVer' = c.ver /\ c.kind = "set"
           /\ \E m \in Datagrams : Deliver("cmd", m) /\ ~TellsVersion(m)
    <2>1. ASSUME NEW kind \in {"NUMBER", "STRING", "UNRECOGNIZED", "MODELDEF"},
                 NEW id \in 0..MaxCommands, NEW value \in {0, 1}, NEW v \in Known
          PROVE  /\ Answer(kind, id, value, v) \in Datagrams
                 /\ Answer(kind, id, value, v).kind = kind /\ Answer(kind, id, value, v).ver = v
      BY Shapes
    <2>2. /\ 0 \in 0..MaxCommands /\ NoVersion \in Known
      BY Constants
    <2>3. CASE c.kind \in {"plain", "set"} /\ ServerRefuses(c.id) /\ serverVer' = serverVer
      BY <1>0, <1>3, <2>1, <2>2, <2>3 DEF ServerRefuses, TellsVersion
    <2>4. CASE c.kind = "plain" /\ serverVer' = serverVer
               /\ Deliver("cmd", Answer("NUMBER", c.id, 0, NoVersion))
      BY <1>0, <1>3, <2>1, <2>2, <2>4 DEF TellsVersion
    <2>5. CASE c.kind = "set" /\ Deliver("cmd", Answer("NUMBER", c.id, 0, NoVersion))
               /\ serverVer' = c.ver
      BY <1>0, <1>3, <2>1, <2>2, <2>5 DEF TellsVersion
    <2>6. CASE c.kind = "query" /\ serverVer' = serverVer
               /\ Deliver("cmd", Answer("STRING", c.id, 0, serverVer))
      BY <1>0, <1>3, <2>1, <2>2, <2>6 DEF TellsVersion
    <2>7. CASE c.kind = "modeldef" /\ serverVer' = serverVer
               /\ Deliver("cmd", Answer("MODELDEF", 0, 0, serverVer))
      BY <1>0, <1>3, <2>1, <2>2, <2>7 DEF TellsVersion
    <2> QED
      BY <2>3, <2>4, <2>5, <2>6, <2>7 DEF ServerAnswers
  <1>5. \A m : Deliver("cmd", m) => in'["cmd"] = Append(in["cmd"], m)
    BY <1>0 DEF Deliver, TypeOK, NetTypes
  <1>6. CASE /\ serverVer' = serverVer
             /\ \E m \in Datagrams : Deliver("cmd", m) /\ (TellsVersion(m) => m.ver = serverVer)
    <2>1. PICK m \in Datagrams : Deliver("cmd", m) /\ (TellsVersion(m) => m.ver = serverVer)
      BY <1>6
    <2>2. Waiting' \subseteq Waiting \cup {m}
      BY <1>5, <2>1, AppendWaits
    <2> QED
      BY <1>1, <1>2, <1>6, <2>1, <2>2, NotTheListener
  <1>7. CASE /\ serverVer' = c.ver /\ c.kind = "set"
             /\ \E m \in Datagrams : Deliver("cmd", m) /\ ~TellsVersion(m)
    <2>1. canChange /\ serverVer' \in UserVersions
      BY <1>3, <1>7 DEF AskedFor
    <2>2. StandInv' /\ StandingVersion' = StandingVersion
      BY <1>0, <1>1, StandKept
    <2>3. PICK m \in Datagrams : in'["cmd"] = Append(in["cmd"], m) /\ ~TellsVersion(m)
      BY <1>5, <1>7
    <2>4. Waiting' \subseteq Waiting \cup {m}
      BY <2>3, AppendWaits
    \* No answer is under way while a change is.
    <2>5. ~late => \A d \in Waiting : d.kind # "STRING"
      <3>1. 1 \in 1..Len(toServer) /\ Awaited(toServer[1])
        BY <1>0, <1>1, <1>7 DEF Awaited
      <3> QED
        BY <3>1 DEF ChannelInv, AnswerInv, IsAnswer, Waiting
    <2>6. serverVer \notin UserVersions => AllFirst
      BY <1>0 DEF ToldInv
    <2>7. ToldInv'
      BY <1>1, <2>1, <2>3, <2>4, <2>5 DEF ToldInv, TellsVersion
    <2> QED
      BY <1>1, <1>2, <2>2, <2>7 DEF CellInv, Negotiates, Cell!cellVars
  <1> QED
    BY <1>4, <1>6, <1>7

\* Connection, frames, and what the network does to datagrams.
LEMMA NetworkKeepsCell ==
    ChannelInv /\ CellInv /\ (ServerConnect \/ ServerFrame \/ Lose \/ Overtake \/ Duplicate)
        => CellInv' /\ Negotiates
  <1> SUFFICES ASSUME ChannelInv, CellInv,
                      ServerConnect \/ ServerFrame \/ Lose \/ Overtake \/ Duplicate
               PROVE  CellInv' /\ Negotiates
    OBVIOUS
  <1>0. /\ serverVer \in Known /\ changeDue \in BOOLEAN /\ TypeOK
        /\ "cmd" \in Threads /\ "data" \in Threads
    BY Constants DEF ChannelInv, TypeOK, NetTypes
  <1>1. UNCHANGED <<command, version, canChange, unicast, pc, msg, serverVer>> /\ (late => late')
    <2>1. CASE Duplicate
      BY <2>1 DEF Duplicate, mainVars, versionVars, threadVars, serverVars
    <2>2. CASE ~Duplicate
      BY <2>2, ClientFrame DEF ServerConnect, ServerFrame, Lose, Overtake, serverVars
    <2> QED
      BY <2>1, <2>2
  <1>2. Sent' \subseteq Sent
    <2>1. CASE ServerConnect \/ ServerFrame
      BY <2>1 DEF ServerConnect, ServerFrame, Sent
    <2> QED
      BY <2>1, NetworkMakesNothing
  <1>3. AskedInv'
    BY <1>1, <1>2 DEF CellInv, AskedInv, AskedFor
  <1>4. CASE ServerConnect
    <2>1. Info(serverVer) \in Datagrams /\ Info(serverVer).ver = serverVer
      BY <1>0, Shapes
    <2>2. in'["cmd"] = Append(in["cmd"], Info(serverVer))
      BY <1>0, <1>4 DEF ServerConnect, Deliver, TypeOK, NetTypes
    <2> QED
      BY <1>1, <1>3, <2>1, <2>2, AppendWaits, NotTheListener
  <1>5. CASE ServerFrame
    <2>1. CASE Deliver("cmd", Frame(serverVer, changeDue, 0))
      <3>1. /\ Frame(serverVer, changeDue, 0) \in Datagrams
            /\ ~TellsVersion(Frame(serverVer, changeDue, 0))
        BY <1>0, Shapes DEF TellsVersion
      <3>2. in'["cmd"] = Append(in["cmd"], Frame(serverVer, changeDue, 0))
        BY <1>0, <2>1 DEF Deliver, TypeOK, NetTypes
      <3> QED
        BY <1>1, <1>3, <3>1, <3>2, AppendWaits, NotTheListener
    <2>2. CASE \E m : Deliver("data", m)
      <3>1. in'["cmd"] = in["cmd"]
        BY <1>0, <2>2 DEF Deliver, TypeOK, NetTypes
      <3> QED
        BY <1>1, <1>3, <3>1, NothingTold, NotTheListener DEF Waiting
    <2> QED
      BY <1>5, <2>1, <2>2 DEF ServerFrame
  <1>6. CASE Lose \/ Overtake \/ Duplicate
    BY <1>1, <1>3, <1>6, NetworkMakesNothing, NothingTold, NotTheListener
  <1> QED
    BY <1>4, <1>5, <1>6

-----------------------------------------------------------------------------
(* The refinement                                                           *)

\* Every step keeps what is told, and until something is late it is one of the cell.
LEMMA CellStep ==
    ChannelInv /\ CellInv /\ [Next]_vars => CellInv' /\ (~late' => Negotiates)
  <1> SUFFICES ASSUME ChannelInv, CellInv, [Next]_vars
               PROVE  CellInv' /\ (~late' => Negotiates)
    OBVIOUS
  <1>1. CASE UNCHANGED vars
    <2>1. UNCHANGED <<command, version, canChange, unicast, pc, msg, serverVer, toServer, in, late>>
      BY <1>1 DEF vars, mainVars, versionVars, threadVars, serverVars, netVars
    <2>2. AskedInv' /\ Waiting' \subseteq Waiting
      BY <2>1 DEF CellInv, AskedInv, AskedFor, Sent, Waiting
    <2> QED
      BY <2>1, <2>2, NothingTold, NotTheListener
  <1>0. ~late' => ~late
    BY LateStays
  <1>2. CASE Next
    BY <1>0, <1>1, <1>2, MainKeepsCell, AnswersKeepCell, UnpackKeepsCell, ServerKeepsCell, NetworkKeepsCell
       DEF Next, Terminated
  <1> QED
    BY <1>1, <1>2

\* A server that was asked for no change tells its first version only, one that was asked
\* tells the version it has, and it is asked only where it offered the change.
THEOREM CellInvariant == Spec => []CellInv
  BY CellInit, CellStep, ChannelInvariant, PTL DEF Spec

\* Every session of PacketClient, with stores made one component at a time, losses and
\* datagrams that overtake each other, takes the steps of the version cell that the
\* Python client implements as well, until an answer may come too late or too often;
\* and the version it takes is the one the server has at that time.
THEOREM ChannelNegotiatesUntilLate == Spec => NegotiatesUntilLate
  <1>1. ChannelInv /\ CellInv /\ [Next]_vars
           => [~late' => /\ [Cell!Next]_(Cell!cellVars)
                         /\ StandingVersion' # StandingVersion
                               => StandingVersion' = serverVer]_vars
    BY CellStep DEF Negotiates
  <1> QED
    BY <1>1, CellInit, ChannelInvariant, CellInvariant, PTL DEF Spec, NegotiatesUntilLate

-----------------------------------------------------------------------------
(* The client at rest                                                       *)

\* Until something is late: commands are those of their job; what answers the query that
\* confirms a change is a string; and unless a change is accepted and not confirmed yet, the
\* client stands by the server's version.
StandsInv ==
    ~late =>
        /\ \A c \in Sent : Awaited(c) =>
              /\ c.kind = "set" <=> job = "set"
              /\ job = "confirm" => c.kind = "query"
        /\ job = "confirm" => \A m \in Waiting : IsAnswer(m) => m.kind = "STRING"
        /\ Settled => StandingVersion \in {NoVersion, serverVer}

RestInv == JobInv /\ AnnouncedInv /\ StandsInv

LEMMA RestInit == Init => RestInv
  BY Constants DEF Init, RestInv, JobInv, AnnouncedInv, StandsInv, Sent, Waiting, StandingVersion,
     Threads

\* A change that is sent, or refused.
LEMMA UnderWay ==
    /\ HasSet(toServer) <=> \E c \in Sent : c.kind = "set"
    /\ HasRefusal(in["cmd"]) <=> \E m \in Waiting : Refusal(m)
    /\ HasInfo(in["cmd"]) <=> \E m \in Waiting : m.kind = "SERVERINFO"
  BY DEF HasSet, HasRefusal, HasInfo, Sent, Waiting

\* As long as no answer is taken or sent nothing becomes settled that was not.
LEMMA StandsOn ==
    ASSUME StandsInv, UNCHANGED <<mainPc, job, response, serverVer>>, ~late' => ~late,
           Sent' \subseteq Sent, NEW m, Waiting' \subseteq Waiting \cup {m}, ~IsAnswer(m),
           ~late' => StandingVersion' \in {StandingVersion, serverVer}
    PROVE  StandsInv'
  <1>1. ~Refusal(m)
    BY DEF Refusal, IsAnswer
  <1>2. HasSet(toServer)' => HasSet(toServer)
    BY UnderWay DEF HasSet, Sent
  <1>3. HasRefusal(in["cmd"])' => HasRefusal(in["cmd"])
    BY <1>1, UnderWay DEF HasRefusal, Waiting
  <1>4. Settled' => Settled
    BY <1>2, <1>3 DEF Settled
  <1> QED
    BY <1>4 DEF StandsInv

\* An announcement goes on waiting, or is taken.
LEMMA AnnouncedOn ==
    ASSUME ChannelInv, [Next]_vars, AnnouncedInv, ~lost' => ~lost,
           connect' = "answered" => connect = "answered",
           HasInfo(in["cmd"]) => HasInfo(in["cmd"])' \/ version' # NoVersion
    PROVE  AnnouncedInv'
  BY VersionStays DEF AnnouncedInv

\* Keys and SendCommand: a change that is answered is settled by its refusal, or is to be
\* confirmed.
LEMMA MainKeepsRest == ChannelInv /\ RestInv /\ Main => RestInv'
  <1> SUFFICES ASSUME ChannelInv, RestInv, Main PROVE RestInv'
    OBVIOUS
  <1>0. /\ UNCHANGED <<version, pc, msg, serverVer, in, lost>>
        /\ StandingVersion' = StandingVersion /\ Waiting' = Waiting
    BY MainLeaves DEF StandingVersion, Waiting
  <1>1. AnnouncedInv'
    <2>1. connect' \in {connect, "sent"}
      BY DEF Main, StartVersion, StartConnect, KeyCommand, KeyVersion, KeyDescriptions, KeyQuit,
         KeyBitstream, SendTo, ReturnToKeys, ReturnSetFailed, ReturnSetDone, MainFrame
    <2> QED
      BY <1>0, <2>1 DEF RestInv, AnnouncedInv, HasInfo
  \* At rest nothing waits for an answer, and no change is under way.
  <1>2. mainPc \in {"start", "connect", "keys"} =>
           /\ job = "none"
           /\ ~late => /\ \A c \in Sent : ~Awaited(c)
                       /\ StandingVersion \in {NoVersion, serverVer}
    BY DEF RestInv, JobInv, StandsInv, Settled, ChannelInv, AnswerInv, Sent
  <1>3. CASE StartVersion \/ StartConnect \/ KeyQuit
    <2>1. /\ mainPc \in {"start", "connect", "keys"} /\ mainPc' \in {"connect", "keys", "quit"}
          /\ UNCHANGED <<job, toServer, late>>
      BY <1>3 DEF StartVersion, StartConnect, StartFrame, KeyQuit, MainFrame
    <2> QED
      BY <1>0, <1>1, <1>2, <2>1 DEF RestInv, JobInv, StandsInv, Sent
  <1>4. CASE KeyCommand \/ KeyVersion \/ \E v \in UserVersions : KeyBitstream(v)
    <2>1. /\ mainPc = "keys" /\ mainPc' = "send" /\ UNCHANGED <<late, toServer>>
          /\ job' # "confirm" /\ (command'.kind = "set" <=> job' = "set")
      BY <1>4 DEF KeyCommand, KeyVersion, KeyBitstream, Idle, StartCommand, Command
    <2> QED
      BY <1>0, <1>1, <1>2, <2>1 DEF RestInv, JobInv, StandsInv, Sent
  <1>5. CASE KeyDescriptions
    <2> DEFINE c == Command(issued + 1, "modeldef", NoVersion)
    <2>1. /\ mainPc = "keys" /\ UNCHANGED <<mainPc, job, late>> /\ toServer' = Append(toServer, c)
      BY <1>5 DEF KeyDescriptions, Idle
    <2>2. Sent' \subseteq Sent \cup {c} /\ ~Awaited(c)
      BY <2>1, SentJoins DEF Awaited, Command
    <2> QED
      BY <1>0, <1>1, <1>2, <2>1, <2>2 DEF RestInv, JobInv, StandsInv
  <1>6. CASE SendTo
    <2>1. /\ UNCHANGED <<job, late, command, response>> /\ mainPc = "send" /\ mainPc' = "wait"
          /\ toServer' = Append(toServer, command)
      BY <1>6 DEF SendTo, MainFrame
    <2>2. Sent' \subseteq Sent \cup {command}
      BY <2>1, SentJoins
    <2>3. Settled' => Settled
      BY <2>1 DEF Settled
    <2> QED
      BY <1>0, <1>1, <2>1, <2>2, <2>3 DEF RestInv, JobInv, StandsInv
  <1>7. CASE ReturnToKeys \/ ReturnSetFailed
    <2>1. /\ UNCHANGED toServer /\ Return /\ mainPc' = "keys" /\ job' = "none"
          /\ job = "set" => response # 0
      BY <1>7 DEF ReturnToKeys, ReturnSetFailed, BackToKeys, MainFrame
    <2>2. ASSUME ~late'
          PROVE  (\A c \in Sent : ~Awaited(c)) /\ StandingVersion \in {NoVersion, serverVer}
      <3>1. ~late /\ response # NoResponse /\ \A c \in Sent : ~Awaited(c)
        BY <2>1, <2>2, AtReturn DEF Awaited, Sent
      <3>2. job = "set" => response = 1
        BY <2>1, <3>1 DEF ChannelInv, TypeOK, MainTypes
      <3> QED
        BY <3>1, <3>2 DEF RestInv, StandsInv, Settled
    <2> QED
      BY <1>0, <1>1, <2>1, <2>2 DEF RestInv, JobInv, StandsInv, Sent
  <1>8. CASE ReturnSetDone
    <2>1. /\ UNCHANGED toServer /\ Return /\ mainPc' = "send" /\ job' = "confirm"
          /\ command'.kind = "query" /\ response' = NoResponse
      BY <1>8 DEF ReturnSetDone, StartCommand, Command
    <2>2. ASSUME ~late' PROVE (\A c \in Sent : ~Awaited(c)) /\ \A m \in Waiting : ~IsAnswer(m)
      BY <2>1, <2>2, AtReturn DEF Awaited, Sent, Waiting, NoAnswer
    <2>3. ~Settled'
      BY <2>1 DEF Settled
    <2> QED
      BY <1>0, <1>1, <2>1, <2>2, <2>3 DEF RestInv, JobInv, StandsInv, Sent
  <1> QED
    BY <1>3, <1>4, <1>5, <1>6, <1>7, <1>8 DEF Main

\* Announcements and answers: the refusal of a change leaves the version, its confirmation
\* is taken.
LEMMA AnswersKeepRest == ChannelInv /\ CellInv /\ RestInv /\ Answers => RestInv'
  <1> SUFFICES ASSUME ChannelInv, CellInv, RestInv, Answers PROVE RestInv'
    OBVIOUS
  <1> DEFINE head == Head(in["cmd"])
  <1>0. /\ TypeOK /\ VersionInv /\ "cmd" \in Threads /\ NoVersion[1] = 0
        /\ ~late => StandingVersion' \in {StandingVersion, serverVer}
    BY Constants, AnswersKeepCell DEF ChannelInv, Negotiates
  <1>1. UNCHANGED <<mainPc, command, job, toServer, late, serverVer, connect, lost>>
    BY DEF Answers, ServerInfo, ServerInfoMinor, ServerInfoCanChange, ResponseNumber,
       ResponseString, ResponseStringMinor, Unrecognized, ListenFrame, mainVars, serverVars
  <1>2. JobInv' /\ Sent' = Sent
    BY <1>1 DEF RestInv, JobInv, Sent
  <1>3. ASSUME NEW kind, Take("cmd", kind)
        PROVE  /\ in["cmd"] \in Seq(Datagrams) /\ in["cmd"] # <<>> /\ in'["cmd"] = Tail(in["cmd"])
               /\ head.kind = kind /\ head \in Waiting /\ Waiting' \subseteq Waiting
               /\ HasInfo(in["cmd"]) => HasInfo(in["cmd"])' \/ kind = "SERVERINFO"
    <2>1. /\ in["cmd"] \in Seq(Datagrams) /\ in["cmd"] # <<>> /\ in'["cmd"] = Tail(in["cmd"])
          /\ head.kind = kind
      BY <1>0, <1>3, TakesHead
    <2>2. HasInfo(in["cmd"]) /\ kind # "SERVERINFO" => HasInfo(in["cmd"])'
      BY <2>1, TailKeeps DEF HasInfo
    <2> QED
      BY <2>1, <2>2, TailWaits
  <1>4. AnnouncedInv'
    <2>1. HasInfo(in["cmd"]) => HasInfo(in["cmd"])' \/ version' # NoVersion
      <3>1. CASE ServerInfo
        <4>1. Take("cmd", "SERVERINFO") /\ head.ver \in Versions /\ msg'["cmd"] = head
          BY <1>0, <3>1, TakenVersions DEF ServerInfo, TypeOK, ThreadTypes
        <4>2. version' # NoVersion
          BY <1>0, <3>1, <4>1, Constants DEF ServerInfo
        <4> QED
          BY <4>2
      <3>2. CASE ResponseNumber \/ ResponseString \/ Unrecognized
        BY <1>3, <3>2 DEF ResponseNumber, ResponseString, Unrecognized
      <3>3. CASE ServerInfoMinor \/ ServerInfoCanChange \/ ResponseStringMinor
        BY <3>3 DEF ServerInfoMinor, ServerInfoCanChange, ResponseStringMinor, HasInfo
      <3> QED
        BY <3>1, <3>2, <3>3 DEF Answers
    <2> QED
      BY <1>1, <2>1, AnnouncedOn DEF RestInv, Next
  <1>5. CASE ServerInfo \/ ServerInfoMinor \/ ServerInfoCanChange \/ ResponseStringMinor
    <2>1. response' = response /\ (in' = in \/ Take("cmd", "SERVERINFO"))
      BY <1>5 DEF ServerInfo, ServerInfoMinor, ServerInfoCanChange, ResponseStringMinor, responseVars
    <2>2. Waiting' \subseteq Waiting \cup {Nothing} /\ ~IsAnswer(Nothing)
      BY <1>3, <2>1 DEF Waiting, IsAnswer, Nothing, Datagram
    <2>3. StandsInv'
      BY <1>0, <1>1, <1>2, <2>1, <2>2, StandsOn DEF RestInv
    <2> QED
      BY <1>2, <1>4, <2>3 DEF RestInv
  <1>6. CASE ResponseNumber \/ Unrecognized
    <2>1. PICK kind \in {"NUMBER", "UNRECOGNIZED"} :
             /\ Take("cmd", kind) /\ UNCHANGED <<pc, msg>>
             /\ response' = 1 => Refusal(head)
      <3>1. CASE ResponseNumber
        BY <1>0, <3>1, TakesHead DEF ResponseNumber, threadVars, Refusal
      <3>2. CASE Unrecognized
        BY <1>0, <3>2, TakesHead DEF Unrecognized, threadVars, Refusal
      <3> QED
        BY <1>6, <3>1, <3>2
    <2>2. version' = version
      <3>1. version = <<version[1], version[2]>> /\ (text # 0 => version[1] = text)
        BY <1>0 DEF TypeOK, VersionTypes, VersionInv
      <3> QED
        BY <1>6, <3>1 DEF ResponseNumber, Unrecognized, versionVars
    <2>3. StandingVersion' = StandingVersion
      BY <2>1, <2>2 DEF StandingVersion
    <2>4. head \in Waiting /\ Waiting' \subseteq Waiting /\ IsAnswer(head) /\ head.kind # "STRING"
      BY <1>3, <2>1 DEF IsAnswer
    <2>5. ASSUME ~late, Settled' PROVE Settled
      <3>1. job # "confirm"
        BY <2>4, <2>5 DEF RestInv, StandsInv
      <3>2. HasRefusal(in["cmd"])' \/ response' = 1 => HasRefusal(in["cmd"])
        BY <2>1, <2>4, UnderWay DEF HasRefusal, Waiting
      <3>3. HasSet(toServer)' = HasSet(toServer)
        BY <1>1 DEF HasSet
      <3> QED
        BY <1>1, <2>5, <3>1, <3>2, <3>3 DEF Settled
    <2>6. StandsInv'
      BY <1>1, <1>2, <2>3, <2>4, <2>5 DEF RestInv, StandsInv
    <2> QED
      BY <1>2, <1>4, <2>6 DEF RestInv
  <1>7. CASE ResponseString
    <2>1. Take("cmd", "STRING") /\ msg'["cmd"] = head /\ pc'["cmd"] = "tokenMinor"
      BY <1>0, <1>7, CmdGoes DEF ResponseString, TypeOK, ThreadTypes
    <2>2. /\ head \in Waiting /\ Waiting' \subseteq Waiting /\ head.kind = "STRING"
          /\ StandingVersion' = head.ver
      BY <1>3, <2>1 DEF StandingVersion
    <2>3. ~late => StandingVersion' = serverVer
      BY <2>2 DEF CellInv, ToldInv
    <2>4. StandsInv'
      BY <1>1, <1>2, <2>2, <2>3 DEF RestInv, StandsInv
    <2> QED
      BY <1>2, <1>4, <2>4 DEF RestInv
  <1> QED
    BY <1>5, <1>6, <1>7 DEF Answers

\* Unpack settles nothing.
LEMMA UnpackKeepsRest ==
    ChannelInv /\ CellInv /\ RestInv /\ (DataTooLong \/ \E t \in Threads : Unpack(t)) => RestInv'
  <1> SUFFICES ASSUME ChannelInv, CellInv, RestInv, NEW t \in Threads,
                      Unpack(t) \/ (t = "data" /\ DataTooLong)
               PROVE  RestInv'
    BY Constants
  <1>0. /\ TypeOK /\ "cmd" \in Threads
        /\ StandingVersion' \in {StandingVersion, serverVer}
    BY Constants, UnpackKeepsCell DEF ChannelInv, Negotiates
  <1>1. UNCHANGED <<mainPc, command, job, response, toServer, late, serverVer, connect, lost>>
    <2>1. CASE Unpack(t)
      BY <2>1 DEF Unpack, UnpackMajor, UnpackMinor, UnpackParams, UnpackTest, UnpackSuffix,
         UnpackFrame, ListenFrame, mainVars, responseVars, serverVars
    <2>2. CASE DataTooLong
      BY <2>2 DEF DataTooLong, TooLong, mainVars, responseVars, serverVars
    <2> QED
      BY <2>1, <2>2
  <1>2. in' = in \/ \E kind \in {"FRAMEOFDATA", "MODELDEF"} : Take(t, kind)
    <2>1. CASE Unpack(t)
      BY <2>1 DEF Unpack, UnpackMajor, UnpackMinor, UnpackParams, UnpackTest, UnpackSuffix
    <2>2. CASE t = "data" /\ DataTooLong
      BY <2>2 DEF DataTooLong, TooLong
    <2> QED
      BY <2>1, <2>2
  <1>3. \/ in'["cmd"] = in["cmd"]
        \/ /\ in["cmd"] \in Seq(Datagrams) /\ in["cmd"] # <<>> /\ in'["cmd"] = Tail(in["cmd"])
           /\ Head(in["cmd"]).kind # "SERVERINFO"
    BY <1>0, <1>2, TakesHead
  <1>4. Waiting' \subseteq Waiting \cup {Nothing} /\ ~IsAnswer(Nothing)
    BY <1>3, TailWaits DEF Waiting, IsAnswer, Nothing, Datagram
  <1>5. HasInfo(in["cmd"]) => HasInfo(in["cmd"])'
    BY <1>3, TailKeeps DEF HasInfo
  <1>6. AnnouncedInv'
    <2>1. Next
      BY DEF Next
    <2> QED
      BY <1>1, <1>5, <2>1, AnnouncedOn DEF RestInv
  <1>7. JobInv' /\ Sent' \subseteq Sent
    BY <1>1 DEF RestInv, JobInv, Sent
  <1>8. StandsInv'
    BY <1>0, <1>1, <1>4, <1>7, StandsOn DEF RestInv
  <1> QED
    BY <1>6, <1>7, <1>8 DEF RestInv

\* The server's answer to a change unsettles the version only if it accepts.
LEMMA ServerKeepsRest == ChannelInv /\ RestInv /\ ServerAnswers => RestInv'
  <1> SUFFICES ASSUME ChannelInv, RestInv, ServerAnswers PROVE RestInv'
    OBVIOUS
  <1> DEFINE c == Head(toServer)
  <1>1. /\ c = toServer[1] /\ 1 \in 1..Len(toServer)
        /\ \A i \in 1..Len(toServer') :
              i + 1 \in 1..Len(toServer) /\ i + 1 # 1 /\ toServer'[i] = toServer[i + 1]
    BY ServerSends
  <1>2. PICK m \in Datagrams :
           /\ in["cmd"] \in Seq(Datagrams) /\ in'["cmd"] = Append(in["cmd"], m)
           /\ IsAnswer(m) => Awaited(c)
           /\ c.kind = "query" /\ IsAnswer(m) => m.kind = "STRING"
           /\ serverVer' = serverVer \/ (c.kind = "set" /\ ~Refusal(m))
    BY ServerSends
  <1>3. /\ UNCHANGED <<mainPc, command, job, response, version, pc, msg, late, connect, lost>>
        /\ StandingVersion' = StandingVersion
    BY DEF ServerAnswers, ClientVars, mainVars, responseVars, versionVars, threadVars,
       StandingVersion
  <1>4. c \in Sent /\ Sent' \subseteq Sent /\ Waiting' \subseteq Waiting \cup {m}
    BY <1>1, <1>2, AppendWaits DEF Sent
  <1>5. JobInv' /\ AnnouncedInv'
    <2>1. HasInfo(in["cmd"]) => HasInfo(in["cmd"])'
      <3>1. HasInfo(in["cmd"]) => HasInfo(Append(in["cmd"], m))
        BY <1>2, AppendKeeps
      <3> QED
        BY <1>2, <3>1 DEF HasInfo
    <2> QED
      BY <1>3, <2>1, AnnouncedOn DEF RestInv, JobInv, Next
  <1>6. ASSUME ~late PROVE StandsInv'
    <2>1. /\ \A d \in Sent : Awaited(d) =>
                (d.kind = "set" <=> job = "set") /\ (job = "confirm" => d.kind = "query")
          /\ job = "confirm" => \A d \in Waiting : IsAnswer(d) => d.kind = "STRING"
          /\ Settled => StandingVersion \in {NoVersion, serverVer}
      BY <1>6 DEF RestInv, StandsInv
    <2>2. job = "confirm" => \A d \in Waiting' : IsAnswer(d) => d.kind = "STRING"
      BY <1>2, <1>4, <2>1
    <2>3. HasSet(toServer)' => HasSet(toServer)
      BY <1>4, UnderWay DEF HasSet, Sent
    <2>4. HasRefusal(in["cmd"])' => HasRefusal(in["cmd"]) \/ Refusal(m)
      BY <1>4, UnderWay DEF HasRefusal, Waiting
    <2>5. CASE serverVer' = serverVer
      <3>1. Refusal(m) /\ job = "set" => HasSet(toServer)
        BY <1>2, <1>4, <2>1, UnderWay DEF Refusal, IsAnswer
      <3>2. Settled' => Settled
        BY <1>3, <2>3, <2>4, <3>1 DEF Settled
      <3> QED
        BY <1>3, <1>4, <2>1, <2>2, <2>5, <3>2 DEF StandsInv
    <2>6. CASE c.kind = "set" /\ ~Refusal(m)
      <3>1. /\ mainPc = "wait" /\ response = NoResponse /\ job = "set" /\ NoAnswer(in["cmd"])
            /\ \A i \in 1..Len(toServer) : Awaited(toServer[i]) => i = 1
        BY <1>1, <1>4, <1>6, <2>1, <2>6 DEF ChannelInv, AnswerInv, Awaited, NoAnswer
      <3>2. ~HasSet(toServer)' /\ ~HasRefusal(in["cmd"])
        BY <1>1, <3>1 DEF HasSet, Awaited, NoAnswer, HasRefusal, Refusal, IsAnswer
      <3>3. ~Settled'
        BY <1>3, <2>4, <2>6, <3>1, <3>2 DEF Settled, NoResponse
      <3> QED
        BY <1>3, <1>4, <2>1, <3>1, <3>3 DEF StandsInv
    <2> QED
      BY <1>2, <2>5, <2>6
  <1>7. late => StandsInv'
    BY <1>3 DEF StandsInv
  <1> QED
    BY <1>5, <1>6, <1>7 DEF RestInv

\* Connection, frames, and what the network does to datagrams: an announcement goes on
\* waiting unless it is lost.
LEMMA NetworkKeepsRest ==
    /\ ChannelInv /\ CellInv /\ RestInv
    /\ ServerConnect \/ ServerFrame \/ Lose \/ Overtake \/ Duplicate
    => RestInv'
  <1> SUFFICES ASSUME ChannelInv, CellInv, RestInv,
                      ServerConnect \/ ServerFrame \/ Lose \/ Overtake \/ Duplicate
               PROVE  RestInv'
    OBVIOUS
  <1>0. /\ serverVer \in Known /\ changeDue \in BOOLEAN /\ TypeOK /\ Next
        /\ "cmd" \in Threads /\ "data" \in Threads /\ in["cmd"] \in Seq(Datagrams)
        /\ StandingVersion' \in {StandingVersion, serverVer}
    BY Constants, NetworkKeepsCell DEF ChannelInv, TypeOK, NetTypes, Next, Negotiates
  <1>1. /\ UNCHANGED <<mainPc, command, job, response, serverVer>> /\ (~late' => ~late)
        /\ ~lost' => ~lost
    <2>1. CASE Duplicate
      BY <2>1 DEF Duplicate, mainVars, responseVars, serverVars
    <2>2. CASE ~Duplicate
      BY <2>2 DEF ServerConnect, ServerFrame, Lose, Overtake, ClientVars, mainVars, responseVars,
         serverVars
    <2> QED
      BY <2>1, <2>2
  <1>2. JobInv'
    BY <1>1 DEF RestInv, JobInv
  <1>3. CASE ServerConnect
    <2>1. /\ Info(serverVer) \in Datagrams /\ Info(serverVer).kind = "SERVERINFO"
          /\ in'["cmd"] = Append(in["cmd"], Info(serverVer)) /\ toServer' = toServer
      BY <1>0, <1>3, Shapes DEF ServerConnect, Deliver, TypeOK, NetTypes
    <2>2. HasInfo(Append(in["cmd"], Info(serverVer)))
      BY <1>0, <2>1, AppendKeeps
    <2>3. AnnouncedInv'
      BY <2>1, <2>2 DEF AnnouncedInv, HasInfo
    <2>4. /\ Waiting' \subseteq Waiting \cup {Info(serverVer)} /\ ~IsAnswer(Info(serverVer))
          /\ Sent' \subseteq Sent
      BY <2>1, AppendWaits DEF IsAnswer, Sent
    <2>5. StandsInv'
      BY <1>0, <1>1, <2>4, StandsOn DEF RestInv
    <2> QED
      BY <1>2, <2>3, <2>5 DEF RestInv
  <1>4. CASE ServerFrame
    <2>1. UNCHANGED <<toServer, connect>> /\ Sent' \subseteq Sent
      BY <1>4 DEF ServerFrame, Sent
    <2>2. \E m \in Datagrams : /\ ~IsAnswer(m)
                               /\ in'["cmd"] = in["cmd"] \/ in'["cmd"] = Append(in["cmd"], m)
      <3> DEFINE f == Frame(serverVer, changeDue, 0)
      <3>1. f \in Datagrams /\ ~IsAnswer(f)
        BY <1>0, Shapes DEF IsAnswer
      <3>2. in'["cmd"] = in["cmd"] \/ in'["cmd"] = Append(in["cmd"], f)
        BY <1>0, <1>4 DEF ServerFrame, Deliver, TypeOK, NetTypes
      <3> QED
        BY <3>1, <3>2
    <2>3. PICK m \in Datagrams : /\ ~IsAnswer(m)
                                 /\ in'["cmd"] = in["cmd"] \/ in'["cmd"] = Append(in["cmd"], m)
      BY <2>2
    <2>4. HasInfo(in["cmd"]) => HasInfo(in["cmd"])'
      <3>1. HasInfo(in["cmd"]) => HasInfo(Append(in["cmd"], m))
        BY <1>0, AppendKeeps
      <3> QED
        BY <2>3, <3>1 DEF HasInfo
    <2>5. AnnouncedInv'
      BY <1>0, <1>1, <2>1, <2>4, AnnouncedOn DEF RestInv
    <2>6. Waiting' \subseteq Waiting \cup {m}
      BY <2>3, AppendWaits DEF Waiting
    <2>7. StandsInv'
      BY <1>0, <1>1, <2>1, <2>3, <2>6, StandsOn DEF RestInv
    <2> QED
      BY <1>2, <2>5, <2>7 DEF RestInv
  <1>5. CASE Lose \/ Overtake \/ Duplicate
    <2>1. Waiting' \subseteq Waiting \cup {Nothing} /\ ~IsAnswer(Nothing) /\ Sent' \subseteq Sent
      BY <1>5, NetworkMakesNothing DEF IsAnswer, Nothing, Datagram
    <2>2. StandsInv'
      BY <1>0, <1>1, <2>1, StandsOn DEF RestInv
    <2>3. CASE Lose
      <3>1. lost' = TRUE
        BY <2>3 DEF Lose
      <3> QED
        BY <1>2, <2>2, <3>1 DEF RestInv, AnnouncedInv
    <2>4. CASE Overtake \/ Duplicate
      <3>1. connect' = connect
        BY <2>4 DEF Overtake, Duplicate
      <3>2. \/ in'["cmd"] = in["cmd"]
            \/ \E i \in 1..(Len(in["cmd"]) - 1) : in'["cmd"] = Swap(in["cmd"], i)
            \/ \E i \in 1..Len(in["cmd"]) : in'["cmd"] = Append(in["cmd"], in["cmd"][i])
        BY <1>0, <2>4 DEF Overtake, Duplicate, Deliver, TypeOK, NetTypes
      <3>3. HasInfo(in["cmd"]) => HasInfo(in["cmd"])'
        BY <1>0, <3>2, InfoWaitsOn
      <3>4. AnnouncedInv'
        BY <1>0, <1>1, <3>1, <3>3, AnnouncedOn DEF RestInv
      <3> QED
        BY <1>2, <2>2, <3>4 DEF RestInv
    <2> QED
      BY <1>5, <2>3, <2>4
  <1> QED
    BY <1>3, <1>4, <1>5

LEMMA RestStep == ChannelInv /\ CellInv /\ RestInv /\ [Next]_vars => RestInv'
  <1>1. RestInv /\ UNCHANGED vars => RestInv'
    BY DEF vars, mainVars, responseVars, versionVars, threadVars, serverVars, netVars, RestInv,
       JobInv, AnnouncedInv, HasInfo, StandsInv, Sent, Waiting, Settled, HasSet, HasRefusal,
       StandingVersion
  <1> QED
    BY <1>1, MainKeepsRest, AnswersKeepRest, UnpackKeepsRest, ServerKeepsRest, NetworkKeepsRest
       DEF Next, Terminated

\* Which version the client stands by at each stage of a change.
THEOREM RestInvariant == Spec => []RestInv
  BY RestInit, RestStep, ChannelInvariant, CellInvariant, PTL DEF Spec

\* At rest the client holds the server's version, in whatever order the datagrams came,
\* unless a command timed out or a datagram was lost or came twice: refused changes are not
\* believed, accepted ones are.
THEOREM FollowsAtRest == Spec => []VersionFollowsServer
  <1>1. RestInv => VersionFollowsServer
    <2> SUFFICES ASSUME RestInv, AtRest, ~late, ~lost PROVE version = serverVer
      BY DEF VersionFollowsServer
    <2>1. StandingVersion \in {NoVersion, serverVer} /\ StandingVersion = version
      BY DEF AtRest, RestInv, JobInv, StandsInv, Settled, StandingVersion
    <2>2. ~HasInfo(in["cmd"])
      BY DEF AtRest, HasInfo
    <2> QED
      BY <2>1, <2>2 DEF AtRest, RestInv, AnnouncedInv
  <1> QED
    BY <1>1, RestInvariant, PTL

-----------------------------------------------------------------------------
(* The mark of a pending change                                             *)

\* A change is marked on a connection that offers it only; a frame whose unpacking had
\* begun when it was marked is read with its own version.
MarkInv ==
    /\ pending => unicast
    /\ pending /\ ~late /\ pc["cmd"] = "suffix" => use["cmd"] = msg["cmd"].ver

LEMMA MarkInit == Init => MarkInv
  BY DEF Init, MarkInv

\* Only keys '3' and '4' mark a change, and only the last test lets a frame through.
LEMMA MarkedBy ==
    ASSUME ChannelInv, [Next]_vars
    PROVE  /\ unicast' = unicast /\ (late => late')
           /\ pending' => pending \/ \E v \in UserVersions : KeyBitstream(v)
           /\ \/ UNCHANGED <<pc, msg, use>>
              \/ pc'["cmd"] # "suffix"
              \/ UNCHANGED <<pc["cmd"], msg["cmd"], use["cmd"]>>
              \/ ~pending /\ UNCHANGED pending
  <1>0. TypeOK /\ "cmd" \in Threads /\ "data" \in Threads /\ pending \in BOOLEAN
    BY Constants DEF ChannelInv, TypeOK, VersionTypes
  <1>1. unicast' = unicast /\ (late => late')
    BY LateStays
  <1>2. ASSUME NEW t \in Threads, Unpack(t)
        PROVE  /\ pending' => pending
               /\ \/ pc'["cmd"] # "suffix"
                  \/ UNCHANGED <<pc["cmd"], msg["cmd"], use["cmd"]>>
                  \/ ~pending /\ UNCHANGED pending
    <2>1. pending' => pending
      BY <1>0, <1>2 DEF Unpack, UnpackMajor, UnpackMinor, UnpackParams, UnpackTest, UnpackSuffix
    <2>2. CASE t = "data"
      BY <1>0, <1>2, <2>2 DEF Unpack, UnpackMajor, UnpackMinor, UnpackParams, UnpackTest,
         UnpackSuffix, Done, Goto, TypeOK, ThreadTypes
    <2>3. CASE t = "cmd" /\ UnpackTest("cmd")
      BY <1>0, <2>3, CmdGoes DEF UnpackTest
    <2>4. CASE t = "cmd" /\ ~UnpackTest("cmd")
      <3>1. pc'["cmd"] \in {"recv", "minor", "params", "test"}
        BY <1>0, <1>2, <2>4, CmdGoes DEF Unpack, UnpackMajor, UnpackMinor, UnpackParams,
           UnpackSuffix
      <3> QED
        BY <2>1, <3>1
    <2> QED
      BY <2>1, <2>2, <2>3, <2>4 DEF Threads
  <1>3. ASSUME Answers
        PROVE  /\ pending' = pending
               /\ pc'["cmd"] \in {"infoMinor", "infoCan", "tokenMinor", "recv"}
    <2>1. pending' = pending
      BY <1>3 DEF Answers, ServerInfo, ServerInfoMinor, ServerInfoCanChange, ResponseNumber,
         ResponseString, ResponseStringMinor, Unrecognized
    <2>2. CASE ResponseNumber \/ Unrecognized
      BY <2>2 DEF ResponseNumber, Unrecognized, Take, At, threadVars
    <2>3. CASE ~(ResponseNumber \/ Unrecognized)
      BY <1>0, <1>3, <2>3, CmdGoes DEF Answers, ServerInfo, ServerInfoMinor, ServerInfoCanChange,
         ResponseString, ResponseStringMinor
    <2> QED
      BY <2>1, <2>2, <2>3
  <1>4. ASSUME Main PROVE UNCHANGED <<pc, msg, use>>
                          /\ (pending' => pending \/ \E v \in UserVersions : KeyBitstream(v))
    BY <1>4 DEF Main, StartVersion, StartConnect, StartFrame, KeyCommand, KeyVersion,
       KeyDescriptions, KeyQuit, SendTo, ReturnToKeys, ReturnSetFailed, ReturnSetDone, MainFrame,
       threadVars, KeyBitstream
  <1>5. ASSUME \/ DataTooLong \/ ServerConnect \/ ServerAnswers \/ ServerFrame
               \/ Lose \/ Overtake \/ Duplicate \/ UNCHANGED vars
        PROVE  UNCHANGED <<pc, msg, use, pending>>
    BY <1>5 DEF DataTooLong, TooLong, ServerConnect, ServerAnswers, ServerFrame, Lose, Overtake,
       Duplicate, ClientVars, threadVars, vars
  <1> QED
    BY <1>1, <1>2, <1>3, <1>4, <1>5 DEF Next, Terminated

\* When a change is marked, what is being unpacked is of the version it is read with.
LEMMA MarkStep ==
    ASSUME orderly, ChannelInv, FollowInv, CellInv, MarkInv, [Next]_vars
    PROVE  MarkInv'
  <1>1. CASE \E v \in UserVersions : KeyBitstream(v)
    <2>1. /\ mainPc = "keys" /\ canChange /\ UNCHANGED <<pc, msg, use, late, unicast>>
      BY <1>1 DEF KeyBitstream, Idle, MainFrame, threadVars
    <2>2. unicast
      BY <2>1 DEF CellInv, StandInv
    <2>3. ASSUME ~late, pc["cmd"] = "suffix" PROVE use["cmd"] = msg["cmd"].ver
      <3>1. msg["cmd"].kind = "FRAMEOFDATA" /\ use["cmd"] = version
        BY <2>3 DEF FollowInv, UnpackInv
      <3>2. version # NoVersion
        BY <2>1, <2>3 DEF CellInv, StandInv, StandingVersion
      <3>3. Current
        BY <2>1, <2>3, AtKeys
      <3> QED
        BY <2>3, <3>1, <3>2, <3>3 DEF Current, Tells, Telling
    <2> QED
      BY <2>1, <2>2, <2>3 DEF MarkInv
  <1>2. CASE ~ \E v \in UserVersions : KeyBitstream(v)
    BY <1>2, MarkedBy DEF MarkInv
  <1> QED
    BY <1>1, <1>2

\* The frame that is being unpacked when a change is marked is read with its own
\* version, where the network keeps the order.
THEOREM MarkInvariant == Spec => [](orderly => MarkInv)
  <1>1. ChannelInv /\ (orderly => FollowInv) /\ CellInv /\ (orderly => MarkInv) /\ [Next]_vars
           => (orderly => MarkInv)'
    BY MarkStep, OrderStays
  <1> QED
    BY <1>1, MarkInit, ChannelInvariant, FollowInvariant, CellInvariant, PTL DEF Spec

\* Outside Edit mode, and until a command times out, only a command that failed or a
\* frame that announces the change ends the skipping: not a frame that was being
\* unpacked when the change was marked.
THEOREM SkippingEndsOnlyForCause == Spec => SkippingEndsForCause
  <1>1. ASSUME ChannelInv, FollowInv, MarkInv, Next, orderly, pending, ~pending', ~Editing, ~late
        PROVE  \/ mainPc = "wait" /\ mainPc' = "keys"
               \/ \E t \in Threads : pc'[t] # pc[t] /\ msg[t].changed
    <2>0. TypeOK
      BY <1>1 DEF ChannelInv
    <2>1. CASE Main
      BY <1>1, <2>1 DEF Main, StartVersion, StartConnect, StartFrame, KeyCommand, KeyVersion,
         KeyDescriptions, KeyQuit, KeyBitstream, SendTo, Return, ReturnToKeys, ReturnSetFailed,
         ReturnSetDone, MainFrame, BackToKeys
    <2>2. ASSUME NEW t \in Threads, Unpack(t)
          PROVE  pc'[t] # pc[t] /\ msg[t].changed
      <3>1. CASE UnpackParams(t)
        BY <1>1, <2>0, <3>1 DEF UnpackParams, At, Goto, TypeOK, ThreadTypes
      <3>2. CASE UnpackSuffix(t)
        <4>1. pc[t] = "suffix" /\ t = "cmd"
          BY <1>1, <3>2 DEF UnpackSuffix, At, MarkInv, FollowInv, UnpackInv, Threads
        <4>2. use[t] = msg[t].ver
          BY <1>1, <4>1 DEF MarkInv
        <4> QED
          BY <1>1, <3>2, <4>2 DEF UnpackSuffix
      <3> QED
        BY <1>1, <2>2, <3>1, <3>2 DEF Unpack, UnpackMajor, UnpackMinor, UnpackTest
    <2>3. ASSUME ~Main, ~ \E t \in Threads : Unpack(t) PROVE FALSE
      <3>1. CASE Answers
        BY <1>1, <3>1 DEF Answers, ServerInfo, ServerInfoMinor, ServerInfoCanChange,
           ResponseNumber, ResponseString, ResponseStringMinor, Unrecognized
      <3>2. CASE DataTooLong \/ ServerConnect \/ ServerAnswers \/ ServerFrame \/ Lose
        <4>1. pending' = pending
          BY <3>2 DEF DataTooLong, TooLong, ServerConnect, ServerAnswers, ServerFrame, Lose,
             ClientVars
        <4> QED
          BY <1>1, <4>1
      <3>3. CASE Terminated
        BY <1>1, <3>3 DEF Terminated, vars
      <3> QED
        BY <1>1, <2>3, <3>1, <3>2, <3>3 DEF Next, Overtake, Duplicate
    <2> QED
      BY <2>1, <2>2, <2>3
  <1>2. ChannelInv /\ (orderly => FollowInv) /\ (orderly => MarkInv) /\ [Next]_vars
           => [orderly /\ pending /\ ~pending' /\ ~Editing /\ ~late
                 => \/ mainPc = "wait" /\ mainPc' = "keys"
                    \/ \E t \in Threads : pc'[t] # pc[t] /\ msg[t].changed]_vars
    BY <1>1
  <1> QED
    BY <1>2, ChannelInvariant, FollowInvariant, MarkInvariant, PTL
    DEF Spec, SkippingEndsForCause

-----------------------------------------------------------------------------
(* What ends the skipping is under way                                      *)

HasChanged(q) == \E i \in 1..Len(q) : q[i].changed
OnlyFramesAnnounce(q) == \A i \in 1..Len(q) : q[i].changed => q[i].kind = "FRAMEOFDATA"

\* The server has not decided on a change yet, or has refused it.
ChangeOpen ==
    /\ job = "set"
    /\ mainPc = "send" \/ response = 1 \/ HasSet(toServer) \/ HasRefusal(in["cmd"])

\* The frame that announces a change is due, waits, or is not unpacked up to its params.
AnnouncementUnderWay ==
    \/ changeDue
    \/ HasChanged(in["cmd"])
    \/ pc["cmd"] \in {"minor", "params"} /\ msg["cmd"].changed

\* While frames are skipped the change is open or its announcement under way: none of
\* the three clears that end the skipping comes between the two.
SkipInv ==
    /\ OnlyFramesAnnounce(in["cmd"])
    /\ pc["cmd"] = "minor" /\ msg["cmd"].changed => msg["cmd"].kind = "FRAMEOFDATA"
    /\ pending /\ ~late /\ ~lost => ChangeOpen \/ AnnouncementUnderWay

LEMMA SkipInit == Init => SkipInv
  BY Constants DEF Init, SkipInv, OnlyFramesAnnounce

\* What the first of a queue takes with it.
LEMMA TailAnnounces ==
    ASSUME NEW q \in Seq(Datagrams), q # <<>>
    PROVE  /\ HasChanged(q) => HasChanged(Tail(q)) \/ Head(q).changed
           /\ HasRefusal(q) => HasRefusal(Tail(q)) \/ Refusal(Head(q))
           /\ OnlyFramesAnnounce(q) =>
                 /\ OnlyFramesAnnounce(Tail(q))
                 /\ Head(q).changed => Head(q).kind = "FRAMEOFDATA"
           /\ HasRefusal(q) => \E i \in 1..Len(q) : IsAnswer(q[i])
           /\ IsAnswer(Head(q)) => \E i \in 1..Len(q) : IsAnswer(q[i])
  <1>1. Head(q) = q[1] /\ 1 \in 1..Len(q) /\ Len(q) \in Nat /\ Len(Tail(q)) = Len(q) - 1
    OBVIOUS
  <1>2. \A i \in 1..Len(Tail(q)) : i + 1 \in 1..Len(q) /\ Tail(q)[i] = q[i + 1]
    OBVIOUS
  <1>3. \A i \in 1..Len(q) : i = 1 \/ (i - 1 \in 1..Len(Tail(q)) /\ Tail(q)[i - 1] = q[i])
    OBVIOUS
  <1>4. HasChanged(q) => HasChanged(Tail(q)) \/ Head(q).changed
    BY <1>1, <1>3 DEF HasChanged
  <1>5. HasRefusal(q) => HasRefusal(Tail(q)) \/ Refusal(Head(q))
    BY <1>1, <1>3 DEF HasRefusal
  <1>6. OnlyFramesAnnounce(q) => OnlyFramesAnnounce(Tail(q))
                                 /\ (Head(q).changed => Head(q).kind = "FRAMEOFDATA")
    BY <1>1, <1>2 DEF OnlyFramesAnnounce
  <1>7. /\ HasRefusal(q) => \E i \in 1..Len(q) : IsAnswer(q[i])
        /\ IsAnswer(Head(q)) => \E i \in 1..Len(q) : IsAnswer(q[i])
    BY <1>1 DEF HasRefusal, Refusal, IsAnswer
  <1> QED
    BY <1>4, <1>5, <1>6, <1>7

\* What is delivered adds to it.
LEMMA AppendAnnounces ==
    ASSUME NEW q \in Seq(Datagrams), NEW m \in Datagrams
    PROVE  /\ HasChanged(q) \/ m.changed => HasChanged(Append(q, m))
           /\ HasRefusal(q) \/ Refusal(m) => HasRefusal(Append(q, m))
           /\ OnlyFramesAnnounce(q) /\ (m.changed => m.kind = "FRAMEOFDATA")
                 => OnlyFramesAnnounce(Append(q, m))
  <1> DEFINE r == Append(q, m)
  <1>1. /\ Len(q) \in Nat /\ Len(r) = Len(q) + 1 /\ r[Len(q) + 1] = m
        /\ \A i \in 1..Len(q) : r[i] = q[i]
    OBVIOUS
  <1> HIDE DEF r
  <1>2. /\ \A i \in 1..Len(q) : i \in 1..Len(r) /\ r[i] = q[i]
        /\ Len(q) + 1 \in 1..Len(r)
        /\ \A i \in 1..Len(r) : i \in 1..Len(q) \/ i = Len(q) + 1
    BY <1>1
  <1>3. HasChanged(q) \/ m.changed => HasChanged(r)
    BY <1>1, <1>2 DEF HasChanged
  <1>4. HasRefusal(q) \/ Refusal(m) => HasRefusal(r)
    BY <1>1, <1>2 DEF HasRefusal
  <1>5. OnlyFramesAnnounce(q) /\ (m.changed => m.kind = "FRAMEOFDATA") => OnlyFramesAnnounce(r)
    BY <1>1, <1>2 DEF OnlyFramesAnnounce
  <1> QED
    BY <1>3, <1>4, <1>5 DEF r

\* The same of the commands on their way.
LEMMA SetOnItsWay ==
    ASSUME NEW q \in Seq(Commands)
    PROVE  /\ \A c \in Commands : HasSet(q) \/ c.kind = "set" => HasSet(Append(q, c))
           /\ q # <<>> /\ HasSet(q) => HasSet(Tail(q)) \/ Head(q).kind = "set"
  <1>1. ASSUME NEW c \in Commands, HasSet(q) \/ c.kind = "set" PROVE HasSet(Append(q, c))
    <2>1. /\ Len(Append(q, c)) = Len(q) + 1 /\ Append(q, c)[Len(q) + 1] = c /\ Len(q) \in Nat
          /\ \A i \in 1..Len(q) : Append(q, c)[i] = q[i]
      OBVIOUS
    <2>2. \A i \in 1..Len(q) : i \in 1..(Len(q) + 1)
      BY <2>1
    <2> QED
      BY <1>1, <2>1, <2>2 DEF HasSet
  <1>2. ASSUME q # <<>>, HasSet(q) PROVE HasSet(Tail(q)) \/ Head(q).kind = "set"
    <2>1. \A i \in 1..Len(q) : q[i] = Head(q)
                               \/ (i - 1 \in 1..Len(Tail(q)) /\ Tail(q)[i - 1] = q[i])
      BY <1>2
    <2> QED
      BY <1>2, <2>1 DEF HasSet
  <1> QED
    BY <1>1, <1>2

\* As long as a change is open nothing has been answered, but by a refusal.
LEMMA OpenUnanswered ==
    ASSUME ChannelInv, FollowInv, ~late, mainPc = "wait", ChangeOpen
    PROVE  response \in {NoResponse, 1}
  <1>0. AnswerInv /\ in["cmd"] \in Seq(Datagrams) /\ "cmd" \in Threads
    BY Constants DEF ChannelInv, TypeOK, NetTypes
  <1>1. HasSet(toServer) => response = NoResponse
    BY <1>0 DEF HasSet, AnswerInv, Awaited
  <1>2. HasRefusal(in["cmd"]) => response = NoResponse
    BY <1>0 DEF HasRefusal, Refusal, IsAnswer, AnswerInv
  <1> QED
    BY <1>1, <1>2 DEF ChangeOpen

\* Main: a change is open from its key to the return of SendCommand.
LEMMA MainKeepsSkip ==
    ChannelInv /\ FollowInv /\ SkipInv /\ Main => SkipInv'
  <1> SUFFICES ASSUME ChannelInv, FollowInv, SkipInv, Main PROVE SkipInv'
    OBVIOUS
  <1>1. UNCHANGED <<pc, msg, in, lost, changeDue>>
    BY DEF Main, StartVersion, StartConnect, StartFrame, KeyCommand, KeyVersion, KeyDescriptions,
       KeyQuit, KeyBitstream, SendTo, ReturnToKeys, ReturnSetFailed, ReturnSetDone, MainFrame,
       threadVars, serverVars
  <1>2. AnnouncementUnderWay' = AnnouncementUnderWay
    BY <1>1 DEF AnnouncementUnderWay, HasChanged
  <1>3. ASSUME pending', ~late', ~lost' PROVE ChangeOpen' \/ AnnouncementUnderWay'
    <2>n. [Next]_vars
      BY DEF Next
    <2>0. ~late
      BY <1>3, <2>n, MarkedBy
    <2>1. CASE \E v \in UserVersions : KeyBitstream(v)
      BY <2>1 DEF KeyBitstream, StartCommand, ChangeOpen
    <2>2. CASE ~ \E v \in UserVersions : KeyBitstream(v)
      <3>1. pending
        BY <1>3, <2>n, <2>2, MarkedBy
      <3>2. CASE AnnouncementUnderWay
        BY <1>2, <3>2
      <3>3. CASE ChangeOpen
        <4>1. job = "set" /\ mainPc \notin {"start", "connect", "keys"}
          BY <3>3 DEF ChangeOpen, FollowInv, JobInv
        <4>2. CASE SendTo
          <5>1. command \in Commands /\ command.kind = "set" /\ toServer \in Seq(Commands)
            BY <4>1, <4>2 DEF SendTo, FollowInv, JobInv, ChannelInv, CommandInv, TypeOK, NetTypes
          <5>2. HasSet(toServer') /\ job' = job
            BY <4>2, <5>1, SetOnItsWay DEF SendTo
          <5> QED
            BY <4>1, <5>2 DEF ChangeOpen, HasSet
        <4>3. ASSUME ReturnSetDone PROVE FALSE
          <5>1. mainPc = "wait" /\ response = 0
            BY <4>3 DEF ReturnSetDone, Return
          <5> QED
            BY <2>0, <3>3, <5>1, OpenUnanswered DEF NoResponse
        <4> QED
          BY <1>3, <2>2, <4>1, <4>2, <4>3 DEF Main, StartVersion, StartConnect, KeyCommand,
             KeyVersion, KeyDescriptions, KeyQuit, Idle, ReturnToKeys, ReturnSetFailed
      <3> QED
        BY <1>3, <1>1, <2>0, <3>1, <3>2, <3>3 DEF SkipInv
    <2> QED
      BY <2>1, <2>2
  <1> QED
    BY <1>1, <1>3 DEF SkipInv, OnlyFramesAnnounce

\* The command listener: an announcement goes from the socket into its hand, and from
\* there to the flag.
LEMMA AnswersKeepSkip ==
    ChannelInv /\ FollowInv /\ SkipInv /\ Answers => SkipInv'
  <1> SUFFICES ASSUME ChannelInv, FollowInv, SkipInv, Answers PROVE SkipInv'
    OBVIOUS
  <1> DEFINE head == Head(in["cmd"])
  <1>1. /\ UNCHANGED <<mainPc, job, toServer, late, lost, pending, changeDue>>
    BY DEF Answers, ServerInfo, ServerInfoMinor, ServerInfoCanChange, ResponseNumber,
       ResponseString, ResponseStringMinor, Unrecognized, ListenFrame, mainVars, serverVars
  <1>2. TypeOK /\ AnswerInv /\ in["cmd"] \in Seq(Datagrams)
    BY Constants DEF ChannelInv, TypeOK, NetTypes
  <1>3. CASE ServerInfoMinor \/ ServerInfoCanChange \/ ResponseStringMinor
    <2>1. /\ pc["cmd"] \in {"infoMinor", "infoCan", "tokenMinor"}
          /\ pc'["cmd"] \in {"infoCan", "recv"} /\ UNCHANGED <<in, response>>
      BY <1>2, <1>3, CmdGoes DEF ServerInfoMinor, ServerInfoCanChange, ResponseStringMinor, At,
         responseVars
    <2> QED
      BY <1>1, <2>1 DEF SkipInv, OnlyFramesAnnounce, ChangeOpen, AnnouncementUnderWay, HasChanged,
         HasSet, HasRefusal
  <1>4. CASE ServerInfo \/ ResponseNumber \/ ResponseString \/ Unrecognized
    <2>1. PICK kind \in {"SERVERINFO", "NUMBER", "STRING", "UNRECOGNIZED"} :
             /\ Take("cmd", kind)
             /\ kind \in {"SERVERINFO"} => response' = response
             /\ Refusal(head) => response' = 1
      <3>1. CASE ServerInfo
        BY <1>2, <3>1, Constants, TakesHead DEF ServerInfo, responseVars, Refusal
      <3>2. CASE ResponseNumber
        BY <1>2, <3>2, Constants, TakesHead DEF ResponseNumber, Refusal
      <3>3. CASE ResponseString
        BY <1>2, <3>3, Constants, TakesHead DEF ResponseString, Refusal
      <3>4. CASE Unrecognized
        BY <1>2, <3>4, TakesHead DEF Unrecognized
      <3> QED
        BY <1>4, <3>1, <3>2, <3>3, <3>4
    <2>2. /\ in["cmd"] # <<>> /\ in'["cmd"] = Tail(in["cmd"]) /\ head.kind = kind
          /\ pc["cmd"] = "recv"
      BY <1>2, <2>1, Constants, TakesHead
    <2>3. pc'["cmd"] \in {"infoMinor", "infoCan", "tokenMinor", "recv"}
      BY <1>2, <1>4, <2>2, CmdGoes DEF ServerInfo, ResponseNumber, ResponseString, Unrecognized,
         threadVars
    <2>4. OnlyFramesAnnounce(in'["cmd"]) /\ ~head.changed
      BY <1>2, <2>1, <2>2, TailAnnounces DEF SkipInv
    <2>5. HasChanged(in["cmd"]) => HasChanged(in'["cmd"])
      BY <1>2, <2>2, <2>4, TailAnnounces
    <2>6. ASSUME ~late, ChangeOpen PROVE ChangeOpen'
      <3>1. CASE response = 1
        <4>1. CASE kind = "SERVERINFO"
          BY <1>1, <2>1, <2>6, <3>1, <4>1 DEF ChangeOpen
        <4>2. CASE IsAnswer(head)
          BY <1>2, <2>2, <2>6, <3>1, <4>2, TailAnnounces DEF AnswerInv, NoResponse
        <4> QED
          BY <2>2, <4>1, <4>2 DEF IsAnswer
      <3>2. CASE HasRefusal(in["cmd"])
        BY <1>1, <1>2, <2>1, <2>2, <2>6, <3>2, TailAnnounces DEF ChangeOpen, HasRefusal
      <3>3. CASE mainPc = "send" \/ HasSet(toServer)
        BY <1>1, <2>6, <3>3 DEF ChangeOpen, HasSet
      <3> QED
        BY <2>6, <3>1, <3>2, <3>3 DEF ChangeOpen
    <2>7. AnnouncementUnderWay => AnnouncementUnderWay'
      BY <1>1, <2>2, <2>5 DEF AnnouncementUnderWay, HasChanged
    <2> QED
      BY <1>1, <2>3, <2>4, <2>6, <2>7 DEF SkipInv, OnlyFramesAnnounce
  <1> QED
    BY <1>3, <1>4 DEF Answers

LEMMA UnpackKeepsSkip ==
    ChannelInv /\ SkipInv /\ Unpack("cmd") => SkipInv'
  <1> SUFFICES ASSUME ChannelInv, SkipInv, Unpack("cmd") PROVE SkipInv'
    OBVIOUS
  <1> DEFINE head == Head(in["cmd"])
  <1>1. UNCHANGED <<mainPc, job, toServer, late, lost, changeDue, response>>
    BY DEF Unpack, UnpackMajor, UnpackMinor, UnpackParams, UnpackTest, UnpackSuffix, UnpackFrame,
       ListenFrame, mainVars, serverVars, responseVars
  <1>2. TypeOK /\ in["cmd"] \in Seq(Datagrams) /\ pending \in BOOLEAN /\ "cmd" \in Threads
    BY Constants DEF ChannelInv, TypeOK, NetTypes, VersionTypes
  <1>3. CASE UnpackMajor("cmd")
    <2>1. PICK kind \in {"FRAMEOFDATA", "MODELDEF"} : Take("cmd", kind)
      BY <1>3 DEF UnpackMajor
    <2>2. /\ in["cmd"] # <<>> /\ in'["cmd"] = Tail(in["cmd"]) /\ head.kind = kind
          /\ head \in Datagrams /\ pc["cmd"] = "recv"
      BY <1>2, <2>1, TakesHead
    <2>3. /\ pc'["cmd"] = "minor" /\ UNCHANGED pending
          /\ msg'["cmd"].changed = head.changed /\ msg'["cmd"].kind = head.kind
      BY <1>2, <1>3, <2>2, CmdGoes DEF UnpackMajor, TypeOK, ThreadTypes, Datagrams
    <2>4. /\ OnlyFramesAnnounce(in'["cmd"]) /\ (head.changed => head.kind = "FRAMEOFDATA")
          /\ HasChanged(in["cmd"]) => HasChanged(in'["cmd"]) \/ head.changed
          /\ HasRefusal(in["cmd"]) => HasRefusal(in'["cmd"])
      BY <1>2, <2>2, TailAnnounces DEF SkipInv, Refusal
    <2>5. /\ AnnouncementUnderWay => AnnouncementUnderWay'
          /\ ChangeOpen => ChangeOpen'
      BY <1>1, <2>2, <2>3, <2>4 DEF AnnouncementUnderWay, ChangeOpen, HasChanged, HasSet, HasRefusal
    <2> QED
      BY <1>1, <2>3, <2>4, <2>5 DEF SkipInv, OnlyFramesAnnounce
  <1>4. CASE ~UnpackMajor("cmd")
    <2>1. UNCHANGED in
      BY <1>4 DEF Unpack, UnpackMinor, UnpackParams, UnpackTest, UnpackSuffix
    <2>2. ChangeOpen' = ChangeOpen
      BY <1>1, <2>1 DEF ChangeOpen, HasSet, HasRefusal
    <2>3. /\ pc'["cmd"] # "minor"
          /\ pending' => pending /\ (AnnouncementUnderWay => AnnouncementUnderWay')
      <3>1. CASE UnpackMinor("cmd")
        BY <1>1, <1>2, <2>1, <3>1, CmdGoes DEF UnpackMinor, At, SkipInv, AnnouncementUnderWay,
           HasChanged
      <3>2. CASE UnpackParams("cmd")
        <4>1. pc'["cmd"] = "test" /\ (pending' => pending /\ ~msg["cmd"].changed)
          BY <1>2, <3>2, CmdGoes DEF UnpackParams
        <4> QED
          BY <1>1, <2>1, <4>1 DEF AnnouncementUnderWay, HasChanged
      <3>3. CASE UnpackTest("cmd") \/ UnpackSuffix("cmd")
        <4>1. pc["cmd"] \in {"test", "suffix"} /\ pc'["cmd"] \in {"recv", "suffix"}
          BY <1>2, <3>3, CmdGoes DEF UnpackTest, UnpackSuffix, At
        <4>2. pending' => pending
          BY <1>2, <3>3 DEF UnpackTest, UnpackSuffix
        <4> QED
          BY <1>1, <2>1, <4>1, <4>2 DEF AnnouncementUnderWay, HasChanged
      <3> QED
        BY <1>4, <3>1, <3>2, <3>3 DEF Unpack
    <2> QED
      BY <1>1, <2>1, <2>2, <2>3 DEF SkipInv, OnlyFramesAnnounce
  <1> QED
    BY <1>3, <1>4

\* What the data listener does matters in a multicast session only, where no change is
\* ever marked.
LEMMA DataKeepsSkip ==
    ChannelInv /\ FollowInv /\ MarkInv /\ SkipInv /\ (Unpack("data") \/ DataTooLong)
        => SkipInv'
  <1> SUFFICES ASSUME ChannelInv, FollowInv, MarkInv, SkipInv, Unpack("data") \/ DataTooLong
               PROVE  SkipInv'
    OBVIOUS
  <1>0. TypeOK /\ "cmd" \in Threads /\ "data" \in Threads /\ pending \in BOOLEAN
    BY Constants DEF ChannelInv, TypeOK, VersionTypes
  <1>1. /\ in["data"] # <<>> \/ pc["data"] # "recv"
        /\ pending' => pending
    <2>1. CASE Unpack("data")
      BY <1>0, <2>1 DEF Unpack, UnpackMajor, UnpackMinor, UnpackParams, UnpackTest, UnpackSuffix,
         Take, At
    <2>2. CASE DataTooLong
      BY <2>2 DEF DataTooLong, TooLong, Take, At
    <2> QED
      BY <2>1, <2>2
  <1>2. ~pending'
    BY <1>1 DEF FollowInv, UnpackInv, MarkInv
  <1>3. in'["cmd"] = in["cmd"] /\ pc'["cmd"] = pc["cmd"] /\ msg'["cmd"] = msg["cmd"]
    <2>1. CASE Unpack("data")
      BY <1>0, <2>1 DEF Unpack, UnpackMajor, UnpackMinor, UnpackParams, UnpackTest,
         UnpackSuffix, Take, Done, Goto, TypeOK, NetTypes, ThreadTypes
    <2>2. CASE DataTooLong
      BY <1>0, <2>2 DEF DataTooLong, TooLong, Take, TypeOK, NetTypes, threadVars
    <2> QED
      BY <2>1, <2>2
  <1> QED
    BY <1>2, <1>3 DEF SkipInv, OnlyFramesAnnounce

\* The server and the network: an announcement that is due goes into the next frame, and
\* there is nobody but the server who decides on a change.
LEMMA NetworkKeepsSkip ==
    ChannelInv /\ MarkInv /\ SkipInv /\ (ServerConnect \/ ServerAnswers \/ ServerFrame \/ Lose)
        => SkipInv'
  <1> SUFFICES ASSUME ChannelInv, MarkInv, SkipInv,
                      ServerConnect \/ ServerAnswers \/ ServerFrame \/ Lose
               PROVE  SkipInv'
    OBVIOUS
  <1>0. /\ serverVer \in Known /\ changeDue \in BOOLEAN /\ TypeOK /\ toServer \in Seq(Commands)
        /\ "cmd" \in Threads /\ "data" \in Threads /\ in["cmd"] \in Seq(Datagrams)
    BY Constants DEF ChannelInv, TypeOK, NetTypes
  <1>1. UNCHANGED <<mainPc, job, response, late, unicast, pending, pc, msg>>
    BY DEF ServerConnect, ServerAnswers, ServerFrame, Lose, ClientVars, mainVars, responseVars,
       threadVars
  <1>2. \A m : Deliver("cmd", m) => in'["cmd"] = Append(in["cmd"], m)
    BY <1>0 DEF Deliver, TypeOK, NetTypes
  <1>3. CASE ServerConnect
    <2>1. Info(serverVer) \in Datagrams /\ ~Info(serverVer).changed
      BY <1>0, Shapes DEF Info, Datagram
    <2>2. in'["cmd"] = Append(in["cmd"], Info(serverVer)) /\ UNCHANGED <<toServer, changeDue, lost>>
      BY <1>2, <1>3 DEF ServerConnect, serverVars
    <2>3. /\ HasChanged(in["cmd"]) => HasChanged(in'["cmd"])
          /\ HasRefusal(in["cmd"]) => HasRefusal(in'["cmd"])
          /\ OnlyFramesAnnounce(in'["cmd"])
      BY <1>0, <2>1, <2>2, AppendAnnounces DEF SkipInv
    <2>4. /\ AnnouncementUnderWay => AnnouncementUnderWay'
          /\ ChangeOpen => ChangeOpen'
      BY <1>1, <2>2, <2>3 DEF AnnouncementUnderWay, ChangeOpen, HasChanged, HasSet, HasRefusal
    <2> QED
      BY <1>1, <2>2, <2>3, <2>4 DEF SkipInv, OnlyFramesAnnounce
  <1>4. CASE ServerAnswers
    <2> DEFINE c == Head(toServer)
    <2>1. /\ toServer # <<>> /\ toServer' = Tail(toServer) /\ UNCHANGED lost
          /\ c \in Commands /\ c.id \in 0..MaxCommands
      <3>1. toServer # <<>> /\ toServer' = Tail(toServer) /\ UNCHANGED lost
        BY <1>4 DEF ServerAnswers
      <3>2. c \in Commands
        BY <1>0, <3>1
      <3> QED
        BY <3>1, <3>2, CommandShape, Constants
    <2>2. \E m \in Datagrams :
             /\ Deliver("cmd", m) /\ ~m.changed
             /\ c.kind = "set" => Refusal(m) \/ changeDue'
             /\ changeDue => changeDue'
      <3>1. ASSUME NEW kind \in {"NUMBER", "STRING", "UNRECOGNIZED", "MODELDEF"},
                   NEW id \in 0..MaxCommands, NEW value \in {0, 1}, NEW v \in Known
            PROVE  /\ Answer(kind, id, value, v) \in Datagrams
                   /\ Answer(kind, id, value, v).kind = kind
                   /\ Answer(kind, id, value, v).value = value
                   /\ ~Answer(kind, id, value, v).changed
        BY Shapes DEF Answer, Datagram
      <3>2. 0 \in 0..MaxCommands /\ NoVersion \in Known
        BY Constants
      <3>3. CASE ServerRefuses(c.id) /\ UNCHANGED changeDue
        BY <1>0, <2>1, <3>1, <3>2, <3>3 DEF ServerRefuses, Refusal
      <3>4. CASE c.kind = "plain" /\ Deliver("cmd", Answer("NUMBER", c.id, 0, NoVersion))
                 /\ UNCHANGED changeDue
        BY <1>0, <2>1, <3>1, <3>2, <3>4
      <3>5. CASE Deliver("cmd", Answer("NUMBER", c.id, 0, NoVersion)) /\ changeDue' = TRUE
        BY <1>0, <2>1, <3>1, <3>2, <3>5
      <3>6. CASE c.kind = "query" /\ Deliver("cmd", Answer("STRING", c.id, 0, serverVer))
                 /\ UNCHANGED changeDue
        BY <1>0, <2>1, <3>1, <3>2, <3>6
      <3>7. CASE c.kind = "modeldef" /\ Deliver("cmd", Answer("MODELDEF", 0, 0, serverVer))
                 /\ UNCHANGED changeDue
        BY <1>0, <2>1, <3>1, <3>2, <3>7
      <3> QED
        BY <1>4, <3>3, <3>4, <3>5, <3>6, <3>7 DEF ServerAnswers
    <2>3. PICK m \in Datagrams : /\ in'["cmd"] = Append(in["cmd"], m) /\ ~m.changed
                                 /\ c.kind = "set" => Refusal(m) \/ changeDue'
                                 /\ changeDue => changeDue'
      BY <1>2, <2>2
    <2>4. HasSet(toServer) => HasSet(toServer') \/ c.kind = "set"
      BY <1>0, <2>1, SetOnItsWay
    <2>5. /\ HasChanged(in["cmd"]) => HasChanged(in'["cmd"])
          /\ HasRefusal(in["cmd"]) \/ Refusal(m) => HasRefusal(in'["cmd"])
          /\ OnlyFramesAnnounce(in'["cmd"])
      BY <1>0, <2>3, AppendAnnounces DEF SkipInv
    <2>6. AnnouncementUnderWay => AnnouncementUnderWay'
      BY <1>1, <2>3, <2>5 DEF AnnouncementUnderWay, HasChanged
    <2>7. ChangeOpen => ChangeOpen' \/ changeDue'
      BY <1>1, <2>3, <2>4, <2>5 DEF ChangeOpen, HasSet, HasRefusal
    <2> QED
      BY <1>1, <2>1, <2>5, <2>6, <2>7 DEF SkipInv, OnlyFramesAnnounce, AnnouncementUnderWay
  <1>5. CASE ServerFrame
    <2>1. UNCHANGED <<toServer, lost>>
      BY <1>5 DEF ServerFrame
    <2>2. CASE unicast
      <3> DEFINE f == Frame(serverVer, changeDue, 0)
      <3>1. f \in Datagrams /\ f.kind = "FRAMEOFDATA" /\ f.changed = changeDue
        BY <1>0, Shapes DEF Frame, Datagram
      <3>2. in'["cmd"] = Append(in["cmd"], f)
        BY <1>2, <1>5, <2>2 DEF ServerFrame
      <3>3. /\ HasChanged(in["cmd"]) \/ changeDue => HasChanged(in'["cmd"])
            /\ HasRefusal(in["cmd"]) => HasRefusal(in'["cmd"])
            /\ OnlyFramesAnnounce(in'["cmd"])
        BY <1>0, <3>1, <3>2, AppendAnnounces DEF SkipInv
      <3>4. /\ AnnouncementUnderWay => AnnouncementUnderWay'
            /\ ChangeOpen => ChangeOpen'
        BY <1>1, <2>1, <3>3 DEF AnnouncementUnderWay, ChangeOpen, HasChanged, HasSet, HasRefusal
      <3> QED
        BY <1>1, <2>1, <3>3, <3>4 DEF SkipInv, OnlyFramesAnnounce
    <2>3. CASE ~unicast
      <3>1. in'["cmd"] = in["cmd"] /\ ~pending
        BY <1>0, <1>5, <2>3 DEF ServerFrame, Deliver, TypeOK, NetTypes, MarkInv
      <3> QED
        BY <1>1, <3>1 DEF SkipInv, OnlyFramesAnnounce
    <2> QED
      BY <2>2, <2>3
  <1>6. CASE Lose
    <2>1. lost' /\ (in'["cmd"] = in["cmd"] \/ (in["cmd"] # <<>> /\ in'["cmd"] = Tail(in["cmd"])))
      <3>1. in' = in \/ \E t \in Threads : in[t] # <<>> /\ in' = [in EXCEPT ![t] = Tail(@)]
        BY <1>6 DEF Lose
      <3> QED
        BY <1>0, <1>6, <3>1 DEF Lose, TypeOK, NetTypes
    <2>2. OnlyFramesAnnounce(in'["cmd"])
      BY <1>0, <2>1, TailAnnounces DEF SkipInv, OnlyFramesAnnounce
    <2> QED
      BY <1>1, <2>1, <2>2 DEF SkipInv, OnlyFramesAnnounce
  <1> QED
    BY <1>3, <1>4, <1>5, <1>6

LEMMA SkipStep ==
    ASSUME orderly
    PROVE  ChannelInv /\ FollowInv /\ MarkInv /\ SkipInv /\ [Next]_vars => SkipInv'
  <1>1. SkipInv /\ UNCHANGED vars => SkipInv'
    BY DEF vars, mainVars, responseVars, threadVars, netVars, serverVars, SkipInv,
       OnlyFramesAnnounce, ChangeOpen, AnnouncementUnderWay, HasChanged, HasSet, HasRefusal
  <1> QED
    BY <1>1, MainKeepsSkip, AnswersKeepSkip, UnpackKeepsSkip, DataKeepsSkip, NetworkKeepsSkip
    DEF Next, Terminated, Threads, Overtake, Duplicate

\* A change that is skipped for is open, or its announcement under way.
THEOREM SkipInvariant == Spec => [](orderly => SkipInv)
  <1>1. ChannelInv /\ (orderly => FollowInv /\ MarkInv /\ SkipInv) /\ [Next]_vars
           => (orderly => SkipInv)'
    BY SkipStep, OrderStays
  <1> QED
    BY <1>1, SkipInit, ChannelInvariant, FollowInvariant, MarkInvariant, PTL DEF Spec

\* While frames are skipped what ends it is under way, unless a command timed out or a
\* datagram was lost: the server has not decided yet, its refusal is on the way to main, or
\* the frame that announces the change is due, waits in the socket, or is being unpacked.
THEOREM SkippingIsOwedAnEnd ==
    Spec => [](orderly /\ pending /\ ~late /\ ~lost => ChangeOpen \/ AnnouncementUnderWay)
  <1>1. (orderly => SkipInv)
           => (orderly /\ pending /\ ~late /\ ~lost => ChangeOpen \/ AnnouncementUnderWay)
    BY DEF SkipInv
  <1> QED
    BY <1>1, SkipInvariant, PTL
==============================================================================
