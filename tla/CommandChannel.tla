---------------------------- MODULE CommandChannel ----------------------------
(***************************************************************************)
(* PacketClient.cpp: the main thread, which sends commands and polls a     *)
(* global for the answer, and the two listener threads, which store the    *)
(* answers and unpack frames with the bitstream version they believe in.   *)
(*                                                                         *)
(* A command that changes the bitstream sets gBitstreamChangePending: the  *)
(* frames are skipped until one says that the version has changed, or the  *)
(* command fails.  All of it is unlocked shared state.  The content of     *)
(* frames and descriptions is left out: a frame is the version it was      *)
(* encoded in, its length and bit b3 (bitstream changed) of its params; b2 *)
(* (Edit mode) is the same in all of them.                                 *)
(*                                                                         *)
(* The network is UDP: datagrams are lost and, unless the path to the      *)
(* server is orderly, overtake each other and arrive twice.                *)
(***************************************************************************)
EXTENDS Integers, Sequences

CONSTANTS Versions,       \* versions of the bitstream, pairs <<major, minor>>
          ServerVersion,  \* the version the server starts with
          UserVersions,   \* versions the keys '3' and '4' ask for
          Editing,        \* the server is in Edit mode, not Live
          Lengths,        \* lengths of multicast frames
          BaseDataBytes, MaxPacketSize,  \* the data buffer: its first and its last size
          MaxCommands,    \* bound: commands the user gives in a unicast session
          MaxMulticastCommands,  \* and in a multicast session
          MaxUnordered,   \* and in a unicast session out of order; a datagram that
                          \* arrives twice counts as a command
          InCap           \* bound: datagrams waiting in the socket of each thread

Threads == {"cmd", "data"}   \* CommandListenThread, DataListenThread

ASSUME ChannelAssumption ==
    /\ Versions \subseteq (Nat \ {0}) \X Nat
    /\ ServerVersion \in Versions /\ UserVersions \subseteq Versions
    /\ Editing \in BOOLEAN
    /\ Lengths \subseteq Nat /\ BaseDataBytes \in Nat /\ MaxPacketSize \in Nat
    /\ MaxCommands \in Nat /\ MaxMulticastCommands \in 0..MaxCommands
    /\ MaxUnordered \in 0..MaxCommands
    /\ InCap \in [Threads -> Nat \ {0}]
\* 16 bits and a header of 4 tell at most 65539 bytes; the sizes are 49152 and 100000.
ASSUME LengthsAssumption ==
    \A len \in Lengths : len <= MaxPacketSize /\ len <= BaseDataBytes + 20002

NoVersion == <<0, 0>>

Command(id, kind, v) == [id |-> id, kind |-> kind, ver |-> v]
NoCommand == Command(0, "none", NoVersion)
NoResponse == -1

\* What arrives on a socket; "id" is the command that is answered, 0 for none.
Datagram(kind, v, id, value, changed, len) ==
    [kind |-> kind, ver |-> v, id |-> id, value |-> value, changed |-> changed, len |-> len]
Info(v) == Datagram("SERVERINFO", v, 0, 0, FALSE, 0)
Answer(kind, id, value, v) == Datagram(kind, v, id, value, FALSE, 0)
Frame(v, changed, len) == Datagram("FRAMEOFDATA", v, 0, 0, changed, len)
Nothing == Datagram("none", NoVersion, 0, 0, FALSE, 0)

VARIABLES
    unicast,   \* ~gUseMulticast, from the command line
    orderly,   \* the datagrams of this session that arrive do so in order, and once
    \* main thread: position, command being sent, key it serves
    mainPc, command, job,
    \* gCommandResponse, major read from gCommandResponseString (0: no version)
    response, text,
    \* gNatNetVersion, gCanChangeBitstream, gBitstreamChangePending
    version, canChange, pending,
    \* listener threads: position, message, version read by Unpack
    pc, msg, use,
    dataBytes, \* size of the data listener's buffer
    \* history: command answered by the response stored last, an answer may come too
    \* late (a command timed out) or too often (a datagram arrived twice), a datagram
    \* was lost, frames that did not fit the buffer
    answered, late, lost, tooLong,
    \* commands given so far; NAT_CONNECT; the network; the server
    issued, connect, toServer, in, copies, serverVer, changeDue

mainVars == <<mainPc, command, job, issued, unicast, orderly>>
responseVars == <<response, text, answered>>
versionVars == <<version, canChange>>
threadVars == <<pc, msg, use>>
bufferVars == <<dataBytes, tooLong>>
serverVars == <<serverVer, changeDue>>
netVars == <<connect, toServer, in, lost, copies>>
vars == <<mainVars, responseVars, versionVars, pending, threadVars, bufferVars, late,
          netVars, serverVars>>

Init ==
    /\ unicast \in BOOLEAN /\ orderly \in BOOLEAN
    /\ mainPc = "start" /\ command = NoCommand /\ job = "none" /\ issued = 0
    /\ response = 0 /\ text = 0 /\ answered = 0
    /\ version = NoVersion /\ canChange = FALSE /\ pending = FALSE
    /\ pc = [t \in Threads |-> "recv"] /\ msg = [t \in Threads |-> Nothing]
    /\ use = [t \in Threads |-> NoVersion]
    /\ dataBytes = BaseDataBytes /\ tooLong = 0
    /\ late = FALSE
    /\ connect = "none" /\ toServer = <<>> /\ in = [t \in Threads |-> <<>>]
    /\ lost = FALSE /\ copies = 0
    /\ serverVer = ServerVersion /\ changeDue = FALSE

Alive == mainPc # "quit"

-----------------------------------------------------------------------------
(* Main thread: start, keys and SendCommand                                 *)

StartFrame ==
    <<command, job, issued, unicast, orderly, responseVars, canChange, pending,
      threadVars, bufferVars, late, toServer, in, lost, copies, serverVars>>

\* The listeners are running when main forgets the version of the bitstream...
StartVersion ==
    /\ mainPc = "start"
    /\ version' = NoVersion
    /\ mainPc' = "connect"
    /\ UNCHANGED <<StartFrame, connect>>

\* Fault: the request is prepared again for each of the three tries.
StartConnectAgain ==
    /\ mainPc = "connect"
    /\ connect' = "sent"
    /\ mainPc' \in {"start", "keys"}
    /\ UNCHANGED <<StartFrame, version>>

\* ...and asks for a connection, once.
StartConnect ==
    /\ mainPc = "connect"
    /\ connect' = "sent"
    /\ mainPc' = "keys"
    /\ UNCHANGED <<StartFrame, version>>

MainFrame ==
    <<unicast, orderly, text, versionVars, threadVars, bufferVars, connect, in, lost,
      copies, serverVars>>

\* Fault: the response to the command before is left in place.
StartCommandKeepsResponse(kind, v, task) ==
    /\ command' = Command(issued + 1, kind, v)
    /\ issued' = issued + 1
    /\ job' = task
    /\ UNCHANGED <<response, answered>>
    /\ mainPc' = "send"

\* SendCommand forgets the last response before it sends.
StartCommand(kind, v, task) ==
    /\ command' = Command(issued + 1, kind, v)
    /\ issued' = issued + 1
    /\ job' = task
    /\ response' = NoResponse /\ answered' = 0
    /\ mainPc' = "send"

\* The bounds leave room for a command and the query that may follow it.
Room ==
    issued + copies + 1 < IF ~unicast THEN MaxMulticastCommands
                          ELSE IF orderly THEN MaxCommands ELSE MaxUnordered

\* A key is served.
Idle == mainPc = "keys" /\ Room

\* 'p', 'r', and each command of 'o' and 'w'
KeyCommand ==
    /\ Idle
    /\ StartCommand("plain", NoVersion, "plain")
    /\ UNCHANGED <<MainFrame, pending, late, toServer>>

\* 'v'
KeyVersion ==
    /\ Idle
    /\ StartCommand("query", NoVersion, "query")
    /\ UNCHANGED <<MainFrame, pending, late, toServer>>

\* '3' and '4': SetBitstreamVersion
KeyBitstream(v) ==
    /\ Idle
    /\ canChange
    /\ pending' = TRUE
    /\ StartCommand("set", v, "set")
    /\ UNCHANGED <<MainFrame, late, toServer>>

\* 's': sent without waiting for an answer.
KeyDescriptions ==
    /\ Idle
    /\ issued' = issued + 1
    /\ toServer' = Append(toServer, Command(issued + 1, "modeldef", NoVersion))
    /\ UNCHANGED <<MainFrame, mainPc, command, job, response, answered, pending,
                   late>>

\* 'q' ends the process with its threads.
KeyQuit ==
    /\ mainPc = "keys"
    /\ mainPc' = "quit"
    /\ UNCHANGED <<MainFrame, command, job, issued, response, answered, pending,
                   late, toServer>>

SendTo ==
    /\ mainPc = "send"
    /\ toServer' = Append(toServer, command)
    /\ mainPc' = "wait"
    /\ UNCHANGED <<MainFrame, command, job, issued, response, answered, pending,
                   late>>

\* The polls end: an answer was seen, or five were in vain, whatever is under way.
\* What is returned is read again after the last poll.
Return ==
    /\ mainPc = "wait"
    /\ late' = (late \/ response = NoResponse)

BackToKeys == mainPc' = "keys" /\ command' = NoCommand /\ job' = "none"

ReturnToKeys ==
    /\ Return
    /\ job # "set"
    /\ BackToKeys
    /\ UNCHANGED <<MainFrame, issued, response, answered, pending, toServer>>

\* Fault: a change the server refused leaves the frames skipped.
ReturnSetFailedKeepsPending ==
    /\ Return
    /\ job = "set"
    /\ response # 0
    /\ BackToKeys
    /\ UNCHANGED <<MainFrame, issued, response, answered, pending, toServer>>

\* SetBitstreamVersion: the change failed, or was not answered.
ReturnSetFailed ==
    /\ Return
    /\ job = "set"
    /\ response # 0
    /\ pending' = FALSE
    /\ BackToKeys
    /\ UNCHANGED <<MainFrame, issued, response, answered, toServer>>

\* Fault: the change is not confirmed.
ReturnSetUnconfirmed ==
    /\ Return
    /\ job = "set"
    /\ response = 0
    /\ BackToKeys
    /\ UNCHANGED <<MainFrame, issued, response, answered, pending, toServer>>

\* SetBitstreamVersion: "query to confirm".
ReturnSetDone ==
    /\ Return
    /\ job = "set"
    /\ response = 0
    /\ StartCommand("query", NoVersion, "confirm")
    /\ UNCHANGED <<MainFrame, pending, toServer>>

Main ==
    \/ StartVersion \/ StartConnect
    \/ KeyCommand \/ KeyVersion \/ KeyDescriptions \/ KeyQuit
    \/ \E v \in UserVersions : KeyBitstream(v)
    \/ SendTo \/ ReturnToKeys \/ ReturnSetFailed \/ ReturnSetDone

-----------------------------------------------------------------------------
(* CommandListenThread: answers                                             *)

ListenFrame == <<mainVars, bufferVars, late, connect, toServer, lost, copies, serverVars>>
At(t, position) == Alive /\ pc[t] = position
Goto(t, position) == pc' = [pc EXCEPT ![t] = position]

\* Back to recvfrom: what was received and read is not looked at again.
Done(t) ==
    /\ Goto(t, "recv")
    /\ msg' = [msg EXCEPT ![t] = Nothing]
    /\ use' = [use EXCEPT ![t] = NoVersion]

\* A datagram of the given kind is taken off the socket of thread t.
Take(t, kind) ==
    /\ At(t, "recv")
    /\ in[t] # <<>>
    /\ Head(in[t]).kind = kind
    /\ in' = [in EXCEPT ![t] = Tail(@)]

\* The version is taken from the server's announcement when there is none.
ServerInfo ==
    /\ Take("cmd", "SERVERINFO")
    /\ msg' = [msg EXCEPT !["cmd"] = Head(in["cmd"])]
    /\ IF version = NoVersion
       THEN version' = <<msg'["cmd"].ver[1], version[2]>> /\ Goto("cmd", "infoMinor")
       ELSE Goto("cmd", "infoCan") /\ UNCHANGED version
    /\ UNCHANGED <<ListenFrame, responseVars, canChange, pending, use>>

ServerInfoMinor ==
    /\ At("cmd", "infoMinor")
    /\ version' = <<version[1], msg["cmd"].ver[2]>>
    /\ Goto("cmd", "infoCan")
    /\ UNCHANGED <<ListenFrame, responseVars, canChange, pending, msg, use, in>>

ServerInfoCanChange ==
    /\ At("cmd", "infoCan")
    /\ canChange' = (canChange \/ (msg["cmd"].ver[1] >= 3 /\ unicast))
    /\ Done("cmd")
    /\ UNCHANGED <<ListenFrame, responseVars, version, pending, in>>

\* An answer of four bytes.  The string of an earlier answer is parsed again:
\* strtok left its first number there.
ResponseNumber ==
    /\ Take("cmd", "NUMBER")
    /\ response' = Head(in["cmd"]).value /\ answered' = Head(in["cmd"]).id
    /\ version' = IF text # 0 THEN <<text, version[2]>> ELSE version
    /\ UNCHANGED <<ListenFrame, text, canChange, pending, threadVars>>

\* Fault: the string of the last answer is parsed before the new one is stored.
ResponseStringLate ==
    /\ Take("cmd", "STRING")
    /\ msg' = [msg EXCEPT !["cmd"] = Head(in["cmd"])]
    /\ response' = 0 /\ answered' = msg'["cmd"].id
    /\ text' = msg'["cmd"].ver[1]
    /\ version' = IF text # 0 THEN <<text, version[2]>> ELSE version
    /\ Goto("cmd", "tokenMinor")
    /\ UNCHANGED <<ListenFrame, canChange, pending, use>>

\* The answer to "Bitstream": a string that holds the version.
ResponseString ==
    /\ Take("cmd", "STRING")
    /\ msg' = [msg EXCEPT !["cmd"] = Head(in["cmd"])]
    /\ response' = 0 /\ answered' = msg'["cmd"].id
    /\ text' = msg'["cmd"].ver[1]
    /\ version' = <<msg'["cmd"].ver[1], version[2]>>
    /\ Goto("cmd", "tokenMinor")
    /\ UNCHANGED <<ListenFrame, canChange, pending, use>>

\* Fault: the first token is stored again.
ResponseStringMinorRepeatsMajor ==
    /\ At("cmd", "tokenMinor")
    /\ version' = <<version[1], msg["cmd"].ver[1]>>
    /\ Done("cmd")
    /\ UNCHANGED <<ListenFrame, responseVars, canChange, pending, in>>

ResponseStringMinor ==
    /\ At("cmd", "tokenMinor")
    /\ version' = <<version[1], msg["cmd"].ver[2]>>
    /\ Done("cmd")
    /\ UNCHANGED <<ListenFrame, responseVars, canChange, pending, in>>

Unrecognized ==
    /\ Take("cmd", "UNRECOGNIZED")
    /\ response' = 1 /\ answered' = Head(in["cmd"]).id
    /\ UNCHANGED <<ListenFrame, text, versionVars, pending, threadVars>>

Answers ==
    \/ ServerInfo \/ ServerInfoMinor \/ ServerInfoCanChange
    \/ ResponseNumber \/ ResponseString \/ ResponseStringMinor \/ Unrecognized

-----------------------------------------------------------------------------
(* Unpack, on either thread                                                 *)

UnpackFrame == <<ListenFrame, responseVars, versionVars>>

\* Unpack reads the version one component at a time.
UnpackMajor(t) ==
    /\ \E kind \in {"FRAMEOFDATA", "MODELDEF"} : Take(t, kind)
    /\ t = "data" => Head(in[t]).len <= dataBytes
    /\ msg' = [msg EXCEPT ![t] = [Head(in[t]) EXCEPT !.len = 0]]
    /\ use' = [use EXCEPT ![t] = <<version[1], 0>>]
    /\ Goto(t, "minor")
    /\ UNCHANGED <<UnpackFrame, pending>>

\* Descriptions are unpacked whether or not a change is pending.
UnpackMinor(t) ==
    /\ At(t, "minor")
    /\ \/ /\ msg[t].kind = "FRAMEOFDATA"
          /\ use' = [use EXCEPT ![t] = <<@[1], version[2]>>]
          /\ Goto(t, "params")
          /\ UNCHANGED msg
       \/ msg[t].kind = "MODELDEF" /\ Done(t)
    /\ UNCHANGED <<UnpackFrame, pending, in>>

\* The params at the end of the packet: a change that is pending has happened.
UnpackParams(t) ==
    /\ At(t, "params")
    /\ pending' = (pending /\ ~msg[t].changed)
    /\ Goto(t, "test")
    /\ UNCHANGED <<UnpackFrame, msg, use, in>>

\* Tested again: the frame is unpacked or skipped.
UnpackTest(t) ==
    /\ At(t, "test")
    /\ IF pending
       THEN Done(t)
       ELSE Goto(t, "suffix") /\ UNCHANGED <<msg, use>>
    /\ UNCHANGED <<UnpackFrame, pending, in>>

\* UnpackFrameSuffixData looks at b2 for a change; where the version is wrong
\* the params are read from the wrong place.
UnpackSuffix(t) ==
    /\ At(t, "suffix")
    /\ pending' \in IF use[t] = msg[t].ver THEN {pending /\ ~Editing} ELSE {pending, FALSE}
    /\ Done(t)
    /\ UNCHANGED <<UnpackFrame, in>>

Unpack(t) ==
    UnpackMajor(t) \/ UnpackMinor(t) \/ UnpackParams(t) \/ UnpackTest(t) \/ UnpackSuffix(t)

TooLong ==
    /\ Take("data", "FRAMEOFDATA")
    /\ Head(in["data"]).len > dataBytes
    /\ tooLong' = tooLong + 1
    /\ UNCHANGED <<mainVars, responseVars, versionVars, pending, threadVars, late, connect,
                   toServer, lost, copies, serverVars>>

\* Fault: the buffer gets the size of the frame that was lost.
DataTooLongJustFits ==
    TooLong /\ dataBytes' = Head(in["data"]).len

\* A frame that does not fit the buffer of the data listener is lost; the buffer
\* gets 10000 bytes more than that.
DataTooLong ==
    /\ TooLong
    /\ LET more == Head(in["data"]).len + 10000
       IN dataBytes' = IF more < MaxPacketSize THEN more ELSE MaxPacketSize

-----------------------------------------------------------------------------
(* External: server and network                                             *)

ClientVars ==
    <<mainVars, responseVars, versionVars, pending, threadVars, bufferVars, late>>

Deliver(t, m) ==
    /\ Len(in[t]) < InCap[t]
    /\ in' = [in EXCEPT ![t] = Append(@, m)]

ServerConnect ==
    /\ Alive /\ connect = "sent"
    /\ connect' = "answered"
    /\ Deliver("cmd", Info(serverVer))
    /\ UNCHANGED <<ClientVars, toServer, lost, copies, serverVars>>

ServerRefuses(id) ==
    \/ Deliver("cmd", Answer("NUMBER", id, 1, NoVersion))
    \/ Deliver("cmd", Answer("UNRECOGNIZED", id, 0, NoVersion))

\* A change is announced by the next frame.
ServerAnswers ==
    /\ Alive
    /\ toServer # <<>>
    /\ toServer' = Tail(toServer)
    /\ LET c == Head(toServer)
       IN \/ /\ c.kind \in {"plain", "set"}
             /\ ServerRefuses(c.id)
             /\ UNCHANGED <<serverVer, changeDue>>
          \/ /\ c.kind = "plain"
             /\ Deliver("cmd", Answer("NUMBER", c.id, 0, NoVersion))
             /\ UNCHANGED <<serverVer, changeDue>>
          \/ /\ c.kind = "set"
             /\ Deliver("cmd", Answer("NUMBER", c.id, 0, NoVersion))
             /\ serverVer' = c.ver /\ changeDue' = TRUE
          \/ /\ c.kind = "query"
             /\ Deliver("cmd", Answer("STRING", c.id, 0, serverVer))
             /\ UNCHANGED <<serverVer, changeDue>>
          \/ /\ c.kind = "modeldef"
             /\ Deliver("cmd", Answer("MODELDEF", 0, 0, serverVer))
             /\ UNCHANGED <<serverVer, changeDue>>
    /\ UNCHANGED <<ClientVars, connect, lost, copies>>

\* Unicast frames go where NAT_CONNECT came from, the command socket, whose buffer
\* holds any packet; multicast frames are there from the start.
ServerFrame ==
    /\ Alive
    /\ \/ unicast /\ connect = "answered" /\ Deliver("cmd", Frame(serverVer, changeDue, 0))
       \/ ~unicast /\ \E len \in Lengths : Deliver("data", Frame(serverVer, changeDue, len))
    /\ changeDue' = FALSE
    /\ UNCHANGED <<ClientVars, connect, toServer, lost, copies, serverVer>>

Lose ==
    /\ Alive
    /\ lost' = TRUE
    /\ \/ connect = "sent" /\ connect' = "lost" /\ UNCHANGED <<toServer, in>>
       \/ toServer # <<>> /\ toServer' = Tail(toServer) /\ UNCHANGED <<connect, in>>
       \/ \E t \in Threads : /\ in[t] # <<>> /\ in' = [in EXCEPT ![t] = Tail(@)]
                              /\ UNCHANGED <<connect, toServer>>
    /\ UNCHANGED <<ClientVars, copies, serverVars>>

Swap(q, i) == [q EXCEPT ![i] = q[i + 1], ![i + 1] = q[i]]

\* A datagram is overtaken by the one behind it, on either way.
Overtake ==
    /\ Alive /\ ~orderly
    /\ \/ /\ \E i \in 1..(Len(toServer) - 1) : toServer' = Swap(toServer, i)
          /\ UNCHANGED in
       \/ /\ \E t \in Threads : \E i \in 1..(Len(in[t]) - 1) :
                in' = [in EXCEPT ![t] = Swap(@, i)]
          /\ UNCHANGED toServer
    /\ UNCHANGED <<ClientVars, connect, lost, copies, serverVars>>

\* A datagram under way is there twice; the second may be overtaken by any number.
Duplicate ==
    /\ Alive /\ ~orderly /\ Room
    /\ copies' = copies + 1 /\ late' = TRUE
    /\ \/ /\ \E i \in 1..Len(toServer) : toServer' = Append(toServer, toServer[i])
          /\ UNCHANGED in
       \/ /\ \E t \in Threads : \E i \in 1..Len(in[t]) : Deliver(t, in[t][i])
          /\ UNCHANGED toServer
    /\ UNCHANGED <<mainVars, responseVars, versionVars, pending, threadVars, bufferVars,
                   connect, lost, serverVars>>

Terminated == ~Alive /\ UNCHANGED vars

Next ==
    \/ Main
    \/ Answers
    \/ \E t \in Threads : Unpack(t)
    \/ DataTooLong
    \/ ServerConnect \/ ServerAnswers \/ ServerFrame
    \/ Lose \/ Overtake \/ Duplicate
    \/ Terminated

Spec == Init /\ [][Next]_vars

\* The threads are scheduled, the server answers and keeps on streaming.
FairSpec ==
    /\ Spec
    /\ WF_vars(SendTo \/ ReturnToKeys \/ ReturnSetFailed \/ ReturnSetDone)
    /\ WF_vars(Answers \/ Unpack("cmd"))
    /\ WF_vars(Unpack("data") \/ DataTooLong)
    /\ SF_vars(ServerAnswers)
    /\ SF_vars(ServerFrame)

-----------------------------------------------------------------------------
(* Properties                                                               *)

Known == Versions \cup {NoVersion}
Majors == {v[1] : v \in Known}
Minors == {v[2] : v \in Known}
Commands ==
    {c \in [id : 1..MaxCommands, kind : {"plain", "query", "set", "modeldef"}, ver : Known] :
        c.kind = "set" => c.ver \in Versions}
Datagrams ==
    [kind : {"SERVERINFO", "NUMBER", "STRING", "UNRECOGNIZED", "MODELDEF", "FRAMEOFDATA"},
     ver : Known, id : 0..MaxCommands, value : {0, 1}, changed : BOOLEAN,
     len : Lengths \cup {0}]

MainTypes ==
    /\ mainPc \in {"start", "connect", "keys", "send", "wait", "quit"}
    /\ unicast \in BOOLEAN /\ orderly \in BOOLEAN
    /\ command \in Commands \cup {NoCommand} /\ issued \in 0..MaxCommands
    /\ job \in {"none", "plain", "query", "set", "confirm"}
    /\ response \in {NoResponse, 0, 1} /\ text \in Majors
    /\ answered \in 0..MaxCommands /\ late \in BOOLEAN
VersionTypes ==
    version \in Majors \X Minors /\ canChange \in BOOLEAN /\ pending \in BOOLEAN
ThreadTypes ==
    /\ pc \in [Threads -> {"recv", "infoMinor", "infoCan", "tokenMinor", "minor",
                            "params", "test", "suffix"}]
    /\ msg \in [Threads -> Datagrams \cup {Nothing}]
    /\ use \in [Threads -> Majors \X Minors]
    /\ dataBytes \in Nat /\ tooLong \in Nat
NetTypes ==
    /\ connect \in {"none", "sent", "lost", "answered"} /\ toServer \in Seq(Commands)
    /\ in \in [Threads -> Seq(Datagrams)] /\ lost \in BOOLEAN /\ copies \in 0..MaxCommands
    /\ serverVer \in Versions /\ changeDue \in BOOLEAN

\* Type correctness of every variable of the channel.
TypeOK == MainTypes /\ VersionTypes /\ ThreadTypes /\ NetTypes

\* Before NAT_CONNECT the command listener has nothing to read.
StartInv ==
    mainPc \in {"start", "connect"} =>
        /\ connect = "none" /\ toServer = <<>> /\ in["cmd"] = <<>> /\ pc["cmd"] = "recv"
        /\ text = 0 /\ version = NoVersion

\* A command is one from the moment it is sent; the change leaves room for its query.
CommandInv ==
    /\ mainPc \in {"send", "wait"} => command \in Commands
    /\ job = "set" => issued < MaxCommands

\* The major is stored first, and is that of the last string.
VersionInv ==
    /\ version # NoVersion => version[1] # 0
    /\ pc["cmd"] \in {"infoMinor", "tokenMinor"} => version[1] # 0
    /\ text # 0 => version[1] = text
    /\ \A i \in 1..Len(in["cmd"]) :
          in["cmd"][i].kind \in {"SERVERINFO", "STRING"} => in["cmd"][i].ver \in Versions

\* Each frame that was too long made room for 10001 bytes more than there was.
BufferInv ==
    /\ tooLong \in 0..2
    /\ dataBytes >= MaxPacketSize \/ dataBytes >= BaseDataBytes + 10001 * tooLong

\* Until an answer may be late at most one command waits for an answer, the one main polls
\* for; it is on its way, or its answer is, or the answer is stored.
Awaited(c) == c.kind # "modeldef"
IsAnswer(m) == m.kind \in {"NUMBER", "STRING", "UNRECOGNIZED"}
AnswerInv ==
    ~late =>
        /\ mainPc = "send" => response = NoResponse
        /\ mainPc = "wait" /\ response # NoResponse => answered = command.id
        /\ \A i \in 1..Len(toServer) : Awaited(toServer[i]) =>
              /\ mainPc = "wait" /\ response = NoResponse
              /\ toServer[i].id = command.id
              /\ \A j \in 1..Len(toServer) : Awaited(toServer[j]) => j = i
              /\ \A j \in 1..Len(in["cmd"]) : ~IsAnswer(in["cmd"][j])
        /\ \A i \in 1..Len(in["cmd"]) : IsAnswer(in["cmd"][i]) =>
              /\ mainPc = "wait" /\ response = NoResponse
              /\ in["cmd"][i].id = command.id
              /\ \A j \in 1..Len(in["cmd"]) : IsAnswer(in["cmd"][j]) => j = i

\* The inductive invariant of the channel.
ChannelInv ==
    TypeOK /\ StartInv /\ CommandInv /\ VersionInv /\ BufferInv /\ AnswerInv

\* As long as no command has timed out and nothing arrived twice, what SendCommand
\* returns is the answer to the command it was called with: the global it polls
\* belongs to no command, and descriptions, frames, losses and overtaking come in
\* between.
AnswersAreOwn ==
    mainPc = "wait" /\ response # NoResponse /\ ~late => answered = command.id

\* The string that every short answer makes the listener parse again never
\* brings back a version that has been replaced.
StaleTextHarmless == text # 0 => version[1] = text

\* A frame is unpacked with another version than its own only while
\* SetBitstreamVersion is under way, in a unicast session that has a version
\* and where no command timed out (if the network keeps the order: a frame that is
\* overtaken by the answer that confirms a change is unpacked with the new version).
WrongVersionOnlyInChange ==
    orderly => \A t \in Threads :
        pc[t] = "suffix" /\ use[t] # msg[t].ver /\ use[t] # NoVersion /\ unicast /\ ~late
            => mainPc # "keys" /\ job \in {"set", "confirm"}

\* A version that is known is never forgotten: main zeroes it while the listeners
\* are running already, but asks for the announcement only then.
VersionNeverForgotten == [][version # NoVersion => version' # NoVersion]_vars

\* The data listener loses at most two frames to its buffer, whatever lengths the
\* 16 bits of a header can tell and in whatever order the frames come.
FewFramesTooLong == tooLong <= 2

\* At rest, when no command timed out and nothing was lost or came twice, the client
\* holds the version of the server, in whatever order the datagrams came: a change
\* that was refused is not believed, one that was accepted is.
AtRest ==
    /\ mainPc = "keys" /\ connect = "answered" /\ toServer = <<>> /\ pc["cmd"] = "recv"
    /\ \A i \in 1..Len(in["cmd"]) : in["cmd"][i].kind = "FRAMEOFDATA"
VersionFollowsServer == AtRest /\ ~late /\ ~lost => version = serverVer

\* The version the client stands by: a store in progress counts as made.
StandingVersion ==
    IF pc["cmd"] \in {"infoMinor", "tokenMinor"} THEN msg["cmd"].ver ELSE version

Cell == INSTANCE NegotiatedVersion
          WITH ServerVersions <- {ServerVersion}, version <- StandingVersion,
               offered <- canChange, Unset <- NoVersion, Changeable <- TRUE

\* Until an answer may come too late or too often, every step is one of the abstract
\* version cell, lost and overtaken datagrams and the string that is parsed again
\* notwithstanding; and the version taken is the one the server has at that time:
\* neither its first one nor an older one of the user's comes back.
NegotiatesUntilLate ==
    /\ Cell!Init
    /\ [][~late' =>
            /\ [Cell!Next]_(Cell!cellVars)
            /\ StandingVersion' # StandingVersion => StandingVersion' = serverVer]_vars

\* Frames are not skipped for ever: a change is refused, or a frame announces it,
\* unless a command timed out or a datagram was lost or out of order.
SkippingEnds == pending /\ orderly ~> (~pending \/ late \/ lost \/ ~Alive)

\* Outside Edit mode, in order and until a command times out, the skipping ends for
\* cause: the command failed, or a frame said that the change has happened.  A frame
\* that was under way when the change was marked does not clear the mark.
SkippingEndsForCause ==
    [][orderly /\ pending /\ ~pending' /\ ~Editing /\ ~late
          => \/ mainPc = "wait" /\ mainPc' = "keys"
             \/ \E t \in Threads : pc'[t] # pc[t] /\ msg[t].changed]_vars

\* NatNetTypes.h:517 says of the params of a frame: "[b3: bitstream version
\* changed]".  Only such a frame, or the command that failed, ends the skipping.
OnlyAnnouncedChangeEndsSkipping ==
    [][pending /\ ~pending'
          => \/ mainPc = "wait" /\ mainPc' = "keys"
             \/ \E t \in Threads : pc'[t] # pc[t] /\ msg[t].changed]_vars
==============================================================================
