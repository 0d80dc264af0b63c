---------------------------- MODULE NatNetSession ----------------------------
(***************************************************************************)
(* A session of the Python NatNet client (NatNetClient.py driven by        *)
(* PythonSample.py): the main thread, the command thread and the data      *)
(* thread, the version they share, and the UDP exchange with the server.   *)
(*                                                                         *)
(* A step is one access to state that another thread can see.  The version *)
(* is a list whose components are stored and read one at a time, so the    *)
(* stores of __unpack_server_info and of set_nat_net_version, and the two  *)
(* reads at the top of __process_message, are steps of their own.          *)
(* Components 2 and 3 of a version never decide a layout and are left out. *)
(*                                                                         *)
(* The server and the network are external.  A datagram in flight is a     *)
(* member of a set, so datagrams overtake one another; with Unreliable     *)
(* they are also lost and duplicated.                                      *)
(***************************************************************************)
EXTENDS Integers, FiniteSets

CONSTANTS ServerVersions,  \* versions a server may stream when it starts
          UserVersions,    \* versions the sample's keys 3 and 4 ask for
          Unicast,         \* use_multicast is False
          Option,          \* the argument of run: "d" data stream, "c" commands only
          CloseWakes,      \* closing a socket wakes a thread blocked in recvfrom
          NulTerminated,   \* the server ends a string response with a NUL byte
          PlainDescriptions,  \* descriptions: known datasets, ASCII marker names
          Unreliable,      \* datagrams may be lost and duplicated
          RequestCap,      \* bound: requests in flight to the server
          PacketCap,       \* bound: packets in flight or queued per client socket
          MaxRestarts      \* bound: restarts of the server

Version == Nat \X Nat
NoVersion == <<0, 0>>

ASSUME SessionAssumption ==
    /\ ServerVersions \subseteq Version
    /\ UserVersions \subseteq Version
    /\ \A v \in ServerVersions \cup UserVersions : v[1] # 0
    /\ Unicast \in BOOLEAN
    /\ Option \in {"c", "d"}
    /\ CloseWakes \in BOOLEAN
    /\ NulTerminated \in BOOLEAN
    /\ PlainDescriptions \in BOOLEAN
    /\ Unreliable \in BOOLEAN
    /\ RequestCap \in Nat \ {0}
    /\ PacketCap \in Nat \ {0}
    /\ MaxRestarts \in Nat

StreamVersions == ServerVersions \cup UserVersions

\* What the client sends.  Keep-alives and playback commands are not recorded:
\* nothing the server answers them changes the client.
Request == [kind : {"CONNECT", "QUERY", "MODELDEF"}, ver : {NoVersion}]
             \cup [kind : {"SETBITSTREAM"}, ver : UserVersions]

\* What the server sends; ver is the version it announces or encodes with.
Packet == [kind : {"SERVERINFO", "BITSTREAM", "MODELDEF", "FRAMEOFDATA"},
           ver : StreamVersions]
            \cup [kind : {"REPLY"}, ver : {NoVersion}]

Connect == [kind |-> "CONNECT", ver |-> NoVersion]
Query == [kind |-> "QUERY", ver |-> NoVersion]
Describe == [kind |-> "MODELDEF", ver |-> NoVersion]
SetBitstream(v) == [kind |-> "SETBITSTREAM", ver |-> v]
Reply == [kind |-> "REPLY", ver |-> NoVersion]
Answer(k, v) == [kind |-> k, ver |-> v]

NoMsg == [kind |-> "NONE", ver |-> NoVersion]
\* The zero-filled buffer a first failed receive leaves in use: message id 0.
ZeroBuffer == [kind |-> "ZEROS", ver |-> NoVersion]

VARIABLES
    \* main thread
    mainPc, want, stop,
    \* fields of the client shared by the threads
    cmdSock, dataSock, appNameSet, serverVersionSet, streamVersion,
    reqMajor, reqMinor, canChange,
    \* command thread: position, packet, its two reads, buffer never used yet
    cmdPc, cmdMsg, cmdMajor, cmdMinor, zeroed,
    \* data thread
    dataPc, dataMsg, dataMajor, dataMinor,
    \* external: datagrams in flight and the server
    toServer, cmdIn, dataIn, serverVer, registered, restarts

mainVars == <<mainPc, want, stop>>
infoVars == <<appNameSet, serverVersionSet, streamVersion>>
versionVars == <<reqMajor, reqMinor, canChange>>
sockVars == <<cmdSock, dataSock>>
cmdVars == <<cmdPc, cmdMsg, cmdMajor, cmdMinor, zeroed>>
dataVars == <<dataPc, dataMsg, dataMajor, dataMinor>>
netVars == <<toServer, cmdIn, dataIn>>
serverVars == <<serverVer, registered, restarts>>
vars == <<mainVars, infoVars, versionVars, sockVars, cmdVars, dataVars,
          netVars, serverVars>>

MainPcs == {"openData", "openCmd", "startCmd", "startData", "connect", "settle",
            "idle", "storeMajor", "storeMinor", "closeCmd", "closeData",
            "joinCmd", "joinData", "done", "exited"}
CmdPcs == {"off", "top", "recv", "major", "minor", "handle", "infoTest", "infoMajor", "infoMinor", "infoChange",
           "keepAlive", "sendKeepAlive", "done", "dead"}
DataPcs == {"off", "top", "recv", "blocked", "major", "minor", "handle", "done", "dead"}

Init ==
    /\ mainPc = "openData" /\ want = NoVersion /\ stop = FALSE
    /\ cmdSock = "none" /\ dataSock = "none"
    /\ appNameSet = FALSE /\ serverVersionSet = FALSE /\ streamVersion = NoVersion
    /\ reqMajor = 0 /\ reqMinor = 0 /\ canChange = FALSE
    /\ cmdPc = "off" /\ cmdMsg = NoMsg /\ cmdMajor = 0 /\ cmdMinor = 0 /\ zeroed = TRUE
    /\ dataPc = "off" /\ dataMsg = NoMsg /\ dataMajor = 0 /\ dataMinor = 0
    /\ toServer = {} /\ cmdIn = {} /\ dataIn = {}
    /\ serverVer \in ServerVersions /\ registered = FALSE /\ restarts = 0

Ended(pc) == pc \in {"off", "done", "dead"}  \* not Thread.is_alive()

-----------------------------------------------------------------------------
(* Version-dependent layouts, as the guards of the unpack functions split   *)
(* the versions (0.x before the negotiation).  Text is taken to be UTF-8.   *)

\* Frames: before 3.0 markers in the rigid bodies; 4.1 adds sizes and assets.
FrameLayout(major, minor) ==
    CASE major = 0 -> "unset"
      [] major \in {1, 2} -> "before v3"
      [] major = 3 \/ (major = 4 /\ minor = 0) -> "v3"
      [] OTHER -> "v4.1"

\* Descriptions: 2.0 adds names, 3.0 markers, 4.0 their names, 4.1 the sizes,
\* 4.2 the rotation.
DescriptionLayout(major, minor) ==
    CASE major = 0 -> "unset"
      [] major = 1 -> "v1"
      [] major = 2 -> "v2"
      [] major = 3 -> "v3"
      [] major = 4 /\ minor = 0 -> "v4.0"
      [] major = 4 /\ minor = 1 -> "v4.1"
      [] OTHER -> "v4.2"

\* What the decoder takes in full when it is given the packet's own version.  It
\* parts from the format in frames before 3.0; no branch takes a rigid body of
\* major 5; an unknown dataset raises, and a marker name that is not ASCII shifts
\* all that stands behind it.
FrameSupported(ver) == ver[1] >= 3
DescriptionSupported(ver) == PlainDescriptions /\ ver[1] <= 4

Readable(msg, major, minor) ==
    CASE msg.kind = "FRAMEOFDATA" ->
            /\ FrameSupported(msg.ver)
            /\ FrameLayout(major, minor) = FrameLayout(msg.ver[1], msg.ver[2])
      [] msg.kind = "MODELDEF" ->
            /\ DescriptionSupported(msg.ver)
            /\ DescriptionLayout(major, minor) = DescriptionLayout(msg.ver[1], msg.ver[2])
      [] msg.kind = "BITSTREAM" -> ~NulTerminated  \* int('1\0') raises
      [] OTHER -> TRUE

\* May unpacking raise?  Only a packet that is not readable; apart from the NUL in
\* a number, such a packet may also happen to parse, perhaps into wrong values.
MayRaise(msg, major, minor) == ~Readable(msg, major, minor)
MayReturn(msg, major, minor) ==
    msg.kind = "BITSTREAM" => Readable(msg, major, minor)

-----------------------------------------------------------------------------
(* Network helpers: a datagram beyond the bound is dropped.                 *)

Put(net, m, cap) == IF Cardinality(net \cup {m}) <= cap THEN net \cup {m} ELSE net
\* What remains after a receive: the datagram may have a duplicate under way.
Rest(net, m) == IF Unreliable THEN {net, net \ {m}} ELSE {net \ {m}}
Send(r) == toServer' = Put(toServer, r, RequestCap)

-----------------------------------------------------------------------------
(* Main thread: run                                                         *)

RunOpenData ==
    /\ mainPc = "openData"
    /\ \/ dataSock' = "open" /\ mainPc' = "openCmd"
       \/ UNCHANGED dataSock /\ mainPc' = "exited"  \* bind fails: sys.exit(1)
    /\ UNCHANGED <<want, stop, cmdSock, infoVars, versionVars, cmdVars, dataVars,
                   netVars, serverVars>>

RunOpenCommand ==
    /\ mainPc = "openCmd"
    /\ cmdSock' = "open"
    /\ stop' = FALSE
    /\ mainPc' = "startCmd"
    /\ UNCHANGED <<want, dataSock, infoVars, versionVars, cmdVars, dataVars,
                   netVars, serverVars>>

RunStartCommand ==
    /\ mainPc = "startCmd"
    /\ cmdPc' = "top"
    /\ mainPc' = IF Option = "d" THEN "startData" ELSE "connect"
    /\ UNCHANGED <<want, stop, sockVars, infoVars, versionVars, cmdMsg, cmdMajor,
                   cmdMinor, zeroed, dataVars, netVars, serverVars>>

RunStartData ==
    /\ mainPc = "startData"
    /\ dataPc' = IF Ended(cmdPc) THEN dataPc ELSE "top"
    /\ mainPc' = "connect"
    /\ UNCHANGED <<want, stop, sockVars, infoVars, versionVars, cmdVars, dataMsg,
                   dataMajor, dataMinor, netVars, serverVars>>

\* Fault: the connection request is forgotten.
RunConnectSilent ==
    /\ mainPc = "connect"
    /\ mainPc' = "settle"
    /\ UNCHANGED <<want, stop, sockVars, infoVars, versionVars, cmdVars, dataVars,
                   netVars, serverVars>>

\* The one NAT_CONNECT of a session; nobody retries it.
RunConnect ==
    /\ mainPc = "connect"
    /\ Send(Connect)
    /\ mainPc' = "settle"
    /\ UNCHANGED <<want, stop, sockVars, infoVars, versionVars, cmdVars, dataVars,
                   cmdIn, dataIn, serverVars>>

-----------------------------------------------------------------------------
(* Main thread: the keys of the sample                                      *)

\* print_configuration, after the settling second (connected or not) and on 'c'.
RefreshConfiguration ==
    /\ mainPc \in {"settle", "idle"}
    /\ Send(Query)
    /\ mainPc' = "idle"
    /\ UNCHANGED <<want, stop, sockVars, infoVars, versionVars, cmdVars, dataVars,
                   cmdIn, dataIn, serverVars>>

RequestDescriptions ==
    /\ mainPc = "idle"
    /\ Send(Describe)
    /\ UNCHANGED <<mainVars, sockVars, infoVars, versionVars, cmdVars, dataVars,
                   cmdIn, dataIn, serverVars>>

\* Fault: the permission to change the bitstream is not tested.
SetNatNetVersionUnchecked(v) ==
    /\ mainPc = "idle"
    /\ v # <<reqMajor, reqMinor>>
    /\ Send(SetBitstream(v))
    /\ want' = v
    /\ mainPc' = "storeMajor"
    /\ UNCHANGED <<stop, sockVars, infoVars, versionVars, cmdVars, dataVars,
                   cmdIn, dataIn, serverVars>>

\* set_nat_net_version: the return value of sendto is a byte count, so the
\* version is stored as soon as the request is sent.
SetNatNetVersion(v) ==
    /\ mainPc = "idle"
    /\ canChange
    /\ v # <<reqMajor, reqMinor>>
    /\ Send(SetBitstream(v))
    /\ want' = v
    /\ mainPc' = "storeMajor"
    /\ UNCHANGED <<stop, sockVars, infoVars, versionVars, cmdVars, dataVars,
                   cmdIn, dataIn, serverVars>>

StoreMajor ==
    /\ mainPc = "storeMajor"
    /\ reqMajor' = want[1]
    /\ mainPc' = "storeMinor"
    /\ UNCHANGED <<want, stop, sockVars, infoVars, reqMinor, canChange, cmdVars,
                   dataVars, netVars, serverVars>>

StoreMinor ==
    /\ mainPc = "storeMinor"
    /\ reqMinor' = want[2]
    /\ want' = NoVersion
    /\ mainPc' = "idle"
    /\ UNCHANGED <<stop, sockVars, infoVars, reqMajor, canChange, cmdVars,
                   dataVars, netVars, serverVars>>

-----------------------------------------------------------------------------
(* Main thread: shutdown                                                    *)

ShutdownStop ==
    /\ mainPc = "idle"
    /\ stop' = TRUE
    /\ mainPc' = "closeCmd"
    /\ UNCHANGED <<want, sockVars, infoVars, versionVars, cmdVars, dataVars,
                   netVars, serverVars>>

ShutdownCloseCommand ==
    /\ mainPc = "closeCmd"
    /\ cmdSock' = "closed"
    /\ mainPc' = "closeData"
    /\ UNCHANGED <<want, stop, dataSock, infoVars, versionVars, cmdVars, dataVars,
                   netVars, serverVars>>

ShutdownCloseData ==
    /\ mainPc = "closeData"
    /\ dataSock' = "closed"
    /\ mainPc' = "joinCmd"
    /\ UNCHANGED <<want, stop, cmdSock, infoVars, versionVars, cmdVars, dataVars,
                   netVars, serverVars>>

ShutdownJoinCommand ==
    /\ mainPc = "joinCmd"
    /\ Ended(cmdPc)
    /\ mainPc' = "joinData"
    /\ UNCHANGED <<want, stop, sockVars, infoVars, versionVars, cmdVars, dataVars,
                   netVars, serverVars>>

ShutdownJoinData ==
    /\ mainPc = "joinData"
    /\ Ended(dataPc)
    /\ mainPc' = "done"
    /\ UNCHANGED <<want, stop, sockVars, infoVars, versionVars, cmdVars, dataVars,
                   netVars, serverVars>>

-----------------------------------------------------------------------------
(* Command thread                                                           *)

CmdFrame == <<mainVars, sockVars, dataVars, dataIn, serverVars>>

\* Fault: the loop does not test stop.
CmdTopForever ==
    /\ cmdPc = "top"
    /\ cmdPc' = "recv"
    /\ UNCHANGED <<CmdFrame, infoVars, versionVars, cmdMsg, cmdMajor, cmdMinor,
                   zeroed, toServer, cmdIn>>

CmdTop ==
    /\ cmdPc = "top"
    /\ cmdPc' = IF stop THEN "done" ELSE "recv"
    /\ UNCHANGED <<CmdFrame, infoVars, versionVars, cmdMsg, cmdMajor, cmdMinor,
                   zeroed, toServer, cmdIn>>

CmdReceive(m) ==
    /\ cmdPc = "recv"
    /\ cmdSock = "open"
    /\ m \in cmdIn
    /\ cmdIn' \in Rest(cmdIn, m)
    /\ cmdMsg' = m
    /\ zeroed' = FALSE
    /\ cmdPc' = "major"
    /\ UNCHANGED <<CmdFrame, infoVars, versionVars, cmdMajor, cmdMinor, toServer>>

\* Fault: a timeout goes back to the receive and skips the keep-alive.
CmdReceiveRetries ==
    /\ cmdPc = "recv"
    /\ cmdSock = "closed" \/ cmdIn = {}
    /\ zeroed' = FALSE
    /\ cmdPc' = "top"
    /\ UNCHANGED <<CmdFrame, infoVars, versionVars, cmdMsg, cmdMajor, cmdMinor,
                   toServer, cmdIn>>

\* The two-second timeout, or an error on the closed socket.  The handler falls
\* through to the buffer in use: empty, except before the first packet.
CmdReceiveFails ==
    /\ cmdPc = "recv"
    /\ cmdSock = "closed" \/ cmdIn = {}
    /\ zeroed' = FALSE
    /\ cmdMsg' = IF zeroed THEN ZeroBuffer ELSE cmdMsg
    /\ cmdPc' = IF zeroed THEN "major" ELSE "keepAlive"
    /\ UNCHANGED <<CmdFrame, infoVars, versionVars, cmdMajor, cmdMinor,
                   toServer, cmdIn>>

CmdReadMajor ==
    /\ cmdPc = "major"
    /\ cmdMajor' = reqMajor
    /\ cmdPc' = "minor"
    /\ UNCHANGED <<CmdFrame, infoVars, versionVars, cmdMsg, cmdMinor, zeroed,
                   toServer, cmdIn>>

CmdReadMinor ==
    /\ cmdPc = "minor"
    /\ cmdMinor' = reqMinor
    /\ cmdPc' = "handle"
    /\ UNCHANGED <<CmdFrame, infoVars, versionVars, cmdMsg, cmdMajor, zeroed,
                   toServer, cmdIn>>

\* The packet is done with: its buffer is emptied, its locals go out of scope.
CmdFinish(pc) ==
    /\ cmdPc' = pc
    /\ cmdMsg' = NoMsg
    /\ cmdMajor' = 0
    /\ cmdMinor' = 0
    /\ UNCHANGED zeroed

\* Frames, descriptions and the responses that change nothing in the client.
CmdUnpack ==
    /\ cmdPc = "handle"
    /\ cmdMsg.kind \in {"FRAMEOFDATA", "MODELDEF", "REPLY", "ZEROS"}
    /\ \/ MayReturn(cmdMsg, cmdMajor, cmdMinor) /\ CmdFinish("keepAlive")
       \/ MayRaise(cmdMsg, cmdMajor, cmdMinor) /\ CmdFinish("dead")
    /\ UNCHANGED <<CmdFrame, infoVars, versionVars, toServer, cmdIn>>

\* The answer to "Bitstream" updates the server's version, not the requested one.
CmdBitstreamResponse ==
    /\ cmdPc = "handle"
    /\ cmdMsg.kind = "BITSTREAM"
    /\ \/ /\ MayReturn(cmdMsg, cmdMajor, cmdMinor)
          /\ streamVersion' = cmdMsg.ver
          /\ CmdFinish("keepAlive")
       \/ /\ MayRaise(cmdMsg, cmdMajor, cmdMinor)
          /\ streamVersion' = <<cmdMsg.ver[1], streamVersion[2]>>
          /\ CmdFinish("dead")
    /\ UNCHANGED <<CmdFrame, appNameSet, serverVersionSet, versionVars, toServer, cmdIn>>

\* Fault: the change is offered before the requested version is stored.
CmdInfoStoreOffersEarly ==
    /\ cmdPc = "handle"
    /\ cmdMsg.kind = "SERVERINFO"
    /\ appNameSet' = TRUE
    /\ serverVersionSet' = TRUE
    /\ streamVersion' = cmdMsg.ver
    /\ canChange' = (canChange \/ (cmdMsg.ver[1] >= 4 /\ Unicast))
    /\ cmdPc' = "infoTest"
    /\ UNCHANGED <<CmdFrame, reqMajor, reqMinor, cmdMsg, cmdMajor, cmdMinor, zeroed,
                   toServer, cmdIn>>

\* __unpack_server_info.  The name and the versions of the server are stored
\* first; other threads only print them, so these stores are one step.
CmdInfoStore ==
    /\ cmdPc = "handle"
    /\ cmdMsg.kind = "SERVERINFO"
    /\ appNameSet' = TRUE
    /\ serverVersionSet' = TRUE
    /\ streamVersion' = cmdMsg.ver
    /\ cmdPc' = "infoTest"
    /\ UNCHANGED <<CmdFrame, versionVars, cmdMsg, cmdMajor, cmdMinor, zeroed,
                   toServer, cmdIn>>

\* Fault: every announcement resets the requested version.
CmdInfoTestAlways ==
    /\ cmdPc = "infoTest"
    /\ cmdPc' = "infoMajor"
    /\ UNCHANGED <<CmdFrame, infoVars, versionVars, cmdMsg, cmdMajor, cmdMinor,
                   zeroed, toServer, cmdIn>>

CmdInfoTest ==
    /\ cmdPc = "infoTest"
    /\ \/ /\ reqMajor = 0 /\ reqMinor = 0
          /\ cmdPc' = "infoMajor"
          /\ UNCHANGED <<cmdMsg, cmdMajor, cmdMinor, zeroed>>
       \/ /\ ~(reqMajor = 0 /\ reqMinor = 0)
          /\ CmdFinish("keepAlive")
    /\ UNCHANGED <<CmdFrame, infoVars, versionVars, toServer, cmdIn>>

CmdInfoMajor ==
    /\ cmdPc = "infoMajor"
    /\ reqMajor' = streamVersion[1]
    /\ cmdPc' = "infoMinor"
    /\ UNCHANGED <<CmdFrame, infoVars, reqMinor, canChange, cmdMsg, cmdMajor,
                   cmdMinor, zeroed, toServer, cmdIn>>

CmdInfoMinor ==
    /\ cmdPc = "infoMinor"
    /\ reqMinor' = streamVersion[2]
    /\ cmdPc' = "infoChange"
    /\ UNCHANGED <<CmdFrame, infoVars, reqMajor, canChange, cmdMsg, cmdMajor,
                   cmdMinor, zeroed, toServer, cmdIn>>

CmdInfoChange ==
    /\ cmdPc = "infoChange"
    /\ canChange' = (canChange \/ (streamVersion[1] >= 4 /\ Unicast))
    /\ CmdFinish("keepAlive")
    /\ UNCHANGED <<CmdFrame, infoVars, reqMajor, reqMinor, toServer, cmdIn>>

CmdKeepAliveTest ==
    /\ cmdPc = "keepAlive"
    /\ cmdPc' = IF Unicast /\ ~stop THEN "sendKeepAlive" ELSE "top"
    /\ UNCHANGED <<CmdFrame, infoVars, versionVars, cmdMsg, cmdMajor, cmdMinor,
                   zeroed, toServer, cmdIn>>

\* sendto on a socket closed since the test raises outside any handler.
CmdSendKeepAlive ==
    /\ cmdPc = "sendKeepAlive"
    /\ cmdPc' = IF cmdSock = "open" THEN "top" ELSE "dead"
    /\ UNCHANGED <<CmdFrame, infoVars, versionVars, cmdMsg, cmdMajor, cmdMinor,
                   zeroed, toServer, cmdIn>>

CommandThread ==
    \/ CmdTop \/ CmdReceiveFails \/ (\E m \in cmdIn : CmdReceive(m))
    \/ CmdReadMajor \/ CmdReadMinor \/ CmdUnpack \/ CmdBitstreamResponse
    \/ CmdInfoStore \/ CmdInfoTest
    \/ CmdInfoMajor \/ CmdInfoMinor \/ CmdInfoChange
    \/ CmdKeepAliveTest \/ CmdSendKeepAlive

-----------------------------------------------------------------------------
(* Data thread                                                              *)

DataFrame == <<mainVars, sockVars, infoVars, versionVars, cmdVars, toServer,
               cmdIn, serverVars>>

DataTop ==
    /\ dataPc = "top"
    /\ dataPc' = IF stop THEN "done" ELSE "recv"
    /\ UNCHANGED <<DataFrame, dataMsg, dataMajor, dataMinor, dataIn>>

\* What the handler of socket.error leaves: the end, or the test of the loop.
AfterDataError == IF stop THEN "top" ELSE "done"

\* recvfrom is entered: it blocks (there is no timeout) or finds the socket closed.
DataCall ==
    /\ dataPc = "recv"
    /\ dataPc' = IF dataSock = "open" THEN "blocked" ELSE AfterDataError
    /\ UNCHANGED <<DataFrame, dataMsg, dataMajor, dataMinor, dataIn>>

DataReceive(m) ==
    /\ dataPc = "blocked"
    /\ m \in dataIn
    /\ dataIn' \in Rest(dataIn, m)
    /\ dataMsg' = m
    /\ dataPc' = "major"
    /\ UNCHANGED <<DataFrame, dataMajor, dataMinor>>

\* Fault: the data socket has a timeout, as the command socket has.
DataTimesOut ==
    /\ dataPc = "blocked"
    /\ dataSock = "closed" \/ dataIn = {}
    /\ dataPc' = AfterDataError
    /\ UNCHANGED <<DataFrame, dataMsg, dataMajor, dataMinor, dataIn>>

DataWoken ==
    /\ dataPc = "blocked"
    /\ CloseWakes
    /\ dataSock = "closed"
    /\ dataPc' = AfterDataError
    /\ UNCHANGED <<DataFrame, dataMsg, dataMajor, dataMinor, dataIn>>

DataReadMajor ==
    /\ dataPc = "major"
    /\ dataMajor' = reqMajor
    /\ dataPc' = "minor"
    /\ UNCHANGED <<DataFrame, dataMsg, dataMinor, dataIn>>

DataReadMinor ==
    /\ dataPc = "minor"
    /\ dataMinor' = reqMinor
    /\ dataPc' = "handle"
    /\ UNCHANGED <<DataFrame, dataMsg, dataMajor, dataIn>>

DataUnpack ==
    /\ dataPc = "handle"
    /\ \/ MayReturn(dataMsg, dataMajor, dataMinor) /\ dataPc' = "top"
       \/ MayRaise(dataMsg, dataMajor, dataMinor) /\ dataPc' = "dead"
    /\ dataMsg' = NoMsg
    /\ dataMajor' = 0
    /\ dataMinor' = 0
    /\ UNCHANGED <<DataFrame, dataIn>>

DataThread ==
    \/ DataTop \/ DataCall \/ DataWoken \/ (\E m \in dataIn : DataReceive(m))
    \/ DataReadMajor \/ DataReadMinor \/ DataUnpack

-----------------------------------------------------------------------------
(* External: the server and the network                                     *)

ClientVars == <<mainVars, sockVars, infoVars, versionVars, cmdVars, dataVars>>

ToCommandSocket(m) == cmdIn' = IF cmdSock = "open" THEN Put(cmdIn, m, PacketCap) ELSE cmdIn

ServerConnect ==
    /\ Connect \in toServer
    /\ toServer' \in Rest(toServer, Connect)
    /\ registered' = TRUE
    /\ ToCommandSocket(Answer("SERVERINFO", serverVer))
    /\ UNCHANGED <<ClientVars, dataIn, serverVer, restarts>>

ServerQuery ==
    /\ Query \in toServer
    /\ toServer' \in Rest(toServer, Query)
    /\ ToCommandSocket(Answer("BITSTREAM", serverVer))
    /\ UNCHANGED <<ClientVars, dataIn, serverVars>>

ServerDescribe ==
    /\ Describe \in toServer
    /\ toServer' \in Rest(toServer, Describe)
    /\ ToCommandSocket(Answer("MODELDEF", serverVer))
    /\ UNCHANGED <<ClientVars, dataIn, serverVars>>

\* The server follows the request, or answers that it does not recognise it.
ServerSetBitstream(v) ==
    /\ SetBitstream(v) \in toServer
    /\ toServer' \in Rest(toServer, SetBitstream(v))
    /\ serverVer' \in {v, serverVer}
    /\ ToCommandSocket(Reply)
    /\ UNCHANGED <<ClientVars, dataIn, registered, restarts>>

\* Unicast frames go where NAT_CONNECT came from, which is the command socket.
\* A blocked receive keeps the socket it was called on until it returns.
ServerFrame ==
    /\ \/ /\ Unicast
          /\ registered
          /\ ToCommandSocket(Answer("FRAMEOFDATA", serverVer))
          /\ UNCHANGED dataIn
       \/ /\ ~Unicast
          /\ dataSock = "open" \/ dataPc = "blocked"
          /\ dataIn' = Put(dataIn, Answer("FRAMEOFDATA", serverVer), PacketCap)
          /\ UNCHANGED cmdIn
    /\ UNCHANGED <<ClientVars, toServer, serverVars>>

ServerRestart ==
    /\ restarts < MaxRestarts
    /\ restarts' = restarts + 1
    /\ serverVer' \in ServerVersions
    /\ registered' = FALSE
    /\ toServer' = {}
    /\ UNCHANGED <<ClientVars, cmdIn, dataIn>>

Lose ==
    /\ Unreliable
    /\ \/ \E r \in toServer : toServer' = toServer \ {r} /\ UNCHANGED <<cmdIn, dataIn>>
       \/ \E m \in cmdIn : cmdIn' = cmdIn \ {m} /\ UNCHANGED <<toServer, dataIn>>
       \/ \E m \in dataIn : dataIn' = dataIn \ {m} /\ UNCHANGED <<toServer, cmdIn>>
    /\ UNCHANGED <<ClientVars, serverVars>>

ServerAnswers == ServerConnect \/ ServerQuery \/ ServerDescribe
                   \/ \E v \in UserVersions : ServerSetBitstream(v)

-----------------------------------------------------------------------------
Run == RunOpenData \/ RunOpenCommand \/ RunStartCommand \/ RunStartData \/ RunConnect

User == RefreshConfiguration \/ RequestDescriptions \/ ShutdownStop
          \/ \E v \in UserVersions : SetNatNetVersion(v)

\* The steps of main that follow once the user has chosen.
MainContinues ==
    \/ Run \/ (mainPc = "settle" /\ RefreshConfiguration)
    \/ StoreMajor \/ StoreMinor
    \/ ShutdownCloseCommand \/ ShutdownCloseData
    \/ ShutdownJoinCommand \/ ShutdownJoinData

\* The program has ended: nothing of it runs any more.
Terminated == mainPc \in {"done", "exited"} /\ UNCHANGED vars

Next ==
    \/ Run \/ User
    \/ StoreMajor \/ StoreMinor
    \/ ShutdownCloseCommand \/ ShutdownCloseData
    \/ ShutdownJoinCommand \/ ShutdownJoinData
    \/ CommandThread \/ DataThread
    \/ ServerAnswers \/ ServerFrame \/ ServerRestart \/ Lose
    \/ Terminated

Spec == Init /\ [][Next]_vars

\* The operating system schedules every thread; the user owes nothing, nor do
\* the server and the network.
ThreadFairness ==
    /\ WF_vars(MainContinues)
    /\ WF_vars(CommandThread)
    /\ WF_vars(DataThread)

FairSpec == Spec /\ ThreadFairness

\* A server that is up answers the connection request, and a socket's queue is
\* served in order: no packet waits for ever behind later ones.
ServedSpec ==
    /\ FairSpec
    /\ WF_vars(ServerConnect)
    /\ \A m \in Packet : SF_vars(CmdReceive(m))

-----------------------------------------------------------------------------
(* Properties                                                               *)

Known == StreamVersions \cup {NoVersion}
Majors == {v[1] : v \in Known}
Minors == {v[2] : v \in Known}

\* Type correctness of every variable of the session.
TypeOK ==
    /\ mainPc \in MainPcs /\ want \in UserVersions \cup {NoVersion} /\ stop \in BOOLEAN
    /\ cmdSock \in {"none", "open", "closed"} /\ dataSock \in {"none", "open", "closed"}
    /\ appNameSet \in BOOLEAN /\ serverVersionSet \in BOOLEAN
    /\ streamVersion \in Majors \X Minors
    /\ reqMajor \in Majors /\ reqMinor \in Minors /\ canChange \in BOOLEAN
    /\ cmdPc \in CmdPcs /\ cmdMsg \in Packet \cup {NoMsg, ZeroBuffer}
    /\ cmdMajor \in Majors /\ cmdMinor \in Minors /\ zeroed \in BOOLEAN
    /\ dataPc \in DataPcs /\ dataMsg \in Packet \cup {NoMsg}
    /\ dataMajor \in Majors /\ dataMinor \in Minors
    /\ toServer \subseteq Request /\ cmdIn \subseteq Packet /\ dataIn \subseteq Packet
    /\ serverVer \in StreamVersions /\ registered \in BOOLEAN
    /\ restarts \in 0..MaxRestarts

MainStoring == mainPc \in {"storeMajor", "storeMinor"}
CmdStoring == cmdPc \in {"infoMajor", "infoMinor", "infoChange"}

\* The stores of each writer happen in the order that keeps the other out.
StoreInv ==
    /\ MainStoring => canChange /\ want \in UserVersions
    /\ mainPc = "storeMinor" => reqMajor = want[1]
    /\ canChange => /\ Unicast /\ appNameSet /\ serverVersionSet
                    /\ reqMajor # 0 /\ ~CmdStoring
    /\ CmdStoring \/ cmdPc = "infoTest" =>
          streamVersion \in StreamVersions /\ appNameSet /\ serverVersionSet
    /\ cmdPc = "infoMajor" => reqMajor = 0 /\ reqMinor = 0
    /\ cmdPc \in {"infoMinor", "infoChange"} => reqMajor = streamVersion[1]
    /\ cmdPc = "infoChange" => reqMinor = streamVersion[2]
    /\ reqMajor = 0 => reqMinor = 0

RequestInv == (\E r \in toServer : r.kind = "SETBITSTREAM") => canChange

ThreadInv ==
    /\ mainPc \in {"openData", "openCmd", "startCmd", "exited"} => cmdPc = "off"
    /\ mainPc \in {"joinData", "done"} => Ended(cmdPc)
    /\ mainPc = "done" => Ended(dataPc)

\* The inductive invariant behind the safety properties below: who may be
\* storing the version when, what a request in flight proves, who is started and joined.
SessionInv == TypeOK /\ StoreInv /\ RequestInv /\ ThreadInv

\* The two threads that store the components of the requested version, one at
\* a time and without a lock, are never both in the middle of it: the permission
\* set_nat_net_version tests is the last thing __unpack_server_info stores.
SingleVersionWriter == ~(MainStoring /\ CmdStoring)

\* A request to change the bitstream is on the wire only in a unicast session
\* whose server announced itself and a version: the sample's "Unicast only".
ChangeRequestsAreNegotiated ==
    (\E r \in toServer : r.kind = "SETBITSTREAM")
        => Unicast /\ appNameSet /\ serverVersionSet /\ reqMajor # 0

\* Once shutdown has returned no thread of the client is left: no packet is
\* unpacked and no listener called behind the back of the caller.
NoThreadAfterShutdown ==
    mainPc = "done" => Ended(cmdPc) /\ Ended(dataPc)

\* The version the client stands by: a store in progress counts as made.
StandingVersion ==
    IF MainStoring THEN want
    ELSE IF cmdPc = "infoMinor" THEN streamVersion
    ELSE <<reqMajor, reqMinor>>

Cell == INSTANCE NegotiatedVersion
          WITH version <- StandingVersion, offered <- canChange,
               Unset <- NoVersion, Changeable <- Unicast

\* The session implements the abstract version cell: the version is taken from
\* the server once and only the user changes it afterwards, through restarts of
\* the server, repeated announcements and stores made one component at a time.
ImplementsNegotiatedVersion == Cell!Spec

\* shutdown returns: both threads leave their receive calls and are joined.
ShutdownReturns == stop ~> mainPc = "done"

\* While a unicast session runs, the command thread keeps reaching the point
\* where it sends its keep-alive, unless an exception ended it.
KeepsAlive ==
    []<>(cmdPc = "sendKeepAlive" \/ stop \/ mainPc = "exited" \/ cmdPc = "dead")

Connected == cmdSock # "none" /\ dataSock # "none" /\ appNameSet /\ serverVersionSet

\* A session whose datagrams all arrive gets connected, unless the user leaves
\* first or a packet that overtook the announcement ended the command thread.
GetsConnected == mainPc = "settle" ~> (Connected \/ stop \/ cmdPc = "dead")

\* PythonSample.py:243 says of the client's threads: "This will run perpetually".
\* A started thread has ended only when shutdown asked for it.
RunsPerpetually ==
    (cmdPc \in {"done", "dead"} \/ dataPc \in {"done", "dead"}) => stop

\* Until a change of the version is offered, and as long as the server runs, a thread
\* ends unasked only for a packet it began to read before the announced version had
\* been stored, for one the decoder does not take with the right version either, or,
\* of the command thread, for a number that ends with a NUL.
ThreadsEndForCause ==
    [][~stop /\ ~canChange /\ restarts = 0
          => /\ cmdPc' \in {"done", "dead"} /\ cmdPc' # cmdPc =>
                   /\ cmdPc = "handle"
                   /\ \/ cmdMajor = 0 /\ cmdMinor = 0
                      \/ cmdMsg.kind = "BITSTREAM" /\ NulTerminated
                      \/ cmdMsg.kind = "FRAMEOFDATA" /\ ~FrameSupported(cmdMsg.ver)
                      \/ cmdMsg.kind = "MODELDEF" /\ ~DescriptionSupported(cmdMsg.ver)
             /\ dataPc' \in {"done", "dead"} /\ dataPc' # dataPc =>
                   /\ dataPc = "handle"
                   /\ \/ dataMajor = 0 \/ (dataMajor = serverVer[1] /\ dataMinor = 0)
                      \/ ~FrameSupported(dataMsg.ver)]_vars

\* Nothing under way, no thread in the middle of a packet.
AtRest ==
    /\ toServer = {} /\ cmdIn = {} /\ dataIn = {}
    /\ mainPc = "idle" /\ cmdPc \in {"recv", "keepAlive", "sendKeepAlive"}

\* NatNetClient.py:107-108 says that the requested version is "updated to the actual
\* version the server is using at runtime".  As long as the server runs it differs
\* from that only by a change the user asked for and the server did not get or
\* refused, which nobody notices; no late or repeated packet takes them apart.
DivergesOnlyByRequest ==
    AtRest /\ Connected /\ restarts = 0 /\ <<reqMajor, reqMinor>> # serverVer
        => canChange /\ <<reqMajor, reqMinor>> \in UserVersions
==============================================================================
