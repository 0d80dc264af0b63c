------------------------------ MODULE AsyncReader ------------------------------
(***************************************************************************)
(* src/main.cpp with the UnpackCommand of the portable build of            *)
(* PacketClient.cpp: NAT_CONNECT is sent once, whatever arrives first is   *)
(* taken for the answer, and from then on a chain of asynchronous receives *)
(* fills one buffer of 20000 bytes that each handler unpacks before it     *)
(* asks for the next datagram.                                             *)
(*                                                                         *)
(* A frame is its number in the order of arrival, the version it was       *)
(* encoded in and whether it is longer than the buffer.  Reading it with   *)
(* another version, or reading what was cut off, runs through memory the   *)
(* packet does not fill: the program may go on or end.                     *)
(***************************************************************************)
EXTENDS Integers, Sequences

CONSTANTS Versions,       \* versions of the bitstream
          ServerVersion,  \* the version the server starts with
          NoVersion,      \* 0.0, before any announcement
          Application,    \* version of the server's program
          Nothing,        \* no packet
          MaxFrames,      \* bound: frames that arrive
          SocketCap       \* frames the socket holds

ASSUME ReaderAssumption ==
    /\ ServerVersion \in Versions
    /\ NoVersion \notin Versions /\ Application \notin Versions \cup {NoVersion}
    /\ MaxFrames \in Nat /\ SocketCap \in Nat \ {0}

Frames == [n : 1..MaxFrames, ver : Versions, long : BOOLEAN]
Replies == [kind : {"SERVERINFO", "OTHER"}, ver : Versions]
ASSUME NothingAssumption == Nothing \notin Frames /\ Nothing \notin Replies

VARIABLES
    \* main: position, and what ended the program
    pc, ended,
    version,   \* gNatNetVersion
    armed,     \* an asynchronous receive is under way
    buffer,    \* the frame in data_ whose handler has not run
    command,   \* the answer waiting in the command socket
    socket,    \* the frames waiting in the multicast socket
    \* server: NAT_CONNECT on its way, client known, version of its stream
    asked, known, serverVer,
    \* history: frames arrived, number of the frame unpacked last, what came
    \* first, what was unpacked last was read as it was written, datagrams lost,
    \* server changed after its announcement
    arrived, unpacked, first, faithful, lost, changed

readerVars == <<pc, ended, version, armed, buffer, unpacked, first, faithful>>
serverVars == <<asked, known, serverVer, changed>>
vars == <<readerVars, serverVars, command, socket, arrived, lost>>

Init ==
    /\ pc = "start" /\ ended = "no" /\ version = NoVersion
    /\ armed = FALSE /\ buffer = Nothing
    /\ command = Nothing /\ socket = <<>>
    /\ asked = FALSE /\ known = FALSE /\ serverVer = ServerVersion
    /\ arrived = 0 /\ unpacked = 0 /\ first = Nothing /\ faithful = TRUE
    /\ lost = FALSE /\ changed = FALSE

Running == pc # "exited"
Exit(why) == pc' = "exited" /\ ended' = why

-----------------------------------------------------------------------------
(* main                                                                     *)

\* An exception of the library: no such host, no such interface.
Exception ==
    /\ pc \in {"start", "versioned"}
    /\ Exit("exception")
    /\ UNCHANGED <<version, armed, buffer, unpacked, first, faithful, serverVars,
                   command, socket, arrived, lost>>

\* Fault: the request is built and not sent.
SendConnectForgotten ==
    /\ pc = "start"
    /\ pc' = "asked"
    /\ UNCHANGED <<ended, version, armed, buffer, unpacked, first, faithful, serverVars,
                   command, socket, arrived, lost>>

SendConnect ==
    /\ pc = "start"
    /\ asked' = TRUE
    /\ pc' = "asked"
    /\ UNCHANGED <<ended, version, armed, buffer, unpacked, first, faithful, known,
                   serverVer, changed, command, socket, arrived, lost>>

\* Fault: the version of the server's program is stored.
UnpackCommandApplication(reply) ==
    version' = IF reply.kind = "SERVERINFO" THEN Application ELSE version

\* Only an announcement has a version; anything else is an "unknown response".
UnpackCommand(reply) ==
    version' = IF reply.kind = "SERVERINFO" THEN reply.ver ELSE version

\* The blocking receive ends with the first packet, whatever it is.
ReceiveReply ==
    /\ pc = "asked"
    /\ command # Nothing
    /\ first' = command
    /\ command' = Nothing
    /\ UnpackCommand(command)
    /\ pc' = "versioned"
    /\ UNCHANGED <<ended, armed, buffer, unpacked, faithful, serverVars, socket, arrived,
                   lost>>

\* The receiver binds its socket, joins the group and asks for the first frame.
Listen ==
    /\ pc = "versioned"
    /\ armed' = TRUE
    /\ pc' = "reading"
    /\ UNCHANGED <<ended, version, buffer, unpacked, first, faithful, serverVars, command,
                   socket, arrived, lost>>

-----------------------------------------------------------------------------
(* receiver                                                                 *)

ReceiverFrame == <<version, first, serverVars, command, arrived, lost>>

\* A receive under way takes the next datagram; its handler is due.
Receive ==
    /\ pc = "reading"
    /\ armed /\ socket # <<>>
    /\ buffer' = Head(socket)
    /\ socket' = Tail(socket)
    /\ armed' = FALSE
    /\ UNCHANGED <<ReceiverFrame, pc, ended, unpacked, faithful>>

\* A receive that ends with an error is reported and not repeated.
ReceiveError ==
    /\ pc = "reading"
    /\ armed
    /\ armed' = FALSE
    /\ ended' = "error"
    /\ UNCHANGED <<ReceiverFrame, pc, buffer, socket, unpacked, faithful>>

\* What Unpack makes of a frame.
Unpack(frame) ==
    /\ unpacked' = frame.n
    /\ faithful' = (version = frame.ver /\ ~frame.long)
    /\ \/ UNCHANGED <<pc, ended>>
       \/ ~faithful' /\ Exit("crash")

\* Fault: the next receive is started first, and finds a datagram.
HandleArmsFirst ==
    /\ pc = "reading"
    /\ buffer # Nothing
    /\ IF socket = <<>>
       THEN Unpack(buffer) /\ buffer' = Nothing /\ armed' = TRUE /\ UNCHANGED socket
       ELSE /\ Unpack(Head(socket)) /\ buffer' = Head(socket)
            /\ socket' = Tail(socket) /\ UNCHANGED armed
    /\ UNCHANGED ReceiverFrame

\* Fault: the handler ends the chain.
HandleOnce ==
    /\ pc = "reading"
    /\ buffer # Nothing
    /\ Unpack(buffer)
    /\ buffer' = Nothing
    /\ UNCHANGED <<ReceiverFrame, armed, socket>>

\* The handler: the frame is unpacked, then the next one is asked for.
Handle ==
    /\ pc = "reading"
    /\ buffer # Nothing
    /\ Unpack(buffer)
    /\ buffer' = Nothing
    /\ armed' = TRUE
    /\ UNCHANGED <<ReceiverFrame, socket>>

\* Without a receive under way or a handler due, io_context.run returns.
RunReturns ==
    /\ pc = "reading"
    /\ ~armed /\ buffer = Nothing
    /\ pc' = "exited"
    /\ UNCHANGED <<ReceiverFrame, ended, armed, buffer, socket, unpacked, faithful>>

Reader == SendConnect \/ ReceiveReply \/ Listen \/ Receive \/ Handle \/ RunReturns

-----------------------------------------------------------------------------
(* External: server and network                                             *)

ServerConnect ==
    /\ Running /\ asked
    /\ asked' = FALSE /\ known' = TRUE
    /\ command' = IF command = Nothing THEN [kind |-> "SERVERINFO", ver |-> serverVer]
                  ELSE command
    /\ UNCHANGED <<readerVars, serverVer, changed, socket, arrived, lost>>

\* A packet for the client that is no announcement: a frame of a unicast server,
\* which overtakes the answer, or a message.
ServerSendsOther ==
    /\ Running /\ (asked \/ known) /\ command = Nothing
    /\ command' = [kind |-> "OTHER", ver |-> serverVer]
    /\ UNCHANGED <<readerVars, serverVars, socket, arrived, lost>>

\* Another client changes the bitstream, or another server takes its place.
ServerChanges ==
    /\ Running
    /\ serverVer' \in Versions \ {serverVer}
    /\ changed' = known
    /\ UNCHANGED <<readerVars, asked, known, command, socket, arrived, lost>>

\* A frame arrives where the socket has room for it.
ServerFrame ==
    /\ pc = "reading"
    /\ arrived < MaxFrames /\ Len(socket) < SocketCap
    /\ arrived' = arrived + 1
    /\ \E long \in BOOLEAN :
          socket' = Append(socket, [n |-> arrived', ver |-> serverVer, long |-> long])
    /\ UNCHANGED <<readerVars, serverVars, command, lost>>

Lose ==
    /\ Running
    /\ lost' = TRUE
    /\ \/ asked /\ asked' = FALSE /\ UNCHANGED command
       \/ command # Nothing /\ command' = Nothing /\ UNCHANGED asked
    /\ UNCHANGED <<readerVars, known, serverVer, changed, socket, arrived>>

Next ==
    \/ Reader \/ Exception \/ ReceiveError
    \/ ServerConnect \/ ServerSendsOther \/ ServerChanges \/ ServerFrame \/ Lose

Spec == Init /\ [][Next]_vars

\* The program is scheduled, the server answers.
FairSpec == Spec /\ WF_vars(Reader) /\ WF_vars(ServerConnect)

-----------------------------------------------------------------------------
(* Properties                                                               *)

\* Type correctness of every variable of the reader.
TypeOK ==
    /\ pc \in {"start", "asked", "versioned", "reading", "exited"}
    /\ ended \in {"no", "exception", "error", "crash"}
    /\ version \in Versions \cup {NoVersion}
    /\ armed \in BOOLEAN /\ buffer \in Frames \cup {Nothing}
    /\ command \in Replies \cup {Nothing} /\ first \in Replies \cup {Nothing}
    /\ socket \in Seq(Frames) /\ Len(socket) <= SocketCap
    /\ asked \in BOOLEAN /\ known \in BOOLEAN /\ serverVer \in Versions
    /\ arrived \in 0..MaxFrames /\ unpacked \in 0..MaxFrames
    /\ faithful \in BOOLEAN /\ lost \in BOOLEAN /\ changed \in BOOLEAN

\* The frames the program still has to unpack, oldest first.
OrderInv ==
    /\ unpacked <= arrived
    /\ \A i \in 1..Len(socket) : unpacked < socket[i].n /\ socket[i].n <= arrived
    /\ \A i, j \in 1..Len(socket) : i < j => socket[i].n < socket[j].n
    /\ buffer # Nothing =>
          /\ unpacked < buffer.n /\ buffer.n <= arrived
          /\ \A i \in 1..Len(socket) : buffer.n < socket[i].n

Announces(reply) == reply # Nothing /\ reply.kind = "SERVERINFO"

\* Where the version comes from, and whose it is while the server keeps its own.
VersionInv ==
    /\ pc \in {"versioned", "reading"} => first # Nothing
    /\ pc \in {"start", "asked", "versioned"} => socket = <<>> /\ buffer = Nothing
    /\ changed \/ Announces(command) \/ Announces(first) => known
    /\ Announces(first) => version = first.ver
    /\ ~changed /\ Announces(command) => command.ver = serverVer
    /\ ~changed /\ Announces(first) =>
          /\ first.ver = serverVer
          /\ \A i \in 1..Len(socket) : socket[i].ver = serverVer
          /\ buffer # Nothing => buffer.ver = serverVer

\* The chain of receives: until a cause is recorded a receive is under way or a
\* handler is due, and main has not returned.
ChainInv ==
    /\ armed => buffer = Nothing
    /\ pc = "reading" => armed \/ buffer # Nothing \/ ended # "no"
    /\ pc = "exited" => ended # "no"

Held == {socket[i].n : i \in 1..Len(socket)}
           \cup (IF buffer = Nothing THEN {} ELSE {buffer.n})

\* What got into the socket is unpacked or still there: nothing is passed over.
NothingSkipped == \A n \in 1..arrived : n <= unpacked \/ n \in Held

\* The reader as a whole: types; one buffer, filled only when its handler has run,
\* an unbroken chain of receives, frames without a gap and in the order of their
\* arrival behind it; and a version that is the server's own until the server changes.
ReaderInv ==
    /\ TypeOK
    /\ ChainInv
    /\ OrderInv
    /\ NothingSkipped
    /\ VersionInv

\* A frame is unpacked otherwise than it was written, and may end the program,
\* only if something else came before the announcement, the server has changed
\* since, or the frame is longer than the buffer (main.cpp:37 and 57).
OnlyKnownMisreadings ==
    [][unpacked' # unpacked /\ ~faithful'
          => first.kind = "OTHER" \/ changed \/ buffer.long]_vars

\* The one buffer and its chain of receives are a lossy ordered feed: a datagram
\* is unpacked before the next one overwrites it, and once.
Feed == INSTANCE FrameFeed WITH accepted <- arrived, held <- Held, delivered <- unpacked
ImplementsFeed == Feed!Spec

\* The program gets to its frames, though it asks once: only a lost datagram or an
\* exception keeps it.
GetsToFrames == pc = "asked" ~> pc = "reading" \/ lost \/ ended # "no"

\* Every frame that got into the socket is unpacked, unless a receive failed or a
\* misreading ended the program: the handlers never stop asking.
ReadsOn ==
    \A n \in 1..MaxFrames : (arrived >= n) ~> (unpacked >= n \/ ended # "no")
==============================================================================
