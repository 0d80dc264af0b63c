-------------------------- MODULE AsyncReaderProofs --------------------------
(***************************************************************************)
(* Safety of the reader of src/main.cpp for every number of frames, size   *)
(* of the socket and set of versions: ReaderInv is inductive, so each      *)
(* frame is unpacked once, in order and before its buffer is filled again, *)
(* and is read as it was written but for the three known reasons.          *)
(***************************************************************************)
EXTENDS AsyncReader, TLAPS

USE ReaderAssumption, NothingAssumption

\* What the arrival of a frame does to the socket.
LEMMA AppendFacts ==
    ASSUME NEW q \in Seq(Frames), NEW f \in Frames
    PROVE  /\ Append(q, f) \in Seq(Frames)
           /\ Len(Append(q, f)) = Len(q) + 1 /\ Len(q) \in Nat
           /\ \A i \in 1..Len(q) : Append(q, f)[i] = q[i]
           /\ Append(q, f)[Len(q) + 1] = f
  OBVIOUS

\* What a receive does to it.
LEMMA TailFacts ==
    ASSUME NEW q \in Seq(Frames), q # <<>>
    PROVE  /\ Tail(q) \in Seq(Frames)
           /\ Len(q) \in Nat \ {0} /\ Len(Tail(q)) = Len(q) - 1
           /\ \A i \in 1..Len(Tail(q)) : Tail(q)[i] = q[i + 1]
           /\ Head(q) = q[1] /\ Head(q) \in Frames
  OBVIOUS

LEMMA SocketFrames ==
    ASSUME NEW q \in Seq(Frames)
    PROVE  /\ Len(q) \in Nat
           /\ \A i \in 1..Len(q) : q[i] \in Frames /\ q[i].n \in 1..MaxFrames
  <1>1. Len(q) \in Nat /\ \A i \in 1..Len(q) : q[i] \in Frames
    OBVIOUS
  <1>2. \A f \in Frames : f.n \in 1..MaxFrames
    BY DEF Frames
  <1> QED
    BY <1>1, <1>2

LEMMA EmptyFacts == <<>> \in Seq(Frames) /\ Len(<<>>) = 0
  OBVIOUS

LEMMA InvInit == Init => ReaderInv
  <1> SUFFICES ASSUME Init PROVE ReaderInv
    OBVIOUS
  <1>1. socket \in Seq(Frames) /\ Len(socket) <= SocketCap
    BY EmptyFacts DEF Init
  <1>2. arrived \in 0..MaxFrames /\ unpacked \in 0..MaxFrames
    BY DEF Init
  <1>3. TypeOK
    BY <1>1, <1>2 DEF Init, TypeOK
  <1>4. OrderInv /\ VersionInv
    BY EmptyFacts DEF Init, OrderInv, VersionInv, Announces
  <1>5. ChainInv /\ NothingSkipped
    BY DEF Init, ChainInv, NothingSkipped
  <1> QED
    BY <1>3, <1>4, <1>5 DEF ReaderInv

LEMMA TypeStep ==
    ASSUME ReaderInv, [Next]_vars
    PROVE  TypeOK'
  <1> USE DEF TypeOK
  <1>t. TypeOK
    BY DEF ReaderInv
  <1>1. CASE SendConnect \/ Exception \/ ReceiveError \/ RunReturns \/ Listen
    BY <1>t, <1>1 DEF SendConnect, Exception, ReceiveError, RunReturns, Listen, Exit,
       ReceiverFrame, serverVars
  <1>2. CASE ReceiveReply
    <2>1. command \in Replies /\ command.ver \in Versions
      BY <1>t, <1>2 DEF ReceiveReply, Replies
    <2> QED
      BY <1>t, <1>2, <2>1 DEF ReceiveReply, UnpackCommand, serverVars
  <1>3. CASE Receive
    <2>1. /\ buffer' \in Frames /\ socket' \in Seq(Frames)
          /\ Len(socket') <= SocketCap
      BY <1>t, <1>3, TailFacts DEF Receive
    <2> QED
      BY <1>t, <1>3, <2>1 DEF Receive, ReceiverFrame, serverVars
  <1>4. CASE Handle
    <2>1. buffer \in Frames /\ buffer.n \in 1..MaxFrames
      BY <1>t, <1>4 DEF Handle, Frames
    <2>2. unpacked' \in 0..MaxFrames /\ faithful' \in BOOLEAN
      BY <1>4, <2>1 DEF Handle, Unpack
    <2>3. pc' \in {"reading", "exited"} /\ ended' \in {ended, "crash"}
      BY <1>4 DEF Handle, Unpack, Exit
    <2>4. armed' = TRUE /\ buffer' = Nothing /\ UNCHANGED <<ReceiverFrame, socket>>
      BY <1>4 DEF Handle
    <2> QED
      BY <1>t, <2>2, <2>3, <2>4 DEF ReceiverFrame, serverVars
  <1>5. CASE ServerConnect \/ ServerSendsOther
    <2>1. command' \in Replies \cup {Nothing}
      BY <1>t, <1>5 DEF ServerConnect, ServerSendsOther, Replies
    <2> QED
      BY <1>t, <1>5, <2>1 DEF ServerConnect, ServerSendsOther, readerVars, serverVars
  <1>6. CASE ServerChanges \/ Lose
    BY <1>t, <1>6 DEF ServerChanges, Lose, readerVars
  <1>7. CASE ServerFrame
    <2>1. PICK long \in BOOLEAN :
             socket' = Append(socket, [n |-> arrived', ver |-> serverVer, long |-> long])
      BY <1>7 DEF ServerFrame
    <2>2. arrived' \in 0..MaxFrames /\ arrived' \in 1..MaxFrames
      BY <1>t, <1>7 DEF ServerFrame
    <2>3. [n |-> arrived', ver |-> serverVer, long |-> long] \in Frames
      BY <1>t, <2>2 DEF Frames
    <2>4. socket' \in Seq(Frames) /\ Len(socket') <= SocketCap
      <3>1. Len(socket) < SocketCap /\ Len(socket) \in Nat
        BY <1>t, <1>7, SocketFrames DEF ServerFrame
      <3> QED
        BY <1>t, <2>1, <2>3, <3>1, AppendFacts
    <2> QED
      BY <1>t, <1>7, <2>2, <2>4 DEF ServerFrame, readerVars, serverVars
  <1>8. CASE UNCHANGED vars
    BY <1>t, <1>8 DEF vars, readerVars, serverVars
  <1> QED
    BY <1>1, <1>2, <1>3, <1>4, <1>5, <1>6, <1>7, <1>8 DEF Next, Reader

\* A receive under way has a buffer whose handler has run, and the chain of receives
\* is broken only where a cause is recorded.
LEMMA ChainStep ==
    ASSUME ReaderInv, [Next]_vars
    PROVE  ChainInv'
  <1>t. TypeOK /\ ChainInv /\ (pc = "versioned" => buffer = Nothing)
    BY DEF ReaderInv, VersionInv
  <1>1. CASE SendConnect \/ ReceiveReply \/ Listen
    BY <1>t, <1>1 DEF SendConnect, ReceiveReply, Listen, ChainInv, TypeOK
  <1>2. CASE Receive
    <2>1. buffer' # Nothing
      <3>1. socket \in Seq(Frames) /\ socket # <<>> /\ buffer' = Head(socket)
        BY <1>t, <1>2 DEF Receive, TypeOK
      <3>2. buffer' \in Frames
        BY <3>1, TailFacts
      <3> QED
        BY <3>2
    <2> QED
      BY <1>t, <1>2, <2>1 DEF Receive, ChainInv
  <1>3. CASE Handle
    BY <1>t, <1>3 DEF Handle, Unpack, Exit, ChainInv
  <1>4. CASE RunReturns \/ Exception \/ ReceiveError
    BY <1>t, <1>4 DEF RunReturns, Exception, ReceiveError, Exit, ChainInv
  <1>5. CASE UNCHANGED readerVars
    BY <1>t, <1>5 DEF readerVars, ChainInv
  <1> QED
    BY <1>1, <1>2, <1>3, <1>4, <1>5 DEF Next, Reader, ServerConnect, ServerSendsOther,
       ServerChanges, ServerFrame, Lose, vars

\* Frames stay in the order of their arrival behind the buffer.
LEMMA OrderStep ==
    ASSUME ReaderInv, [Next]_vars
    PROVE  OrderInv'
  <1>t. TypeOK /\ OrderInv /\ (armed => buffer = Nothing)
    BY DEF ReaderInv, ChainInv
  <1>s. /\ Len(socket) \in Nat /\ unpacked \in Nat /\ arrived \in Nat
        /\ \A i \in 1..Len(socket) : socket[i] \in Frames /\ socket[i].n \in Nat
        /\ buffer # Nothing => buffer \in Frames /\ buffer.n \in Nat
    <2>1. Len(socket) \in Nat /\ unpacked \in Nat /\ arrived \in Nat
      BY <1>t, SocketFrames DEF TypeOK
    <2>2. \A i \in 1..Len(socket) : socket[i] \in Frames
      BY <1>t, SocketFrames DEF TypeOK
    <2>3. \A f \in Frames : f.n \in Nat
      BY DEF Frames
    <2> QED
      BY <1>t, <2>1, <2>2, <2>3 DEF TypeOK
  <1>1. CASE Receive
    <2>1. /\ socket # <<>> /\ socket' = Tail(socket) /\ buffer' = Head(socket)
          /\ armed' = FALSE /\ UNCHANGED <<unpacked, arrived>>
      BY <1>1 DEF Receive, ReceiverFrame
    <2>2. /\ Len(socket) \in Nat \ {0} /\ Len(socket') = Len(socket) - 1
          /\ \A i \in 1..Len(socket') : socket'[i] = socket[i + 1]
          /\ buffer' = socket[1]
      BY <1>t, <2>1, TailFacts DEF TypeOK
    <2>3. \A i \in 1..Len(socket') : i + 1 \in 1..Len(socket) /\ 1 < i + 1
      BY <2>2
    <2>4. 1 \in 1..Len(socket)
      BY <2>2
    <2>5. \A i, j \in 1..Len(socket') : i < j => socket'[i].n < socket'[j].n
      <3>1. TAKE i, j \in 1..Len(socket')
      <3>2. HAVE i < j
      <3>3. i + 1 < j + 1
        BY <2>2, <3>2
      <3> QED
        BY <1>t, <2>2, <2>3, <3>3 DEF OrderInv
    <2> QED
      BY <1>t, <2>1, <2>2, <2>3, <2>4, <2>5 DEF OrderInv
  <1>2. CASE Handle
    <2>1. /\ buffer # Nothing /\ buffer' = Nothing /\ unpacked' = buffer.n
          /\ UNCHANGED <<socket, arrived>>
      BY <1>2 DEF Handle, Unpack, ReceiverFrame
    <2> QED
      BY <1>t, <1>s, <2>1 DEF OrderInv
  <1>3. CASE ServerFrame
    <2>1. PICK long \in BOOLEAN :
             socket' = Append(socket, [n |-> arrived', ver |-> serverVer, long |-> long])
      BY <1>3 DEF ServerFrame
    <2> DEFINE f == [n |-> arrived', ver |-> serverVer, long |-> long]
    <2>2. /\ arrived' = arrived + 1 /\ arrived' \in 1..MaxFrames
          /\ UNCHANGED <<unpacked, armed, buffer>>
      BY <1>t, <1>3 DEF ServerFrame, readerVars, TypeOK
    <2>3. f \in Frames
      BY <1>t, <2>2 DEF TypeOK, Frames
    <2>4. /\ Len(socket') = Len(socket) + 1
          /\ \A i \in 1..Len(socket) : socket'[i] = socket[i]
          /\ socket'[Len(socket) + 1] = f
      BY <1>t, <2>1, <2>3, AppendFacts DEF TypeOK
    <2>5. f.n = arrived + 1
      BY <2>2
    <2> HIDE DEF f
    <2>6. \A i \in 1..Len(socket') :
             i \in 1..Len(socket) \/ (i = Len(socket) + 1 /\ socket'[i] = f)
      BY <1>s, <2>4
    <2>7. \A i \in 1..Len(socket') : unpacked < socket'[i].n /\ socket'[i].n <= arrived'
      BY <1>t, <1>s, <2>2, <2>4, <2>5, <2>6 DEF OrderInv
    <2>8. \A i, j \in 1..Len(socket') : i < j => socket'[i].n < socket'[j].n
      <3>1. TAKE i, j \in 1..Len(socket')
      <3>2. HAVE i < j
      <3>3. i \in 1..Len(socket)
        BY <1>s, <2>4, <3>2
      <3>4. CASE j \in 1..Len(socket)
        BY <1>t, <2>4, <3>2, <3>3, <3>4 DEF OrderInv
      <3>5. CASE j = Len(socket) + 1
        <4>1. socket'[i].n <= arrived /\ socket'[j].n = arrived + 1
          BY <1>t, <2>4, <2>5, <3>3, <3>5 DEF OrderInv
        <4>2. socket'[i].n \in Nat
          BY <1>s, <2>4, <3>3
        <4> QED
          BY <1>s, <4>1, <4>2
      <3> QED
        BY <2>6, <3>4, <3>5
    <2>9. buffer' # Nothing =>
             /\ unpacked' < buffer'.n /\ buffer'.n <= arrived'
             /\ \A i \in 1..Len(socket') : buffer'.n < socket'[i].n
      BY <1>t, <1>s, <2>2, <2>4, <2>5, <2>6 DEF OrderInv
    <2> QED
      BY <1>t, <1>s, <2>2, <2>7, <2>8, <2>9 DEF OrderInv
  <1>4. CASE Listen
    <2>1. buffer = Nothing
      BY <1>4 DEF Listen, ReaderInv, VersionInv
    <2> QED
      BY <1>t, <1>4, <2>1 DEF Listen, OrderInv
  <1>5. CASE UNCHANGED <<unpacked, arrived, socket, buffer>> /\ (armed' => armed)
    BY <1>t, <1>5 DEF OrderInv
  <1>6. \/ Receive \/ Handle \/ ServerFrame \/ Listen
        \/ UNCHANGED <<unpacked, arrived, socket, buffer>> /\ (armed' => armed)
    BY DEF Next, Reader, SendConnect, ReceiveReply, RunReturns, Exception, ReceiveError,
       ServerConnect, ServerSendsOther, ServerChanges, Lose, ReceiverFrame, readerVars,
       serverVars, vars
  <1> QED
    BY <1>1, <1>2, <1>3, <1>4, <1>5, <1>6

LEMMA VersionStep ==
    ASSUME ReaderInv, [Next]_vars
    PROVE  VersionInv'
  <1>t. TypeOK /\ VersionInv
    BY DEF ReaderInv
  <1> USE DEF VersionInv, Announces
  <1>1. CASE SendConnect \/ Exception \/ ReceiveError \/ RunReturns
    BY <1>t, <1>1 DEF SendConnect, Exception, ReceiveError, RunReturns, Exit,
       ReceiverFrame, serverVars
  <1>2. CASE ReceiveReply
    <2>1. /\ command # Nothing /\ first' = command /\ command' = Nothing
          /\ pc = "asked" /\ pc' = "versioned"
          /\ command.kind = "SERVERINFO" => version' = command.ver
          /\ UNCHANGED <<buffer, socket, known, serverVer, changed>>
      BY <1>2 DEF ReceiveReply, UnpackCommand, serverVars
    <2>2. socket' = <<>> /\ buffer' = Nothing
      BY <1>t, <2>1
    <2>3. 1..Len(socket') = {}
      BY <2>2, EmptyFacts
    <2> QED
      BY <1>t, <2>1, <2>2, <2>3
  <1>3. CASE Listen
    BY <1>t, <1>3 DEF Listen, serverVars
  <1>4. CASE Receive
    <2>1. /\ socket # <<>> /\ pc = "reading"
          /\ UNCHANGED <<version, first, command, known, serverVer, changed, pc>>
      BY <1>4 DEF Receive, ReceiverFrame, serverVars
    <2>2. /\ Len(socket) \in Nat \ {0} /\ Len(socket') = Len(socket) - 1
          /\ \A i \in 1..Len(socket') : socket'[i] = socket[i + 1]
          /\ buffer' = socket[1]
      BY <1>t, <1>4, TailFacts DEF TypeOK, Receive
    <2>3. 1 \in 1..Len(socket) /\ \A i \in 1..Len(socket') : i + 1 \in 1..Len(socket)
      BY <2>2
    <2> QED
      BY <1>t, <2>1, <2>2, <2>3
  <1>5. CASE Handle
    <2>1. /\ buffer' = Nothing /\ pc' \in {"reading", "exited"} /\ pc = "reading"
          /\ UNCHANGED <<version, first, command, known, serverVer, changed, socket>>
      BY <1>5 DEF Handle, Unpack, Exit, ReceiverFrame, serverVars
    <2> QED
      BY <1>t, <2>1
  <1>6. CASE ServerConnect \/ ServerSendsOther
    BY <1>t, <1>6 DEF ServerConnect, ServerSendsOther, readerVars, serverVars
  \* The announcement that came first shows that the server knew the client.
  <1>7. CASE ServerChanges
    <2>1. changed' = known /\ UNCHANGED <<readerVars, known, command, socket>>
      BY <1>7 DEF ServerChanges
    <2> QED
      BY <1>t, <2>1 DEF readerVars
  <1>8. CASE ServerFrame
    <2>1. PICK long \in BOOLEAN :
             socket' = Append(socket, [n |-> arrived', ver |-> serverVer, long |-> long])
      BY <1>8 DEF ServerFrame
    <2> DEFINE f == [n |-> arrived', ver |-> serverVer, long |-> long]
    <2>2. /\ arrived' \in 1..MaxFrames /\ pc = "reading"
          /\ UNCHANGED <<pc, version, first, buffer, command, known, serverVer, changed>>
      BY <1>t, <1>8 DEF ServerFrame, readerVars, serverVars, TypeOK
    <2>3. f \in Frames
      BY <1>t, <2>2 DEF TypeOK, Frames
    <2>4. /\ Len(socket') = Len(socket) + 1 /\ Len(socket) \in Nat
          /\ \A i \in 1..Len(socket) : socket'[i] = socket[i]
          /\ socket'[Len(socket) + 1] = f
      BY <1>t, <2>1, <2>3, AppendFacts DEF TypeOK
    <2>5. \A i \in 1..Len(socket') :
             i \in 1..Len(socket) \/ socket'[i].ver = serverVer
      BY <2>4
    <2> QED
      BY <1>t, <2>2, <2>4, <2>5
  <1>9. CASE Lose \/ UNCHANGED vars
    BY <1>t, <1>9 DEF Lose, readerVars, serverVars, vars
  <1> QED
    BY <1>1, <1>2, <1>3, <1>4, <1>5, <1>6, <1>7, <1>8, <1>9 DEF Next, Reader

-----------------------------------------------------------------------------
(* Frames in the socket and in the buffer                                   *)

Waiting(q) == {q[i].n : i \in 1..Len(q)}
InBuffer == IF buffer = Nothing THEN {} ELSE {buffer.n}

LEMMA HeldSplit == Held = Waiting(socket) \cup InBuffer
  BY DEF Held, Waiting, InBuffer

\* A frame arrives, the oldest one held is unpacked, or the frames stay where they are:
\* unlike the abstract feed the reader gives none up.
Lossless == Feed!Accept \/ (\E n \in Held : Feed!Deliver(n)) \/ UNCHANGED Feed!feedVars

LEMMA LosslessStep ==
    ASSUME ReaderInv, [Next]_vars
    PROVE  Lossless
  <1> USE DEF Lossless
  <1>t. TypeOK /\ OrderInv /\ (armed => buffer = Nothing)
    BY DEF ReaderInv, ChainInv
  <1>1. CASE ServerFrame
    <2>1. PICK long \in BOOLEAN :
             socket' = Append(socket, [n |-> arrived', ver |-> serverVer, long |-> long])
      BY <1>1 DEF ServerFrame
    <2> DEFINE f == [n |-> arrived', ver |-> serverVer, long |-> long]
    <2>2. /\ arrived' = arrived + 1 /\ arrived' \in 1..MaxFrames /\ arrived \in Nat
          /\ UNCHANGED <<unpacked, buffer>>
      BY <1>t, <1>1 DEF ServerFrame, readerVars, TypeOK
    <2>3. f \in Frames /\ f.n = arrived'
      BY <1>t, <2>2 DEF TypeOK, Frames
    <2>4. /\ Len(socket') = Len(socket) + 1 /\ Len(socket) \in Nat
          /\ \A i \in 1..Len(socket) : socket'[i] = socket[i]
          /\ socket'[Len(socket) + 1] = f
      BY <1>t, <2>1, <2>3, AppendFacts DEF TypeOK
    <2>5. 1..(Len(socket) + 1) = 1..Len(socket) \cup {Len(socket) + 1}
      BY <2>4
    <2>6. Waiting(socket') = Waiting(socket) \cup {arrived'}
      BY <2>3, <2>4, <2>5 DEF Waiting
    <2>7. Held' = Held \cup {arrived'}
      BY <2>2, <2>6 DEF Held, Waiting
    <2> QED
      BY <2>2, <2>7 DEF Feed!Accept
  \* A receive moves the oldest frame of the socket to the buffer.
  <1>2. CASE Receive
    <2>1. /\ socket # <<>> /\ socket' = Tail(socket) /\ buffer = Nothing
          /\ UNCHANGED <<unpacked, arrived>>
      BY <1>t, <1>2 DEF Receive, ReceiverFrame
    <2>2. /\ Len(socket) \in Nat \ {0} /\ Len(socket') = Len(socket) - 1
          /\ \A i \in 1..Len(socket') : socket'[i] = socket[i + 1]
          /\ buffer' = socket[1] /\ buffer' \in Frames
      BY <1>t, <1>2, <2>1, TailFacts DEF TypeOK, Receive
    <2>3. \A i \in 1..Len(socket) :
             i = 1 \/ (i - 1 \in 1..Len(socket') /\ socket[i] = socket'[i - 1])
      BY <2>2
    <2>4. \A i \in 1..Len(socket') : i + 1 \in 1..Len(socket)
      BY <2>2
    <2>5. 1 \in 1..Len(socket)
      BY <2>2
    <2>6. Waiting(socket) = {socket[1].n} \cup Waiting(socket')
      BY <2>2, <2>3, <2>4, <2>5 DEF Waiting
    <2>7. InBuffer = {} /\ InBuffer' = {socket[1].n}
      BY <2>1, <2>2 DEF InBuffer
    <2>8. Held' = Waiting(socket') \cup InBuffer'
      BY DEF Held, Waiting, InBuffer
    <2>9. Held' = Held
      BY <2>6, <2>7, <2>8, HeldSplit
    <2> QED
      BY <2>1, <2>9 DEF Feed!feedVars
  <1>3. CASE Handle
    <2>1. /\ buffer # Nothing /\ buffer' = Nothing /\ unpacked' = buffer.n
          /\ UNCHANGED <<socket, arrived>>
      BY <1>3 DEF Handle, Unpack, ReceiverFrame
    <2>2. /\ buffer.n \in Nat
          /\ \A m \in Waiting(socket) : m \in Nat /\ buffer.n < m
      <3>1. \A i \in 1..Len(socket) : socket[i].n \in 1..MaxFrames /\ buffer.n < socket[i].n
        BY <1>t, <2>1, SocketFrames DEF OrderInv, TypeOK
      <3>2. buffer.n \in Nat
        BY <1>t, <2>1 DEF TypeOK, Frames
      <3> QED
        BY <3>1, <3>2 DEF Waiting
    <2>3. InBuffer = {buffer.n} /\ Held = Waiting(socket) \cup {buffer.n}
      BY <2>1, HeldSplit DEF InBuffer
    <2>4. Held' = Waiting(socket)
      BY <2>1 DEF Held, Waiting
    <2>5. Held' = Held \ {buffer.n}
      BY <2>2, <2>3, <2>4
    <2>6. buffer.n \in Held /\ \A m \in Held : buffer.n <= m
      BY <2>2, <2>3
    <2>7. Feed!Deliver(buffer.n)
      BY <2>1, <2>5, <2>6 DEF Feed!Deliver
    <2> QED
      BY <2>6, <2>7
  <1>4. CASE UNCHANGED <<unpacked, arrived, socket, buffer>>
    BY <1>4 DEF Feed!feedVars, Held
  <1>5. \/ Receive \/ Handle \/ ServerFrame
        \/ UNCHANGED <<unpacked, arrived, socket, buffer>>
    BY DEF Next, Reader, SendConnect, ReceiveReply, Listen, RunReturns, Exception,
       ReceiveError, ServerConnect, ServerSendsOther, ServerChanges, Lose, ReceiverFrame,
       readerVars, serverVars, vars
  <1> QED
    BY <1>1, <1>2, <1>3, <1>4, <1>5

\* Every frame held has arrived and is still to be unpacked.
LEMMA HeldBounds ==
    ASSUME TypeOK, OrderInv, NEW m \in Held
    PROVE  m \in Nat /\ unpacked < m /\ m <= arrived
  <1>1. \A i \in 1..Len(socket) :
           unpacked < socket[i].n /\ socket[i].n <= arrived /\ socket[i].n \in 1..MaxFrames
    BY SocketFrames DEF TypeOK, OrderInv
  <1>2. buffer # Nothing => unpacked < buffer.n /\ buffer.n <= arrived /\ buffer.n \in Nat
    BY DEF TypeOK, OrderInv, Frames
  <1> QED
    BY <1>1, <1>2 DEF Held

LEMMA SkipStep ==
    ASSUME ReaderInv, [Next]_vars
    PROVE  NothingSkipped'
  <1>t. /\ arrived \in Nat /\ unpacked \in Nat /\ NothingSkipped
        /\ arrived' \in Nat
    BY TypeStep DEF ReaderInv, TypeOK
  <1>1. CASE Feed!Accept
    <2>1. arrived' = arrived + 1
      BY <1>t, <1>1 DEF Feed!Accept, Next, Reader, SendConnect, ReceiveReply, Listen, Receive,
         Handle, RunReturns, Exception, ReceiveError, ServerConnect, ServerSendsOther,
         ServerChanges, ServerFrame, Lose, ReceiverFrame, readerVars, serverVars, vars
    <2>2. \A n \in 1..arrived' : n \in 1..arrived \/ n = arrived'
      BY <1>t, <2>1
    <2> QED
      BY <1>t, <1>1, <2>2 DEF NothingSkipped, Feed!Accept
  <1>2. ASSUME NEW m \in Held, Feed!Deliver(m) PROVE NothingSkipped'
    <2>1. unpacked < m /\ m \in Nat
      BY HeldBounds DEF ReaderInv
    <2>2. /\ unpacked' = m /\ Held' = Held \ {m} /\ arrived' = arrived
      BY <1>2 DEF Feed!Deliver
    <2> QED
      BY <1>t, <2>1, <2>2 DEF NothingSkipped
  <1>3. CASE UNCHANGED Feed!feedVars
    BY <1>t, <1>3 DEF Feed!feedVars, NothingSkipped
  <1> QED
    BY <1>1, <1>2, <1>3, LosslessStep DEF Lossless

-----------------------------------------------------------------------------
(* The inductive invariant and what follows from it                         *)

\* At any time: one buffer that is filled only when its handler has run, frames in
\* the order of their arrival and without a gap behind it, a chain of receives that is
\* broken only for a cause, and a version that is the server's own
\* until the server changes.
THEOREM ReaderInvariant == Spec => []ReaderInv
  <1>1. ReaderInv /\ [Next]_vars => ReaderInv'
    BY TypeStep, ChainStep, OrderStep, SkipStep, VersionStep DEF ReaderInv
  <1> QED
    BY InvInit, <1>1, PTL DEF Spec

-----------------------------------------------------------------------------
\* A frame is read otherwise than it was written only if something else came
\* before the announcement, the server has changed since, or the frame is longer
\* than the buffer.
THEOREM MisreadingsKnown == Spec => OnlyKnownMisreadings
  <1> DEFINE Known == unpacked' # unpacked /\ ~faithful'
                         => first.kind = "OTHER" \/ changed \/ buffer.long
  <1>1. ASSUME ReaderInv, [Next]_vars, unpacked' # unpacked, ~faithful'
        PROVE  first.kind = "OTHER" \/ changed \/ buffer.long
    <2>1. Handle
      BY <1>1 DEF Next, Reader, SendConnect, ReceiveReply, Listen, Receive, RunReturns,
         Exception, ReceiveError, ServerConnect, ServerSendsOther, ServerChanges,
         ServerFrame, Lose, ReceiverFrame, readerVars, serverVars, vars
    <2>2. /\ pc = "reading" /\ buffer # Nothing
          /\ ~(version = buffer.ver /\ ~buffer.long)
      BY <1>1, <2>1 DEF Handle, Unpack
    <2>3. first \in Replies /\ first.kind \in {"SERVERINFO", "OTHER"}
      BY <1>1, <2>2 DEF ReaderInv, TypeOK, VersionInv, Replies
    <2>4. buffer.long \in BOOLEAN
      BY <1>1, <2>2 DEF ReaderInv, TypeOK, Frames
    <2>5. first.kind = "SERVERINFO" /\ ~changed => version = buffer.ver
      BY <1>1, <2>2, <2>3 DEF ReaderInv, VersionInv, Announces
    <2> QED
      BY <2>2, <2>3, <2>4, <2>5
  <1>2. ReaderInv /\ [Next]_vars => [Known]_vars
    BY <1>1
  <1> QED
    BY <1>2, ReaderInvariant, PTL DEF Spec, OnlyKnownMisreadings

\* The program ends only by an exception, a failed receive or a misread frame: its
\* handlers never leave io_context.run without work.
THEOREM EndsForCause == Spec => [](pc = "exited" => ended # "no")
  <1>1. ReaderInv => (pc = "exited" => ended # "no")
    BY DEF ReaderInv, ChainInv
  <1> QED
    BY <1>1, ReaderInvariant, PTL

\* Each handler unpacks the very next of the frames that got into the socket.
NextInTurn == [][unpacked' # unpacked => unpacked' = unpacked + 1]_vars

THEOREM FramesInTurn == Spec => NextInTurn
  <1>1. ASSUME ReaderInv, [Next]_vars, unpacked' # unpacked
        PROVE  unpacked' = unpacked + 1
    <2>1. PICK m \in Held : Feed!Deliver(m)
      BY <1>1, LosslessStep DEF Lossless, Feed!Accept, Feed!feedVars
    <2>2. unpacked' = m /\ \A k \in Held : m <= k
      BY <2>1 DEF Feed!Deliver
    <2>3. unpacked < m /\ m <= arrived /\ m \in Nat /\ arrived \in Nat /\ unpacked \in Nat
      BY <1>1, HeldBounds DEF ReaderInv, TypeOK
    <2>4. unpacked + 1 \in Held
      BY <1>1, <2>3 DEF ReaderInv, NothingSkipped
    <2> QED
      BY <2>2, <2>3, <2>4
  <1>2. ReaderInv /\ [Next]_vars => [unpacked' # unpacked => unpacked' = unpacked + 1]_vars
    BY <1>1
  <1> QED
    BY <1>2, ReaderInvariant, PTL DEF Spec, NextInTurn

-----------------------------------------------------------------------------
(* The refinement of the feed                                               *)

LEMMA FeedInit == Init => Feed!Init
  <1> SUFFICES ASSUME Init PROVE Feed!Init
    OBVIOUS
  <1>1. 1..Len(socket) = {}
    BY EmptyFacts DEF Init
  <1> QED
    BY <1>1 DEF Init, Feed!Init, Held

LEMMA FeedStep == ReaderInv /\ [Next]_vars => [Feed!Next]_(Feed!feedVars)
  BY LosslessStep DEF Lossless, Feed!Next

\* Every run of the reader is a behaviour of the abstract feed: each datagram that
\* got into the socket is unpacked at most once, in order, and before the buffer is
\* filled again.
THEOREM ReaderImplementsFeed == Spec => ImplementsFeed
  <1> QED
    BY FeedInit, FeedStep, ReaderInvariant, PTL DEF Spec, ImplementsFeed, Feed!Spec

\* The program asks once and waits for any answer.  Until a datagram is lost the request
\* is on its way or a packet for the program waits, the server's answer or what overtook
\* it.  GetsToFrames adds that the server answers.
AnswerOwed == pc = "asked" /\ ~lost => asked \/ command # Nothing

THEOREM AnswerIsOwed == Spec => []AnswerOwed
  <1>1. Init => AnswerOwed
    BY DEF Init, AnswerOwed
  <1>2. ReaderInv /\ AnswerOwed /\ [Next]_vars => AnswerOwed'
    <2> SUFFICES ASSUME ReaderInv, AnswerOwed, [Next]_vars PROVE AnswerOwed'
      OBVIOUS
    <2> USE DEF AnswerOwed
    <2>1. CASE SendConnect
      BY <2>1 DEF SendConnect
    <2>2. CASE ReceiveReply \/ Listen \/ Exception
      BY <2>2 DEF ReceiveReply, Listen, Exception, Exit
    <2>3. CASE Receive \/ ReceiveError \/ RunReturns
      BY <2>3 DEF Receive, ReceiveError, RunReturns
    <2>4. CASE Handle
      BY <2>4 DEF Handle, Unpack, Exit
    <2>5. CASE ServerConnect
      <3>1. command' # Nothing
        <4>1. [kind |-> "SERVERINFO", ver |-> serverVer] \in Replies
          BY DEF ReaderInv, TypeOK, Replies
        <4> QED
          BY <2>5, <4>1 DEF ServerConnect
      <3> QED
        BY <3>1
    <2>6. CASE ServerSendsOther
      BY <2>6 DEF ServerSendsOther, serverVars, readerVars
    <2>7. CASE ServerChanges \/ ServerFrame \/ Lose
      BY <2>7 DEF ServerChanges, ServerFrame, Lose, serverVars, readerVars
    <2>8. CASE UNCHANGED vars
      BY <2>8 DEF vars, serverVars, readerVars
    <2> QED
      BY <2>1, <2>2, <2>3, <2>4, <2>5, <2>6, <2>7, <2>8 DEF Next, Reader
  <1> QED
    BY <1>1, <1>2, ReaderInvariant, PTL DEF Spec
==============================================================================
