------------------------ MODULE CommandChannelProofs ------------------------
(***************************************************************************)
(* Safety of the command channel for every set of versions, lengths of     *)
(* frames, number of commands and capacity of the sockets: ChannelInv is   *)
(* inductive and implies what the run checks of answers, the version and   *)
(* the data buffer.                                                        *)
(***************************************************************************)
EXTENDS CommandChannel, TLAPS

\* What the assumptions on the constants say of a version and its components.
LEMMA Constants ==
    /\ \A v \in Versions : v \in Known /\ v = <<v[1], v[2]>> /\ v[1] # 0 /\ v # NoVersion
    /\ \A v \in Known : v[1] \in Majors /\ v[2] \in Minors
    /\ NoVersion \in Known /\ NoVersion[1] = 0
    /\ 0 \in Majors /\ 0 \in Minors /\ NoVersion \in Majors \X Minors
    /\ UserVersions \subseteq Versions /\ ServerVersion \in Versions
    /\ 0 \in 0..MaxCommands /\ MaxCommands \in Nat /\ MaxMulticastCommands \in 0..MaxCommands
    /\ BaseDataBytes \in Nat /\ MaxPacketSize \in Nat /\ Lengths \subseteq Nat
    /\ "cmd" \in Threads /\ "data" \in Threads
  <1>1. \A v \in Versions : v \in Nat \X Nat /\ v[1] # 0
    BY ChannelAssumption
  <1>2. NoVersion[1] = 0 /\ NoVersion[2] = 0 /\ NoVersion \in Known
    BY DEF NoVersion, Known
  <1>3. \A v \in Versions : v \in Known
    BY DEF Known
  <1>7. ASSUME NEW v \in Versions PROVE v = <<v[1], v[2]>>
    BY <1>1
  <1>8. \A v \in Versions : v # NoVersion
    BY <1>1, <1>2
  <1>4. \A v \in Known : v[1] \in Majors /\ v[2] \in Minors
    BY DEF Majors, Minors
  <1>5. 0 \in Majors /\ 0 \in Minors
    BY <1>2, <1>4
  <1>6. NoVersion \in Majors \X Minors
    BY <1>5 DEF NoVersion
  <1> QED
    BY <1>1, <1>2, <1>3, <1>4, <1>5, <1>6, <1>7, <1>8, ChannelAssumption DEF Threads

\* What arrives on a socket, and what answers a command, is a datagram.
LEMMA Shapes ==
    /\ \A v \in Known : Info(v) \in Datagrams /\ Info(v).kind = "SERVERINFO" /\ Info(v).ver = v
    /\ \A kind \in {"NUMBER", "STRING", "UNRECOGNIZED", "MODELDEF"}, id \in 0..MaxCommands,
          value \in {0, 1}, v \in Known :
          /\ Answer(kind, id, value, v) \in Datagrams
          /\ Answer(kind, id, value, v).kind = kind
          /\ Answer(kind, id, value, v).id = id
          /\ Answer(kind, id, value, v).ver = v
    /\ \A v \in Known, changed \in BOOLEAN, len \in Lengths \cup {0} :
          /\ Frame(v, changed, len) \in Datagrams
          /\ Frame(v, changed, len).kind = "FRAMEOFDATA"
  BY Constants DEF Info, Answer, Frame, Datagram, Datagrams

\* What main sends is a command.
LEMMA CommandShape ==
    /\ \A id \in 1..MaxCommands, kind \in {"plain", "query", "modeldef"} :
          Command(id, kind, NoVersion) \in Commands
    /\ \A id \in 1..MaxCommands, v \in Versions : Command(id, "set", v) \in Commands
    /\ \A id, kind, v : Command(id, kind, v).id = id /\ Command(id, kind, v).kind = kind
    /\ \A c \in Commands :
          /\ c.id \in 1..MaxCommands /\ c.ver \in Known
          /\ c.kind \in {"plain", "query", "set", "modeldef"}
          /\ c.kind = "set" => c.ver \in Versions
  BY Constants DEF Command, Commands

\* What a listener holds has a known version.
LEMMA Held ==
    \A m \in Datagrams \cup {Nothing} :
        /\ m.ver \in Known /\ m.ver[1] \in Majors /\ m.ver[2] \in Minors
        /\ [m EXCEPT !.len = 0].kind = m.kind
        /\ m \in Datagrams => [m EXCEPT !.len = 0] \in Datagrams
  BY Constants DEF Datagrams, Datagram, Nothing

\* A datagram that is taken off a socket was the first there.
LEMMA Taken ==
    ASSUME TypeOK, NEW t \in Threads, NEW kind, Take(t, kind)
    PROVE  /\ pc[t] = "recv"
           /\ Head(in[t]) \in Datagrams /\ Head(in[t]) = in[t][1] /\ Head(in[t]).kind = kind
           /\ Len(in[t]) > 0
           /\ in' \in [Threads -> Seq(Datagrams)]
           /\ \A u \in Threads : u # t => in'[u] = in[u]
           /\ Len(in'[t]) = Len(in[t]) - 1
           /\ \A i \in 1..Len(in'[t]) : in'[t][i] = in[t][i + 1]
  <1>1. in[t] \in Seq(Datagrams) /\ in[t] # <<>>
    BY DEF TypeOK, NetTypes, Take
  <1>2. in' = [in EXCEPT ![t] = Tail(in[t])] /\ Tail(in[t]) \in Seq(Datagrams)
    BY <1>1 DEF Take
  <1>3. in' \in [Threads -> Seq(Datagrams)] /\ in'[t] = Tail(in[t])
    BY <1>2 DEF TypeOK, NetTypes
  <1>4. Len(Tail(in[t])) = Len(in[t]) - 1 /\ Len(in[t]) > 0
        /\ \A i \in 1..Len(Tail(in[t])) : Tail(in[t])[i] = in[t][i + 1]
    BY <1>1
  <1>5. Head(in[t]) \in Datagrams /\ Head(in[t]) = in[t][1]
    BY <1>1
  <1> QED
    BY <1>2, <1>3, <1>4, <1>5 DEF Take, At, TypeOK, NetTypes

\* A datagram that is delivered is behind the others.
LEMMA Delivered ==
    ASSUME TypeOK, NEW t \in Threads, NEW m \in Datagrams, Deliver(t, m)
    PROVE  /\ in' \in [Threads -> Seq(Datagrams)]
           /\ \A u \in Threads : u # t => in'[u] = in[u]
           /\ Len(in'[t]) = Len(in[t]) + 1
           /\ in'[t][Len(in[t]) + 1] = m
           /\ \A i \in 1..Len(in[t]) : in'[t][i] = in[t][i]
  <1>1. in[t] \in Seq(Datagrams)
    BY DEF TypeOK, NetTypes
  <1>2. in' = [in EXCEPT ![t] = Append(in[t], m)] /\ Append(in[t], m) \in Seq(Datagrams)
    BY <1>1 DEF Deliver
  <1>3. in' \in [Threads -> Seq(Datagrams)] /\ in'[t] = Append(in[t], m)
    BY <1>2 DEF TypeOK, NetTypes
  <1>4. Len(Append(in[t], m)) = Len(in[t]) + 1
        /\ Append(in[t], m)[Len(in[t]) + 1] = m
        /\ \A i \in 1..Len(in[t]) : Append(in[t], m)[i] = in[t][i]
    BY <1>1
  <1> QED
    BY <1>2, <1>3, <1>4 DEF TypeOK, NetTypes

\* The versions that are waiting are a server's, whatever is taken or delivered.
LEMMA TakenVersions ==
    ASSUME TypeOK, VersionInv, NEW t \in Threads, NEW kind, Take(t, kind)
    PROVE  /\ \A i \in 1..Len(in'["cmd"]) :
                 in'["cmd"][i].kind \in {"SERVERINFO", "STRING"} => in'["cmd"][i].ver \in Versions
           /\ t = "cmd" /\ kind \in {"SERVERINFO", "STRING"} => Head(in[t]).ver \in Versions
  <1>1. CASE t = "cmd"
    <2>1. \A i \in 1..Len(in'["cmd"]) :
             in'["cmd"][i] = in["cmd"][i + 1] /\ i + 1 \in 1..Len(in["cmd"])
      BY <1>1, Taken DEF TypeOK, NetTypes
    <2>2. Head(in[t]) = in["cmd"][1] /\ 1 \in 1..Len(in["cmd"]) /\ Head(in[t]).kind = kind
      BY <1>1, Taken DEF TypeOK, NetTypes
    <2> QED
      BY <1>1, <2>1, <2>2 DEF VersionInv
  <1>2. CASE t # "cmd"
    <2>1. in'["cmd"] = in["cmd"]
      BY <1>2, Taken, Constants
    <2> QED
      BY <1>2, <2>1 DEF VersionInv
  <1> QED
    BY <1>1, <1>2

LEMMA DeliveredVersions ==
    ASSUME TypeOK, VersionInv, NEW t \in Threads, NEW m \in Datagrams, Deliver(t, m),
           m.kind \in {"SERVERINFO", "STRING"} => m.ver \in Versions
    PROVE  \A i \in 1..Len(in'["cmd"]) :
              in'["cmd"][i].kind \in {"SERVERINFO", "STRING"} => in'["cmd"][i].ver \in Versions
  <1>1. CASE t = "cmd"
    <2>1. \A i \in 1..Len(in'["cmd"]) :
             \/ i \in 1..Len(in["cmd"]) /\ in'["cmd"][i] = in["cmd"][i]
             \/ in'["cmd"][i] = m
      BY <1>1, Delivered DEF TypeOK, NetTypes
    <2> QED
      BY <2>1 DEF VersionInv
  <1>2. CASE t # "cmd"
    BY <1>2, Delivered, Constants DEF VersionInv
  <1> QED
    BY <1>1, <1>2

\* The answer that is taken is the one that is awaited, and there is no other...
LEMMA TakenAnswer ==
    ASSUME TypeOK, AnswerInv, ~late, NEW kind, Take("cmd", kind), IsAnswer(Head(in["cmd"]))
    PROVE  /\ mainPc = "wait" /\ Head(in["cmd"]).id = command.id
           /\ \A i \in 1..Len(toServer) : ~Awaited(toServer[i])
           /\ \A i \in 1..Len(in'["cmd"]) : ~IsAnswer(in'["cmd"][i])
  <1>1. Head(in["cmd"]) = in["cmd"][1] /\ 1 \in 1..Len(in["cmd"])
    BY Taken, Constants DEF TypeOK, NetTypes
  <1>2. \A i \in 1..Len(in'["cmd"]) :
           in'["cmd"][i] = in["cmd"][i + 1] /\ i + 1 \in 1..Len(in["cmd"]) /\ i + 1 # 1
    <2>1. Len(in["cmd"]) \in Nat /\ Len(in'["cmd"]) = Len(in["cmd"]) - 1
          /\ \A i \in 1..Len(in'["cmd"]) : in'["cmd"][i] = in["cmd"][i + 1]
      BY Taken, Constants DEF TypeOK, NetTypes
    <2> QED
      BY <2>1
  <1>3. mainPc = "wait" /\ Head(in["cmd"]).id = command.id
        /\ \A j \in 1..Len(in["cmd"]) : IsAnswer(in["cmd"][j]) => j = 1
    BY <1>1 DEF AnswerInv
  <1>4. \A i \in 1..Len(toServer) : ~Awaited(toServer[i])
    BY <1>1 DEF AnswerInv
  <1> QED
    BY <1>2, <1>3, <1>4

\* ...and what else is taken or delivered leaves the answers as they are.
OneAwaited ==
    /\ \A i \in 1..Len(toServer) : Awaited(toServer[i]) =>
          \A j \in 1..Len(in'["cmd"]) : ~IsAnswer(in'["cmd"][j])
    /\ \A i \in 1..Len(in'["cmd"]) : IsAnswer(in'["cmd"][i]) =>
          /\ mainPc = "wait" /\ response = NoResponse
          /\ in'["cmd"][i].id = command.id
          /\ \A j \in 1..Len(in'["cmd"]) : IsAnswer(in'["cmd"][j]) => j = i

LEMMA TakenOther ==
    ASSUME TypeOK, AnswerInv, ~late, NEW t \in Threads, NEW kind, Take(t, kind)
    PROVE  OneAwaited
  <1>1. CASE t = "cmd"
    <2>1. \A i \in 1..Len(in'["cmd"]) :
             in'["cmd"][i] = in["cmd"][i + 1] /\ i + 1 \in 1..Len(in["cmd"])
      BY <1>1, Taken DEF TypeOK, NetTypes
    <2>2. \A i, j \in 1..Len(in'["cmd"]) : i + 1 = j + 1 => i = j
      OBVIOUS
    <2> QED
      BY <2>1, <2>2 DEF AnswerInv, OneAwaited
  <1>2. CASE t # "cmd"
    <2>1. in'["cmd"] = in["cmd"]
      BY <1>2, Taken, Constants
    <2> QED
      BY <2>1 DEF AnswerInv, OneAwaited
  <1> QED
    BY <1>1, <1>2

LEMMA DeliveredOther ==
    ASSUME TypeOK, AnswerInv, ~late, NEW t \in Threads, NEW m \in Datagrams, Deliver(t, m),
           t = "cmd" => ~IsAnswer(m)
    PROVE  OneAwaited
  <1>1. CASE t = "cmd"
    <2>1. \A i \in 1..Len(in'["cmd"]) :
             \/ i \in 1..Len(in["cmd"]) /\ in'["cmd"][i] = in["cmd"][i]
             \/ ~IsAnswer(in'["cmd"][i])
      BY <1>1, Delivered DEF TypeOK, NetTypes
    <2> QED
      BY <2>1 DEF AnswerInv, OneAwaited
  <1>2. CASE t # "cmd"
    BY <1>2, Delivered, Constants DEF AnswerInv, OneAwaited
  <1> QED
    BY <1>1, <1>2

\* The answer to the command that is awaited takes its place.
LEMMA DeliveredAnswer ==
    ASSUME TypeOK, AnswerInv, ~late, NEW m \in Datagrams, Deliver("cmd", m),
           toServer # <<>>, Awaited(Head(toServer)), m.id = Head(toServer).id
    PROVE  /\ mainPc = "wait" /\ response = NoResponse
           /\ \A i \in 1..Len(Tail(toServer)) : ~Awaited(Tail(toServer)[i])
           /\ \A i \in 1..Len(in'["cmd"]) : IsAnswer(in'["cmd"][i]) =>
                 /\ in'["cmd"][i].id = command.id
                 /\ \A j \in 1..Len(in'["cmd"]) : IsAnswer(in'["cmd"][j]) => j = i
  <1>1. Head(toServer) = toServer[1] /\ 1 \in 1..Len(toServer)
        /\ \A i \in 1..Len(Tail(toServer)) :
              Tail(toServer)[i] = toServer[i + 1] /\ i + 1 \in 1..Len(toServer) /\ i + 1 # 1
    BY DEF TypeOK, NetTypes
  <1>2. mainPc = "wait" /\ response = NoResponse /\ toServer[1].id = command.id
        /\ (\A j \in 1..Len(toServer) : Awaited(toServer[j]) => j = 1)
        /\ \A j \in 1..Len(in["cmd"]) : ~IsAnswer(in["cmd"][j])
    BY <1>1 DEF AnswerInv
  <1>3. \A i \in 1..Len(in'["cmd"]) : IsAnswer(in'["cmd"][i]) =>
           i = Len(in["cmd"]) + 1 /\ in'["cmd"][i] = m
    <2>1. \A i \in 1..Len(in'["cmd"]) :
             \/ i \in 1..Len(in["cmd"]) /\ in'["cmd"][i] = in["cmd"][i]
             \/ i = Len(in["cmd"]) + 1 /\ in'["cmd"][i] = m
      <3>1. "cmd" \in Threads /\ Len(in["cmd"]) \in Nat
        BY Constants DEF TypeOK, NetTypes
      <3>2. /\ Len(in'["cmd"]) = Len(in["cmd"]) + 1
            /\ in'["cmd"][Len(in["cmd"]) + 1] = m
            /\ \A i \in 1..Len(in["cmd"]) : in'["cmd"][i] = in["cmd"][i]
        BY <3>1, Delivered
      <3> QED
        BY <3>1, <3>2
    <2> QED
      BY <1>2, <2>1
  <1> QED
    BY <1>1, <1>2, <1>3

\* A queue holds the datagrams of another, each of them once.
Permuted(r, q) ==
    /\ Len(r) = Len(q)
    /\ \E p \in [1..Len(q) -> 1..Len(q)] :
          /\ \A j, k \in 1..Len(q) : p[j] = p[k] => j = k
          /\ \A j \in 1..Len(q) : r[j] = q[p[j]]

LEMMA SamePermuted ==
    ASSUME NEW S, NEW q \in Seq(S)
    PROVE  Permuted(q, q)
  <1> DEFINE p == [j \in 1..Len(q) |-> j]
  <1>1. p \in [1..Len(q) -> 1..Len(q)] /\ \A j \in 1..Len(q) : p[j] = j
    OBVIOUS
  <1> QED
    BY <1>1 DEF Permuted

LEMMA SwapPermutes ==
    ASSUME NEW S, NEW q \in Seq(S), NEW i \in 1..(Len(q) - 1)
    PROVE  Swap(q, i) \in Seq(S) /\ Permuted(Swap(q, i), q)
  <1> DEFINE p == [j \in 1..Len(q) |-> IF j = i THEN i + 1 ELSE IF j = i + 1 THEN i ELSE j]
  <1>1. Len(q) \in Nat /\ i \in 1..Len(q) /\ i + 1 \in 1..Len(q) /\ i # i + 1
    OBVIOUS
  <1>2. /\ p \in [1..Len(q) -> 1..Len(q)]
        /\ p[i] = i + 1 /\ p[i + 1] = i
        /\ \A j \in 1..Len(q) : j # i /\ j # i + 1 => p[j] = j
    BY <1>1
  <1>3. \A j, k \in 1..Len(q) : p[j] = p[k] => j = k
    BY <1>1
  <1>4. q \in [1..Len(q) -> S] /\ q[i] \in S /\ q[i + 1] \in S
    BY <1>1
  <1>5. /\ Swap(q, i) \in [1..Len(q) -> S]
        /\ Swap(q, i)[i] = q[i + 1] /\ Swap(q, i)[i + 1] = q[i]
        /\ \A j \in 1..Len(q) : j # i /\ j # i + 1 => Swap(q, i)[j] = q[j]
    BY <1>1, <1>4 DEF Swap
  <1>6. Swap(q, i) \in Seq(S) /\ Len(Swap(q, i)) = Len(q)
    BY <1>1, <1>5
  <1> HIDE DEF p
  <1>7. \A j \in 1..Len(q) : Swap(q, i)[j] = q[p[j]]
    BY <1>1, <1>2, <1>5
  <1> QED
    BY <1>2, <1>3, <1>6, <1>7 DEF Permuted

\* Overtaking leaves what is under way as it is, but for the order.
LEMMA Overtaken ==
    ASSUME TypeOK, Overtake
    PROVE  /\ toServer' \in Seq(Commands) /\ Permuted(toServer', toServer)
           /\ in' \in [Threads -> Seq(Datagrams)]
           /\ \A t \in Threads : Permuted(in'[t], in[t])
           /\ UNCHANGED <<ClientVars, connect, lost, copies, serverVars>>
  <1>1. toServer \in Seq(Commands) /\ in \in [Threads -> Seq(Datagrams)]
    BY DEF TypeOK, NetTypes
  <1>2. toServer' \in Seq(Commands) /\ Permuted(toServer', toServer)
    <2>1. toServer' = toServer \/ \E i \in 1..(Len(toServer) - 1) : toServer' = Swap(toServer, i)
      BY DEF Overtake
    <2> QED
      BY <1>1, <2>1, SamePermuted, SwapPermutes
  <1>3. ASSUME NEW t \in Threads PROVE in'[t] \in Seq(Datagrams) /\ Permuted(in'[t], in[t])
    <2>1. in'[t] = in[t] \/ \E i \in 1..(Len(in[t]) - 1) : in'[t] = Swap(in[t], i)
      BY <1>1 DEF Overtake
    <2>2. in[t] \in Seq(Datagrams)
      BY <1>1
    <2> QED
      BY <2>1, <2>2, SamePermuted, SwapPermutes
  <1>4. in' \in [Threads -> Seq(Datagrams)]
    <2>1. in' = in \/ \E t \in Threads : \E d : in' = [in EXCEPT ![t] = d]
      BY DEF Overtake
    <2>2. DOMAIN in' = Threads /\ in' = [t \in Threads |-> in'[t]]
      BY <1>1, <2>1
    <2> QED
      BY <1>3, <2>2
  <1> QED
    BY <1>2, <1>3, <1>4 DEF Overtake

\* A second copy stands behind what is under way, and is like something there.
LEMMA Duplicated ==
    ASSUME TypeOK, Duplicate
    PROVE  /\ toServer' \in Seq(Commands) /\ in' \in [Threads -> Seq(Datagrams)]
           /\ toServer = <<>> => toServer' = <<>>
           /\ \A i \in 1..Len(in'["cmd"]) : \E j \in 1..Len(in["cmd"]) : in'["cmd"][i] = in["cmd"][j]
           /\ in["cmd"] = <<>> => in'["cmd"] = <<>>
  <1>1. toServer \in Seq(Commands) /\ in \in [Threads -> Seq(Datagrams)]
    BY DEF TypeOK, NetTypes
  <1>2. CASE \E i \in 1..Len(toServer) : toServer' = Append(toServer, toServer[i]) /\ in' = in
    <2>1. PICK i \in 1..Len(toServer) : toServer' = Append(toServer, toServer[i]) /\ in' = in
      BY <1>2
    <2>2. toServer[i] \in Commands /\ toServer # <<>>
      BY <1>1, <2>1
    <2> QED
      BY <1>1, <2>1, <2>2
  <1>3. ASSUME NEW t \in Threads, NEW i \in 1..Len(in[t]), Deliver(t, in[t][i]), toServer' = toServer
        PROVE  /\ in' \in [Threads -> Seq(Datagrams)]
               /\ \A k \in 1..Len(in'["cmd"]) :
                     \E j \in 1..Len(in["cmd"]) : in'["cmd"][k] = in["cmd"][j]
               /\ in["cmd"] = <<>> => in'["cmd"] = <<>>
    <2>1. in[t][i] \in Datagrams /\ in[t] # <<>>
      BY <1>1, <1>3
    <2>2. CASE t = "cmd"
      <3>1. \A k \in 1..Len(in'["cmd"]) :
               (k \in 1..Len(in["cmd"]) /\ in'["cmd"][k] = in["cmd"][k]) \/ in'["cmd"][k] = in["cmd"][i]
        BY <1>1, <1>3, <2>1, <2>2, Delivered
      <3> QED
        BY <1>3, <2>1, <2>2, <3>1, Delivered
    <2>3. CASE t # "cmd"
      BY <1>3, <2>1, <2>3, Delivered, Constants
    <2> QED
      BY <2>2, <2>3
  <1> QED
    BY <1>1, <1>2, <1>3 DEF Duplicate

LEMMA InitChannelInv == Init => ChannelInv
  <1> SUFFICES ASSUME Init PROVE ChannelInv
    OBVIOUS
  <1>1. MainTypes
    BY Constants, Zenon DEF Init, MainTypes
  <1>2. VersionTypes
    BY Constants DEF Init, VersionTypes
  <1>3. ThreadTypes
    BY Constants DEF Init, ThreadTypes
  <1>4. NetTypes
    <2>1. <<>> \in Seq(Commands) /\ <<>> \in Seq(Datagrams)
      OBVIOUS
    <2> QED
      BY <2>1, Constants DEF Init, NetTypes
  <1>5. TypeOK
    BY <1>1, <1>2, <1>3, <1>4 DEF TypeOK
  <1>6. StartInv /\ CommandInv
    BY Constants DEF Init, StartInv, CommandInv
  <1>7. VersionInv /\ BufferInv /\ AnswerInv
    BY Constants DEF Init, VersionInv, BufferInv, AnswerInv
  <1> QED
    BY <1>5, <1>6, <1>7 DEF ChannelInv

\* Where there is room a command, or a copy of a datagram, stays within the bound.
LEMMA RoomLeft ==
    ASSUME TypeOK, Room
    PROVE  /\ issued + 1 \in 1..MaxCommands /\ issued + 1 < MaxCommands
           /\ copies + 1 \in 0..MaxCommands
  <1>1. issued \in Nat /\ copies \in Nat
    BY ChannelAssumption DEF TypeOK, MainTypes, NetTypes
  <1>2. issued + copies + 1 < MaxCommands
    BY <1>1, ChannelAssumption DEF Room
  <1> QED
    BY <1>1, <1>2, ChannelAssumption

LEMMA ChannelInvStep == ChannelInv /\ [Next]_vars => ChannelInv'
  <1> SUFFICES ASSUME ChannelInv, [Next]_vars PROVE ChannelInv'
    OBVIOUS
  <1> USE DEF ChannelInv, mainVars, responseVars, versionVars, threadVars, bufferVars,
          serverVars, netVars
  <1>1. ASSUME StartVersion PROVE ChannelInv'
    <2>1. TypeOK'
      BY <1>1, Constants DEF StartVersion, StartFrame, TypeOK, MainTypes, VersionTypes, ThreadTypes, NetTypes
    <2>2. StartInv'
      BY <1>1, Constants DEF StartVersion, StartFrame, StartInv, TypeOK, ThreadTypes
    <2>3. CommandInv'
      BY <1>1, Constants DEF StartVersion, StartFrame, CommandInv, TypeOK, MainTypes
    <2>4. VersionInv'
      BY <1>1, Constants DEF StartVersion, StartFrame, VersionInv, TypeOK, ThreadTypes, StartInv
    <2>5. BufferInv'
      BY <1>1, Constants DEF StartVersion, StartFrame, BufferInv, TypeOK
    <2>6. AnswerInv'
      BY <1>1, Constants DEF StartVersion, StartFrame, AnswerInv, TypeOK, NetTypes
    <2> QED
      BY <2>1, <2>2, <2>3, <2>4, <2>5, <2>6
  <1>2. ASSUME StartConnect PROVE ChannelInv'
    <2>1. TypeOK'
      BY <1>2, Constants DEF StartConnect, StartFrame, TypeOK, MainTypes, VersionTypes, ThreadTypes, NetTypes
    <2>2. StartInv'
      BY <1>2, Constants DEF StartConnect, StartFrame, StartInv, TypeOK, ThreadTypes
    <2>3. CommandInv'
      BY <1>2, Constants DEF StartConnect, StartFrame, CommandInv, TypeOK, MainTypes
    <2>4. VersionInv'
      BY <1>2, Constants DEF StartConnect, StartFrame, VersionInv, TypeOK, ThreadTypes
    <2>5. BufferInv'
      BY <1>2, Constants DEF StartConnect, StartFrame, BufferInv, TypeOK
    <2>6. AnswerInv'
      BY <1>2, Constants DEF StartConnect, StartFrame, AnswerInv, TypeOK, NetTypes
    <2> QED
      BY <2>1, <2>2, <2>3, <2>4, <2>5, <2>6
  <1>3. ASSUME KeyCommand PROVE ChannelInv'
    <2>0. /\ issued + 1 \in 1..MaxCommands /\ issued + 1 < MaxCommands
          /\ Command(issued + 1, "plain", NoVersion) \in Commands
      <3>1. issued + 1 \in 1..MaxCommands /\ issued + 1 < MaxCommands
        BY <1>3, RoomLeft DEF KeyCommand, Idle
      <3> QED
        BY <3>1, Constants, CommandShape
    <2>1. TypeOK'
      <3>1. MainTypes'
        BY <1>3, Constants, <2>0 DEF KeyCommand, Idle, StartCommand, MainFrame, TypeOK, MainTypes
      <3>2. VersionTypes'
        BY <1>3, Constants, <2>0 DEF KeyCommand, Idle, StartCommand, MainFrame, TypeOK, VersionTypes
      <3>3. ThreadTypes'
        BY <1>3, Constants, <2>0 DEF KeyCommand, Idle, StartCommand, MainFrame, TypeOK, ThreadTypes
      <3>4. NetTypes'
        BY <1>3, Constants, <2>0 DEF KeyCommand, Idle, StartCommand, MainFrame, TypeOK, NetTypes
      <3> QED
        BY <3>1, <3>2, <3>3, <3>4 DEF TypeOK
    <2>2. StartInv'
      BY <1>3, Constants, <2>0 DEF KeyCommand, Idle, StartCommand, MainFrame, StartInv, TypeOK, ThreadTypes
    <2>3. CommandInv'
      BY <1>3, Constants, <2>0 DEF KeyCommand, Idle, StartCommand, MainFrame, CommandInv, TypeOK, MainTypes
    <2>4. VersionInv'
      BY <1>3, Constants, <2>0 DEF KeyCommand, Idle, StartCommand, MainFrame, VersionInv, TypeOK, ThreadTypes
    <2>5. BufferInv'
      BY <1>3, Constants, <2>0 DEF KeyCommand, Idle, StartCommand, MainFrame, BufferInv, TypeOK
    <2>6. AnswerInv'
      BY <1>3, Constants, <2>0 DEF KeyCommand, Idle, StartCommand, MainFrame, AnswerInv, TypeOK, NetTypes
    <2> QED
      BY <2>1, <2>2, <2>3, <2>4, <2>5, <2>6
  <1>4. ASSUME KeyVersion PROVE ChannelInv'
    <2>0. /\ issued + 1 \in 1..MaxCommands /\ issued + 1 < MaxCommands
          /\ Command(issued + 1, "query", NoVersion) \in Commands
      <3>1. issued + 1 \in 1..MaxCommands /\ issued + 1 < MaxCommands
        BY <1>4, RoomLeft DEF KeyVersion, Idle
      <3> QED
        BY <3>1, Constants, CommandShape
    <2>1. TypeOK'
      <3>1. MainTypes'
        BY <1>4, Constants, <2>0 DEF KeyVersion, Idle, StartCommand, MainFrame, TypeOK, MainTypes
      <3>2. VersionTypes'
        BY <1>4, Constants, <2>0 DEF KeyVersion, Idle, StartCommand, MainFrame, TypeOK, VersionTypes
      <3>3. ThreadTypes'
        BY <1>4, Constants, <2>0 DEF KeyVersion, Idle, StartCommand, MainFrame, TypeOK, ThreadTypes
      <3>4. NetTypes'
        BY <1>4, Constants, <2>0 DEF KeyVersion, Idle, StartCommand, MainFrame, TypeOK, NetTypes
      <3> QED
        BY <3>1, <3>2, <3>3, <3>4 DEF TypeOK
    <2>2. StartInv'
      BY <1>4, Constants, <2>0 DEF KeyVersion, Idle, StartCommand, MainFrame, StartInv, TypeOK, ThreadTypes
    <2>3. CommandInv'
      BY <1>4, Constants, <2>0 DEF KeyVersion, Idle, StartCommand, MainFrame, CommandInv, TypeOK, MainTypes
    <2>4. VersionInv'
      BY <1>4, Constants, <2>0 DEF KeyVersion, Idle, StartCommand, MainFrame, VersionInv, TypeOK, ThreadTypes
    <2>5. BufferInv'
      BY <1>4, Constants, <2>0 DEF KeyVersion, Idle, StartCommand, MainFrame, BufferInv, TypeOK
    <2>6. AnswerInv'
      BY <1>4, Constants, <2>0 DEF KeyVersion, Idle, StartCommand, MainFrame, AnswerInv, TypeOK, NetTypes
    <2> QED
      BY <2>1, <2>2, <2>3, <2>4, <2>5, <2>6
  <1>5. ASSUME NEW v \in UserVersions, KeyBitstream(v) PROVE ChannelInv'
    <2>0. /\ issued + 1 \in 1..MaxCommands /\ issued + 1 < MaxCommands
          /\ Command(issued + 1, "set", v) \in Commands
      <3>1. issued + 1 \in 1..MaxCommands /\ issued + 1 < MaxCommands
        BY <1>5, RoomLeft DEF KeyBitstream, Idle
      <3> QED
        BY <3>1, Constants, CommandShape
    <2>1. TypeOK'
      <3>1. MainTypes'
        BY <1>5, Constants, <2>0 DEF KeyBitstream, Idle, StartCommand, MainFrame, TypeOK, MainTypes
      <3>2. VersionTypes'
        BY <1>5, Constants, <2>0 DEF KeyBitstream, Idle, StartCommand, MainFrame, TypeOK, VersionTypes
      <3>3. ThreadTypes'
        BY <1>5, Constants, <2>0 DEF KeyBitstream, Idle, StartCommand, MainFrame, TypeOK, ThreadTypes
      <3>4. NetTypes'
        BY <1>5, Constants, <2>0 DEF KeyBitstream, Idle, StartCommand, MainFrame, TypeOK, NetTypes
      <3> QED
        BY <3>1, <3>2, <3>3, <3>4 DEF TypeOK
    <2>2. StartInv'
      BY <1>5, Constants, <2>0 DEF KeyBitstream, Idle, StartCommand, MainFrame, StartInv, TypeOK, ThreadTypes
    <2>3. CommandInv'
      BY <1>5, Constants, <2>0 DEF KeyBitstream, Idle, StartCommand, MainFrame, CommandInv, TypeOK, MainTypes
    <2>4. VersionInv'
      BY <1>5, Constants, <2>0 DEF KeyBitstream, Idle, StartCommand, MainFrame, VersionInv, TypeOK, ThreadTypes
    <2>5. BufferInv'
      BY <1>5, Constants, <2>0 DEF KeyBitstream, Idle, StartCommand, MainFrame, BufferInv, TypeOK
    <2>6. AnswerInv'
      BY <1>5, Constants, <2>0 DEF KeyBitstream, Idle, StartCommand, MainFrame, AnswerInv, TypeOK, NetTypes
    <2> QED
      BY <2>1, <2>2, <2>3, <2>4, <2>5, <2>6
  <1>6. ASSUME KeyDescriptions PROVE ChannelInv'
    <2>0. /\ issued + 1 \in 1..MaxCommands /\ issued + 1 < MaxCommands
          /\ Command(issued + 1, "modeldef", NoVersion) \in Commands
      BY <1>6, Constants, CommandShape, RoomLeft DEF KeyDescriptions, Idle
    <2>1. TypeOK'
      BY <1>6, Constants, <2>0 DEF KeyDescriptions, Idle, MainFrame, TypeOK, MainTypes, VersionTypes, ThreadTypes, NetTypes
    <2>2. StartInv'
      BY <1>6, Constants, <2>0 DEF KeyDescriptions, Idle, MainFrame, StartInv, TypeOK, ThreadTypes
    <2>3. CommandInv'
      BY <1>6, Constants, <2>0 DEF KeyDescriptions, Idle, MainFrame, CommandInv, TypeOK, MainTypes
    <2>4. VersionInv'
      BY <1>6, Constants, <2>0 DEF KeyDescriptions, Idle, MainFrame, VersionInv, TypeOK, ThreadTypes
    <2>5. BufferInv'
      BY <1>6, Constants, <2>0 DEF KeyDescriptions, Idle, MainFrame, BufferInv, TypeOK
    <2>6. AnswerInv'
      <3>1. \A i \in 1..Len(toServer') : \/ ~Awaited(toServer'[i])
                                         \/ i \in 1..Len(toServer) /\ toServer'[i] = toServer[i]
        BY <1>6, CommandShape, <2>0 DEF KeyDescriptions, Awaited, Command, TypeOK, NetTypes
      <3> QED
        BY <1>6, <3>1 DEF KeyDescriptions, Idle, MainFrame, AnswerInv, TypeOK, NetTypes
    <2> QED
      BY <2>1, <2>2, <2>3, <2>4, <2>5, <2>6
  <1>7. ASSUME KeyQuit PROVE ChannelInv'
    <2>1. TypeOK'
      BY <1>7, Constants DEF KeyQuit, MainFrame, TypeOK, MainTypes, VersionTypes, ThreadTypes, NetTypes
    <2>2. StartInv'
      BY <1>7, Constants DEF KeyQuit, MainFrame, StartInv, TypeOK, ThreadTypes
    <2>3. CommandInv'
      BY <1>7, Constants DEF KeyQuit, MainFrame, CommandInv, TypeOK, MainTypes
    <2>4. VersionInv'
      BY <1>7, Constants DEF KeyQuit, MainFrame, VersionInv, TypeOK, ThreadTypes
    <2>5. BufferInv'
      BY <1>7, Constants DEF KeyQuit, MainFrame, BufferInv, TypeOK
    <2>6. AnswerInv'
      BY <1>7, Constants DEF KeyQuit, MainFrame, AnswerInv, TypeOK, NetTypes
    <2> QED
      BY <2>1, <2>2, <2>3, <2>4, <2>5, <2>6
  <1>8. ASSUME SendTo PROVE ChannelInv'
    <2>1. TypeOK'
      <3>1. MainTypes'
        BY <1>8, Constants DEF SendTo, MainFrame, TypeOK, MainTypes
      <3>2. VersionTypes'
        BY <1>8, Constants DEF SendTo, MainFrame, TypeOK, VersionTypes
      <3>3. ThreadTypes'
        BY <1>8, Constants DEF SendTo, MainFrame, TypeOK, ThreadTypes
      <3>4. NetTypes'
        BY <1>8, Constants DEF SendTo, MainFrame, TypeOK, NetTypes, CommandInv
      <3> QED
        BY <3>1, <3>2, <3>3, <3>4 DEF TypeOK
    <2>2. StartInv'
      BY <1>8, Constants DEF SendTo, MainFrame, StartInv, TypeOK, ThreadTypes
    <2>3. CommandInv'
      BY <1>8, Constants DEF SendTo, MainFrame, CommandInv, TypeOK, MainTypes
    <2>4. VersionInv'
      BY <1>8, Constants DEF SendTo, MainFrame, VersionInv, TypeOK, ThreadTypes
    <2>5. BufferInv'
      BY <1>8, Constants DEF SendTo, MainFrame, BufferInv, TypeOK
    <2>6. AnswerInv'
      <3>1. \A i \in 1..Len(toServer') :
               \/ i = Len(toServer) + 1 /\ toServer'[i] = command
               \/ i \in 1..Len(toServer) /\ toServer'[i] = toServer[i]
        BY <1>8 DEF SendTo, TypeOK, NetTypes
      <3> QED
        BY <1>8, <3>1 DEF SendTo, MainFrame, AnswerInv, TypeOK, NetTypes
    <2> QED
      BY <2>1, <2>2, <2>3, <2>4, <2>5, <2>6
  <1>9. ASSUME ReturnToKeys PROVE ChannelInv'
    <2>1. TypeOK'
      BY <1>9, Constants DEF ReturnToKeys, Return, BackToKeys, MainFrame, TypeOK, MainTypes, VersionTypes, ThreadTypes, NetTypes
    <2>2. StartInv'
      BY <1>9, Constants DEF ReturnToKeys, Return, BackToKeys, MainFrame, StartInv, TypeOK, ThreadTypes
    <2>3. CommandInv'
      BY <1>9, Constants DEF ReturnToKeys, Return, BackToKeys, MainFrame, CommandInv, TypeOK, MainTypes
    <2>4. VersionInv'
      BY <1>9, Constants DEF ReturnToKeys, Return, BackToKeys, MainFrame, VersionInv, TypeOK, ThreadTypes
    <2>5. BufferInv'
      BY <1>9, Constants DEF ReturnToKeys, Return, BackToKeys, MainFrame, BufferInv, TypeOK
    <2>6. AnswerInv'
      BY <1>9, Constants DEF ReturnToKeys, Return, BackToKeys, MainFrame, AnswerInv, TypeOK, NetTypes
    <2> QED
      BY <2>1, <2>2, <2>3, <2>4, <2>5, <2>6
  <1>10. ASSUME ReturnSetFailed PROVE ChannelInv'
    <2>1. TypeOK'
      BY <1>10, Constants DEF ReturnSetFailed, Return, BackToKeys, MainFrame, TypeOK, MainTypes, VersionTypes, ThreadTypes, NetTypes
    <2>2. StartInv'
      BY <1>10, Constants DEF ReturnSetFailed, Return, BackToKeys, MainFrame, StartInv, TypeOK, ThreadTypes
    <2>3. CommandInv'
      BY <1>10, Constants DEF ReturnSetFailed, Return, BackToKeys, MainFrame, CommandInv, TypeOK, MainTypes
    <2>4. VersionInv'
      BY <1>10, Constants DEF ReturnSetFailed, Return, BackToKeys, MainFrame, VersionInv, TypeOK, ThreadTypes
    <2>5. BufferInv'
      BY <1>10, Constants DEF ReturnSetFailed, Return, BackToKeys, MainFrame, BufferInv, TypeOK
    <2>6. AnswerInv'
      BY <1>10, Constants DEF ReturnSetFailed, Return, BackToKeys, MainFrame, AnswerInv, TypeOK, NetTypes
    <2> QED
      BY <2>1, <2>2, <2>3, <2>4, <2>5, <2>6
  <1>11. ASSUME ReturnSetDone PROVE ChannelInv'
    <2>0. /\ issued + 1 \in 1..MaxCommands
          /\ Command(issued + 1, "query", NoVersion) \in Commands
      BY Constants, CommandShape, <1>11 DEF ReturnSetDone, CommandInv, TypeOK, MainTypes
    <2>1. TypeOK'
      <3>1. MainTypes'
        BY <1>11, Constants, <2>0 DEF ReturnSetDone, Return, StartCommand, MainFrame, TypeOK, MainTypes
      <3>2. VersionTypes'
        BY <1>11, Constants, <2>0 DEF ReturnSetDone, Return, StartCommand, MainFrame, TypeOK, VersionTypes
      <3>3. ThreadTypes'
        BY <1>11, Constants, <2>0 DEF ReturnSetDone, Return, StartCommand, MainFrame, TypeOK, ThreadTypes
      <3>4. NetTypes'
        BY <1>11, Constants, <2>0 DEF ReturnSetDone, Return, StartCommand, MainFrame, TypeOK, NetTypes
      <3> QED
        BY <3>1, <3>2, <3>3, <3>4 DEF TypeOK
    <2>2. StartInv'
      BY <1>11, Constants, <2>0 DEF ReturnSetDone, Return, StartCommand, MainFrame, StartInv, TypeOK, ThreadTypes
    <2>3. CommandInv'
      BY <1>11, Constants, <2>0 DEF ReturnSetDone, Return, StartCommand, MainFrame, CommandInv, TypeOK, MainTypes
    <2>4. VersionInv'
      BY <1>11, Constants, <2>0 DEF ReturnSetDone, Return, StartCommand, MainFrame, VersionInv, TypeOK, ThreadTypes
    <2>5. BufferInv'
      BY <1>11, Constants, <2>0 DEF ReturnSetDone, Return, StartCommand, MainFrame, BufferInv, TypeOK
    <2>6. AnswerInv'
      BY <1>11, Constants, <2>0 DEF ReturnSetDone, Return, StartCommand, MainFrame, AnswerInv, TypeOK, NetTypes
    <2> QED
      BY <2>1, <2>2, <2>3, <2>4, <2>5, <2>6
  <1>12. ASSUME ServerInfo PROVE ChannelInv'
    <2>0. /\ Head(in["cmd"]) \in Datagrams /\ Head(in["cmd"]).ver[1] \in Majors
          /\ Head(in["cmd"]).id \in 0..MaxCommands /\ Head(in["cmd"]).value \in {0, 1}
          /\ in' \in [Threads -> Seq(Datagrams)]
          /\ version[1] \in Majors /\ version[2] \in Minors
          /\ msg'["cmd"] = Head(in["cmd"])
      BY <1>12, Taken, Held, Constants DEF ServerInfo, Datagrams, TypeOK, VersionTypes, ThreadTypes
    <2>1. TypeOK'
      <3>1. MainTypes'
        BY <1>12, Constants, <2>0 DEF ServerInfo, ListenFrame, Goto, TypeOK, MainTypes
      <3>2. VersionTypes'
        BY <1>12, Constants, <2>0 DEF ServerInfo, ListenFrame, Goto, TypeOK, VersionTypes
      <3>3. ThreadTypes'
        BY <1>12, Constants, <2>0 DEF ServerInfo, ListenFrame, Goto, TypeOK, ThreadTypes
      <3>4. NetTypes'
        BY <1>12, Constants, <2>0 DEF ServerInfo, ListenFrame, Goto, TypeOK, NetTypes
      <3> QED
        BY <3>1, <3>2, <3>3, <3>4 DEF TypeOK
    <2>2. StartInv'
      BY <1>12, Constants, <2>0, Taken DEF ServerInfo, ListenFrame, Goto, StartInv, TypeOK, ThreadTypes
    <2>3. CommandInv'
      BY <1>12, Constants, <2>0 DEF ServerInfo, ListenFrame, Goto, CommandInv, TypeOK, MainTypes
    <2>4. VersionInv'
      BY <1>12, Constants, <2>0, TakenVersions, Taken, Held DEF ServerInfo, ListenFrame, Goto, VersionInv, TypeOK, ThreadTypes
    <2>5. BufferInv'
      BY <1>12, Constants, <2>0 DEF ServerInfo, ListenFrame, Goto, BufferInv, TypeOK
    <2>6. AnswerInv'
      BY <1>12, Constants, <2>0, TakenOther, Taken DEF ServerInfo, ListenFrame, Goto, AnswerInv, TypeOK, NetTypes, OneAwaited
    <2> QED
      BY <2>1, <2>2, <2>3, <2>4, <2>5, <2>6
  <1>13. ASSUME ServerInfoMinor PROVE ChannelInv'
    <2>0. msg["cmd"].ver[2] \in Minors /\ version[1] \in Majors
      BY <1>13, Held, Constants DEF TypeOK, VersionTypes, ThreadTypes
    <2>1. TypeOK'
      <3>1. MainTypes'
        BY <1>13, Constants, <2>0 DEF ServerInfoMinor, At, Goto, ListenFrame, TypeOK, MainTypes
      <3>2. VersionTypes'
        BY <1>13, Constants, <2>0 DEF ServerInfoMinor, At, Goto, ListenFrame, TypeOK, VersionTypes
      <3>3. ThreadTypes'
        BY <1>13, Constants, <2>0 DEF ServerInfoMinor, At, Goto, ListenFrame, TypeOK, ThreadTypes
      <3>4. NetTypes'
        BY <1>13, Constants, <2>0 DEF ServerInfoMinor, At, Goto, ListenFrame, TypeOK, NetTypes
      <3> QED
        BY <3>1, <3>2, <3>3, <3>4 DEF TypeOK
    <2>2. StartInv'
      BY <1>13, Constants, <2>0 DEF ServerInfoMinor, At, Goto, ListenFrame, StartInv, TypeOK, ThreadTypes
    <2>3. CommandInv'
      BY <1>13, Constants, <2>0 DEF ServerInfoMinor, At, Goto, ListenFrame, CommandInv, TypeOK, MainTypes
    <2>4. VersionInv'
      BY <1>13, Constants, <2>0 DEF ServerInfoMinor, At, Goto, ListenFrame, VersionInv, TypeOK, ThreadTypes
    <2>5. BufferInv'
      BY <1>13, Constants, <2>0 DEF ServerInfoMinor, At, Goto, ListenFrame, BufferInv, TypeOK
    <2>6. AnswerInv'
      BY <1>13, Constants, <2>0 DEF ServerInfoMinor, At, Goto, ListenFrame, AnswerInv, TypeOK, NetTypes
    <2> QED
      BY <2>1, <2>2, <2>3, <2>4, <2>5, <2>6
  <1>14. ASSUME ServerInfoCanChange PROVE ChannelInv'
    <2>1. TypeOK'
      BY <1>14, Constants DEF ServerInfoCanChange, At, Done, Goto, ListenFrame, TypeOK, MainTypes, VersionTypes, ThreadTypes, NetTypes
    <2>2. StartInv'
      BY <1>14, Constants DEF ServerInfoCanChange, At, Done, Goto, ListenFrame, StartInv, TypeOK, ThreadTypes
    <2>3. CommandInv'
      BY <1>14, Constants DEF ServerInfoCanChange, At, Done, Goto, ListenFrame, CommandInv, TypeOK, MainTypes
    <2>4. VersionInv'
      BY <1>14, Constants DEF ServerInfoCanChange, At, Done, Goto, ListenFrame, VersionInv, TypeOK, ThreadTypes
    <2>5. BufferInv'
      BY <1>14, Constants DEF ServerInfoCanChange, At, Done, Goto, ListenFrame, BufferInv, TypeOK
    <2>6. AnswerInv'
      BY <1>14, Constants DEF ServerInfoCanChange, At, Done, Goto, ListenFrame, AnswerInv, TypeOK, NetTypes
    <2> QED
      BY <2>1, <2>2, <2>3, <2>4, <2>5, <2>6
  <1>15. ASSUME ResponseNumber PROVE ChannelInv'
    <2>0. /\ Head(in["cmd"]) \in Datagrams /\ Head(in["cmd"]).ver[1] \in Majors
          /\ Head(in["cmd"]).id \in 0..MaxCommands /\ Head(in["cmd"]).value \in {0, 1}
          /\ in' \in [Threads -> Seq(Datagrams)]
          /\ version[1] \in Majors /\ version[2] \in Minors
      BY <1>15, Taken, Held, Constants DEF ResponseNumber, Datagrams, TypeOK, VersionTypes, ThreadTypes
    <2>1. TypeOK'
      <3>1. MainTypes'
        BY <1>15, Constants, <2>0 DEF ResponseNumber, ListenFrame, TypeOK, MainTypes
      <3>2. VersionTypes'
        BY <1>15, Constants, <2>0 DEF ResponseNumber, ListenFrame, TypeOK, VersionTypes, MainTypes
      <3>3. ThreadTypes'
        BY <1>15, Constants, <2>0 DEF ResponseNumber, ListenFrame, TypeOK, ThreadTypes
      <3>4. NetTypes'
        BY <1>15, Constants, <2>0 DEF ResponseNumber, ListenFrame, TypeOK, NetTypes
      <3> QED
        BY <3>1, <3>2, <3>3, <3>4 DEF TypeOK
    <2>2. StartInv'
      BY <1>15, Constants, <2>0, Taken DEF ResponseNumber, ListenFrame, StartInv, TypeOK, ThreadTypes
    <2>3. CommandInv'
      BY <1>15, Constants, <2>0 DEF ResponseNumber, ListenFrame, CommandInv, TypeOK, MainTypes
    <2>4. VersionInv'
      BY <1>15, Constants, <2>0, TakenVersions, Taken, Held DEF ResponseNumber, ListenFrame, VersionInv, TypeOK, ThreadTypes
    <2>5. BufferInv'
      BY <1>15, Constants, <2>0 DEF ResponseNumber, ListenFrame, BufferInv, TypeOK
    <2>6. AnswerInv'
      <3>1. Take("cmd", "NUMBER") /\ IsAnswer(Head(in["cmd"]))
        BY <1>15 DEF ResponseNumber, Take, IsAnswer
      <3>2. CASE late
        BY <1>15, <3>2 DEF ResponseNumber, ListenFrame, AnswerInv
      <3>3. CASE ~late
        <4>1. /\ mainPc = "wait" /\ Head(in["cmd"]).id = command.id
              /\ \A i \in 1..Len(toServer) : ~Awaited(toServer[i])
              /\ \A i \in 1..Len(in'["cmd"]) : ~IsAnswer(in'["cmd"][i])
          BY <3>1, <3>3, TakenAnswer
        <4> QED
          BY <1>15, <2>0, <4>1 DEF ResponseNumber, ListenFrame, AnswerInv
      <3> QED
        BY <3>2, <3>3
    <2> QED
      BY <2>1, <2>2, <2>3, <2>4, <2>5, <2>6
  <1>16. ASSUME ResponseString PROVE ChannelInv'
    <2>0. /\ Head(in["cmd"]) \in Datagrams /\ Head(in["cmd"]).ver[1] \in Majors
          /\ Head(in["cmd"]).id \in 0..MaxCommands /\ Head(in["cmd"]).value \in {0, 1}
          /\ in' \in [Threads -> Seq(Datagrams)]
          /\ version[1] \in Majors /\ version[2] \in Minors
          /\ msg'["cmd"] = Head(in["cmd"])
      BY <1>16, Taken, Held, Constants DEF ResponseString, Datagrams, TypeOK, VersionTypes, ThreadTypes
    <2>1. TypeOK'
      <3>1. MainTypes'
        BY <1>16, Constants, <2>0 DEF ResponseString, ListenFrame, Goto, TypeOK, MainTypes
      <3>2. VersionTypes'
        BY <1>16, Constants, <2>0 DEF ResponseString, ListenFrame, Goto, TypeOK, VersionTypes
      <3>3. ThreadTypes'
        BY <1>16, Constants, <2>0 DEF ResponseString, ListenFrame, Goto, TypeOK, ThreadTypes
      <3>4. NetTypes'
        BY <1>16, Constants, <2>0 DEF ResponseString, ListenFrame, Goto, TypeOK, NetTypes
      <3> QED
        BY <3>1, <3>2, <3>3, <3>4 DEF TypeOK
    <2>2. StartInv'
      BY <1>16, Constants, <2>0, Taken DEF ResponseString, ListenFrame, Goto, StartInv, TypeOK, ThreadTypes
    <2>3. CommandInv'
      BY <1>16, Constants, <2>0 DEF ResponseString, ListenFrame, Goto, CommandInv, TypeOK, MainTypes
    <2>4. VersionInv'
      BY <1>16, Constants, <2>0, TakenVersions, Taken, Held DEF ResponseString, ListenFrame, Goto, VersionInv, TypeOK, ThreadTypes
    <2>5. BufferInv'
      BY <1>16, Constants, <2>0 DEF ResponseString, ListenFrame, Goto, BufferInv, TypeOK
    <2>6. AnswerInv'
      <3>1. Take("cmd", "STRING") /\ IsAnswer(Head(in["cmd"]))
        BY <1>16 DEF ResponseString, Take, IsAnswer
      <3>2. CASE late
        BY <1>16, <3>2 DEF ResponseString, ListenFrame, AnswerInv
      <3>3. CASE ~late
        <4>1. /\ mainPc = "wait" /\ Head(in["cmd"]).id = command.id
              /\ \A i \in 1..Len(toServer) : ~Awaited(toServer[i])
              /\ \A i \in 1..Len(in'["cmd"]) : ~IsAnswer(in'["cmd"][i])
          BY <3>1, <3>3, TakenAnswer
        <4> QED
          BY <1>16, <2>0, <4>1 DEF ResponseString, ListenFrame, AnswerInv
      <3> QED
        BY <3>2, <3>3
    <2> QED
      BY <2>1, <2>2, <2>3, <2>4, <2>5, <2>6
  <1>17. ASSUME ResponseStringMinor PROVE ChannelInv'
    <2>0. msg["cmd"].ver[2] \in Minors /\ version[1] \in Majors
      BY <1>17, Held, Constants DEF TypeOK, VersionTypes, ThreadTypes
    <2>1. TypeOK'
      <3>1. MainTypes'
        BY <1>17, Constants, <2>0 DEF ResponseStringMinor, At, Done, Goto, ListenFrame, TypeOK, MainTypes
      <3>2. VersionTypes'
        BY <1>17, Constants, <2>0 DEF ResponseStringMinor, At, Done, Goto, ListenFrame, TypeOK, VersionTypes
      <3>3. ThreadTypes'
        BY <1>17, Constants, <2>0 DEF ResponseStringMinor, At, Done, Goto, ListenFrame, TypeOK, ThreadTypes
      <3>4. NetTypes'
        BY <1>17, Constants, <2>0 DEF ResponseStringMinor, At, Done, Goto, ListenFrame, TypeOK, NetTypes
      <3> QED
        BY <3>1, <3>2, <3>3, <3>4 DEF TypeOK
    <2>2. StartInv'
      BY <1>17, Constants, <2>0 DEF ResponseStringMinor, At, Done, Goto, ListenFrame, StartInv, TypeOK, ThreadTypes
    <2>3. CommandInv'
      BY <1>17, Constants, <2>0 DEF ResponseStringMinor, At, Done, Goto, ListenFrame, CommandInv, TypeOK, MainTypes
    <2>4. VersionInv'
      BY <1>17, Constants, <2>0 DEF ResponseStringMinor, At, Done, Goto, ListenFrame, VersionInv, TypeOK, ThreadTypes
    <2>5. BufferInv'
      BY <1>17, Constants, <2>0 DEF ResponseStringMinor, At, Done, Goto, ListenFrame, BufferInv, TypeOK
    <2>6. AnswerInv'
      BY <1>17, Constants, <2>0 DEF ResponseStringMinor, At, Done, Goto, ListenFrame, AnswerInv, TypeOK, NetTypes
    <2> QED
      BY <2>1, <2>2, <2>3, <2>4, <2>5, <2>6
  <1>18. ASSUME Unrecognized PROVE ChannelInv'
    <2>0. /\ Head(in["cmd"]) \in Datagrams /\ Head(in["cmd"]).ver[1] \in Majors
          /\ Head(in["cmd"]).id \in 0..MaxCommands /\ Head(in["cmd"]).value \in {0, 1}
          /\ in' \in [Threads -> Seq(Datagrams)]
          /\ version[1] \in Majors /\ version[2] \in Minors
      BY <1>18, Taken, Held, Constants DEF Unrecognized, Datagrams, TypeOK, VersionTypes, ThreadTypes
    <2>1. TypeOK'
      <3>1. MainTypes'
        BY <1>18, Constants, <2>0 DEF Unrecognized, ListenFrame, TypeOK, MainTypes
      <3>2. VersionTypes'
        BY <1>18, Constants, <2>0 DEF Unrecognized, ListenFrame, TypeOK, VersionTypes
      <3>3. ThreadTypes'
        BY <1>18, Constants, <2>0 DEF Unrecognized, ListenFrame, TypeOK, ThreadTypes
      <3>4. NetTypes'
        BY <1>18, Constants, <2>0 DEF Unrecognized, ListenFrame, TypeOK, NetTypes
      <3> QED
        BY <3>1, <3>2, <3>3, <3>4 DEF TypeOK
    <2>2. StartInv'
      BY <1>18, Constants, <2>0, Taken DEF Unrecognized, ListenFrame, StartInv, TypeOK, ThreadTypes
    <2>3. CommandInv'
      BY <1>18, Constants, <2>0 DEF Unrecognized, ListenFrame, CommandInv, TypeOK, MainTypes
    <2>4. VersionInv'
      BY <1>18, Constants, <2>0, TakenVersions, Taken, Held DEF Unrecognized, ListenFrame, VersionInv, TypeOK, ThreadTypes
    <2>5. BufferInv'
      BY <1>18, Constants, <2>0 DEF Unrecognized, ListenFrame, BufferInv, TypeOK
    <2>6. AnswerInv'
      <3>1. Take("cmd", "UNRECOGNIZED") /\ IsAnswer(Head(in["cmd"]))
        BY <1>18 DEF Unrecognized, Take, IsAnswer
      <3>2. CASE late
        BY <1>18, <3>2 DEF Unrecognized, ListenFrame, AnswerInv
      <3>3. CASE ~late
        <4>1. /\ mainPc = "wait" /\ Head(in["cmd"]).id = command.id
              /\ \A i \in 1..Len(toServer) : ~Awaited(toServer[i])
              /\ \A i \in 1..Len(in'["cmd"]) : ~IsAnswer(in'["cmd"][i])
          BY <3>1, <3>3, TakenAnswer
        <4> QED
          BY <1>18, <2>0, <4>1 DEF Unrecognized, ListenFrame, AnswerInv
      <3> QED
        BY <3>2, <3>3
    <2> QED
      BY <2>1, <2>2, <2>3, <2>4, <2>5, <2>6
  <1>19. ASSUME NEW t \in Threads, UnpackMajor(t) PROVE ChannelInv'
    <2>0. /\ Head(in[t]) \in Datagrams /\ [Head(in[t]) EXCEPT !.len = 0] \in Datagrams
          /\ in' \in [Threads -> Seq(Datagrams)] /\ <<version[1], 0>> \in Majors \X Minors
      BY <1>19, Taken, Held, Constants DEF UnpackMajor, TypeOK, VersionTypes
    <2>1. TypeOK'
      <3>1. MainTypes'
        BY <1>19, Constants, <2>0 DEF UnpackMajor, UnpackFrame, ListenFrame, Goto, TypeOK, MainTypes
      <3>2. VersionTypes'
        BY <1>19, Constants, <2>0 DEF UnpackMajor, UnpackFrame, ListenFrame, Goto, TypeOK, VersionTypes
      <3>3. ThreadTypes'
        BY <1>19, Constants, <2>0 DEF UnpackMajor, UnpackFrame, ListenFrame, Goto, TypeOK, ThreadTypes
      <3>4. NetTypes'
        BY <1>19, Constants, <2>0 DEF UnpackMajor, UnpackFrame, ListenFrame, Goto, TypeOK, NetTypes
      <3> QED
        BY <3>1, <3>2, <3>3, <3>4 DEF TypeOK
    <2>2. StartInv'
      BY <1>19, Constants, <2>0, Taken DEF UnpackMajor, UnpackFrame, ListenFrame, Goto, StartInv, TypeOK, ThreadTypes
    <2>3. CommandInv'
      BY <1>19, Constants, <2>0 DEF UnpackMajor, UnpackFrame, ListenFrame, Goto, CommandInv, TypeOK, MainTypes
    <2>4. VersionInv'
      BY <1>19, Constants, <2>0, TakenVersions, Taken DEF UnpackMajor, UnpackFrame, ListenFrame, Goto, VersionInv, TypeOK, ThreadTypes
    <2>5. BufferInv'
      BY <1>19, Constants, <2>0 DEF UnpackMajor, UnpackFrame, ListenFrame, Goto, BufferInv, TypeOK
    <2>6. AnswerInv'
      BY <1>19, Constants, <2>0, TakenOther, Taken DEF UnpackMajor, UnpackFrame, ListenFrame, Goto, AnswerInv, TypeOK, NetTypes, OneAwaited
    <2> QED
      BY <2>1, <2>2, <2>3, <2>4, <2>5, <2>6
  <1>20. ASSUME NEW t \in Threads, UnpackMinor(t) PROVE ChannelInv'
    <2>0. <<use[t][1], version[2]>> \in Majors \X Minors
      BY <1>20 DEF TypeOK, VersionTypes, ThreadTypes
    <2>1. TypeOK'
      <3>1. MainTypes'
        BY <1>20, Constants, <2>0 DEF UnpackMinor, At, Done, Goto, UnpackFrame, ListenFrame, TypeOK, MainTypes
      <3>2. VersionTypes'
        BY <1>20, Constants, <2>0 DEF UnpackMinor, At, Done, Goto, UnpackFrame, ListenFrame, TypeOK, VersionTypes
      <3>3. ThreadTypes'
        BY <1>20, Constants, <2>0 DEF UnpackMinor, At, Done, Goto, UnpackFrame, ListenFrame, TypeOK, ThreadTypes
      <3>4. NetTypes'
        BY <1>20, Constants, <2>0 DEF UnpackMinor, At, Done, Goto, UnpackFrame, ListenFrame, TypeOK, NetTypes
      <3> QED
        BY <3>1, <3>2, <3>3, <3>4 DEF TypeOK
    <2>2. StartInv'
      BY <1>20, Constants, <2>0 DEF UnpackMinor, At, Done, Goto, UnpackFrame, ListenFrame, StartInv, TypeOK, ThreadTypes
    <2>3. CommandInv'
      BY <1>20, Constants, <2>0 DEF UnpackMinor, At, Done, Goto, UnpackFrame, ListenFrame, CommandInv, TypeOK, MainTypes
    <2>4. VersionInv'
      BY <1>20, Constants, <2>0 DEF UnpackMinor, At, Done, Goto, UnpackFrame, ListenFrame, VersionInv, TypeOK, ThreadTypes
    <2>5. BufferInv'
      BY <1>20, Constants, <2>0 DEF UnpackMinor, At, Done, Goto, UnpackFrame, ListenFrame, BufferInv, TypeOK
    <2>6. AnswerInv'
      BY <1>20, Constants, <2>0 DEF UnpackMinor, At, Done, Goto, UnpackFrame, ListenFrame, AnswerInv, TypeOK, NetTypes
    <2> QED
      BY <2>1, <2>2, <2>3, <2>4, <2>5, <2>6
  <1>21. ASSUME NEW t \in Threads, UnpackParams(t) PROVE ChannelInv'
    <2>1. TypeOK'
      BY <1>21, Constants DEF UnpackParams, At, Goto, UnpackFrame, ListenFrame, TypeOK, MainTypes, VersionTypes, ThreadTypes, NetTypes
    <2>2. StartInv'
      BY <1>21, Constants DEF UnpackParams, At, Goto, UnpackFrame, ListenFrame, StartInv, TypeOK, ThreadTypes
    <2>3. CommandInv'
      BY <1>21, Constants DEF UnpackParams, At, Goto, UnpackFrame, ListenFrame, CommandInv, TypeOK, MainTypes
    <2>4. VersionInv'
      BY <1>21, Constants DEF UnpackParams, At, Goto, UnpackFrame, ListenFrame, VersionInv, TypeOK, ThreadTypes
    <2>5. BufferInv'
      BY <1>21, Constants DEF UnpackParams, At, Goto, UnpackFrame, ListenFrame, BufferInv, TypeOK
    <2>6. AnswerInv'
      BY <1>21, Constants DEF UnpackParams, At, Goto, UnpackFrame, ListenFrame, AnswerInv, TypeOK, NetTypes
    <2> QED
      BY <2>1, <2>2, <2>3, <2>4, <2>5, <2>6
  <1>22. ASSUME NEW t \in Threads, UnpackTest(t) PROVE ChannelInv'
    <2>1. TypeOK'
      <3>1. MainTypes'
        BY <1>22, Constants DEF UnpackTest, At, Done, Goto, UnpackFrame, ListenFrame, TypeOK, MainTypes
      <3>2. VersionTypes'
        BY <1>22, Constants DEF UnpackTest, At, Done, Goto, UnpackFrame, ListenFrame, TypeOK, VersionTypes
      <3>3. ThreadTypes'
        BY <1>22, Constants DEF UnpackTest, At, Done, Goto, UnpackFrame, ListenFrame, TypeOK, ThreadTypes
      <3>4. NetTypes'
        BY <1>22, Constants DEF UnpackTest, At, Done, Goto, UnpackFrame, ListenFrame, TypeOK, NetTypes
      <3> QED
        BY <3>1, <3>2, <3>3, <3>4 DEF TypeOK
    <2>2. StartInv'
      BY <1>22, Constants DEF UnpackTest, At, Done, Goto, UnpackFrame, ListenFrame, StartInv, TypeOK, ThreadTypes
    <2>3. CommandInv'
      BY <1>22, Constants DEF UnpackTest, At, Done, Goto, UnpackFrame, ListenFrame, CommandInv, TypeOK, MainTypes
    <2>4. VersionInv'
      BY <1>22, Constants DEF UnpackTest, At, Done, Goto, UnpackFrame, ListenFrame, VersionInv, TypeOK, ThreadTypes
    <2>5. BufferInv'
      BY <1>22, Constants DEF UnpackTest, At, Done, Goto, UnpackFrame, ListenFrame, BufferInv, TypeOK
    <2>6. AnswerInv'
      BY <1>22, Constants DEF UnpackTest, At, Done, Goto, UnpackFrame, ListenFrame, AnswerInv, TypeOK, NetTypes
    <2> QED
      BY <2>1, <2>2, <2>3, <2>4, <2>5, <2>6
  <1>23. ASSUME NEW t \in Threads, UnpackSuffix(t) PROVE ChannelInv'
    <2>1. TypeOK'
      <3>1. MainTypes'
        BY <1>23, Constants DEF UnpackSuffix, At, Done, Goto, UnpackFrame, ListenFrame, TypeOK, MainTypes
      <3>2. VersionTypes'
        BY <1>23, Constants DEF UnpackSuffix, At, Done, Goto, UnpackFrame, ListenFrame, TypeOK, VersionTypes
      <3>3. ThreadTypes'
        BY <1>23, Constants DEF UnpackSuffix, At, Done, Goto, UnpackFrame, ListenFrame, TypeOK, ThreadTypes
      <3>4. NetTypes'
        BY <1>23, Constants DEF UnpackSuffix, At, Done, Goto, UnpackFrame, ListenFrame, TypeOK, NetTypes
      <3> QED
        BY <3>1, <3>2, <3>3, <3>4 DEF TypeOK
    <2>2. StartInv'
      BY <1>23, Constants DEF UnpackSuffix, At, Done, Goto, UnpackFrame, ListenFrame, StartInv, TypeOK, ThreadTypes
    <2>3. CommandInv'
      BY <1>23, Constants DEF UnpackSuffix, At, Done, Goto, UnpackFrame, ListenFrame, CommandInv, TypeOK, MainTypes
    <2>4. VersionInv'
      BY <1>23, Constants DEF UnpackSuffix, At, Done, Goto, UnpackFrame, ListenFrame, VersionInv, TypeOK, ThreadTypes
    <2>5. BufferInv'
      BY <1>23, Constants DEF UnpackSuffix, At, Done, Goto, UnpackFrame, ListenFrame, BufferInv, TypeOK
    <2>6. AnswerInv'
      BY <1>23, Constants DEF UnpackSuffix, At, Done, Goto, UnpackFrame, ListenFrame, AnswerInv, TypeOK, NetTypes
    <2> QED
      BY <2>1, <2>2, <2>3, <2>4, <2>5, <2>6
  <1>24. ASSUME DataTooLong PROVE ChannelInv'
    <2>0. /\ Head(in["data"]).len \in Lengths \cup {0} /\ Head(in["data"]).len > dataBytes
          /\ in'["cmd"] = in["cmd"] /\ in' \in [Threads -> Seq(Datagrams)]
      <3>1. Take("data", "FRAMEOFDATA") /\ Head(in["data"]).len > dataBytes
        BY <1>24 DEF DataTooLong, TooLong
      <3>2. /\ Head(in["data"]) \in Datagrams /\ in' \in [Threads -> Seq(Datagrams)]
            /\ in'["cmd"] = in["cmd"]
        BY <3>1, Taken, Constants
      <3> QED
        BY <3>1, <3>2 DEF Datagrams
    <2>1. TypeOK'
      <3>1. MainTypes'
        BY <1>24, Constants, <2>0 DEF DataTooLong, TooLong, TypeOK, MainTypes
      <3>2. VersionTypes'
        BY <1>24, Constants, <2>0 DEF DataTooLong, TooLong, TypeOK, VersionTypes
      <3>3. ThreadTypes'
        <4>1. Head(in["data"]).len \in Nat /\ MaxPacketSize \in Nat /\ tooLong \in Nat
          BY <2>0, Constants DEF TypeOK, ThreadTypes
        <4>2. dataBytes' \in Nat /\ tooLong' \in Nat
          BY <1>24, <4>1 DEF DataTooLong, TooLong
        <4> QED
          BY <1>24, <4>2 DEF DataTooLong, TooLong, TypeOK, ThreadTypes
      <3>4. NetTypes'
        BY <1>24, Constants, <2>0 DEF DataTooLong, TooLong, TypeOK, NetTypes
      <3> QED
        BY <3>1, <3>2, <3>3, <3>4 DEF TypeOK
    <2>2. StartInv'
      BY <1>24, Constants, <2>0 DEF DataTooLong, TooLong, StartInv, TypeOK, ThreadTypes
    <2>3. CommandInv'
      BY <1>24, Constants, <2>0 DEF DataTooLong, TooLong, CommandInv, TypeOK, MainTypes
    <2>4. VersionInv'
      BY <1>24, Constants, <2>0 DEF DataTooLong, TooLong, VersionInv, TypeOK, ThreadTypes
    <2>5. BufferInv'
      <3>1. PICK len \in Lengths \cup {0} :
               /\ len > dataBytes /\ tooLong' = tooLong + 1
               /\ dataBytes' = IF len + 10000 < MaxPacketSize THEN len + 10000 ELSE MaxPacketSize
        BY <1>24, <2>0 DEF DataTooLong, TooLong
      <3>2. dataBytes \in Nat /\ len \in Nat /\ len # 0
        BY <3>1, Constants DEF TypeOK, ThreadTypes
      <3>3. len <= MaxPacketSize /\ len <= BaseDataBytes + 20002
        BY <3>2, LengthsAssumption
      <3>4. dataBytes >= BaseDataBytes + 10001 * tooLong /\ tooLong \in 0..1
        BY <3>1, <3>2, <3>3, Constants DEF BufferInv
      <3> QED
        BY <3>1, <3>2, <3>4, Constants DEF BufferInv
    <2>6. AnswerInv'
      BY <1>24, Constants, <2>0 DEF DataTooLong, TooLong, AnswerInv, TypeOK, NetTypes
    <2> QED
      BY <2>1, <2>2, <2>3, <2>4, <2>5, <2>6
  <1>25. ASSUME ServerConnect PROVE ChannelInv'
    <2>0. /\ Info(serverVer) \in Datagrams /\ Info(serverVer).kind = "SERVERINFO"
          /\ Info(serverVer).ver = serverVer /\ serverVer \in Versions
          /\ Deliver("cmd", Info(serverVer)) /\ in' \in [Threads -> Seq(Datagrams)]
      BY <1>25, Constants, Shapes, Delivered DEF ServerConnect, TypeOK, NetTypes
    <2>1. TypeOK'
      <3>1. MainTypes'
        BY <1>25, Constants, <2>0 DEF ServerConnect, ClientVars, TypeOK, MainTypes
      <3>2. VersionTypes'
        BY <1>25, Constants, <2>0 DEF ServerConnect, ClientVars, TypeOK, VersionTypes
      <3>3. ThreadTypes'
        BY <1>25, Constants, <2>0 DEF ServerConnect, ClientVars, TypeOK, ThreadTypes
      <3>4. NetTypes'
        BY <1>25, Constants, <2>0 DEF ServerConnect, ClientVars, TypeOK, NetTypes
      <3> QED
        BY <3>1, <3>2, <3>3, <3>4 DEF TypeOK
    <2>2. StartInv'
      BY <1>25, Constants, <2>0 DEF ServerConnect, ClientVars, StartInv, TypeOK, ThreadTypes
    <2>3. CommandInv'
      BY <1>25, Constants, <2>0 DEF ServerConnect, ClientVars, CommandInv, TypeOK, MainTypes
    <2>4. VersionInv'
      <3>1. \A i \in 1..Len(in'["cmd"]) :
               in'["cmd"][i].kind \in {"SERVERINFO", "STRING"} => in'["cmd"][i].ver \in Versions
        BY <2>0, Constants, DeliveredVersions
      <3> QED
        BY <1>25, <3>1 DEF ServerConnect, ClientVars, VersionInv
    <2>5. BufferInv'
      BY <1>25, Constants, <2>0 DEF ServerConnect, ClientVars, BufferInv, TypeOK
    <2>6. AnswerInv'
      <3>1. ~late => OneAwaited
        BY <2>0, Constants, DeliveredOther DEF IsAnswer
      <3> QED
        BY <1>25, <3>1 DEF ServerConnect, ClientVars, AnswerInv, OneAwaited
    <2> QED
      BY <2>1, <2>2, <2>3, <2>4, <2>5, <2>6
  <1>26. ASSUME ServerAnswers PROVE ChannelInv'
    <2> DEFINE c == Head(toServer)
               Fits(m) == /\ Deliver("cmd", m)
                          /\ m.kind \in {"SERVERINFO", "STRING"} => m.ver \in Versions
                          /\ IsAnswer(m) => Awaited(c) /\ m.id = c.id
                          /\ ~IsAnswer(m) => ~Awaited(c)
    <2>1. toServer # <<>> /\ c \in Commands
      BY <1>26 DEF ServerAnswers, TypeOK, NetTypes
    <2>2. /\ c.id \in 0..MaxCommands /\ c.kind \in {"plain", "query", "set", "modeldef"}
          /\ serverVer \in Versions /\ serverVer \in Known /\ changeDue \in BOOLEAN
      BY <2>1, Constants, CommandShape DEF TypeOK, NetTypes
    <2>3. /\ Answer("NUMBER", c.id, 0, NoVersion) \in Datagrams
          /\ Answer("NUMBER", c.id, 1, NoVersion) \in Datagrams
          /\ Answer("UNRECOGNIZED", c.id, 0, NoVersion) \in Datagrams
          /\ Answer("STRING", c.id, 0, serverVer) \in Datagrams
          /\ Answer("MODELDEF", 0, 0, serverVer) \in Datagrams
      BY <2>2, Constants, Shapes
    <2>4. /\ \A value \in {0, 1} : Answer("NUMBER", c.id, value, NoVersion).kind = "NUMBER"
                                   /\ Answer("NUMBER", c.id, value, NoVersion).id = c.id
          /\ Answer("UNRECOGNIZED", c.id, 0, NoVersion).kind = "UNRECOGNIZED"
          /\ Answer("UNRECOGNIZED", c.id, 0, NoVersion).id = c.id
          /\ Answer("STRING", c.id, 0, serverVer).kind = "STRING"
          /\ Answer("STRING", c.id, 0, serverVer).id = c.id
          /\ Answer("STRING", c.id, 0, serverVer).ver = serverVer
          /\ Answer("MODELDEF", 0, 0, serverVer).kind = "MODELDEF"
      BY DEF Answer, Datagram
    <2>5. PICK m \in Datagrams : Fits(m)
      <3>1. CASE c.kind \in {"plain", "set"} /\ ServerRefuses(c.id)
        BY <2>3, <2>4, <3>1 DEF ServerRefuses, IsAnswer, Awaited
      <3>2. CASE c.kind \in {"plain", "set"} /\ Deliver("cmd", Answer("NUMBER", c.id, 0, NoVersion))
        BY <2>3, <2>4, <3>2 DEF IsAnswer, Awaited
      <3>3. CASE c.kind = "query" /\ Deliver("cmd", Answer("STRING", c.id, 0, serverVer))
        BY <2>2, <2>3, <2>4, <3>3 DEF IsAnswer, Awaited
      <3>4. CASE c.kind = "modeldef" /\ Deliver("cmd", Answer("MODELDEF", 0, 0, serverVer))
        BY <2>3, <2>4, <3>4 DEF IsAnswer, Awaited
      <3> QED
        BY <1>26, <3>1, <3>2, <3>3, <3>4 DEF ServerAnswers
    <2>6. toServer' = Tail(toServer) /\ toServer' \in Seq(Commands)
      BY <1>26, <2>1 DEF ServerAnswers, TypeOK, NetTypes
    <2>7. serverVer' \in Versions /\ changeDue' \in BOOLEAN
      <3>1. c.kind = "set" => c.ver \in Versions
        BY <2>1, CommandShape
      <3> QED
        BY <1>26, <2>2, <3>1 DEF ServerAnswers
    <2>8. UNCHANGED <<ClientVars, connect, lost, copies>>
      BY <1>26 DEF ServerAnswers
    <2> HIDE DEF c, Fits
    <2>9. TypeOK'
      <3>1. in' \in [Threads -> Seq(Datagrams)]
        BY <2>5, Delivered, Constants DEF Fits
      <3>2. NetTypes'
        BY <2>6, <2>7, <2>8, <3>1 DEF TypeOK, NetTypes
      <3>3. MainTypes' /\ VersionTypes' /\ ThreadTypes'
        BY <2>8 DEF ClientVars, TypeOK, MainTypes, VersionTypes, ThreadTypes
      <3> QED
        BY <3>2, <3>3 DEF TypeOK
    <2>10. StartInv'
      BY <2>1, <2>8 DEF ClientVars, StartInv
    <2>11. CommandInv'
      BY <2>8 DEF ClientVars, CommandInv
    <2>12. VersionInv'
      <3>1. \A i \in 1..Len(in'["cmd"]) :
               in'["cmd"][i].kind \in {"SERVERINFO", "STRING"} => in'["cmd"][i].ver \in Versions
        BY <2>5, DeliveredVersions, Constants DEF Fits
      <3> QED
        BY <2>8, <3>1 DEF ClientVars, VersionInv, TypeOK, ThreadTypes
    <2>13. BufferInv'
      BY <2>8 DEF ClientVars, BufferInv
    <2>14. AnswerInv'
      <3>1. CASE late
        BY <2>8, <3>1 DEF ClientVars, AnswerInv
      <3>2. CASE ~late /\ IsAnswer(m)
        <4>1. /\ mainPc = "wait" /\ response = NoResponse
              /\ \A i \in 1..Len(Tail(toServer)) : ~Awaited(Tail(toServer)[i])
              /\ \A i \in 1..Len(in'["cmd"]) : IsAnswer(in'["cmd"][i]) =>
                    /\ in'["cmd"][i].id = command.id
                    /\ \A j \in 1..Len(in'["cmd"]) : IsAnswer(in'["cmd"][j]) => j = i
          BY <2>1, <2>5, <3>2, DeliveredAnswer DEF Fits, c
        <4> QED
          BY <2>6, <2>8, <4>1 DEF ClientVars, AnswerInv
      <3>3. CASE ~late /\ ~IsAnswer(m)
        <4>1. OneAwaited
          BY <2>5, <3>3, DeliveredOther, Constants DEF Fits
        <4>2. \A i \in 1..Len(Tail(toServer)) :
                 Tail(toServer)[i] = toServer[i + 1] /\ i + 1 \in 1..Len(toServer)
          BY <2>1 DEF TypeOK, NetTypes
        <4>3. \A i, j \in 1..Len(Tail(toServer)) : i + 1 = j + 1 => i = j
          OBVIOUS
        <4> QED
          BY <2>6, <2>8, <4>1, <4>2, <4>3 DEF ClientVars, AnswerInv, OneAwaited
      <3> QED
        BY <3>1, <3>2, <3>3
    <2> QED
      BY <2>9, <2>10, <2>11, <2>12, <2>13, <2>14
  <1>27. ASSUME ServerFrame PROVE ChannelInv'
    <2>0. PICK t \in Threads, m \in Datagrams :
             Deliver(t, m) /\ m.kind = "FRAMEOFDATA" /\ (t = "cmd" => connect = "answered")
      <3>1. /\ serverVer \in Known /\ changeDue \in BOOLEAN
            /\ \A len \in Lengths \cup {0} :
                  /\ Frame(serverVer, changeDue, len) \in Datagrams
                  /\ Frame(serverVer, changeDue, len).kind = "FRAMEOFDATA"
        BY Constants, Shapes DEF TypeOK, NetTypes
      <3> QED
        BY <1>27, <3>1, Constants DEF ServerFrame
    <2>1. TypeOK'
      <3>1. in' \in [Threads -> Seq(Datagrams)]
        BY <2>0, Delivered
      <3>2. NetTypes'
        BY <1>27, <3>1 DEF ServerFrame, ClientVars, TypeOK, NetTypes
      <3>3. MainTypes' /\ VersionTypes' /\ ThreadTypes'
        BY <1>27 DEF ServerFrame, ClientVars, TypeOK, MainTypes, VersionTypes, ThreadTypes
      <3> QED
        BY <3>2, <3>3 DEF TypeOK
    <2>2. StartInv'
      <3>1. t # "cmd" => in'["cmd"] = in["cmd"]
        BY <2>0, Delivered, Constants
      <3> QED
        BY <1>27, <2>0, <3>1 DEF ServerFrame, ClientVars, StartInv
    <2>3. CommandInv'
      BY <1>27 DEF ServerFrame, ClientVars, CommandInv
    <2>4. VersionInv'
      <3>1. \A i \in 1..Len(in'["cmd"]) :
               in'["cmd"][i].kind \in {"SERVERINFO", "STRING"} => in'["cmd"][i].ver \in Versions
        BY <2>0, DeliveredVersions
      <3> QED
        BY <1>27, <3>1 DEF ServerFrame, ClientVars, VersionInv
    <2>5. BufferInv'
      BY <1>27 DEF ServerFrame, ClientVars, BufferInv
    <2>6. AnswerInv'
      <3>1. ~late => OneAwaited
        BY <2>0, DeliveredOther DEF IsAnswer
      <3> QED
        BY <1>27, <3>1 DEF ServerFrame, ClientVars, AnswerInv, OneAwaited
    <2> QED
      BY <2>1, <2>2, <2>3, <2>4, <2>5, <2>6
  <1>28. ASSUME Lose PROVE ChannelInv'
    <2>1. /\ toServer' = toServer \/ (toServer # <<>> /\ toServer' = Tail(toServer))
          /\ \/ in' = in
             \/ \E t \in Threads : in[t] # <<>> /\ in' = [in EXCEPT ![t] = Tail(@)]
          /\ connect' = connect \/ (connect = "sent" /\ connect' = "lost")
          /\ lost' = TRUE /\ UNCHANGED <<ClientVars, copies, serverVars>>
      BY <1>28 DEF Lose
    <2>2. toServer' \in Seq(Commands) /\ in' \in [Threads -> Seq(Datagrams)]
      <3>1. \A t \in Threads : in[t] # <<>> => Tail(in[t]) \in Seq(Datagrams)
        BY DEF TypeOK, NetTypes
      <3>2. toServer # <<>> => Tail(toServer) \in Seq(Commands)
        BY DEF TypeOK, NetTypes
      <3>3. in \in [Threads -> Seq(Datagrams)] /\ toServer \in Seq(Commands)
        BY DEF TypeOK, NetTypes
      <3>4. toServer' \in Seq(Commands)
        BY <2>1, <3>2, <3>3
      <3>5. in' \in [Threads -> Seq(Datagrams)]
        BY <2>1, <3>1, <3>3
      <3> QED
        BY <3>4, <3>5
    \* What is left was there before, in the same order.
    <2>3. PICK d \in {0, 1} :
             /\ Len(toServer') = Len(toServer) - d
             /\ \A i \in 1..Len(toServer') :
                   toServer'[i] = toServer[i + d] /\ i + d \in 1..Len(toServer)
      <3>1. CASE toServer' = toServer
        <4>1. /\ Len(toServer') = Len(toServer) - 0
              /\ \A i \in 1..Len(toServer') :
                    toServer'[i] = toServer[i + 0] /\ i + 0 \in 1..Len(toServer)
          BY <3>1 DEF TypeOK, NetTypes
        <4> QED
          BY <4>1
      <3>2. CASE toServer # <<>> /\ toServer' = Tail(toServer)
        <4>1. /\ Len(toServer') = Len(toServer) - 1
              /\ \A i \in 1..Len(toServer') :
                    toServer'[i] = toServer[i + 1] /\ i + 1 \in 1..Len(toServer)
          BY <3>2 DEF TypeOK, NetTypes
        <4> QED
          BY <4>1
      <3> QED
        BY <2>1, <3>1, <3>2
    <2>4. PICK e \in {0, 1} :
             /\ Len(in'["cmd"]) = Len(in["cmd"]) - e
             /\ \A i \in 1..Len(in'["cmd"]) :
                   in'["cmd"][i] = in["cmd"][i + e] /\ i + e \in 1..Len(in["cmd"])
      <3>0. in["cmd"] \in Seq(Datagrams)
        BY Constants DEF TypeOK, NetTypes
      <3>1. CASE in'["cmd"] = in["cmd"]
        <4>1. /\ Len(in'["cmd"]) = Len(in["cmd"]) - 0
              /\ \A i \in 1..Len(in'["cmd"]) :
                    in'["cmd"][i] = in["cmd"][i + 0] /\ i + 0 \in 1..Len(in["cmd"])
          BY <3>0, <3>1
        <4> QED
          BY <4>1
      <3>2. CASE in["cmd"] # <<>> /\ in'["cmd"] = Tail(in["cmd"])
        <4>1. /\ Len(in'["cmd"]) = Len(in["cmd"]) - 1
              /\ \A i \in 1..Len(in'["cmd"]) :
                    in'["cmd"][i] = in["cmd"][i + 1] /\ i + 1 \in 1..Len(in["cmd"])
          BY <3>0, <3>2
        <4> QED
          BY <4>1
      <3>3. \/ in'["cmd"] = in["cmd"]
            \/ in["cmd"] # <<>> /\ in'["cmd"] = Tail(in["cmd"])
        BY <2>1, Constants DEF TypeOK, NetTypes
      <3> QED
        BY <3>1, <3>2, <3>3
    <2>5. TypeOK'
      <3>1. NetTypes'
        BY <2>1, <2>2 DEF TypeOK, NetTypes
      <3>2. MainTypes' /\ VersionTypes' /\ ThreadTypes'
        BY <2>1 DEF ClientVars, TypeOK, MainTypes, VersionTypes, ThreadTypes
      <3> QED
        BY <3>1, <3>2 DEF TypeOK
    <2>6. StartInv'
      <3>1. in["cmd"] = <<>> => in'["cmd"] = <<>>
        BY <2>1, Constants DEF TypeOK, NetTypes
      <3> QED
        BY <2>1, <3>1 DEF ClientVars, StartInv
    <2>7. CommandInv' /\ BufferInv'
      BY <2>1 DEF ClientVars, CommandInv, BufferInv
    <2>8. VersionInv'
      BY <2>1, <2>4 DEF ClientVars, VersionInv, TypeOK, ThreadTypes
    <2>9. AnswerInv'
      <3>1. UNCHANGED <<mainPc, response, answered, command, late>>
        BY <2>1 DEF ClientVars
      <3>2. CASE late
        BY <3>1, <3>2 DEF AnswerInv
      <3>3. CASE ~late
        <4>2. ASSUME NEW i \in 1..Len(toServer'), Awaited(toServer'[i])
              PROVE  /\ mainPc = "wait" /\ response = NoResponse
                     /\ toServer'[i].id = command.id
                     /\ \A j \in 1..Len(toServer') : Awaited(toServer'[j]) => j = i
                     /\ \A j \in 1..Len(in'["cmd"]) : ~IsAnswer(in'["cmd"][j])
          <5>1. i + d \in 1..Len(toServer) /\ toServer'[i] = toServer[i + d]
            BY <2>3
          <5>2. /\ mainPc = "wait" /\ response = NoResponse
                /\ toServer[i + d].id = command.id
                /\ \A j \in 1..Len(toServer) : Awaited(toServer[j]) => j = i + d
                /\ \A j \in 1..Len(in["cmd"]) : ~IsAnswer(in["cmd"][j])
            BY <3>3, <4>2, <5>1 DEF AnswerInv
          <5>3. \A j \in 1..Len(toServer') : Awaited(toServer'[j]) => j = i
            <6>1. ASSUME NEW j \in 1..Len(toServer'), Awaited(toServer'[j]) PROVE j + d = i + d
              BY <2>3, <5>2, <6>1
            <6> QED
              BY <6>1, <2>3
          <5>4. \A j \in 1..Len(in'["cmd"]) : ~IsAnswer(in'["cmd"][j])
            BY <2>4, <5>2
          <5> QED
            BY <5>1, <5>2, <5>3, <5>4
        <4>3. ASSUME NEW i \in 1..Len(in'["cmd"]), IsAnswer(in'["cmd"][i])
              PROVE  /\ mainPc = "wait" /\ response = NoResponse
                     /\ in'["cmd"][i].id = command.id
                     /\ \A j \in 1..Len(in'["cmd"]) : IsAnswer(in'["cmd"][j]) => j = i
          <5>1. i + e \in 1..Len(in["cmd"]) /\ in'["cmd"][i] = in["cmd"][i + e]
            BY <2>4
          <5>2. /\ mainPc = "wait" /\ response = NoResponse
                /\ in["cmd"][i + e].id = command.id
                /\ \A j \in 1..Len(in["cmd"]) : IsAnswer(in["cmd"][j]) => j = i + e
            BY <3>3, <4>3, <5>1 DEF AnswerInv
          <5>3. \A j \in 1..Len(in'["cmd"]) : IsAnswer(in'["cmd"][j]) => j = i
            <6>1. ASSUME NEW j \in 1..Len(in'["cmd"]), IsAnswer(in'["cmd"][j]) PROVE j + e = i + e
              BY <2>4, <5>2, <6>1
            <6> QED
              BY <6>1, <2>4
          <5> QED
            BY <5>1, <5>2, <5>3
        <4> QED
          BY <3>1, <3>3, <4>2, <4>3 DEF AnswerInv
      <3> QED
        BY <3>2, <3>3
    <2> QED
      BY <2>5, <2>6, <2>7, <2>8, <2>9
  <1>30. ASSUME Overtake PROVE ChannelInv'
    <2>1. UNCHANGED <<ClientVars, connect, lost, copies, serverVars>>
      BY <1>30, Overtaken
    <2>2. PICK d \in [1..Len(toServer) -> 1..Len(toServer)] :
             /\ Len(toServer') = Len(toServer)
             /\ \A j, k \in 1..Len(toServer) : d[j] = d[k] => j = k
             /\ \A j \in 1..Len(toServer) : toServer'[j] = toServer[d[j]]
      BY <1>30, Overtaken DEF Permuted
    <2>3. PICK e \in [1..Len(in["cmd"]) -> 1..Len(in["cmd"])] :
             /\ Len(in'["cmd"]) = Len(in["cmd"])
             /\ \A j, k \in 1..Len(in["cmd"]) : e[j] = e[k] => j = k
             /\ \A j \in 1..Len(in["cmd"]) : in'["cmd"][j] = in["cmd"][e[j]]
      <3>1. Permuted(in'["cmd"], in["cmd"])
        BY <1>30, Overtaken, Constants
      <3> QED
        BY <3>1 DEF Permuted
    <2>4. toServer \in Seq(Commands) /\ in["cmd"] \in Seq(Datagrams)
          /\ toServer' \in Seq(Commands) /\ in' \in [Threads -> Seq(Datagrams)]
          /\ in'["cmd"] \in Seq(Datagrams)
      BY <1>30, Overtaken, Constants DEF TypeOK, NetTypes
    <2>5. TypeOK'
      <3>1. NetTypes'
        BY <2>1, <2>4 DEF TypeOK, NetTypes
      <3>2. MainTypes' /\ VersionTypes' /\ ThreadTypes'
        BY <2>1 DEF ClientVars, TypeOK, MainTypes, VersionTypes, ThreadTypes
      <3> QED
        BY <3>1, <3>2 DEF TypeOK
    <2>6. StartInv'
      <3>1. (toServer = <<>> => toServer' = <<>>) /\ (in["cmd"] = <<>> => in'["cmd"] = <<>>)
        BY <2>2, <2>3, <2>4
      <3> QED
        BY <2>1, <3>1 DEF ClientVars, StartInv
    <2>7. CommandInv' /\ BufferInv'
      BY <2>1 DEF ClientVars, CommandInv, BufferInv
    <2>8. VersionInv'
      BY <2>1, <2>3 DEF ClientVars, VersionInv
    <2>9. AnswerInv'
      <3>1. UNCHANGED <<mainPc, response, answered, command, late>>
        BY <2>1 DEF ClientVars
      <3>2. ASSUME ~late, NEW i \in 1..Len(toServer'), Awaited(toServer'[i])
            PROVE  /\ mainPc = "wait" /\ response = NoResponse
                   /\ toServer'[i].id = command.id
                   /\ \A j \in 1..Len(toServer') : Awaited(toServer'[j]) => j = i
                   /\ \A j \in 1..Len(in'["cmd"]) : ~IsAnswer(in'["cmd"][j])
        <4>1. d[i] \in 1..Len(toServer) /\ toServer'[i] = toServer[d[i]]
          BY <2>2, <3>2
        <4>2. /\ mainPc = "wait" /\ response = NoResponse
              /\ toServer[d[i]].id = command.id
              /\ \A j \in 1..Len(toServer) : Awaited(toServer[j]) => j = d[i]
              /\ \A j \in 1..Len(in["cmd"]) : ~IsAnswer(in["cmd"][j])
          BY <3>2, <4>1 DEF AnswerInv
        <4>3. \A j \in 1..Len(toServer') : Awaited(toServer'[j]) => j = i
          BY <2>2, <3>2, <4>2
        <4>4. \A j \in 1..Len(in'["cmd"]) : ~IsAnswer(in'["cmd"][j])
          BY <2>3, <4>2
        <4> QED
          BY <4>1, <4>2, <4>3, <4>4
      <3>3. ASSUME ~late, NEW i \in 1..Len(in'["cmd"]), IsAnswer(in'["cmd"][i])
            PROVE  /\ mainPc = "wait" /\ response = NoResponse
                   /\ in'["cmd"][i].id = command.id
                   /\ \A j \in 1..Len(in'["cmd"]) : IsAnswer(in'["cmd"][j]) => j = i
        <4>1. e[i] \in 1..Len(in["cmd"]) /\ in'["cmd"][i] = in["cmd"][e[i]]
          BY <2>3, <3>3
        <4>2. /\ mainPc = "wait" /\ response = NoResponse
              /\ in["cmd"][e[i]].id = command.id
              /\ \A j \in 1..Len(in["cmd"]) : IsAnswer(in["cmd"][j]) => j = e[i]
          BY <3>3, <4>1 DEF AnswerInv
        <4> QED
          BY <2>3, <4>1, <4>2
      <3> QED
        BY <3>1, <3>2, <3>3 DEF AnswerInv
    <2> QED
      BY <2>5, <2>6, <2>7, <2>8, <2>9
  <1>31. ASSUME Duplicate PROVE ChannelInv'
    <2>1. /\ UNCHANGED <<mainVars, responseVars, versionVars, pending, threadVars, bufferVars,
                         connect, lost, serverVars>>
          /\ late' = TRUE /\ copies' \in 0..MaxCommands
      BY <1>31, RoomLeft DEF Duplicate
    <2>2. toServer' \in Seq(Commands) /\ in' \in [Threads -> Seq(Datagrams)]
      BY <1>31, Duplicated
    <2>3. TypeOK'
      <3>2. NetTypes'
        BY <2>1, <2>2 DEF TypeOK, NetTypes
      <3>3. MainTypes' /\ VersionTypes' /\ ThreadTypes'
        BY <2>1 DEF TypeOK, MainTypes, VersionTypes, ThreadTypes
      <3> QED
        BY <3>2, <3>3 DEF TypeOK
    <2>4. StartInv'
      BY <1>31, <2>1, Duplicated DEF StartInv
    <2>5. CommandInv' /\ BufferInv'
      BY <2>1 DEF CommandInv, BufferInv
    <2>6. VersionInv'
      BY <1>31, <2>1, Duplicated DEF VersionInv
    <2>7. AnswerInv'
      BY <2>1 DEF AnswerInv
    <2> QED
      BY <2>3, <2>4, <2>5, <2>6, <2>7
  <1>29. ASSUME UNCHANGED vars PROVE ChannelInv'
    BY <1>29 DEF vars, TypeOK, StartInv, CommandInv, VersionInv, BufferInv, AnswerInv,
       MainTypes, VersionTypes, ThreadTypes, NetTypes
  <1> QED
    BY <1>1, <1>2, <1>3, <1>4, <1>5, <1>6, <1>7, <1>8, <1>9, <1>10, <1>11, <1>12, <1>13,
       <1>14, <1>15, <1>16, <1>17, <1>18, <1>19, <1>20, <1>21, <1>22, <1>23, <1>24, <1>25,
       <1>26, <1>27, <1>28, <1>29, <1>30, <1>31
       DEF Next, Main, Answers, Unpack, Terminated

\* The inductive invariant of the channel, for any number of commands, any sockets.
THEOREM ChannelInvariant == Spec => []ChannelInv
  BY InitChannelInv, ChannelInvStep, PTL DEF Spec

\* What SendCommand returns is the answer to its own command until one times out or a
\* datagram arrives twice, whatever frames, descriptions, losses and overtaking come in
\* between.
THEOREM AnswersBelong == Spec => []AnswersAreOwn
  <1>1. ChannelInv => AnswersAreOwn
    BY DEF ChannelInv, AnswerInv, AnswersAreOwn
  <1> QED
    BY <1>1, ChannelInvariant, PTL

\* Parsing an old string again never changes the major of the version.
THEOREM StaleTextNeverHarms == Spec => []StaleTextHarmless
  <1>1. ChannelInv => StaleTextHarmless
    BY DEF ChannelInv, VersionInv, StaleTextHarmless
  <1> QED
    BY <1>1, ChannelInvariant, PTL

\* At most two frames are lost to the size of the data buffer.
THEOREM TwoFramesTooLong == Spec => []FewFramesTooLong
  <1>1. ChannelInv => FewFramesTooLong
    BY DEF ChannelInv, BufferInv, FewFramesTooLong
  <1> QED
    BY <1>1, ChannelInvariant, PTL

\* Main zeroes the version before the announcement can come, and every store begins with
\* a major that is not 0.
LEMMA VersionStays ==
    ASSUME ChannelInv, [Next]_vars, version # NoVersion
    PROVE  version' # NoVersion
  <1>0. NoVersion[1] = 0
    BY Constants
  <1>1. version[1] # 0 /\ (text # 0 => version[1] = text)
    BY DEF ChannelInv, VersionInv
  <1>2. CASE StartVersion
    BY <1>2 DEF StartVersion, ChannelInv, StartInv
  <1>3. CASE ServerInfo
    BY <1>3, <1>0, <1>1 DEF ServerInfo
  <1>4. CASE ServerInfoMinor \/ ResponseStringMinor
    BY <1>4, <1>0, <1>1 DEF ServerInfoMinor, ResponseStringMinor
  <1>5. CASE ResponseNumber
    BY <1>5, <1>0, <1>1 DEF ResponseNumber
  <1>6. CASE ResponseString
    <2>1. Take("cmd", "STRING") /\ version' = <<msg'["cmd"].ver[1], version[2]>>
          /\ msg'["cmd"] = Head(in["cmd"])
      BY <1>6, Constants DEF ResponseString, ChannelInv, TypeOK, ThreadTypes
    <2>2. Head(in["cmd"]).ver \in Versions
      BY <2>1, TakenVersions, Constants DEF ChannelInv
    <2> QED
      BY <2>1, <2>2, <1>0, Constants
  <1>7. CASE UNCHANGED version
    BY <1>7
  <1>8. StartConnect => UNCHANGED version
    BY DEF StartConnect
  <1>9. KeyCommand \/ KeyVersion \/ KeyDescriptions \/ KeyQuit \/ SendTo \/ ReturnToKeys
           \/ ReturnSetFailed \/ ReturnSetDone \/ (\E v \in UserVersions : KeyBitstream(v))
        => UNCHANGED version
    BY DEF KeyCommand, KeyVersion, KeyDescriptions, KeyQuit, SendTo, ReturnToKeys,
       ReturnSetFailed, ReturnSetDone, KeyBitstream, MainFrame, versionVars
  <1>10. ServerInfoCanChange \/ Unrecognized => UNCHANGED version
    BY DEF ServerInfoCanChange, Unrecognized, versionVars
  <1>11. \A t \in Threads : Unpack(t) => UNCHANGED version
    BY DEF Unpack, UnpackMajor, UnpackMinor, UnpackParams, UnpackTest, UnpackSuffix,
       UnpackFrame, versionVars
  <1>12. DataTooLong \/ ServerConnect \/ ServerAnswers \/ ServerFrame \/ Lose \/ Overtake
            \/ Duplicate
         => UNCHANGED version
    BY DEF DataTooLong, TooLong, ServerConnect, ServerAnswers, ServerFrame, Lose, Overtake,
       Duplicate, ClientVars, versionVars
  <1>13. Terminated \/ UNCHANGED vars => UNCHANGED version
    BY DEF Terminated, vars, versionVars
  <1> QED
    BY <1>2, <1>3, <1>4, <1>5, <1>6, <1>7, <1>8, <1>9, <1>10, <1>11, <1>12, <1>13
       DEF Next, Main, Answers

\* The version is not forgotten once there is one.
THEOREM VersionKept == Spec => VersionNeverForgotten
  <1>1. ChannelInv /\ [Next]_vars => (version # NoVersion => version' # NoVersion)
    BY VersionStays
  <1> QED
    BY <1>1, ChannelInvariant, PTL DEF Spec, VersionNeverForgotten
=============================================================================
