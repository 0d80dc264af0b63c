------------------------- MODULE NatNetSessionProofs -------------------------
(***************************************************************************)
(* Safety of the client session for every set of versions, every kind of   *)
(* connection and every bound: SessionInv is inductive, it implies the     *)
(* invariants the runs check, and every step of the session is a step of   *)
(* the abstract version cell or leaves it alone.  Four more invariants     *)
(* follow, each inductive with SessionInv: AgreementInv (what agrees with   *)
(* the server), SocketInv (the sockets and stop), ReadInv (the versions of  *)
(* the packets and of the reads) and ConnectInv (the one request to connect *)
(* and its answer).                                                         *)
(***************************************************************************)
EXTENDS NatNetSession, FiniteSetTheorems, TLAPS

\* A server or user version is a pair whose major component is not 0.
LEMMA VersionShape ==
    ASSUME NEW v \in StreamVersions
    PROVE  /\ v \in Nat \X Nat
           /\ v = <<v[1], v[2]>>
           /\ v[1] # 0
           /\ v[1] \in Majors /\ v[2] \in Minors
           /\ v \in Majors \X Minors
           /\ v \in ServerVersions \cup UserVersions
  <1>1. v \in Nat \X Nat /\ v[1] # 0
    BY SessionAssumption DEF StreamVersions, Version
  <1>2. v \in Known
    BY DEF Known
  <1>3. v[1] \in Majors /\ v[2] \in Minors
    BY <1>2 DEF Majors, Minors
  <1>4. v = <<v[1], v[2]>>
    BY <1>1
  <1> QED
    BY <1>1, <1>3, <1>4 DEF StreamVersions

\* Component 0 of the unset version, and of every version, is a known number.
LEMMA ZeroKnown == 0 \in Majors /\ 0 \in Minors
  <1>1. NoVersion \in Known /\ NoVersion[1] = 0 /\ NoVersion[2] = 0
    BY DEF Known, NoVersion
  <1> QED
    BY <1>1 DEF Majors, Minors

\* Sending or delivering adds nothing but the datagram itself.
LEMMA PutSubset ==
    ASSUME NEW net, NEW m, NEW cap, NEW S, net \subseteq S, m \in S
    PROVE  Put(net, m, cap) \subseteq S
  BY DEF Put

\* Receiving leaves a part of what was under way.
LEMMA RestSubset ==
    ASSUME NEW net, NEW m, NEW left \in Rest(net, m)
    PROVE  left \subseteq net
  BY DEF Rest

LEMMA InitSessionInv == Init => SessionInv
  <1> SUFFICES ASSUME Init PROVE SessionInv
    OBVIOUS
  <1> USE DEF Init
  <1>1. TypeOK
    <2>1. NoVersion \in Majors \X Minors
      BY ZeroKnown DEF NoVersion
    <2>2. serverVer \in StreamVersions
      BY DEF StreamVersions
    <2>3. restarts \in 0..MaxRestarts
      BY SessionAssumption
    <2> QED
      BY ZeroKnown, <2>1, <2>2, <2>3 DEF TypeOK, MainPcs, CmdPcs, DataPcs
  <1>2. StoreInv
    BY DEF StoreInv, MainStoring, CmdStoring
  <1> QED
    BY <1>1, <1>2 DEF SessionInv, RequestInv, ThreadInv

\* Everything the client sends is a request, everything the server sends a packet.
LEMMA RequestShape ==
    /\ Connect \in Request /\ Query \in Request /\ Describe \in Request
    /\ Connect.kind = "CONNECT" /\ Query.kind = "QUERY" /\ Describe.kind = "MODELDEF"
    /\ \A v \in UserVersions : SetBitstream(v) \in Request
  BY DEF Request, Connect, Query, Describe, SetBitstream

LEMMA PacketShape ==
    /\ Reply \in Packet
    /\ \A v \in StreamVersions :
          \A k \in {"SERVERINFO", "BITSTREAM", "MODELDEF", "FRAMEOFDATA"} :
             Answer(k, v) \in Packet
    /\ \A m \in Packet : m.kind # "REPLY" => m.ver \in StreamVersions
  BY DEF Packet, Reply, Answer

LEMMA SessionInvStep == SessionInv /\ [Next]_vars => SessionInv'
  <1> SUFFICES ASSUME SessionInv, [Next]_vars PROVE SessionInv'
    OBVIOUS
  <1> USE DEF SessionInv, MainStoring, CmdStoring, Ended, vars, mainVars, infoVars,
          versionVars, sockVars, cmdVars, dataVars, netVars, serverVars,
          CmdFrame, DataFrame, ClientVars
  <1>1. ASSUME RunOpenData PROVE SessionInv'
    BY <1>1 DEF RunOpenData, TypeOK, StoreInv, RequestInv, ThreadInv,
       MainPcs, CmdPcs, DataPcs
  <1>2. ASSUME RunOpenCommand PROVE SessionInv'
    <2>1. TypeOK'
      BY <1>2, ZenonT(60) DEF RunOpenCommand, TypeOK, MainPcs
    <2>2. StoreInv'
      BY <1>2 DEF RunOpenCommand, TypeOK, StoreInv
    <2>3. RequestInv'
      BY <1>2 DEF RunOpenCommand, RequestInv, StoreInv
    <2>4. ThreadInv'
      BY <1>2 DEF RunOpenCommand, ThreadInv
    <2> QED
      BY <2>1, <2>2, <2>3, <2>4
  <1>3. ASSUME RunStartCommand PROVE SessionInv'
    BY <1>3 DEF RunStartCommand, TypeOK, StoreInv, RequestInv, ThreadInv,
       MainPcs, CmdPcs, DataPcs
  <1>4. ASSUME RunStartData PROVE SessionInv'
    BY <1>4 DEF RunStartData, TypeOK, StoreInv, RequestInv, ThreadInv,
       MainPcs, CmdPcs, DataPcs
  <1>5. ASSUME RunConnect PROVE SessionInv'
    <2>1. TypeOK'
      BY <1>5, RequestShape DEF RunConnect, Send, Put, TypeOK, MainPcs, CmdPcs, DataPcs
    <2>2. StoreInv'
      BY <1>5 DEF RunConnect, Send, Put, TypeOK, StoreInv
    <2>3. RequestInv'
      BY <1>5, RequestShape DEF RunConnect, Send, Put, RequestInv, StoreInv
    <2>4. ThreadInv'
      BY <1>5 DEF RunConnect, ThreadInv
    <2> QED
      BY <2>1, <2>2, <2>3, <2>4
  <1>6. ASSUME RefreshConfiguration PROVE SessionInv'
    <2>1. TypeOK'
      BY <1>6, RequestShape DEF RefreshConfiguration, Send, Put, TypeOK, MainPcs, CmdPcs, DataPcs
    <2>2. StoreInv'
      BY <1>6 DEF RefreshConfiguration, Send, Put, TypeOK, StoreInv
    <2>3. RequestInv'
      BY <1>6, RequestShape DEF RefreshConfiguration, Send, Put, RequestInv, StoreInv
    <2>4. ThreadInv'
      BY <1>6 DEF RefreshConfiguration, ThreadInv
    <2> QED
      BY <2>1, <2>2, <2>3, <2>4
  <1>7. ASSUME RequestDescriptions PROVE SessionInv'
    <2>1. TypeOK'
      BY <1>7, RequestShape DEF RequestDescriptions, Send, Put, TypeOK, MainPcs, CmdPcs, DataPcs
    <2>2. StoreInv'
      BY <1>7 DEF RequestDescriptions, Send, Put, TypeOK, StoreInv
    <2>3. RequestInv'
      BY <1>7, RequestShape DEF RequestDescriptions, Send, Put, RequestInv, StoreInv
    <2>4. ThreadInv'
      BY <1>7 DEF RequestDescriptions, ThreadInv
    <2> QED
      BY <2>1, <2>2, <2>3, <2>4
  <1>8. ASSUME NEW v \in UserVersions, SetNatNetVersion(v) PROVE SessionInv'
    <2>1. TypeOK'
      BY <1>8, RequestShape DEF SetNatNetVersion, Send, Put, TypeOK, MainPcs, CmdPcs, DataPcs
    <2>2. StoreInv'
      BY <1>8 DEF SetNatNetVersion, Send, Put, TypeOK, StoreInv
    <2>3. RequestInv'
      BY <1>8, RequestShape DEF SetNatNetVersion, Send, Put, RequestInv, StoreInv
    <2>4. ThreadInv'
      BY <1>8 DEF SetNatNetVersion, ThreadInv
    <2> QED
      BY <2>1, <2>2, <2>3, <2>4
  <1>9. ASSUME StoreMajor PROVE SessionInv'
    <2>1. TypeOK'
      <3>1. want[1] \in Majors
        BY <1>9, VersionShape DEF StoreMajor, StoreInv, StreamVersions
      <3> QED
        BY <1>9, <3>1 DEF StoreMajor, TypeOK, MainPcs
    <2>2. StoreInv'
      BY <1>9, VersionShape DEF StoreMajor, StoreInv, StreamVersions
    <2>3. RequestInv'
      BY <1>9 DEF StoreMajor, RequestInv, StoreInv
    <2>4. ThreadInv'
      BY <1>9 DEF StoreMajor, ThreadInv
    <2> QED
      BY <2>1, <2>2, <2>3, <2>4
  <1>10. ASSUME StoreMinor PROVE SessionInv'
    <2>1. TypeOK'
      <3>1. want[2] \in Minors
        BY <1>10, VersionShape DEF StoreMinor, StoreInv, StreamVersions
      <3> QED
        BY <1>10, <3>1 DEF StoreMinor, TypeOK, MainPcs
    <2>2. StoreInv'
      BY <1>10 DEF StoreMinor, TypeOK, StoreInv
    <2>3. RequestInv'
      BY <1>10 DEF StoreMinor, RequestInv, StoreInv
    <2>4. ThreadInv'
      BY <1>10 DEF StoreMinor, ThreadInv
    <2> QED
      BY <2>1, <2>2, <2>3, <2>4
  <1>11. ASSUME ShutdownStop PROVE SessionInv'
    BY <1>11 DEF ShutdownStop, TypeOK, StoreInv, RequestInv, ThreadInv,
       MainPcs, CmdPcs, DataPcs
  <1>12. ASSUME ShutdownCloseCommand PROVE SessionInv'
    BY <1>12 DEF ShutdownCloseCommand, TypeOK, StoreInv, RequestInv, ThreadInv,
       MainPcs, CmdPcs, DataPcs
  <1>13. ASSUME ShutdownCloseData PROVE SessionInv'
    BY <1>13 DEF ShutdownCloseData, TypeOK, StoreInv, RequestInv, ThreadInv,
       MainPcs, CmdPcs, DataPcs
  <1>14. ASSUME ShutdownJoinCommand PROVE SessionInv'
    BY <1>14 DEF ShutdownJoinCommand, TypeOK, StoreInv, RequestInv, ThreadInv,
       MainPcs, CmdPcs, DataPcs
  <1>15. ASSUME ShutdownJoinData PROVE SessionInv'
    BY <1>15 DEF ShutdownJoinData, TypeOK, StoreInv, RequestInv, ThreadInv,
       MainPcs, CmdPcs, DataPcs
  <1>16. ASSUME CmdTop PROVE SessionInv'
    BY <1>16 DEF CmdTop, TypeOK, StoreInv, RequestInv, ThreadInv,
       MainPcs, CmdPcs, DataPcs
  <1>17. ASSUME NEW m \in cmdIn, CmdReceive(m) PROVE SessionInv'
    <2>1. TypeOK'
      <3>1. m \in Packet /\ cmdIn' \subseteq Packet
        BY <1>17 DEF CmdReceive, Rest, TypeOK
      <3> QED
        BY <1>17, <3>1 DEF CmdReceive, TypeOK, CmdPcs
    <2>2. StoreInv'
      BY <1>17 DEF CmdReceive, Rest, TypeOK, StoreInv
    <2>3. RequestInv'
      BY <1>17, PacketShape DEF CmdReceive, Rest, RequestInv, StoreInv
    <2>4. ThreadInv'
      BY <1>17 DEF CmdReceive, ThreadInv
    <2> QED
      BY <2>1, <2>2, <2>3, <2>4
  <1>18. ASSUME CmdReceiveFails PROVE SessionInv'
    <2>1. TypeOK'
      <3>1. cmdPc' \in CmdPcs
        BY <1>18 DEF CmdReceiveFails, CmdPcs
      <3>2. cmdMsg' \in Packet \cup {NoMsg, ZeroBuffer}
        BY <1>18 DEF CmdReceiveFails, TypeOK
      <3> QED
        BY <1>18, <3>1, <3>2, ZenonT(60) DEF CmdReceiveFails, TypeOK
    <2>2. StoreInv'
      BY <1>18 DEF CmdReceiveFails, TypeOK, StoreInv
    <2>3. RequestInv'
      BY <1>18 DEF CmdReceiveFails, RequestInv, StoreInv
    <2>4. ThreadInv'
      BY <1>18 DEF CmdReceiveFails, ThreadInv
    <2> QED
      BY <2>1, <2>2, <2>3, <2>4
  <1>19. ASSUME CmdReadMajor PROVE SessionInv'
    BY <1>19 DEF CmdReadMajor, TypeOK, StoreInv, RequestInv, ThreadInv,
       MainPcs, CmdPcs, DataPcs
  <1>20. ASSUME CmdReadMinor PROVE SessionInv'
    BY <1>20 DEF CmdReadMinor, TypeOK, StoreInv, RequestInv, ThreadInv,
       MainPcs, CmdPcs, DataPcs
  <1>21. ASSUME CmdUnpack PROVE SessionInv'
    BY <1>21, ZeroKnown DEF CmdUnpack, CmdFinish, TypeOK, StoreInv, RequestInv, ThreadInv,
       MainPcs, CmdPcs, DataPcs
  <1>22. ASSUME CmdBitstreamResponse PROVE SessionInv'
    <2>1. TypeOK'
      <3>1. cmdMsg \in Packet
        BY <1>22 DEF CmdBitstreamResponse, TypeOK, NoMsg, ZeroBuffer
      <3>2. cmdMsg.ver \in Majors \X Minors /\ cmdMsg.ver[1] \in Majors
        BY <1>22, <3>1, PacketShape, VersionShape DEF CmdBitstreamResponse
      <3>3. streamVersion' \in Majors \X Minors
        BY <1>22, <3>2 DEF CmdBitstreamResponse, TypeOK
      <3> QED
        BY <1>22, <3>3, ZeroKnown DEF CmdBitstreamResponse, CmdFinish, TypeOK, CmdPcs
    <2>2. StoreInv'
      BY <1>22 DEF CmdBitstreamResponse, CmdFinish, TypeOK, StoreInv
    <2>3. RequestInv'
      BY <1>22, PacketShape DEF CmdBitstreamResponse, RequestInv, StoreInv
    <2>4. ThreadInv'
      BY <1>22 DEF CmdBitstreamResponse, ThreadInv
    <2> QED
      BY <2>1, <2>2, <2>3, <2>4
  <1>23. ASSUME CmdInfoStore PROVE SessionInv'
    <2>0. cmdMsg.ver \in StreamVersions
      BY <1>23, PacketShape DEF CmdInfoStore, TypeOK, NoMsg, ZeroBuffer
    <2>1. TypeOK'
      <3>1. streamVersion' \in Majors \X Minors
        BY <1>23, <2>0, VersionShape DEF CmdInfoStore
      <3> QED
        BY <1>23, <3>1 DEF CmdInfoStore, TypeOK, CmdPcs
    <2>2. StoreInv'
      BY <1>23, <2>0 DEF CmdInfoStore, StoreInv
    <2>3. RequestInv'
      BY <1>23, PacketShape DEF CmdInfoStore, RequestInv, StoreInv
    <2>4. ThreadInv'
      BY <1>23 DEF CmdInfoStore, ThreadInv
    <2> QED
      BY <2>1, <2>2, <2>3, <2>4
  <1>24. ASSUME CmdInfoTest PROVE SessionInv'
    BY <1>24, ZeroKnown DEF CmdInfoTest, CmdFinish, TypeOK, StoreInv, RequestInv, ThreadInv,
       MainPcs, CmdPcs, DataPcs
  <1>25. ASSUME CmdInfoMajor PROVE SessionInv'
    BY <1>25 DEF CmdInfoMajor, TypeOK, StoreInv, RequestInv, ThreadInv,
       MainPcs, CmdPcs, DataPcs
  <1>26. ASSUME CmdInfoMinor PROVE SessionInv'
    <2>1. TypeOK'
      BY <1>26 DEF CmdInfoMinor, TypeOK, MainPcs, CmdPcs, DataPcs
    <2>2. StoreInv'
      BY <1>26, VersionShape DEF CmdInfoMinor, StoreInv
    <2>3. RequestInv'
      BY <1>26 DEF CmdInfoMinor, RequestInv, StoreInv
    <2>4. ThreadInv'
      BY <1>26 DEF CmdInfoMinor, ThreadInv
    <2> QED
      BY <2>1, <2>2, <2>3, <2>4
  <1>27. ASSUME CmdInfoChange PROVE SessionInv'
    BY <1>27, ZeroKnown DEF CmdInfoChange, CmdFinish, TypeOK, StoreInv, RequestInv, ThreadInv,
       MainPcs, CmdPcs, DataPcs
  <1>28. ASSUME CmdKeepAliveTest PROVE SessionInv'
    BY <1>28 DEF CmdKeepAliveTest, TypeOK, StoreInv, RequestInv, ThreadInv,
       MainPcs, CmdPcs, DataPcs
  <1>29. ASSUME CmdSendKeepAlive PROVE SessionInv'
    BY <1>29 DEF CmdSendKeepAlive, TypeOK, StoreInv, RequestInv, ThreadInv,
       MainPcs, CmdPcs, DataPcs
  <1>30. ASSUME DataTop PROVE SessionInv'
    BY <1>30 DEF DataTop, TypeOK, StoreInv, RequestInv, ThreadInv,
       MainPcs, CmdPcs, DataPcs
  <1>31. ASSUME DataCall PROVE SessionInv'
    BY <1>31 DEF DataCall, AfterDataError, TypeOK, StoreInv, RequestInv, ThreadInv,
       MainPcs, CmdPcs, DataPcs
  <1>32. ASSUME NEW m \in dataIn, DataReceive(m) PROVE SessionInv'
    <2>1. TypeOK'
      BY <1>32, PacketShape DEF DataReceive, Rest, TypeOK, MainPcs, CmdPcs, DataPcs
    <2>2. StoreInv'
      BY <1>32 DEF DataReceive, Rest, TypeOK, StoreInv
    <2>3. RequestInv'
      BY <1>32, PacketShape DEF DataReceive, Rest, RequestInv, StoreInv
    <2>4. ThreadInv'
      BY <1>32 DEF DataReceive, ThreadInv
    <2> QED
      BY <2>1, <2>2, <2>3, <2>4
  <1>33. ASSUME DataWoken PROVE SessionInv'
    BY <1>33 DEF DataWoken, AfterDataError, TypeOK, StoreInv, RequestInv, ThreadInv,
       MainPcs, CmdPcs, DataPcs
  <1>34. ASSUME DataReadMajor PROVE SessionInv'
    BY <1>34 DEF DataReadMajor, TypeOK, StoreInv, RequestInv, ThreadInv,
       MainPcs, CmdPcs, DataPcs
  <1>35. ASSUME DataReadMinor PROVE SessionInv'
    BY <1>35 DEF DataReadMinor, TypeOK, StoreInv, RequestInv, ThreadInv,
       MainPcs, CmdPcs, DataPcs
  <1>36. ASSUME DataUnpack PROVE SessionInv'
    BY <1>36, ZeroKnown DEF DataUnpack, TypeOK, StoreInv, RequestInv, ThreadInv,
       MainPcs, CmdPcs, DataPcs
  <1>37. ASSUME ServerConnect PROVE SessionInv'
    <2>1. TypeOK'
      BY <1>37, PacketShape DEF ServerConnect, ToCommandSocket, Put, Rest, TypeOK, MainPcs, CmdPcs, DataPcs
    <2>2. StoreInv'
      BY <1>37 DEF ServerConnect, ToCommandSocket, Put, Rest, TypeOK, StoreInv
    <2>3. RequestInv'
      BY <1>37, PacketShape DEF ServerConnect, ToCommandSocket, Put, Rest, RequestInv, StoreInv
    <2>4. ThreadInv'
      BY <1>37 DEF ServerConnect, ThreadInv
    <2> QED
      BY <2>1, <2>2, <2>3, <2>4
  <1>38. ASSUME ServerQuery PROVE SessionInv'
    <2>1. TypeOK'
      BY <1>38, PacketShape DEF ServerQuery, ToCommandSocket, Put, Rest, TypeOK, MainPcs, CmdPcs, DataPcs
    <2>2. StoreInv'
      BY <1>38 DEF ServerQuery, ToCommandSocket, Put, Rest, TypeOK, StoreInv
    <2>3. RequestInv'
      BY <1>38, PacketShape DEF ServerQuery, ToCommandSocket, Put, Rest, RequestInv, StoreInv
    <2>4. ThreadInv'
      BY <1>38 DEF ServerQuery, ThreadInv
    <2> QED
      BY <2>1, <2>2, <2>3, <2>4
  <1>39. ASSUME ServerDescribe PROVE SessionInv'
    <2>1. TypeOK'
      BY <1>39, PacketShape DEF ServerDescribe, ToCommandSocket, Put, Rest, TypeOK, MainPcs, CmdPcs, DataPcs
    <2>2. StoreInv'
      BY <1>39 DEF ServerDescribe, ToCommandSocket, Put, Rest, TypeOK, StoreInv
    <2>3. RequestInv'
      BY <1>39, PacketShape DEF ServerDescribe, ToCommandSocket, Put, Rest, RequestInv, StoreInv
    <2>4. ThreadInv'
      BY <1>39 DEF ServerDescribe, ThreadInv
    <2> QED
      BY <2>1, <2>2, <2>3, <2>4
  <1>40. ASSUME NEW v \in UserVersions, ServerSetBitstream(v) PROVE SessionInv'
    <2>1. TypeOK'
      <3>1. serverVer' \in StreamVersions
        BY <1>40 DEF ServerSetBitstream, TypeOK, StreamVersions
      <3>2. toServer' \subseteq Request /\ cmdIn' \subseteq Packet
        BY <1>40, PacketShape DEF ServerSetBitstream, ToCommandSocket, Put, Rest, TypeOK
      <3> QED
        BY <1>40, <3>1, <3>2 DEF ServerSetBitstream, TypeOK
    <2>2. StoreInv'
      BY <1>40 DEF ServerSetBitstream, ToCommandSocket, Put, Rest, TypeOK, StoreInv
    <2>3. RequestInv'
      BY <1>40, PacketShape DEF ServerSetBitstream, ToCommandSocket, Put, Rest, RequestInv, StoreInv
    <2>4. ThreadInv'
      BY <1>40 DEF ServerSetBitstream, ThreadInv
    <2> QED
      BY <2>1, <2>2, <2>3, <2>4
  <1>41. ASSUME ServerFrame PROVE SessionInv'
    <2>1. TypeOK'
      BY <1>41, PacketShape DEF ServerFrame, ToCommandSocket, Put, Rest, TypeOK, MainPcs, CmdPcs, DataPcs
    <2>2. StoreInv'
      BY <1>41 DEF ServerFrame, ToCommandSocket, Put, Rest, TypeOK, StoreInv
    <2>3. RequestInv'
      BY <1>41, PacketShape DEF ServerFrame, ToCommandSocket, Put, Rest, RequestInv, StoreInv
    <2>4. ThreadInv'
      BY <1>41 DEF ServerFrame, ThreadInv
    <2> QED
      BY <2>1, <2>2, <2>3, <2>4
  <1>42. ASSUME ServerRestart PROVE SessionInv'
    <2>1. TypeOK'
      <3>1. serverVer' \in StreamVersions
        BY <1>42 DEF ServerRestart, StreamVersions
      <3>2. restarts' \in 0..MaxRestarts
        BY <1>42, SessionAssumption DEF ServerRestart, TypeOK
      <3>3. UNCHANGED <<ClientVars, cmdIn, dataIn>> /\ toServer' = {} /\ registered' = FALSE
        BY <1>42 DEF ServerRestart
      <3> QED
        BY <3>1, <3>2, <3>3, ZenonT(60) DEF TypeOK
    <2>2. StoreInv'
      BY <1>42 DEF ServerRestart, TypeOK, StoreInv
    <2>3. RequestInv'
      BY <1>42 DEF ServerRestart, RequestInv, StoreInv
    <2>4. ThreadInv'
      BY <1>42 DEF ServerRestart, ThreadInv
    <2> QED
      BY <2>1, <2>2, <2>3, <2>4
  <1>43. ASSUME Lose PROVE SessionInv'
    BY <1>43 DEF Lose, TypeOK, StoreInv, RequestInv, ThreadInv,
       MainPcs, CmdPcs, DataPcs
  <1>44. CASE UNCHANGED vars
    BY <1>44 DEF TypeOK, StoreInv, RequestInv, ThreadInv
  <1> QED
    BY <1>1, <1>2, <1>3, <1>4, <1>5, <1>6, <1>7, <1>8, <1>9, <1>10, <1>11, <1>12, <1>13, <1>14, <1>15, <1>16, <1>17, <1>18, <1>19, <1>20, <1>21, <1>22, <1>23, <1>24, <1>25, <1>26, <1>27, <1>28, <1>29, <1>30, <1>31, <1>32, <1>33, <1>34, <1>35, <1>36, <1>37, <1>38, <1>39, <1>40, <1>41, <1>42, <1>43, <1>44
       DEF Next, Run, User, CommandThread, DataThread, ServerAnswers, Terminated

\* SessionInv holds throughout a session: who may be storing the version when,
\* what a request in flight proves of the negotiation, who has been joined.
THEOREM SessionInvariant == Spec => []SessionInv
  <1> QED
    BY InitSessionInv, SessionInvStep, PTL DEF Spec

\* set_nat_net_version and __unpack_server_info never store the requested
\* version at the same time, although neither takes a lock.
THEOREM VersionHasOneWriter == Spec => []SingleVersionWriter
  <1>1. SessionInv => SingleVersionWriter
    BY DEF SessionInv, StoreInv, SingleVersionWriter
  <1> QED
    BY <1>1, SessionInvariant, PTL

\* A request to change the bitstream on the wire proves a negotiated unicast session.
THEOREM ChangeRequestsNegotiated == Spec => []ChangeRequestsAreNegotiated
  <1>1. SessionInv => ChangeRequestsAreNegotiated
    BY DEF SessionInv, StoreInv, RequestInv, ChangeRequestsAreNegotiated
  <1> QED
    BY <1>1, SessionInvariant, PTL

\* When shutdown has returned no thread of the client is running.
THEOREM ShutdownJoinsThreads == Spec => []NoThreadAfterShutdown
  <1>1. SessionInv => NoThreadAfterShutdown
    BY DEF SessionInv, ThreadInv, NoThreadAfterShutdown
  <1> QED
    BY <1>1, SessionInvariant, PTL

-----------------------------------------------------------------------------
(* The session implements the abstract version cell.                        *)

LEMMA CellInit == Init => Cell!Init
  BY DEF Init, Cell!Init, StandingVersion, MainStoring, NoVersion

\* Steps that touch neither the stores nor the positions between two stores.
LEMMA CellUntouched ==
    ASSUME UNCHANGED <<want, streamVersion, versionVars>>,
           MainStoring <=> MainStoring',
           cmdPc = "infoMinor" <=> cmdPc' = "infoMinor"
    PROVE  UNCHANGED Cell!cellVars
  BY DEF versionVars, StandingVersion, MainStoring, Cell!cellVars

LEMMA CellStep == SessionInv /\ [Next]_vars => [Cell!Next]_(Cell!cellVars)
  <1> SUFFICES ASSUME SessionInv, [Next]_vars PROVE [Cell!Next]_(Cell!cellVars)
    OBVIOUS
  <1> USE DEF MainStoring, CmdFrame, DataFrame, ClientVars, mainVars, versionVars, infoVars, cmdVars
  \* Steps of run and of the keys that only send.
  <1>1. ASSUME RunOpenData \/ RunOpenCommand \/ RunStartCommand \/ RunStartData
              \/ RunConnect \/ RefreshConfiguration \/ RequestDescriptions
       PROVE  UNCHANGED Cell!cellVars
    BY <1>1, CellUntouched
       DEF SessionInv, ThreadInv, RunOpenData, RunOpenCommand, RunStartCommand, RunStartData, RunConnect,
           RefreshConfiguration, RequestDescriptions
  \* Steps of shutdown.
  <1>2. ASSUME ShutdownStop \/ ShutdownCloseCommand \/ ShutdownCloseData \/ ShutdownJoinCommand
              \/ ShutdownJoinData
       PROVE  UNCHANGED Cell!cellVars
    BY <1>2, CellUntouched
       DEF ShutdownStop, ShutdownCloseCommand, ShutdownCloseData, ShutdownJoinCommand, ShutdownJoinData
  \* Steps of the command thread outside its stores.
  <1>3. ASSUME CmdTop \/ CmdReceiveFails \/ CmdReadMajor \/ CmdReadMinor
              \/ CmdUnpack \/ CmdInfoTest \/ CmdKeepAliveTest \/ CmdSendKeepAlive
       PROVE  UNCHANGED Cell!cellVars
    BY <1>3, CellUntouched
       DEF CmdTop, CmdReceiveFails, CmdReadMajor, CmdReadMinor, CmdUnpack,
           CmdInfoTest, CmdKeepAliveTest, CmdSendKeepAlive, CmdFinish
  \* Steps of the data thread.
  <1>4. ASSUME DataTop \/ DataCall \/ DataWoken \/ DataReadMajor
              \/ DataReadMinor \/ DataUnpack
       PROVE  UNCHANGED Cell!cellVars
    BY <1>4, CellUntouched
       DEF DataTop, DataCall, DataWoken, DataReadMajor, DataReadMinor,
           DataUnpack
  \* Steps of the server and the network.
  <1>5. ASSUME ServerConnect \/ ServerQuery \/ ServerDescribe \/ ServerFrame
              \/ ServerRestart \/ Lose
       PROVE  UNCHANGED Cell!cellVars
    BY <1>5, CellUntouched
       DEF ServerConnect, ServerQuery, ServerDescribe, ServerFrame, ServerRestart,
           Lose
  <1>6. ASSUME NEW m, CmdReceive(m) \/ DataReceive(m) PROVE UNCHANGED Cell!cellVars
    BY <1>6, CellUntouched DEF CmdReceive, DataReceive
  <1>7. ASSUME NEW v, ServerSetBitstream(v) PROVE UNCHANGED Cell!cellVars
    BY <1>7, CellUntouched DEF ServerSetBitstream
  \* The server's version is stored while no requested version is being stored.
  <1>8. ASSUME CmdBitstreamResponse \/ CmdInfoStore PROVE UNCHANGED Cell!cellVars
    BY <1>8 DEF CmdBitstreamResponse, CmdInfoStore, CmdFinish, StandingVersion, Cell!cellVars
  \* The user's choice counts from the moment it is sent.
  <1>9. ASSUME NEW v \in UserVersions, SetNatNetVersion(v) PROVE Cell!Change
    BY <1>9 DEF SetNatNetVersion, StandingVersion, Cell!Change
  <1>10. ASSUME StoreMajor PROVE UNCHANGED Cell!cellVars
    BY <1>10 DEF StoreMajor, StandingVersion, Cell!cellVars
  <1>11. ASSUME StoreMinor PROVE UNCHANGED Cell!cellVars
    <2>1. want = <<reqMajor', reqMinor'>>
      BY <1>11, VersionShape DEF StoreMinor, SessionInv, StoreInv, StreamVersions
    <2>2. cmdPc # "infoMinor" /\ UNCHANGED cmdPc
      BY <1>11 DEF StoreMinor, SessionInv, StoreInv, CmdStoring
    <2> QED
      BY <1>11, <2>1, <2>2 DEF StoreMinor, StandingVersion, Cell!cellVars
  \* The server's choice counts from its first store.
  <1>12. ASSUME CmdInfoMajor PROVE Cell!Negotiate
    <2>1. ~MainStoring /\ reqMajor = 0 /\ reqMinor = 0 /\ streamVersion \in StreamVersions
      BY <1>12 DEF CmdInfoMajor, SessionInv, StoreInv, CmdStoring
    <2> QED
      BY <1>12, <2>1 DEF CmdInfoMajor, StandingVersion, Cell!Negotiate, NoVersion, StreamVersions
  <1>13. ASSUME CmdInfoMinor PROVE UNCHANGED Cell!cellVars
    <2>1. ~MainStoring /\ streamVersion = <<reqMajor', reqMinor'>>
      BY <1>13, VersionShape DEF CmdInfoMinor, SessionInv, StoreInv, CmdStoring
    <2> QED
      BY <1>13, <2>1 DEF CmdInfoMinor, StandingVersion, Cell!cellVars
  <1>14. ASSUME CmdInfoChange PROVE Cell!Offer \/ UNCHANGED Cell!cellVars
    <2>1. ~MainStoring /\ reqMajor # 0 /\ ~canChange
      BY <1>14, VersionShape DEF CmdInfoChange, SessionInv, StoreInv, CmdStoring
    <2>2. StandingVersion = <<reqMajor, reqMinor>> /\ UNCHANGED StandingVersion
      BY <1>14, <2>1 DEF CmdInfoChange, CmdFinish, StandingVersion
    <2>3. StandingVersion # NoVersion
      BY <2>1, <2>2 DEF NoVersion
    <2>4. CASE streamVersion[1] >= 4 /\ Unicast
      BY <1>14, <2>2, <2>3, <2>4 DEF CmdInfoChange, Cell!Offer
    <2>5. CASE ~(streamVersion[1] >= 4 /\ Unicast)
      <3>1. canChange = FALSE /\ canChange' = FALSE
        BY <1>14, <2>1, <2>5 DEF CmdInfoChange, SessionInv, TypeOK
      <3> QED
        BY <2>2, <3>1 DEF Cell!cellVars
    <2> QED
      BY <2>4, <2>5
  <1>15. ASSUME UNCHANGED vars PROVE UNCHANGED Cell!cellVars
    BY <1>15, CellUntouched DEF vars
  <1> QED
    BY <1>1, <1>2, <1>3, <1>4, <1>5, <1>6, <1>7, <1>8, <1>9, <1>10, <1>11, <1>12, <1>13,
       <1>14, <1>15
       DEF Next, Run, User, CommandThread, DataThread, ServerAnswers, Terminated, Cell!Next

\* Every session, with stores made one component at a time by two threads and
\* any loss, duplication, reordering and restart, is a behaviour of the abstract
\* cell: negotiated once, then changed by the user only.
THEOREM SessionImplementsVersionCell == Spec => ImplementsNegotiatedVersion
  <1> QED
    BY CellInit, CellStep, SessionInvariant, PTL
       DEF Spec, ImplementsNegotiatedVersion, Cell!Spec

-----------------------------------------------------------------------------
(* The client's version and the server's                                    *)

\* What agrees with the server while it runs.  Before a change is possible every
\* packet that tells a version, and every version stored, is the server's; when
\* it has become possible, the requested version is the server's until the first
\* request to change it is sent, and one the user asked for ever after.
AgreementInv ==
    /\ appNameSet /\ cmdPc \notin {"infoTest", "infoMajor"} => reqMajor # 0
    /\ restarts = 0 /\ ~canChange =>
          /\ \A m \in cmdIn \cup {cmdMsg} :
                m.kind \in {"SERVERINFO", "BITSTREAM"} => m.ver = serverVer
          /\ serverVersionSet /\ cmdPc # "dead" => streamVersion = serverVer
          /\ reqMajor # 0 /\ cmdPc # "infoMinor" => <<reqMajor, reqMinor>> = serverVer
    /\ restarts = 0 /\ canChange /\ ~MainStoring =>
          \/ <<reqMajor, reqMinor>> \in UserVersions
          \/ /\ <<reqMajor, reqMinor>> = serverVer
             /\ \A r \in toServer : r.kind # "SETBITSTREAM"

Tells(m) == m.kind \in {"SERVERINFO", "BITSTREAM"}

LEMMA AgreementInit == Init => AgreementInv
  BY DEF Init, AgreementInv, NoMsg, NoVersion, MainStoring

\* Steps that store no version, deliver nothing that tells one and send no request
\* for one.
LEMMA AgreementKept ==
    ASSUME AgreementInv,
           UNCHANGED <<reqMajor, reqMinor, canChange, infoVars, serverVer, restarts>>,
           \A m \in cmdIn' \cup {cmdMsg'} :
              m \in cmdIn \cup {cmdMsg} \/ ~Tells(m) \/ m.ver = serverVer,
           \A r \in toServer' : r \in toServer \/ r.kind # "SETBITSTREAM",
           MainStoring' <=> MainStoring,
           cmdPc' \notin {"infoTest", "infoMajor"} => cmdPc \notin {"infoTest", "infoMajor"},
           cmdPc' # "dead" => cmdPc # "dead",
           cmdPc' # "infoMinor" => cmdPc # "infoMinor"
    PROVE  AgreementInv'
  <1>1. MainStoring' <=> MainStoring
    OBVIOUS
  <1>2. (appNameSet /\ cmdPc \notin {"infoTest", "infoMajor"} => reqMajor # 0)'
    BY DEF AgreementInv, infoVars
  <1>3. ASSUME restarts' = 0, ~canChange'
        PROVE  /\ \A m \in cmdIn' \cup {cmdMsg'} : Tells(m) => m.ver = serverVer'
               /\ serverVersionSet' /\ cmdPc' # "dead" => streamVersion' = serverVer'
               /\ reqMajor' # 0 /\ cmdPc' # "infoMinor" => <<reqMajor', reqMinor'>> = serverVer'
    BY <1>3 DEF AgreementInv, infoVars, Tells
  <1>4. ASSUME restarts' = 0, canChange', ~MainStoring'
        PROVE  \/ <<reqMajor', reqMinor'>> \in UserVersions
               \/ /\ <<reqMajor', reqMinor'>> = serverVer'
                  /\ \A r \in toServer' : r.kind # "SETBITSTREAM"
    BY <1>1, <1>4 DEF AgreementInv
  <1> QED
    BY <1>2, <1>3, <1>4 DEF AgreementInv, Tells

\* Sending or delivering adds nothing but the datagram, receiving nothing at all.
LEMMA InPut ==
    ASSUME NEW net, NEW m, NEW cap
    PROVE  \A x \in Put(net, m, cap) : x \in net \/ x = m
  BY DEF Put

LEMMA AgreementStep == SessionInv /\ AgreementInv /\ [Next]_vars => AgreementInv'
  <1> SUFFICES ASSUME SessionInv, AgreementInv, [Next]_vars PROVE AgreementInv'
    OBVIOUS
  <1> USE DEF mainVars, infoVars, versionVars, sockVars, cmdVars, dataVars, netVars,
          serverVars, CmdFrame, DataFrame, ClientVars
  <1>t. TypeOK /\ StoreInv /\ RequestInv /\ ThreadInv
    BY DEF SessionInv
  \* Main, outside set_nat_net_version.
  <1>1. ASSUME RunOpenData \/ RunOpenCommand \/ RunStartData \/ ShutdownStop
               \/ ShutdownCloseCommand \/ ShutdownCloseData \/ ShutdownJoinCommand
               \/ ShutdownJoinData
        PROVE  AgreementInv'
    <2>1. /\ UNCHANGED <<reqMajor, reqMinor, canChange, infoVars, serverVer, restarts,
                         cmdIn, cmdMsg, toServer, cmdPc>>
          /\ ~MainStoring /\ ~MainStoring'
      BY <1>1 DEF RunOpenData, RunOpenCommand, RunStartData, ShutdownStop,
         ShutdownCloseCommand, ShutdownCloseData, ShutdownJoinCommand, ShutdownJoinData,
         MainStoring
    <2> QED
      BY <2>1, AgreementKept
  <1>2. ASSUME RunStartCommand PROVE AgreementInv'
    <2>1. /\ UNCHANGED <<reqMajor, reqMinor, canChange, infoVars, serverVer, restarts,
                         cmdIn, cmdMsg, toServer>>
          /\ ~MainStoring /\ ~MainStoring' /\ cmdPc = "off" /\ cmdPc' = "top"
      BY <1>t, <1>2 DEF RunStartCommand, MainStoring, ThreadInv
    <2> QED
      BY <2>1, AgreementKept
  <1>3. ASSUME RunConnect \/ RefreshConfiguration \/ RequestDescriptions
        PROVE  AgreementInv'
    <2>1. /\ UNCHANGED <<reqMajor, reqMinor, canChange, infoVars, serverVer, restarts,
                         cmdIn, cmdMsg, cmdPc>>
          /\ ~MainStoring /\ ~MainStoring'
      BY <1>3 DEF RunConnect, RefreshConfiguration, RequestDescriptions, MainStoring
    <2>2. \A r \in toServer' : r \in toServer \/ r.kind # "SETBITSTREAM"
      BY <1>3, InPut, RequestShape
      DEF RunConnect, RefreshConfiguration, RequestDescriptions, Send
    <2> QED
      BY <2>1, <2>2, AgreementKept
  \* Once a request is sent, main goes on to store its version.
  <1>4. ASSUME NEW v \in UserVersions, SetNatNetVersion(v) PROVE AgreementInv'
    <2>1. /\ canChange /\ canChange' /\ MainStoring'
          /\ UNCHANGED <<reqMajor, appNameSet, cmdPc>>
      BY <1>4 DEF SetNatNetVersion, MainStoring
    <2> QED
      BY <2>1 DEF AgreementInv
  <1>5. ASSUME StoreMajor PROVE AgreementInv'
    <2>1. /\ canChange' /\ MainStoring' /\ reqMajor' = want[1]
      BY <1>t, <1>5 DEF StoreMajor, MainStoring, StoreInv
    <2>2. want[1] # 0
      BY <1>t, <1>5, VersionShape DEF StoreMajor, MainStoring, StoreInv, StreamVersions
    <2> QED
      BY <2>1, <2>2 DEF AgreementInv
  <1>6. ASSUME StoreMinor PROVE AgreementInv'
    <2>1. /\ canChange' /\ want \in UserVersions /\ reqMajor = want[1]
          /\ reqMinor' = want[2] /\ UNCHANGED <<reqMajor, appNameSet, cmdPc>>
      BY <1>t, <1>6 DEF StoreMinor, MainStoring, StoreInv
    <2>2. <<reqMajor', reqMinor'>> \in UserVersions
      <3>1. want = <<want[1], want[2]>>
        BY <2>1, VersionShape DEF StreamVersions
      <3> QED
        BY <2>1, <3>1
    <2> QED
      BY <2>1, <2>2 DEF AgreementInv
  \* The command thread, where it stores no version.
  <1>7. ASSUME CmdTop \/ CmdReadMajor \/ CmdReadMinor \/ CmdKeepAliveTest
               \/ CmdSendKeepAlive
        PROVE  AgreementInv'
    <2>1. /\ UNCHANGED <<reqMajor, reqMinor, canChange, infoVars, serverVer, restarts,
                         cmdIn, cmdMsg, toServer, mainPc>>
          /\ cmdPc \notin {"infoTest", "infoMajor", "infoMinor", "dead"}
      BY <1>7 DEF CmdTop, CmdReadMajor, CmdReadMinor, CmdKeepAliveTest, CmdSendKeepAlive
    <2> QED
      BY <2>1, AgreementKept DEF MainStoring
  <1>8. ASSUME CmdReceiveFails \/ CmdUnpack \/ (\E m \in cmdIn : CmdReceive(m))
        PROVE  AgreementInv'
    <2>1. /\ UNCHANGED <<reqMajor, reqMinor, canChange, infoVars, serverVer, restarts,
                         toServer, mainPc>>
          /\ cmdPc \notin {"infoTest", "infoMajor", "infoMinor", "dead"}
      BY <1>8 DEF CmdReceiveFails, CmdUnpack, CmdReceive
    <2>2. cmdIn' \subseteq cmdIn /\ cmdMsg' \in cmdIn \cup {cmdMsg, NoMsg, ZeroBuffer}
      BY <1>8, RestSubset DEF CmdReceiveFails, CmdUnpack, CmdFinish, CmdReceive
    <2>3. ~Tells(NoMsg) /\ ~Tells(ZeroBuffer)
      BY DEF Tells, NoMsg, ZeroBuffer
    <2> QED
      BY <2>1, <2>2, <2>3, AgreementKept DEF MainStoring
  <1>9. ASSUME CmdInfoTest PROVE AgreementInv'
    <2>1. /\ UNCHANGED <<reqMajor, reqMinor, canChange, infoVars, serverVer, restarts,
                         cmdIn, toServer, mainPc>>
          /\ cmdPc = "infoTest" /\ cmdMsg' \in {cmdMsg, NoMsg}
          /\ \/ cmdPc' = "infoMajor"
             \/ cmdPc' = "keepAlive" /\ ~(reqMajor = 0 /\ reqMinor = 0)
      BY <1>9 DEF CmdInfoTest, CmdFinish
    <2>2. cmdPc' # "infoMajor" => reqMajor' # 0
      BY <1>t, <2>1 DEF StoreInv
    <2>3. NoMsg.kind = "NONE"
      BY DEF NoMsg
    <2> QED
      BY <2>1, <2>2, <2>3 DEF AgreementInv, MainStoring
  \* What the command thread stores is what the server said.
  <1>10. ASSUME CmdBitstreamResponse PROVE AgreementInv'
    <2>1. /\ UNCHANGED <<reqMajor, reqMinor, canChange, appNameSet, serverVersionSet,
                         serverVer, restarts, cmdIn, toServer, mainPc>>
          /\ cmdPc = "handle" /\ cmdMsg.kind = "BITSTREAM" /\ cmdMsg' = NoMsg
          /\ cmdPc' = "dead" \/ (cmdPc' = "keepAlive" /\ streamVersion' = cmdMsg.ver)
      BY <1>10 DEF CmdBitstreamResponse, CmdFinish
    <2>2. NoMsg.kind = "NONE"
      BY DEF NoMsg
    <2> QED
      BY <2>1, <2>2 DEF AgreementInv, MainStoring
  <1>11. ASSUME CmdInfoStore PROVE AgreementInv'
    <2>1. /\ UNCHANGED <<reqMajor, reqMinor, canChange, serverVer, restarts, cmdIn,
                         toServer, mainPc, cmdMsg>>
          /\ cmdPc = "handle" /\ cmdMsg.kind = "SERVERINFO"
          /\ cmdPc' = "infoTest" /\ streamVersion' = cmdMsg.ver
      BY <1>11 DEF CmdInfoStore
    <2> QED
      BY <2>1 DEF AgreementInv, MainStoring
  <1>12. ASSUME CmdInfoMajor PROVE AgreementInv'
    <2>1. /\ UNCHANGED <<reqMinor, canChange, infoVars, serverVer, restarts, cmdIn,
                         toServer, mainPc, cmdMsg>>
          /\ cmdPc = "infoMajor" /\ cmdPc' = "infoMinor" /\ reqMajor' = streamVersion[1]
      BY <1>12 DEF CmdInfoMajor
    <2>2. streamVersion \in StreamVersions /\ ~canChange
      BY <1>t, <2>1 DEF StoreInv, CmdStoring
    <2>3. streamVersion[1] # 0
      BY <2>2, VersionShape
    <2> QED
      BY <2>1, <2>2, <2>3 DEF AgreementInv, MainStoring
  <1>13. ASSUME CmdInfoMinor PROVE AgreementInv'
    <2>1. /\ UNCHANGED <<reqMajor, canChange, infoVars, serverVer, restarts, cmdIn,
                         toServer, mainPc, cmdMsg>>
          /\ cmdPc = "infoMinor" /\ cmdPc' = "infoChange" /\ reqMinor' = streamVersion[2]
      BY <1>13 DEF CmdInfoMinor
    <2>2. /\ streamVersion \in StreamVersions /\ ~canChange
          /\ reqMajor = streamVersion[1] /\ serverVersionSet
      BY <1>t, <2>1 DEF StoreInv, CmdStoring
    <2>3. streamVersion = <<reqMajor', reqMinor'>>
      BY <2>1, <2>2, VersionShape
    <2> QED
      BY <2>1, <2>2, <2>3 DEF AgreementInv, MainStoring
  \* The change becomes possible while the version is the server's own.
  <1>14. ASSUME CmdInfoChange PROVE AgreementInv'
    <2>1. /\ UNCHANGED <<reqMajor, reqMinor, infoVars, serverVer, restarts, cmdIn,
                         toServer, mainPc>>
          /\ cmdPc = "infoChange" /\ cmdPc' = "keepAlive" /\ cmdMsg' = NoMsg
      BY <1>14 DEF CmdInfoChange, CmdFinish
    <2>2. /\ streamVersion \in StreamVersions /\ ~canChange
          /\ reqMajor = streamVersion[1]
      BY <1>t, <2>1 DEF StoreInv, CmdStoring
    <2>3. reqMajor # 0
      BY <2>2, VersionShape
    <2>4. restarts = 0 => <<reqMajor, reqMinor>> = serverVer
      BY <2>1, <2>2, <2>3 DEF AgreementInv
    <2>5. \A r \in toServer : r.kind # "SETBITSTREAM"
      BY <1>t, <2>2 DEF RequestInv
    <2>6. NoMsg.kind = "NONE"
      BY DEF NoMsg
    <2> QED
      BY <2>1, <2>2, <2>3, <2>4, <2>5, <2>6 DEF AgreementInv, MainStoring
  <1>15. ASSUME DataThread PROVE AgreementInv'
    <2>1. UNCHANGED <<reqMajor, reqMinor, canChange, infoVars, serverVer, restarts,
                      cmdIn, cmdMsg, toServer, cmdPc, mainPc>>
      BY <1>15 DEF DataThread, DataTop, DataCall, DataWoken, DataReceive, DataReadMajor,
         DataReadMinor, DataUnpack
    <2> QED
      BY <2>1, AgreementKept DEF MainStoring
  \* Server and network.
  <1>16. ASSUME ServerConnect \/ ServerQuery \/ ServerDescribe \/ ServerFrame
         PROVE  AgreementInv'
    <2>1. UNCHANGED <<reqMajor, reqMinor, canChange, infoVars, serverVer, restarts,
                      cmdMsg, cmdPc, mainPc>>
      BY <1>16 DEF ServerConnect, ServerQuery, ServerDescribe, ServerFrame
    <2>2. toServer' \subseteq toServer
      BY <1>16, RestSubset DEF ServerConnect, ServerQuery, ServerDescribe, ServerFrame
    <2>3. \A m \in cmdIn' : m \in cmdIn \/ m.ver = serverVer
      <3>1. \A k : Answer(k, serverVer).ver = serverVer
        BY DEF Answer
      <3>2. \E k : ToCommandSocket(Answer(k, serverVer)) \/ cmdIn' = cmdIn
        BY <1>16 DEF ServerConnect, ServerQuery, ServerDescribe, ServerFrame
      <3> QED
        BY <3>1, <3>2, InPut DEF ToCommandSocket
    <2> QED
      BY <2>1, <2>2, <2>3, AgreementKept DEF MainStoring
  \* The server changes its version only where the permission was given.
  <1>17. ASSUME NEW v \in UserVersions, ServerSetBitstream(v) PROVE AgreementInv'
    <2>1. /\ UNCHANGED <<reqMajor, reqMinor, canChange, infoVars, restarts, cmdMsg,
                         cmdPc, mainPc>>
          /\ SetBitstream(v) \in toServer
      BY <1>17 DEF ServerSetBitstream
    <2>2. SetBitstream(v).kind = "SETBITSTREAM"
      BY DEF SetBitstream
    <2>3. canChange
      BY <1>t, <2>1, <2>2 DEF RequestInv
    <2> QED
      BY <2>1, <2>2, <2>3 DEF AgreementInv, MainStoring
  <1>18. ASSUME ServerRestart PROVE AgreementInv'
    <2>1. restarts' # 0 /\ UNCHANGED <<appNameSet, cmdPc, reqMajor>>
      BY <1>t, <1>18 DEF ServerRestart, TypeOK
    <2> QED
      BY <2>1 DEF AgreementInv
  <1>19. ASSUME Lose PROVE AgreementInv'
    <2>1. /\ UNCHANGED <<reqMajor, reqMinor, canChange, infoVars, serverVer, restarts,
                         cmdMsg, cmdPc, mainPc>>
          /\ cmdIn' \subseteq cmdIn /\ toServer' \subseteq toServer
      BY <1>19 DEF Lose
    <2> QED
      BY <2>1, AgreementKept DEF MainStoring
  <1>20. ASSUME UNCHANGED vars PROVE AgreementInv'
    BY <1>20, AgreementKept DEF vars, MainStoring
  <1> QED
    BY <1>1, <1>2, <1>3, <1>4, <1>5, <1>6, <1>7, <1>8, <1>9, <1>10, <1>11, <1>12, <1>13,
       <1>14, <1>15, <1>16, <1>17, <1>18, <1>19, <1>20
       DEF Next, Run, User, CommandThread, ServerAnswers, Terminated

\* As long as the server runs, a client at rest has the server's version, or one the
\* user asked for: no late, repeated or lost packet takes them apart.
THEOREM DivergesByRequestOnly == Spec => []DivergesOnlyByRequest
  <1>1. SessionInv /\ AgreementInv => DivergesOnlyByRequest
    <2> SUFFICES ASSUME SessionInv, AgreementInv, AtRest, Connected, restarts = 0,
                        <<reqMajor, reqMinor>> # serverVer
                 PROVE  canChange /\ <<reqMajor, reqMinor>> \in UserVersions
      BY DEF DivergesOnlyByRequest
    <2>1. reqMajor # 0 /\ cmdPc # "infoMinor" /\ ~MainStoring
      BY DEF AgreementInv, AtRest, Connected, MainStoring
    <2>2. canChange
      BY <2>1 DEF AgreementInv
    <2> QED
      BY <2>1, <2>2 DEF AgreementInv
  <1>2. AgreementInv /\ SessionInv /\ [Next]_vars => AgreementInv'
    BY AgreementStep
  <1> QED
    BY AgreementInit, <1>1, <1>2, SessionInvariant, PTL DEF Spec

-----------------------------------------------------------------------------
(* Shutdown                                                                 *)

\* stop is the position of main; a socket is closed behind it, and is there before its
\* thread is.
SocketInv ==
    /\ stop <=> mainPc \in {"closeCmd", "closeData", "joinCmd", "joinData", "done"}
    /\ cmdSock = "closed" \/ dataSock = "closed" => stop
    /\ mainPc \notin {"openData", "openCmd", "exited"} => cmdSock # "none" /\ dataSock # "none"
    /\ mainPc = "openCmd" => dataSock # "none"
    /\ cmdPc # "off" => cmdSock # "none"
    /\ dataPc # "off" => dataSock # "none"

LEMMA SocketInit == Init => SocketInv
  BY DEF Init, SocketInv

\* Only run and shutdown move a socket or the flag.
LEMMA SocketKept ==
    ASSUME SocketInv, UNCHANGED <<stop, sockVars>>,
           mainPc' = mainPc \/ (/\ mainPc \in {"connect", "settle", "idle", "storeMajor", "storeMinor"}
                                /\ mainPc' \in {"settle", "idle", "storeMajor", "storeMinor"}),
           cmdPc = "off" => cmdPc' = "off", dataPc = "off" => dataPc' = "off"
    PROVE  SocketInv'
  BY DEF SocketInv, sockVars

LEMMA SocketStep == SessionInv /\ SocketInv /\ [Next]_vars => SocketInv'
  <1> SUFFICES ASSUME SessionInv, SocketInv, [Next]_vars PROVE SocketInv'
    OBVIOUS
  <1> USE DEF mainVars, sockVars, cmdVars, dataVars, CmdFrame, DataFrame, ClientVars
  <1>0. ThreadInv /\ stop \in BOOLEAN
    BY DEF SessionInv, TypeOK
  <1>1. ASSUME RunOpenData PROVE SocketInv'
    BY <1>0, <1>1 DEF RunOpenData, SocketInv
  <1>2. ASSUME RunOpenCommand PROVE SocketInv'
    BY <1>0, <1>2 DEF RunOpenCommand, SocketInv
  <1>3. ASSUME RunStartCommand PROVE SocketInv'
    BY <1>0, <1>3 DEF RunStartCommand, SocketInv
  <1>4. ASSUME RunStartData PROVE SocketInv'
    BY <1>0, <1>4 DEF RunStartData, SocketInv
  <1>5. ASSUME RunConnect \/ User \/ StoreMajor \/ StoreMinor PROVE SocketInv'
    <2>1. CASE ShutdownStop
      BY <1>0, <2>1 DEF ShutdownStop, SocketInv
    <2>2. CASE ~ShutdownStop
      BY <1>5, <2>2, SocketKept DEF RunConnect, User, RefreshConfiguration, RequestDescriptions,
         SetNatNetVersion, StoreMajor, StoreMinor
    <2> QED
      BY <2>1, <2>2
  <1>6. ASSUME ShutdownCloseCommand \/ ShutdownCloseData \/ ShutdownJoinCommand
               \/ ShutdownJoinData
        PROVE  SocketInv'
    BY <1>0, <1>6 DEF ShutdownCloseCommand, ShutdownCloseData, ShutdownJoinCommand,
       ShutdownJoinData, SocketInv
  <1>7. ASSUME CommandThread PROVE SocketInv'
    <2>1. cmdPc # "off"
      BY <1>7 DEF CommandThread, CmdTop, CmdReceiveFails, CmdReceive, CmdReadMajor, CmdReadMinor,
         CmdUnpack, CmdBitstreamResponse, CmdInfoStore, CmdInfoTest, CmdInfoMajor, CmdInfoMinor,
         CmdInfoChange, CmdKeepAliveTest, CmdSendKeepAlive
    <2>2. UNCHANGED <<stop, cmdSock, dataSock, mainPc, dataPc>>
      BY <1>7 DEF CommandThread, CmdTop, CmdReceiveFails, CmdReceive, CmdReadMajor, CmdReadMinor,
         CmdUnpack, CmdBitstreamResponse, CmdInfoStore, CmdInfoTest, CmdInfoMajor, CmdInfoMinor,
         CmdInfoChange, CmdKeepAliveTest, CmdSendKeepAlive
    <2> QED
      BY <2>1, <2>2, SocketKept
  <1>8. ASSUME DataThread PROVE SocketInv'
    <2>1. dataPc # "off" /\ UNCHANGED <<stop, cmdSock, dataSock, mainPc, cmdPc>>
      BY <1>8 DEF DataThread, DataTop, DataCall, DataWoken, DataReceive, DataReadMajor,
         DataReadMinor, DataUnpack
    <2> QED
      BY <2>1, SocketKept
  <1>9. ASSUME ServerAnswers \/ ServerFrame \/ ServerRestart \/ Lose \/ UNCHANGED vars
        PROVE  SocketInv'
    <2>1. UNCHANGED <<stop, cmdSock, dataSock, mainPc, cmdPc, dataPc>>
      BY <1>9 DEF ServerAnswers, ServerConnect, ServerQuery, ServerDescribe, ServerSetBitstream,
         ServerFrame, ServerRestart, Lose, vars
    <2> QED
      BY <2>1, SocketKept
  <1> QED
    BY <1>1, <1>2, <1>3, <1>4, <1>5, <1>6, <1>7, <1>8, <1>9 DEF Next, Run, Terminated

\* The steps that are left to each thread once stop is set.
CmdDistance ==
    [off |-> 0, done |-> 0, dead |-> 0, top |-> 1, sendKeepAlive |-> 2, keepAlive |-> 3,
     infoChange |-> 4, infoMinor |-> 5, infoMajor |-> 6, infoTest |-> 7, handle |-> 8,
     minor |-> 9, major |-> 10, recv |-> 11]
DataDistance ==
    [off |-> 0, done |-> 0, dead |-> 0, top |-> 1, handle |-> 2, minor |-> 3, major |-> 4,
     blocked |-> 5, recv |-> 6]
MainDistance ==
    [done |-> 0, joinData |-> 1, joinCmd |-> 2, closeData |-> 3, closeCmd |-> 4]
Distance == MainDistance[mainPc] + CmdDistance[cmdPc] + DataDistance[dataPc]

LEMMA Distances ==
    /\ \A p \in CmdPcs : CmdDistance[p] \in 0..11
    /\ \A p \in DataPcs : DataDistance[p] \in 0..6
    /\ \A p \in {"closeCmd", "closeData", "joinCmd", "joinData", "done"} : MainDistance[p] \in 0..4
  BY DEF CmdPcs, DataPcs, CmdDistance, DataDistance, MainDistance

\* The moves of the command thread from one position to the next.
CommandMoves ==
    {<<"top", "done">>, <<"top", "recv">>, <<"recv", "major">>, <<"recv", "keepAlive">>,
     <<"major", "minor">>, <<"minor", "handle">>, <<"handle", "keepAlive">>,
     <<"handle", "infoTest">>, <<"handle", "dead">>, <<"infoTest", "infoMajor">>,
     <<"infoTest", "keepAlive">>, <<"infoMajor", "infoMinor">>, <<"infoMinor", "infoChange">>,
     <<"infoChange", "keepAlive">>, <<"keepAlive", "sendKeepAlive">>, <<"keepAlive", "top">>,
     <<"sendKeepAlive", "top">>, <<"sendKeepAlive", "dead">>}

LEMMA CommandMove ==
    ASSUME CommandThread
    PROVE  /\ <<cmdPc, cmdPc'>> \in CommandMoves
           /\ <<cmdPc, cmdPc'>> = <<"top", "recv">> => ~stop
           /\ <<cmdPc, cmdPc'>> = <<"top", "done">> => stop
           /\ <<cmdPc, cmdPc'>> = <<"keepAlive", "top">> => ~(Unicast /\ ~stop)
           /\ UNCHANGED <<mainPc, dataPc, stop>>
  <1> USE DEF CmdFrame, mainVars, dataVars, CommandMoves
  <1>1. CASE \/ CmdTop \/ CmdReceiveFails \/ (\E m \in cmdIn : CmdReceive(m))
             \/ CmdReadMajor \/ CmdReadMinor
    BY <1>1 DEF CmdTop, CmdReceiveFails, CmdReceive, CmdReadMajor, CmdReadMinor
  <1>2. CASE CmdUnpack \/ CmdBitstreamResponse
    BY <1>2 DEF CmdUnpack, CmdBitstreamResponse, CmdFinish
  <1>3. CASE CmdInfoStore \/ CmdInfoTest \/ CmdInfoMajor \/ CmdInfoMinor \/ CmdInfoChange
    BY <1>3 DEF CmdInfoStore, CmdInfoTest, CmdInfoMajor, CmdInfoMinor, CmdInfoChange, CmdFinish
  <1>4. CASE CmdKeepAliveTest \/ CmdSendKeepAlive
    BY <1>4 DEF CmdKeepAliveTest, CmdSendKeepAlive
  <1> QED
    BY <1>1, <1>2, <1>3, <1>4 DEF CommandThread

LEMMA CommandNearer ==
    ASSUME stop, CommandThread
    PROVE  CmdDistance[cmdPc'] < CmdDistance[cmdPc]
  <1>1. \A m \in CommandMoves : m # <<"top", "recv">> => CmdDistance[m[2]] < CmdDistance[m[1]]
    BY DEF CommandMoves, CmdDistance
  <1> QED
    BY <1>1, CommandMove

DataMoves ==
    {<<"top", "done">>, <<"top", "recv">>, <<"recv", "blocked">>, <<"recv", "top">>,
     <<"recv", "done">>, <<"blocked", "major">>, <<"blocked", "top">>, <<"blocked", "done">>,
     <<"major", "minor">>, <<"minor", "handle">>, <<"handle", "top">>, <<"handle", "dead">>}

LEMMA DataMove ==
    ASSUME DataThread
    PROVE  /\ <<dataPc, dataPc'>> \in DataMoves
           /\ <<dataPc, dataPc'>> = <<"top", "recv">> => ~stop
           /\ UNCHANGED <<mainPc, cmdPc, stop>>
  BY DEF DataThread, DataTop, DataCall, DataWoken, DataReceive, DataReadMajor, DataReadMinor,
     DataUnpack, AfterDataError, DataFrame, mainVars, cmdVars, DataMoves

LEMMA DataNearer ==
    ASSUME stop, DataThread
    PROVE  DataDistance[dataPc'] < DataDistance[dataPc]
  <1>1. \A m \in DataMoves : m # <<"top", "recv">> => DataDistance[m[2]] < DataDistance[m[1]]
    BY DEF DataMoves, DataDistance
  <1> QED
    BY <1>1, DataMove

\* After stop every step that changes anything in the client brings shutdown nearer to its
\* return: at most twenty-one such steps are left, whatever arrives, is lost or is closed.
ShutdownNearer == [][stop => UNCHANGED ClientVars \/ Distance' < Distance]_vars

THEOREM ShutdownIsBounded == Spec => ShutdownNearer /\ [](stop => Distance \in 0..21)
  <1>1. SessionInv /\ SocketInv => (stop => Distance \in 0..21)
    <2> SUFFICES ASSUME SessionInv, SocketInv, stop PROVE Distance \in 0..21
      OBVIOUS
    <2>1. /\ CmdDistance[cmdPc] \in 0..11 /\ DataDistance[dataPc] \in 0..6
          /\ MainDistance[mainPc] \in 0..4
      BY Distances DEF SessionInv, TypeOK, SocketInv
    <2> QED
      BY <2>1 DEF Distance
  <1>2. SessionInv /\ SocketInv /\ [Next]_vars => [stop => UNCHANGED ClientVars \/ Distance' < Distance]_vars
    <2> SUFFICES ASSUME SessionInv, SocketInv, SessionInv', SocketInv', Next, stop
                 PROVE  UNCHANGED ClientVars \/ Distance' < Distance
      BY SessionInvStep, SocketStep
    <2>0. /\ CmdDistance[cmdPc] \in Int /\ DataDistance[dataPc] \in Int
          /\ MainDistance[mainPc] \in Int
          /\ CmdDistance[cmdPc'] \in Int /\ DataDistance[dataPc'] \in Int
      BY Distances DEF SessionInv, TypeOK, SocketInv
    <2>1. CASE CommandThread
      BY <2>0, <2>1, CommandMove, CommandNearer DEF Distance
    <2>2. CASE DataThread
      BY <2>0, <2>2, DataMove, DataNearer DEF Distance
    <2>3. CASE ShutdownCloseCommand \/ ShutdownCloseData \/ ShutdownJoinCommand \/ ShutdownJoinData
      <3>1. /\ UNCHANGED <<cmdPc, dataPc>>
            /\ <<mainPc, mainPc'>> \in {<<"closeCmd", "closeData">>, <<"closeData", "joinCmd">>,
                                        <<"joinCmd", "joinData">>, <<"joinData", "done">>}
        BY <2>3 DEF ShutdownCloseCommand, ShutdownCloseData, ShutdownJoinCommand, ShutdownJoinData,
           cmdVars, dataVars
      <3>2. MainDistance[mainPc'] \in Int /\ MainDistance[mainPc'] < MainDistance[mainPc]
        BY <3>1 DEF MainDistance
      <3> QED
        BY <2>0, <3>1, <3>2 DEF Distance
    <2>4. CASE ServerAnswers \/ ServerFrame \/ ServerRestart \/ Lose \/ Terminated
      BY <2>4 DEF ServerAnswers, ServerConnect, ServerQuery, ServerDescribe, ServerSetBitstream,
         ServerFrame, ServerRestart, Lose, Terminated, vars, ClientVars
    <2>5. ~(Run \/ User \/ StoreMajor \/ StoreMinor)
      BY DEF SocketInv, Run, RunOpenData, RunOpenCommand, RunStartCommand, RunStartData, RunConnect,
         User, RefreshConfiguration, RequestDescriptions, ShutdownStop, SetNatNetVersion, StoreMajor,
         StoreMinor
    <2> QED
      BY <2>1, <2>2, <2>3, <2>4, <2>5 DEF Next
  <1> QED
    BY <1>1, <1>2, SocketInit, SocketStep, SessionInvariant, PTL DEF Spec, ShutdownNearer

\* The steps from a position of the command thread to its next keep-alive.
KeepDistance ==
    [sendKeepAlive |-> 0, keepAlive |-> 1, infoChange |-> 2, infoMinor |-> 3, infoMajor |-> 4,
     infoTest |-> 5, handle |-> 6, minor |-> 7, major |-> 8, recv |-> 9, top |-> 10]

\* While a unicast session runs, every step of a command thread that goes on brings it
\* nearer to its next keep-alive: at most ten of its steps lie between two of them,
\* whatever packets come or fail to come.
KeepAliveNearer ==
    [][Unicast /\ ~stop /\ cmdPc' # cmdPc /\ cmdPc \notin {"sendKeepAlive", "off"} /\ cmdPc' # "dead"
          => KeepDistance[cmdPc'] < KeepDistance[cmdPc]]_vars

THEOREM KeepAliveIsNear == Spec => KeepAliveNearer
  <1>1. SessionInv /\ [Next]_vars => [Unicast /\ ~stop /\ cmdPc' # cmdPc /\ cmdPc \notin {"sendKeepAlive", "off"}
                           /\ cmdPc' # "dead" => KeepDistance[cmdPc'] < KeepDistance[cmdPc]]_vars
    <2> SUFFICES ASSUME SessionInv, Next, Unicast, ~stop, cmdPc' # cmdPc,
                        cmdPc \notin {"sendKeepAlive", "off"}, cmdPc' # "dead"
                 PROVE  KeepDistance[cmdPc'] < KeepDistance[cmdPc]
      OBVIOUS
    <2>1. CASE CommandThread
      <3>1. \A m \in CommandMoves :
               m[1] # "sendKeepAlive" /\ m[2] # "dead" /\ m # <<"top", "done">>
                  /\ m # <<"keepAlive", "top">> => KeepDistance[m[2]] < KeepDistance[m[1]]
        BY DEF CommandMoves, KeepDistance
      <3> QED
        BY <2>1, <3>1, CommandMove
    <2>2. CASE Run
      BY <2>2 DEF Run, RunOpenData, RunOpenCommand, RunStartCommand, RunStartData, RunConnect,
         cmdVars, SessionInv, ThreadInv
    <2>3. CASE User
      BY <2>3 DEF User, RefreshConfiguration, RequestDescriptions, ShutdownStop, SetNatNetVersion,
         cmdVars
    <2>4. CASE \/ StoreMajor \/ StoreMinor \/ ShutdownCloseCommand \/ ShutdownCloseData
               \/ ShutdownJoinCommand \/ ShutdownJoinData
      BY <2>4 DEF StoreMajor, StoreMinor, ShutdownCloseCommand, ShutdownCloseData,
         ShutdownJoinCommand, ShutdownJoinData, cmdVars
    <2>5. CASE DataThread
      BY <2>5, DataMove
    <2>6. CASE ServerAnswers \/ ServerFrame \/ ServerRestart \/ Lose \/ Terminated
      BY <2>6 DEF ServerAnswers, ServerConnect, ServerQuery, ServerDescribe, ServerSetBitstream,
         ServerFrame, ServerRestart, Lose, Terminated, vars, ClientVars, cmdVars
    <2> QED
      BY <2>1, <2>2, <2>3, <2>4, <2>5, <2>6 DEF Next
  <1> QED
    BY <1>1, SessionInvariant, PTL DEF Spec, KeepAliveNearer

-----------------------------------------------------------------------------
(* Why a thread may end unasked                                             *)

\* The server is the one the session began with and no change is offered yet.
Original == restarts = 0 /\ ~canChange

Carries(m) == m.kind \in {"SERVERINFO", "BITSTREAM", "MODELDEF", "FRAMEOFDATA"}

\* Every packet is in the version of that server; the data socket gets frames alone.
PacketInv ==
    /\ \A m \in dataIn \cup {dataMsg} : m.kind \in {"FRAMEOFDATA", "NONE"}
    /\ Original => \A m \in cmdIn \cup dataIn \cup {cmdMsg, dataMsg} :
                      Carries(m) => m.ver = serverVer

\* The command thread itself stores the version, so what it read of it is still current.
CmdReadInv ==
    Original => /\ cmdPc \in {"minor", "handle"} => cmdMajor = reqMajor
                /\ cmdPc = "handle" => cmdMinor = reqMinor
                /\ cmdPc = "infoMinor" => reqMinor = 0

\* The data thread reads each component before or after its store.
DataReadInv ==
    Original => dataMajor \in {0, serverVer[1]} /\ dataMinor \in {0, serverVer[2]}

ReadInv == PacketInv /\ CmdReadInv /\ DataReadInv

LEMMA ReadInit == Init => ReadInv
  BY DEF Init, ReadInv, PacketInv, CmdReadInv, DataReadInv, Original, Carries, NoMsg

\* Which steps change what, one lemma for each part of the session.
LEMMA MainTouches ==
    ASSUME \/ Run \/ User \/ StoreMajor \/ StoreMinor \/ ShutdownCloseCommand
           \/ ShutdownCloseData \/ ShutdownJoinCommand \/ ShutdownJoinData
    PROVE  /\ UNCHANGED <<cmdIn, dataIn, cmdMsg, cmdMajor, cmdMinor, serverVars, canChange>>
           /\ UNCHANGED <<dataMsg, dataMajor, dataMinor>>
           /\ (MainStoring /\ (StoreMajor \/ StoreMinor)) \/ UNCHANGED <<reqMajor, reqMinor>>
           /\ cmdPc' = cmdPc \/ cmdPc' = "top"
  <1> USE DEF mainVars, versionVars, cmdVars, dataVars, netVars, serverVars, MainStoring
  <1>1. CASE Run
    BY <1>1 DEF Run, RunOpenData, RunOpenCommand, RunStartCommand, RunStartData, RunConnect
  <1>2. CASE User
    BY <1>2 DEF User, RefreshConfiguration, RequestDescriptions, SetNatNetVersion, ShutdownStop
  <1>3. CASE StoreMajor \/ StoreMinor
    BY <1>3 DEF StoreMajor, StoreMinor
  <1>4. CASE \/ ShutdownCloseCommand \/ ShutdownCloseData \/ ShutdownJoinCommand
             \/ ShutdownJoinData
    BY <1>4 DEF ShutdownCloseCommand, ShutdownCloseData, ShutdownJoinCommand, ShutdownJoinData
  <1> QED
    BY <1>1, <1>2, <1>3, <1>4

LEMMA CommandTouches ==
    ASSUME SessionInv, CommandThread
    PROVE  /\ UNCHANGED <<dataIn, dataVars, serverVars>>
           /\ cmdIn' \subseteq cmdIn /\ cmdMsg' \in cmdIn \cup {cmdMsg, NoMsg, ZeroBuffer}
           /\ canChange => canChange'
  <1> USE DEF CmdFrame, versionVars
  <1>1. CASE \/ CmdTop \/ CmdReceiveFails \/ (\E m \in cmdIn : CmdReceive(m))
             \/ CmdReadMajor \/ CmdReadMinor
    BY <1>1, RestSubset DEF CmdTop, CmdReceiveFails, CmdReceive, CmdReadMajor, CmdReadMinor
  <1>2. CASE CmdUnpack \/ CmdBitstreamResponse
    BY <1>2 DEF CmdUnpack, CmdBitstreamResponse, CmdFinish
  <1>3. CASE CmdInfoStore \/ CmdInfoTest \/ CmdInfoMajor \/ CmdInfoMinor
    BY <1>3 DEF CmdInfoStore, CmdInfoTest, CmdInfoMajor, CmdInfoMinor, CmdFinish
  <1>4. CASE CmdInfoChange
    BY <1>4 DEF CmdInfoChange, CmdFinish, SessionInv, TypeOK
  <1>5. CASE CmdKeepAliveTest \/ CmdSendKeepAlive
    BY <1>5 DEF CmdKeepAliveTest, CmdSendKeepAlive
  <1> QED
    BY <1>1, <1>2, <1>3, <1>4, <1>5 DEF CommandThread

LEMMA DataTouches ==
    ASSUME DataThread
    PROVE  /\ UNCHANGED <<cmdIn, cmdVars, versionVars, serverVars>>
           /\ dataIn' \subseteq dataIn /\ dataMsg' \in dataIn \cup {dataMsg, NoMsg}
           /\ dataMajor' \in {dataMajor, 0, reqMajor} /\ dataMinor' \in {dataMinor, 0, reqMinor}
  BY RestSubset DEF DataThread, DataTop, DataCall, DataWoken, DataReceive, DataReadMajor,
     DataReadMinor, DataUnpack, DataFrame

LEMMA OutsideTouches ==
    ASSUME SessionInv, ServerAnswers \/ ServerFrame \/ ServerRestart \/ Lose
    PROVE  /\ UNCHANGED <<cmdVars, dataVars, versionVars>>
           /\ Original' => Original /\ UNCHANGED serverVer
           /\ \A m \in dataIn' : m \in dataIn \/ m.kind = "FRAMEOFDATA"
           /\ Original' => \A m \in cmdIn' \cup dataIn' :
                              m \in cmdIn \cup dataIn \/ m = Reply \/ m.ver = serverVer
  <1> USE DEF ClientVars, serverVars, Original, versionVars
  <1>1. CASE ServerConnect \/ ServerQuery \/ ServerDescribe \/ ServerFrame
    <2>1. \A k : Answer(k, serverVer).ver = serverVer /\ Answer(k, serverVer).kind = k
      BY DEF Answer
    <2>2. /\ UNCHANGED <<cmdVars, dataVars, versionVars, serverVer, restarts>>
          /\ \E k : cmdIn' = cmdIn \/ ToCommandSocket(Answer(k, serverVer))
          /\ dataIn' = dataIn \/ dataIn' = Put(dataIn, Answer("FRAMEOFDATA", serverVer), PacketCap)
      BY <1>1 DEF ServerConnect, ServerQuery, ServerDescribe, ServerFrame
    <2>3. \A m \in cmdIn' : m \in cmdIn \/ m.ver = serverVer
      BY <2>1, <2>2, InPut DEF ToCommandSocket
    <2>4. \A m \in dataIn' : m \in dataIn \/ (m.ver = serverVer /\ m.kind = "FRAMEOFDATA")
      BY <2>1, <2>2, InPut
    <2> QED
      BY <2>2, <2>3, <2>4
  <1>2. ASSUME NEW v \in UserVersions, ServerSetBitstream(v)
        PROVE  canChange /\ UNCHANGED <<cmdVars, dataVars, versionVars, dataIn>>
    <2>1. SetBitstream(v) \in toServer /\ SetBitstream(v).kind = "SETBITSTREAM"
      BY <1>2 DEF ServerSetBitstream, SetBitstream
    <2> QED
      BY <1>2, <2>1 DEF ServerSetBitstream, SessionInv, RequestInv
  <1>3. CASE ServerRestart
    BY <1>3 DEF ServerRestart, SessionInv, TypeOK
  <1>4. CASE Lose
    BY <1>4 DEF Lose
  <1> QED
    BY <1>1, <1>2, <1>3, <1>4 DEF ServerAnswers

LEMMA PacketStep == SessionInv /\ PacketInv /\ [Next]_vars => PacketInv'
  <1> SUFFICES ASSUME SessionInv, PacketInv, [Next]_vars PROVE PacketInv'
    OBVIOUS
  <1>0. /\ ~Carries(NoMsg) /\ ~Carries(ZeroBuffer) /\ ~Carries(Reply) /\ NoMsg.kind = "NONE"
    BY DEF Carries, NoMsg, ZeroBuffer, Reply
  <1>1. CASE \/ Run \/ User \/ StoreMajor \/ StoreMinor \/ ShutdownCloseCommand
             \/ ShutdownCloseData \/ ShutdownJoinCommand \/ ShutdownJoinData
    BY <1>1, MainTouches DEF PacketInv, Original, serverVars
  <1>2. CASE CommandThread
    BY <1>0, <1>2, CommandTouches DEF PacketInv, Original, serverVars, dataVars, SessionInv
  <1>3. CASE DataThread
    BY <1>0, <1>3, DataTouches DEF PacketInv, Original, serverVars, versionVars, cmdVars
  <1>4. CASE ServerAnswers \/ ServerFrame \/ ServerRestart \/ Lose
    BY <1>0, <1>4, OutsideTouches DEF PacketInv, dataVars, cmdVars
  <1>5. CASE UNCHANGED vars
    BY <1>5 DEF PacketInv, Original, vars, netVars, cmdVars, dataVars, serverVars, versionVars
  <1> QED
    BY <1>1, <1>2, <1>3, <1>4, <1>5 DEF Next, Terminated

LEMMA CmdReadStep == SessionInv /\ CmdReadInv /\ [Next]_vars => CmdReadInv'
  <1> SUFFICES ASSUME SessionInv, CmdReadInv, [Next]_vars PROVE CmdReadInv'
    OBVIOUS
  <1>1. CASE \/ Run \/ User \/ StoreMajor \/ StoreMinor \/ ShutdownCloseCommand
             \/ ShutdownCloseData \/ ShutdownJoinCommand \/ ShutdownJoinData
    <2>1. MainStoring => canChange
      BY DEF SessionInv, StoreInv
    <2> QED
      BY <1>1, <2>1, MainTouches DEF CmdReadInv, Original, serverVars
  <1>2. CASE CommandThread
    <2>0. UNCHANGED restarts /\ (canChange => canChange')
      BY <1>2, CommandTouches DEF serverVars, SessionInv
    <2>1. CASE \/ CmdTop \/ CmdReceiveFails \/ (\E m \in cmdIn : CmdReceive(m))
               \/ CmdUnpack \/ CmdBitstreamResponse \/ CmdInfoStore \/ CmdInfoTest
               \/ CmdInfoMinor \/ CmdInfoChange \/ CmdKeepAliveTest \/ CmdSendKeepAlive
      <3>1. cmdPc' \notin {"minor", "handle", "infoMinor"}
        BY <2>1 DEF CmdTop, CmdReceiveFails, CmdReceive, CmdUnpack, CmdBitstreamResponse,
           CmdInfoStore, CmdInfoTest, CmdInfoMinor, CmdInfoChange, CmdKeepAliveTest,
           CmdSendKeepAlive, CmdFinish
      <3> QED
        BY <3>1 DEF CmdReadInv
    <2>2. CASE CmdReadMajor
      BY <2>0, <2>2 DEF CmdReadMajor, CmdReadInv, versionVars
    <2>3. CASE CmdReadMinor
      BY <2>0, <2>3 DEF CmdReadMinor, CmdReadInv, versionVars, Original
    <2>4. CASE CmdInfoMajor
      BY <2>4 DEF CmdInfoMajor, CmdReadInv, SessionInv, StoreInv
    <2> QED
      BY <1>2, <2>1, <2>2, <2>3, <2>4 DEF CommandThread
  <1>3. CASE DataThread
    BY <1>3, DataTouches DEF CmdReadInv, Original, serverVars, versionVars, cmdVars
  <1>4. CASE ServerAnswers \/ ServerFrame \/ ServerRestart \/ Lose
    BY <1>4, OutsideTouches DEF CmdReadInv, cmdVars, versionVars
  <1>5. CASE UNCHANGED vars
    BY <1>5 DEF CmdReadInv, Original, vars, cmdVars, serverVars, versionVars
  <1> QED
    BY <1>1, <1>2, <1>3, <1>4, <1>5 DEF Next, Terminated

\* What a thread can read of the version while the session's first server runs.
LEMMA ReadableVersion ==
    ASSUME SessionInv, AgreementInv, CmdReadInv, Original
    PROVE  /\ reqMajor \in {0, serverVer[1]} /\ reqMinor \in {0, serverVer[2]}
           /\ cmdPc = "handle" => \/ cmdMajor = 0 /\ cmdMinor = 0
                                  \/ cmdMajor = serverVer[1] /\ cmdMinor = serverVer[2]
  <1>1. reqMajor = 0 => reqMinor = 0
    BY DEF SessionInv, StoreInv
  <1>2. CASE cmdPc = "infoMinor"
    <2>1. reqMinor = 0 /\ reqMajor = streamVersion[1] /\ serverVersionSet
      BY <1>2 DEF CmdReadInv, SessionInv, StoreInv, CmdStoring
    <2>2. streamVersion = serverVer
      BY <1>2, <2>1 DEF AgreementInv, Original
    <2> QED
      BY <1>2, <2>1, <2>2
  <1>3. CASE cmdPc # "infoMinor"
    <2>1. reqMajor # 0 => <<reqMajor, reqMinor>> = serverVer
      BY <1>3 DEF AgreementInv, Original
    <2> QED
      BY <1>1, <2>1 DEF CmdReadInv
  <1> QED
    BY <1>2, <1>3

LEMMA DataReadStep ==
    SessionInv /\ AgreementInv /\ CmdReadInv /\ DataReadInv /\ [Next]_vars => DataReadInv'
  <1> SUFFICES ASSUME SessionInv, AgreementInv, CmdReadInv, DataReadInv, [Next]_vars
               PROVE  DataReadInv'
    OBVIOUS
  <1>1. CASE \/ Run \/ User \/ StoreMajor \/ StoreMinor \/ ShutdownCloseCommand
             \/ ShutdownCloseData \/ ShutdownJoinCommand \/ ShutdownJoinData
    BY <1>1, MainTouches DEF DataReadInv, Original, serverVars
  <1>2. CASE CommandThread
    BY <1>2, CommandTouches DEF DataReadInv, Original, serverVars, dataVars, SessionInv
  <1>3. CASE DataThread
    BY <1>3, DataTouches, ReadableVersion DEF DataReadInv, Original, serverVars, versionVars
  <1>4. CASE ServerAnswers \/ ServerFrame \/ ServerRestart \/ Lose
    BY <1>4, OutsideTouches DEF DataReadInv, dataVars
  <1>5. CASE UNCHANGED vars
    BY <1>5 DEF DataReadInv, Original, vars, dataVars, serverVars, versionVars
  <1> QED
    BY <1>1, <1>2, <1>3, <1>4, <1>5 DEF Next, Terminated

LEMMA AgreementInvariant == Spec => []AgreementInv
  <1>1. AgreementInv /\ SessionInv /\ [Next]_vars => AgreementInv'
    BY AgreementStep
  <1> QED
    BY AgreementInit, <1>1, SessionInvariant, PTL DEF Spec

LEMMA SocketInvariant == Spec => []SocketInv
  <1>1. SocketInv /\ SessionInv /\ [Next]_vars => SocketInv'
    BY SocketStep
  <1> QED
    BY SocketInit, <1>1, SessionInvariant, PTL DEF Spec

LEMMA ReadInvariant == Spec => []ReadInv
  <1>1. ReadInv /\ SessionInv /\ AgreementInv /\ [Next]_vars => ReadInv'
    BY PacketStep, CmdReadStep, DataReadStep DEF ReadInv
  <1> QED
    BY ReadInit, <1>1, SessionInvariant, AgreementInvariant, PTL DEF Spec

\* The packets that the decoder does not take even with the version they were
\* written in.
Unsupported(m) ==
    \/ m.kind = "FRAMEOFDATA" /\ ~FrameSupported(m.ver)
    \/ m.kind = "MODELDEF" /\ ~DescriptionSupported(m.ver)

\* Any other packet that is read with the version it was written in is readable.
LEMMA SameVersionReadable ==
    ASSUME NEW m, m.kind # "BITSTREAM", ~Unsupported(m)
    PROVE  Readable(m, m.ver[1], m.ver[2])
  BY DEF Readable, Unsupported

\* How a thread ends that no one has told to stop, while the sockets are open.
LEMMA CommandEnds ==
    ASSUME CommandThread, ~stop, cmdSock = "open", cmdPc' \in {"done", "dead"}, cmdPc' # cmdPc
    PROVE  /\ cmdPc = "handle" /\ ~Readable(cmdMsg, cmdMajor, cmdMinor)
           /\ cmdMsg.kind \in {"FRAMEOFDATA", "MODELDEF", "BITSTREAM"}
  <1>1. CASE CmdUnpack \/ CmdBitstreamResponse
    BY <1>1 DEF CmdUnpack, CmdBitstreamResponse, CmdFinish, MayRaise, Readable
  <1>2. CASE \/ CmdTop \/ CmdReceiveFails \/ (\E m \in cmdIn : CmdReceive(m))
             \/ CmdReadMajor \/ CmdReadMinor \/ CmdInfoStore \/ CmdInfoTest
             \/ CmdInfoMajor \/ CmdInfoMinor \/ CmdInfoChange \/ CmdKeepAliveTest
             \/ CmdSendKeepAlive
    BY <1>2 DEF CmdTop, CmdReceiveFails, CmdReceive, CmdReadMajor, CmdReadMinor, CmdInfoStore,
       CmdInfoTest, CmdInfoMajor, CmdInfoMinor, CmdInfoChange, CmdKeepAliveTest,
       CmdSendKeepAlive, CmdFinish
  <1> QED
    BY <1>1, <1>2 DEF CommandThread

LEMMA DataEnds ==
    ASSUME DataThread, ~stop, dataSock = "open", dataPc' \in {"done", "dead"}, dataPc' # dataPc
    PROVE  dataPc = "handle" /\ ~Readable(dataMsg, dataMajor, dataMinor)
  BY DEF DataThread, DataTop, DataCall, DataWoken, DataReceive, DataReadMajor, DataReadMinor,
     DataUnpack, AfterDataError, MayRaise

\* Until a change of the version is offered, and as long as the server runs, a thread
\* of the session ends unasked for the causes ThreadsEndForCause names alone.
THEOREM ThreadsEndOnlyForCause == Spec => ThreadsEndForCause
  <1>1. ASSUME SessionInv, AgreementInv, SocketInv, ReadInv, Next, ~stop, Original,
               cmdPc' \in {"done", "dead"}, cmdPc' # cmdPc
        PROVE  /\ cmdPc = "handle"
               /\ \/ cmdMajor = 0 /\ cmdMinor = 0
                  \/ cmdMsg.kind = "BITSTREAM" /\ NulTerminated
                  \/ Unsupported(cmdMsg)
    <2>1. CommandThread
      <3>1. ~(Run \/ User \/ StoreMajor \/ StoreMinor \/ ShutdownCloseCommand
                 \/ ShutdownCloseData \/ ShutdownJoinCommand \/ ShutdownJoinData)
        BY <1>1, MainTouches
      <3>2. ~(DataThread \/ ServerAnswers \/ ServerFrame \/ ServerRestart \/ Lose \/ Terminated)
        BY <1>1, DataTouches, OutsideTouches DEF cmdVars, Terminated, vars
      <3> QED
        BY <1>1, <3>1, <3>2 DEF Next
    <2>2. cmdSock = "open"
      <3>1. cmdPc # "off"
        BY <2>1, CommandMove DEF CommandMoves
      <3> QED
        BY <1>1, <3>1 DEF SocketInv, SessionInv, TypeOK
    <2>3. /\ cmdPc = "handle" /\ ~Readable(cmdMsg, cmdMajor, cmdMinor)
          /\ cmdMsg.kind \in {"FRAMEOFDATA", "MODELDEF", "BITSTREAM"}
      BY <1>1, <2>1, <2>2, CommandEnds
    <2>4. cmdMsg.ver = serverVer
      BY <1>1, <2>3 DEF ReadInv, PacketInv, Carries
    <2>5. CASE cmdMsg.kind = "BITSTREAM"
      BY <2>3, <2>5 DEF Readable
    <2>6. CASE cmdMsg.kind # "BITSTREAM"
      BY <1>1, <2>3, <2>4, <2>6, ReadableVersion, SameVersionReadable DEF ReadInv
    <2> QED
      BY <2>3, <2>5, <2>6
  <1>2. ASSUME SessionInv, AgreementInv, SocketInv, ReadInv, Next, ~stop, Original,
               dataPc' \in {"done", "dead"}, dataPc' # dataPc
        PROVE  /\ dataPc = "handle"
               /\ \/ dataMajor = 0 \/ (dataMajor = serverVer[1] /\ dataMinor = 0)
                  \/ ~FrameSupported(dataMsg.ver)
    <2>1. DataThread
      <3>1. ~(RunOpenData \/ RunOpenCommand \/ RunStartCommand \/ RunStartData \/ RunConnect)
        BY <1>2 DEF RunOpenData, RunOpenCommand, RunStartCommand, RunStartData, RunConnect, dataVars
      <3>2. ~(User \/ StoreMajor \/ StoreMinor)
        BY <1>2 DEF User, RefreshConfiguration, RequestDescriptions, SetNatNetVersion,
           ShutdownStop, StoreMajor, StoreMinor, dataVars
      <3>3. ~(ShutdownCloseCommand \/ ShutdownCloseData \/ ShutdownJoinCommand \/ ShutdownJoinData)
        BY <1>2 DEF ShutdownCloseCommand, ShutdownCloseData, ShutdownJoinCommand,
           ShutdownJoinData, dataVars
      <3>4. ~(CommandThread \/ ServerAnswers \/ ServerFrame \/ ServerRestart \/ Lose \/ Terminated)
        BY <1>2, CommandTouches, OutsideTouches DEF dataVars, Terminated, vars
      <3> QED
        BY <1>2, <3>1, <3>2, <3>3, <3>4 DEF Next, Run
    <2>2. dataSock = "open"
      <3>1. dataPc # "off"
        BY <2>1, DataMove DEF DataMoves
      <3> QED
        BY <1>2, <3>1 DEF SocketInv, SessionInv, TypeOK
    <2>3. dataPc = "handle" /\ ~Readable(dataMsg, dataMajor, dataMinor)
      BY <1>2, <2>1, <2>2, DataEnds
    <2>4. dataMsg.kind = "FRAMEOFDATA"
      <3>1. dataMsg.kind \in {"FRAMEOFDATA", "NONE"}
        BY <1>2 DEF ReadInv, PacketInv
      <3> QED
        BY <2>3, <3>1 DEF Readable
    <2>5. dataMsg.ver = serverVer
      BY <1>2, <2>4 DEF ReadInv, PacketInv, Carries
    <2> QED
      BY <1>2, <2>3, <2>4, <2>5, SameVersionReadable DEF ReadInv, DataReadInv, Unsupported
  <1>3. SessionInv /\ AgreementInv /\ SocketInv /\ ReadInv /\ [Next]_vars
           => [~stop /\ ~canChange /\ restarts = 0
                => /\ cmdPc' \in {"done", "dead"} /\ cmdPc' # cmdPc =>
                        /\ cmdPc = "handle"
                        /\ \/ cmdMajor = 0 /\ cmdMinor = 0
                           \/ cmdMsg.kind = "BITSTREAM" /\ NulTerminated
                           \/ cmdMsg.kind = "FRAMEOFDATA" /\ ~FrameSupported(cmdMsg.ver)
                           \/ cmdMsg.kind = "MODELDEF" /\ ~DescriptionSupported(cmdMsg.ver)
                   /\ dataPc' \in {"done", "dead"} /\ dataPc' # dataPc =>
                        /\ dataPc = "handle"
                        /\ \/ dataMajor = 0 \/ (dataMajor = serverVer[1] /\ dataMinor = 0)
                           \/ ~FrameSupported(dataMsg.ver)]_vars
    BY <1>1, <1>2 DEF Original, Unsupported
  <1> QED
    BY <1>3, SessionInvariant, AgreementInvariant, SocketInvariant, ReadInvariant, PTL
       DEF Spec, ThreadsEndForCause

-----------------------------------------------------------------------------
(* The one NAT_CONNECT                                                      *)

BeforeConnect == mainPc \in {"openData", "openCmd", "startCmd", "startData", "connect"}

\* The request is on its way to a server that does not know the client yet, the
\* announcement on its way back, or taken and not stored yet.
ConnectUnderWay ==
    \/ Connect \in toServer /\ ~registered
    \/ \E m \in cmdIn : m.kind = "SERVERINFO"
    \/ cmdMsg.kind = "SERVERINFO" /\ cmdPc \in {"major", "minor", "handle"}

\* What a server may have sent to a client it does not know.
Unasked == {Answer("BITSTREAM", serverVer), Answer("MODELDEF", serverVer)}

\* Until the request arrives nothing announces the server and its answers leave room in
\* the socket; from the request on it or its answer is under way, or has arrived.
ConnectInv ==
    restarts = 0 =>
        /\ BeforeConnect => toServer = {} /\ ~registered
        /\ ~registered =>
              /\ ~canChange /\ cmdIn \subseteq Unasked /\ cmdMsg.kind # "SERVERINFO"
              /\ cmdPc \notin {"infoTest", "infoMajor", "infoMinor", "infoChange"}
        /\ ~Unreliable /\ PacketCap >= 3 /\ ~BeforeConnect /\ mainPc # "exited" =>
              ConnectUnderWay \/ (appNameSet /\ serverVersionSet) \/ stop \/ cmdPc = "dead"

LEMMA ConnectInit == Init => ConnectInv
  BY DEF Init, ConnectInv, BeforeConnect, NoMsg

\* A socket that holds nothing but what was not asked for has room for the announcement.
LEMMA RoomForAnnouncement ==
    ASSUME cmdIn \subseteq Unasked, PacketCap >= 3, NEW m
    PROVE  Put(cmdIn, m, PacketCap) = cmdIn \cup {m}
  <1> DEFINE a == Answer("BITSTREAM", serverVer)
             b == Answer("MODELDEF", serverVer)
  <1> HIDE DEF a, b
  <1>1. IsFiniteSet({a, b, m}) /\ Cardinality({a, b, m}) <= 3
    <2>1. IsFiniteSet({a}) /\ Cardinality({a}) = 1
      BY FS_Singleton
    <2> DEFINE two == {a} \cup {b}
               three == two \cup {m}
    <2>2. IsFiniteSet(two) /\ Cardinality(two) \in {1, 2}
      BY <2>1, FS_AddElement
    <2> HIDE DEF two
    <2>3. IsFiniteSet(three) /\ Cardinality(three) \in {1, 2, 3}
      BY <2>2, FS_AddElement
    <2>4. three = {a, b, m}
      BY DEF two
    <2> HIDE DEF three
    <2> QED
      BY <2>3, <2>4
  <1>2. cmdIn \cup {m} \subseteq {a, b, m}
    BY DEF Unasked, a, b
  <1>3. Cardinality(cmdIn \cup {m}) \in Nat /\ Cardinality(cmdIn \cup {m}) <= 3
    BY <1>1, <1>2, FS_Subset, FS_CardinalityType
  <1> QED
    BY <1>3, SessionAssumption DEF Put

\* The first request goes out.
LEMMA RoomForConnect == toServer = {} /\ Send(Connect) => toServer' = {Connect}
  <1> DEFINE c == Connect
  <1> HIDE DEF c
  <1>1. Cardinality({c}) = 1
    BY FS_Singleton
  <1>2. {} \cup {c} = {c} /\ 1 <= RequestCap
    BY SessionAssumption
  <1> QED
    BY <1>1, <1>2 DEF Send, Put, c

\* run sends it with its last step.
LEMMA RunConnects == SessionInv /\ ConnectInv /\ Run => ConnectInv'
  <1> SUFFICES ASSUME SessionInv, ConnectInv, Run, restarts = 0 PROVE ConnectInv'
    BY MainTouches DEF ConnectInv, serverVars
  <1>1. /\ UNCHANGED <<cmdIn, cmdMsg, registered, serverVer, restarts, canChange>>
        /\ cmdPc' = cmdPc \/ cmdPc' = "top"
    BY MainTouches DEF serverVars
  <1>2. /\ BeforeConnect /\ UNCHANGED <<appNameSet, serverVersionSet>>
    BY DEF Run, RunOpenData, RunOpenCommand, RunStartCommand, RunStartData, RunConnect,
       BeforeConnect, infoVars
  <1>3. CASE RunConnect
    <2>1. toServer' = {Connect} /\ ~registered
      BY <1>2, <1>3, RoomForConnect DEF RunConnect, ConnectInv
    <2>2. mainPc' = "settle"
      BY <1>3 DEF RunConnect
    <2> QED
      BY <1>1, <2>1, <2>2 DEF ConnectInv, BeforeConnect, ConnectUnderWay, Unasked
  <1>4. CASE ~RunConnect
    <2>1. toServer' = toServer /\ (BeforeConnect' \/ mainPc' = "exited")
      BY <1>4 DEF Run, RunOpenData, RunOpenCommand, RunStartCommand, RunStartData,
         BeforeConnect, netVars
    <2> QED
      BY <1>1, <1>2, <2>1 DEF ConnectInv, Unasked
  <1> QED
    BY <1>3, <1>4

\* What matters of a step of main behind run.
LEMMA MainConnected ==
    ASSUME \/ User \/ StoreMajor \/ StoreMinor \/ ShutdownCloseCommand \/ ShutdownCloseData
           \/ ShutdownJoinCommand \/ ShutdownJoinData
    PROVE  /\ UNCHANGED <<cmdPc, appNameSet, serverVersionSet>>
           /\ toServer \subseteq toServer' /\ (stop => stop')
           /\ ~BeforeConnect /\ ~BeforeConnect' /\ mainPc # "exited"
  <1> USE DEF mainVars, infoVars, cmdVars, netVars, BeforeConnect
  <1>0. \A r : Send(r) => toServer \subseteq toServer'
    BY DEF Send, Put
  <1>1. CASE User
    <2>1. CASE RefreshConfiguration
      BY <1>0, <2>1 DEF RefreshConfiguration
    <2>2. CASE RequestDescriptions
      BY <1>0, <2>2 DEF RequestDescriptions
    <2>3. CASE ShutdownStop
      BY <2>3 DEF ShutdownStop
    <2>4. ASSUME NEW v \in UserVersions, SetNatNetVersion(v)
          PROVE  /\ UNCHANGED <<cmdPc, appNameSet, serverVersionSet>>
                 /\ toServer \subseteq toServer' /\ (stop => stop')
                 /\ ~BeforeConnect /\ ~BeforeConnect' /\ mainPc # "exited"
      BY <1>0, <2>4 DEF SetNatNetVersion
    <2> QED
      BY <1>1, <2>1, <2>2, <2>3, <2>4 DEF User
  <1>2. CASE StoreMajor \/ StoreMinor
    BY <1>2 DEF StoreMajor, StoreMinor
  <1>3. CASE \/ ShutdownCloseCommand \/ ShutdownCloseData \/ ShutdownJoinCommand
             \/ ShutdownJoinData
    BY <1>3 DEF ShutdownCloseCommand, ShutdownCloseData, ShutdownJoinCommand, ShutdownJoinData
  <1> QED
    BY <1>1, <1>2, <1>3

LEMMA MainKeepsConnect ==
    ASSUME SessionInv, ConnectInv,
           \/ User \/ StoreMajor \/ StoreMinor \/ ShutdownCloseCommand \/ ShutdownCloseData
           \/ ShutdownJoinCommand \/ ShutdownJoinData
    PROVE  ConnectInv'
  <1>1. UNCHANGED <<cmdIn, cmdMsg, registered, serverVer, restarts, canChange>>
    BY MainTouches DEF serverVars
  <1>2. /\ UNCHANGED <<cmdPc, appNameSet, serverVersionSet>>
        /\ toServer \subseteq toServer' /\ (stop => stop')
        /\ ~BeforeConnect /\ ~BeforeConnect' /\ mainPc # "exited"
    BY MainConnected
  <1>3. ConnectUnderWay => ConnectUnderWay'
    BY <1>1, <1>2 DEF ConnectUnderWay
  <1> QED
    BY <1>1, <1>2, <1>3 DEF ConnectInv, Unasked

\* The command thread takes the announcement and stores it, or dies on something else.
LEMMA CommandKeepsConnect == SessionInv /\ ConnectInv /\ CommandThread => ConnectInv'
  <1> SUFFICES ASSUME SessionInv, ConnectInv, CommandThread, restarts = 0 PROVE ConnectInv'
    BY CommandTouches DEF ConnectInv, serverVars
  <1>1. /\ UNCHANGED <<registered, serverVer, restarts, mainPc, stop, toServer>>
        /\ cmdIn' \subseteq cmdIn /\ cmdMsg' \in cmdIn \cup {cmdMsg, NoMsg, ZeroBuffer}
    <2>1. UNCHANGED <<mainPc, stop, toServer>>
      BY DEF CommandThread, CmdTop, CmdReceiveFails, CmdReceive, CmdReadMajor, CmdReadMinor,
         CmdUnpack, CmdBitstreamResponse, CmdInfoStore, CmdInfoTest, CmdInfoMajor, CmdInfoMinor,
         CmdInfoChange, CmdKeepAliveTest, CmdSendKeepAlive, CmdFrame, mainVars
    <2> QED
      BY <2>1, CommandTouches DEF serverVars
  <1>2. ASSUME ~registered
        PROVE  /\ ~canChange' /\ cmdMsg'.kind # "SERVERINFO"
               /\ cmdPc' \notin {"infoTest", "infoMajor", "infoMinor", "infoChange"}
    <2>1. /\ ~canChange /\ cmdIn \subseteq Unasked /\ cmdMsg.kind # "SERVERINFO"
          /\ cmdPc \notin {"infoTest", "infoMajor", "infoMinor", "infoChange"}
      BY <1>2 DEF ConnectInv
    <2>2. cmdMsg'.kind # "SERVERINFO"
      BY <1>1, <2>1 DEF Unasked, Answer, NoMsg, ZeroBuffer
    <2>3. ~(CmdInfoStore \/ CmdInfoTest \/ CmdInfoMajor \/ CmdInfoMinor \/ CmdInfoChange)
      BY <2>1 DEF CmdInfoStore, CmdInfoTest, CmdInfoMajor, CmdInfoMinor, CmdInfoChange
    <2>4. UNCHANGED canChange
          /\ cmdPc' \notin {"infoTest", "infoMajor", "infoMinor", "infoChange"}
      BY <2>3 DEF CommandThread, CmdTop, CmdReceiveFails, CmdReceive, CmdReadMajor, CmdReadMinor,
         CmdUnpack, CmdBitstreamResponse, CmdKeepAliveTest, CmdSendKeepAlive, CmdFinish, versionVars
    <2> QED
      BY <2>1, <2>2, <2>4
  <1>3. ASSUME ConnectUnderWay \/ (appNameSet /\ serverVersionSet)
        PROVE  ConnectUnderWay' \/ (appNameSet' /\ serverVersionSet')
    <2>1. CASE CmdInfoStore
      BY <2>1 DEF CmdInfoStore
    <2>2. CASE \E m \in cmdIn : CmdReceive(m)
      <3>1. PICK m \in cmdIn : CmdReceive(m)
        BY <2>2
      <3>2. /\ cmdPc = "recv" /\ cmdPc' = "major" /\ cmdMsg' = m
            /\ cmdIn \subseteq cmdIn' \cup {m} /\ UNCHANGED <<appNameSet, serverVersionSet>>
        BY <3>1 DEF CmdReceive, Rest, infoVars
      <3> QED
        BY <1>1, <1>3, <3>2 DEF ConnectUnderWay
    <2>3. CASE CmdReadMajor \/ CmdReadMinor
      BY <1>1, <1>3, <2>3 DEF CmdReadMajor, CmdReadMinor, ConnectUnderWay, infoVars
    <2>4. CASE CmdUnpack \/ CmdBitstreamResponse
      BY <1>1, <1>3, <2>4 DEF CmdUnpack, CmdBitstreamResponse, ConnectUnderWay, infoVars
    <2>5. CASE \/ CmdTop \/ CmdReceiveFails \/ CmdInfoTest \/ CmdInfoMajor \/ CmdInfoMinor
               \/ CmdInfoChange \/ CmdKeepAliveTest \/ CmdSendKeepAlive
      <3>1. /\ cmdPc \notin {"major", "minor", "handle"}
            /\ UNCHANGED <<cmdIn, appNameSet, serverVersionSet>>
        BY <2>5 DEF CmdTop, CmdReceiveFails, CmdInfoTest, CmdInfoMajor, CmdInfoMinor,
           CmdInfoChange, CmdKeepAliveTest, CmdSendKeepAlive, infoVars
      <3> QED
        BY <1>1, <1>3, <3>1 DEF ConnectUnderWay
    <2> QED
      BY <2>1, <2>2, <2>3, <2>4, <2>5 DEF CommandThread
  <1>4. cmdPc # "dead"
    BY CommandMove DEF CommandMoves
  <1> QED
    BY <1>1, <1>2, <1>3, <1>4 DEF ConnectInv, BeforeConnect, Unasked

LEMMA DataKeepsConnect == ConnectInv /\ DataThread => ConnectInv'
  <1> SUFFICES ASSUME ConnectInv, DataThread PROVE ConnectInv'
    OBVIOUS
  <1>1. UNCHANGED <<mainVars, infoVars, canChange, cmdVars, toServer, cmdIn, serverVars>>
    BY DEF DataThread, DataTop, DataCall, DataWoken, DataReceive, DataReadMajor, DataReadMinor,
       DataUnpack, DataFrame, versionVars
  <1> QED
    BY <1>1 DEF ConnectInv, BeforeConnect, ConnectUnderWay, Unasked, mainVars, infoVars, cmdVars,
       serverVars

\* What the server answers to anything but the request to connect.
LEMMA ServerAside ==
    ASSUME SessionInv, ConnectInv, restarts = 0,
           ServerQuery \/ ServerDescribe \/ (\E v \in UserVersions : ServerSetBitstream(v))
             \/ ServerFrame
    PROVE  /\ UNCHANGED <<ClientVars, registered, restarts>> /\ cmdIn \subseteq cmdIn'
           /\ ~registered => cmdIn' \subseteq Unasked /\ UNCHANGED serverVer
           /\ toServer' \subseteq toServer
           /\ ~Unreliable /\ Connect \in toServer => Connect \in toServer'
  <1>0. \A m : ToCommandSocket(m) => cmdIn \subseteq cmdIn' /\ cmdIn' \subseteq cmdIn \cup {m}
    BY DEF ToCommandSocket, Put
  <1>1. \A r : toServer' \in Rest(toServer, r) /\ r # Connect =>
            /\ toServer' \subseteq toServer
            /\ ~Unreliable /\ Connect \in toServer => Connect \in toServer'
    BY SessionAssumption DEF Rest
  <1>2. ~registered => cmdIn \subseteq Unasked /\ ~canChange
    BY DEF ConnectInv
  <1>3. CASE ServerQuery
    BY <1>0, <1>1, <1>2, <1>3 DEF ServerQuery, Query, Connect, Unasked, serverVars
  <1>4. CASE ServerDescribe
    BY <1>0, <1>1, <1>2, <1>4 DEF ServerDescribe, Describe, Connect, Unasked, serverVars
  <1>5. CASE \E v \in UserVersions : ServerSetBitstream(v)
    <2>1. PICK v \in UserVersions : ServerSetBitstream(v)
      BY <1>5
    <2>2. registered
      BY <1>2, <2>1 DEF ServerSetBitstream, SetBitstream, SessionInv, RequestInv
    <2>3. SetBitstream(v) # Connect
      BY DEF SetBitstream, Connect
    <2> QED
      BY <1>0, <1>1, <2>1, <2>2, <2>3 DEF ServerSetBitstream
  <1>6. CASE ServerFrame
    <2>1. UNCHANGED <<ClientVars, serverVars, toServer>>
      BY <1>6 DEF ServerFrame
    <2>2. cmdIn' = cmdIn \/ (registered /\ ToCommandSocket(Answer("FRAMEOFDATA", serverVer)))
      BY <1>6 DEF ServerFrame
    <2> QED
      BY <1>0, <1>2, <2>1, <2>2 DEF serverVars
  <1> QED
    BY <1>3, <1>4, <1>5, <1>6

\* The server takes the request: its announcement finds room in an open socket.
LEMMA ServerAnnounces ==
    ASSUME SessionInv, SocketInv, ConnectInv, restarts = 0, ServerConnect
    PROVE  ConnectInv'
  <1> DEFINE info == Answer("SERVERINFO", serverVer)
  <1>1. /\ UNCHANGED <<ClientVars, serverVer, restarts>> /\ registered' = TRUE
        /\ Connect \in toServer /\ ToCommandSocket(info)
    BY DEF ServerConnect
  <1>2. ~BeforeConnect
    BY <1>1 DEF ConnectInv
  <1>3. cmdIn \subseteq cmdIn'
    BY <1>1 DEF ToCommandSocket, Put
  <1>4. ASSUME ~Unreliable, PacketCap >= 3, mainPc # "exited"
        PROVE  ConnectUnderWay' \/ (appNameSet /\ serverVersionSet) \/ stop \/ cmdPc = "dead"
    <2>1. CASE registered
      <3>1. ConnectUnderWay \/ (appNameSet /\ serverVersionSet) \/ stop \/ cmdPc = "dead"
        BY <1>2, <1>4 DEF ConnectInv
      <3> QED
        BY <1>1, <1>3, <2>1, <3>1 DEF ConnectUnderWay, ClientVars, cmdVars
    <2>2. CASE ~registered /\ cmdSock = "open"
      <3>1. cmdIn \subseteq Unasked
        BY <2>2 DEF ConnectInv
      <3>2. cmdIn' = cmdIn \cup {info}
        BY <1>1, <1>4, <2>2, <3>1, RoomForAnnouncement DEF ToCommandSocket
      <3>3. info \in cmdIn' /\ info.kind = "SERVERINFO"
        BY <3>2 DEF Answer
      <3> HIDE DEF info
      <3> QED
        BY <3>3 DEF ConnectUnderWay
    <2>3. CASE cmdSock # "open"
      <3>1. cmdSock = "closed"
        BY <1>2, <1>4, <2>3 DEF SocketInv, BeforeConnect, SessionInv, TypeOK
      <3> QED
        BY <3>1 DEF SocketInv
    <2> QED
      BY <2>1, <2>2, <2>3
  <1>5. UNCHANGED <<mainPc, stop, appNameSet, serverVersionSet, cmdPc>>
    BY <1>1 DEF ClientVars, mainVars, infoVars, cmdVars
  <1> QED
    BY <1>1, <1>2, <1>4, <1>5 DEF ConnectInv, BeforeConnect

LEMMA OutsideKeepsConnect ==
    ASSUME SessionInv, SocketInv, ConnectInv, ServerAnswers \/ ServerFrame \/ ServerRestart \/ Lose
    PROVE  ConnectInv'
  <1> SUFFICES ASSUME restarts' = 0 PROVE ConnectInv'
    BY DEF ConnectInv
  <1>1. CASE ServerRestart
    BY <1>1 DEF ServerRestart, SessionInv, TypeOK
  <1>2. CASE Lose
    <2>1. /\ UNCHANGED <<ClientVars, serverVars>> /\ Unreliable
          /\ cmdIn' \subseteq cmdIn /\ toServer' \subseteq toServer
      BY <1>2 DEF Lose
    <2> QED
      BY <2>1 DEF ConnectInv, BeforeConnect, Unasked, ClientVars, mainVars, cmdVars, versionVars,
         serverVars
  <1>3. CASE ServerConnect
    BY <1>3, ServerAnnounces DEF ServerConnect
  <1>4. CASE ServerQuery \/ ServerDescribe \/ (\E v \in UserVersions : ServerSetBitstream(v))
               \/ ServerFrame
    <2>1. restarts = 0
      BY <1>4 DEF ServerQuery, ServerDescribe, ServerSetBitstream, ServerFrame, serverVars
    <2>2. /\ UNCHANGED <<ClientVars, registered, restarts>> /\ cmdIn \subseteq cmdIn'
          /\ ~registered => cmdIn' \subseteq Unasked /\ UNCHANGED serverVer
          /\ toServer' \subseteq toServer
          /\ ~Unreliable /\ Connect \in toServer => Connect \in toServer'
      BY <1>4, <2>1, ServerAside
    <2>3. UNCHANGED <<mainPc, stop, appNameSet, serverVersionSet, cmdPc, cmdMsg, canChange>>
      BY <2>2 DEF ClientVars, mainVars, infoVars, cmdVars, versionVars
    <2>4. ~Unreliable /\ ConnectUnderWay => ConnectUnderWay'
      BY <2>2, <2>3 DEF ConnectUnderWay
    <2>5. ~registered' => cmdIn' \subseteq Unasked'
      BY <2>2 DEF Unasked
    <2> QED
      BY <2>1, <2>2, <2>3, <2>4, <2>5 DEF ConnectInv, BeforeConnect
  <1> QED
    BY <1>1, <1>2, <1>3, <1>4 DEF ServerAnswers

LEMMA ConnectStep == SessionInv /\ SocketInv /\ ConnectInv /\ [Next]_vars => ConnectInv'
  <1> SUFFICES ASSUME SessionInv, SocketInv, ConnectInv, [Next]_vars PROVE ConnectInv'
    OBVIOUS
  <1>1. CASE UNCHANGED vars
    BY <1>1 DEF ConnectInv, BeforeConnect, ConnectUnderWay, Unasked, vars, mainVars, infoVars,
       versionVars, cmdVars, netVars, serverVars
  <1>2. CASE Run
    BY <1>2, RunConnects
  <1>3. CASE \/ User \/ StoreMajor \/ StoreMinor \/ ShutdownCloseCommand \/ ShutdownCloseData
             \/ ShutdownJoinCommand \/ ShutdownJoinData
    BY <1>3, MainKeepsConnect
  <1>4. CASE CommandThread
    BY <1>4, CommandKeepsConnect
  <1>5. CASE DataThread
    BY <1>5, DataKeepsConnect
  <1>6. CASE ServerAnswers \/ ServerFrame \/ ServerRestart \/ Lose
    BY <1>6, OutsideKeepsConnect
  <1>7. CASE Terminated
    BY <1>1, <1>7 DEF Terminated
  <1> QED
    BY <1>1, <1>2, <1>3, <1>4, <1>5, <1>6, <1>7 DEF Next

LEMMA ConnectInvariant == Spec => []ConnectInv
  <1> QED
    BY SessionInvariant, SocketInvariant, ConnectInit, ConnectStep, PTL DEF Spec

\* The client sends one NAT_CONNECT and never repeats it.  With a network that keeps its
\* datagrams and a server that stays up, a running session whose command thread lives is
\* connected or still owed the answer: the announcement is never dropped for want of room,
\* whatever the server sent before it.  GetsConnected adds that the answer comes.
ConnectionOwed ==
    restarts = 0 /\ ~Unreliable /\ PacketCap >= 3
      /\ mainPc \in {"settle", "idle", "storeMajor", "storeMinor"} /\ cmdPc # "dead"
        => ConnectUnderWay \/ Connected

THEOREM ConnectionIsOwed == Spec => []ConnectionOwed
  <1>1. SocketInv /\ ConnectInv => ConnectionOwed
    BY DEF SocketInv, ConnectInv, BeforeConnect, ConnectionOwed, Connected
  <1> QED
    BY <1>1, SocketInvariant, ConnectInvariant, PTL
==============================================================================
