------------------------ MODULE ServerDiscoveryProofs ------------------------
(***************************************************************************)
(* Safety of the search for servers, for every set of servers and number   *)
(* of keys: DiscoveryInv is inductive, so a key names the server printed   *)
(* beside it, the pointers of the first connection serve every later one,  *)
(* and what is connected for a key is the server beside it unless an append*)
(* moved the vector meanwhile.  The way from a key to the connection is bounded.     *)
(***************************************************************************)
EXTENDS ServerDiscovery, FiniteSetTheorems, TLAPS

USE ServersAssumption

\* What appending to a sequence does.
LEMMA AppendFacts ==
    ASSUME NEW S, NEW q \in Seq(S), NEW e \in S
    PROVE  /\ Append(q, e) \in Seq(S)
           /\ Len(Append(q, e)) = Len(q) + 1 /\ Len(q) \in Nat
           /\ \A i \in 1..Len(q) : Append(q, e)[i] = q[i]
           /\ Append(q, e)[Len(q) + 1] = e
  OBVIOUS

LEMMA EmptyFacts == /\ Len(<<>>) = 0 /\ 1..Len(<<>>) = {}
                    /\ <<>> \in Seq(Servers) /\ <<>> \in Seq(Labels)
  OBVIOUS

LEMMA ElementFacts ==
    ASSUME NEW S, NEW q \in Seq(S)
    PROVE  Len(q) \in Nat /\ \A i \in 1..Len(q) : q[i] \in S
  OBVIOUS

\* A key that chooses has a number.
LEMMA KeyFacts ==
    ASSUME NEW k \in Keys \cup {NoKey}
    PROVE  k.kind = "choose" => k.n \in 1..HotkeyCount
  BY DEF Keys, NoKey, Key

\* What a pointer leads to is a server or nothing.
LEMMA AtFacts ==
    ASSUME TypeOK, NEW p \in Pointers
    PROVE  At(p) \subseteq Servers \cup {Nowhere}
  <1>1. CASE p.block = block /\ p.index <= Len(found)
    <2>1. p.index \in 1..Len(found)
      <3>1. p # NoPointer
        BY <1>1 DEF TypeOK, NoPointer
      <3>2. p.index \in 1..HotkeyCount
        BY <3>1 DEF Pointers
      <3> QED
        BY <1>1, <3>2, ElementFacts DEF TypeOK
    <2>2. At(p) = {found[p.index]}
      BY <1>1 DEF At
    <2> QED
      BY <2>1, <2>2, ElementFacts DEF TypeOK
  <1>2. CASE ~(p.block = block /\ p.index <= Len(found))
    BY <1>2 DEF At
  <1> QED
    BY <1>1, <1>2

\* A pointer to an element of the vector leads to it.
LEMMA AtElement ==
    ASSUME NEW p, NEW i, p = [block |-> block, index |-> i], i <= Len(found)
    PROVE  At(p) = {found[i]}
  BY DEF At

LEMMA InvInit == Init => DiscoveryInv
  <1> SUFFICES ASSUME Init PROVE DiscoveryInv
    OBVIOUS
  <1>1. NoPointer \in Pointers /\ NoKey \in Keys \cup {NoKey}
    BY DEF Pointers
  <1>2. params \in [multicast : BOOLEAN, group : Servers \cup {None, Nowhere},
                     address : Pointers]
    BY <1>1 DEF Init
  <1>3. /\ found \in Seq(Servers) /\ label \in Seq(Labels) /\ room \in Nat
        /\ block \in Nat \ {0} /\ digit \in 0..HotkeyCount
    BY EmptyFacts DEF Init
  <1>4. TypeOK
    BY <1>1, <1>2, <1>3 DEF Init, TypeOK
  <1>5. VectorInv /\ ChoiceInv
    BY EmptyFacts DEF Init, VectorInv, ChoiceInv
  <1> QED
    BY <1>4, <1>5 DEF DiscoveryInv

-----------------------------------------------------------------------------
(* Types                                                                    *)

\* The keys beside the servers.
LEMMA LabelAppended ==
    ASSUME TypeOK, NEW s \in Servers
    PROVE  [key |-> Hotkey, server |-> s] \in Labels
  <1>1. Hotkey \in 0..HotkeyCount
    <2>1. Len(found) \in Nat
      BY ElementFacts DEF TypeOK
    <2> QED
      BY <2>1 DEF Hotkey
  <1> QED
    BY <1>1 DEF Labels

\* The server that is appended is the one printed last.
LEMMA AppendedFacts ==
    ASSUME TypeOK, VectorInv, callback = "append"
    PROVE  /\ label[Len(label)].server \in Servers
           /\ Len(label) = Len(found) + 1 /\ Len(found) \in Nat
           /\ Appended \in Seq(Servers)
           /\ Len(Appended) = Len(found) + 1
           /\ \A i \in 1..Len(found) : Appended[i] = found[i]
           /\ Appended[Len(found) + 1] = label[Len(label)].server
  <1>1. Len(label) = Len(found) + 1 /\ Len(found) \in Nat
    BY ElementFacts DEF VectorInv, TypeOK
  <1>2. label[Len(label)] \in Labels
    BY <1>1, ElementFacts DEF TypeOK
  <1>3. label[Len(label)].server \in Servers
    BY <1>2 DEF Labels
  <1> QED
    BY <1>1, <1>3, AppendFacts DEF Appended, TypeOK

LEMMA LabelledType ==
    ASSUME TypeOK, NEW n
    PROVE  Labelled(n) \in Servers \cup {None}
  <1>1. CASE \E i \in 1..Len(label) : label[i].key = n
    <2> DEFINE c == CHOOSE i \in 1..Len(label) : label[i].key = n
    <2>1. c \in 1..Len(label)
      BY <1>1
    <2>2. label[c] \in Labels
      BY <2>1, ElementFacts DEF TypeOK
    <2>3. Labelled(n) = label[c].server
      BY <1>1 DEF Labelled
    <2> QED
      BY <2>2, <2>3 DEF Labels
  <1>2. CASE ~\E i \in 1..Len(label) : label[i].key = n
    BY <1>2 DEF Labelled
  <1> QED
    BY <1>1, <1>2

LEMMA TypeStep ==
    ASSUME DiscoveryInv, [Next]_vars
    PROVE  TypeOK'
  <1> USE DEF TypeOK
  <1>t. TypeOK /\ VectorInv /\ ChoiceInv
    BY DEF DiscoveryInv
  <1>1. ASSUME NEW s \in Servers, AnnounceServer(s) PROVE TypeOK'
    <2>1. label' \in Seq(Labels)
      BY <1>t, <1>1, LabelAppended, AppendFacts DEF AnnounceServer
    <2> QED
      BY <1>t, <1>1, <2>1 DEF AnnounceServer, CallbackFrame, mainVars, linkVars, ttyVars
  <1>2. CASE AppendInPlace \/ AppendMoves
    <2>1. found' \in Seq(Servers)
      BY <1>t, <1>2, AppendedFacts DEF AppendInPlace, AppendMoves
    <2>2. room' \in Nat /\ block' \in Nat \ {0} /\ disturbed' \in BOOLEAN
      <3>1. CASE AppendInPlace
        BY <1>t, <3>1 DEF AppendInPlace
      <3>2. CASE AppendMoves
        <4>1. room' \in Nat /\ block' \in Nat \ {0}
          BY <1>t, <3>2 DEF AppendMoves
        <4>2. disturbed' \in BOOLEAN
          BY <1>t, <3>2 DEF AppendMoves
        <4> QED
          BY <4>1, <4>2
      <3> QED
        BY <1>2, <3>1, <3>2
    <2> QED
      BY <1>t, <1>2, <2>1, <2>2
      DEF AppendInPlace, AppendMoves, CallbackFrame, mainVars, linkVars, ttyVars
  <1>3. CASE AppendBegins \/ AppendEnds
    BY <1>t, <1>3 DEF AppendBegins, AppendEnds, CallbackFrame, mainVars, linkVars, ttyVars
  <1>4. CASE SearchGetch
    BY <1>t, <1>4 DEF SearchGetch, vectorVars, linkVars
  <1>5. CASE SearchKey
    <2>1. digit' \in 0..HotkeyCount
      BY <1>t, <1>5, KeyFacts DEF SearchKey
    <2> QED
      BY <1>t, <1>5, <2>1 DEF SearchKey, ReadKey, vectorVars, linkVars
  <1>6. CASE TestSize
    BY <1>t, <1>6 DEF TestSize, Moving, vectorVars, linkVars, ttyVars
  <1>7. CASE TakeElement
    <2>1. Begin \in Nat /\ digit \in 1..HotkeyCount
      BY <1>t, <1>7 DEF TakeElement, Begin, ChoiceInv
    <2>2. element' \in Pointers /\ wanted' \in Servers \cup {None}
      BY <1>t, <1>7, <2>1, LabelledType DEF TakeElement, Pointers
    <2>3. disturbed' \in BOOLEAN
      BY <1>t, <1>7 DEF TakeElement, Moving
    <2> QED
      BY <1>t, <1>7, <2>2, <2>3 DEF TakeElement, vectorVars, linkVars, ttyVars
  <1>8. CASE Fill
    <2>1. PICK s \in At(element) :
             params' = [multicast |-> s \in Legacy \/ s \in Multicasting,
                        group     |-> IF s \in Legacy THEN None ELSE s,
                        address   |-> element]
      BY <1>8 DEF Fill
    <2>2. s \in Servers \cup {Nowhere} /\ element \in Pointers
      BY <1>t, <2>1, AtFacts
    <2>3. (s \in Legacy \/ s \in Multicasting) \in BOOLEAN
      OBVIOUS
    <2>4. params' \in [multicast : BOOLEAN, group : Servers \cup {None, Nowhere},
                       address : Pointers]
      BY <2>1, <2>2, <2>3
    <2> QED
      BY <1>t, <1>8, <2>4 DEF Fill, vectorVars, ttyVars
  <1>9. CASE FreeDiscovery
    BY <1>t, <1>9 DEF FreeDiscovery, vectorVars, linkVars, ttyVars
  <1>10. CASE ConnectClient
    <2>1. conn' \in Servers \cup {None}
      <3>1. params.address \in Pointers
        BY <1>t
      <3> QED
        BY <1>t, <1>10, <3>1, AtFacts DEF ConnectClient, Connect
    <2> QED
      BY <1>t, <1>10, <2>1 DEF ConnectClient, vectorVars, ttyVars
  <1>11. CASE Poll
    BY <1>t, <1>11 DEF Poll, Kbhit, vectorVars, mainVars, linkVars
  <1>12. CASE ServeKey
    <2>1. /\ params' \in [multicast : BOOLEAN, group : Servers \cup {None, Nowhere},
                          address : Pointers]
          /\ conn' \in Servers \cup {None} /\ pc' \in {"loop", "exited"}
      <3>1. CASE UNCHANGED linkVars
        BY <1>t, <1>12, <3>1 DEF ServeKey, linkVars
      <3>2. CASE Connect(params') /\ UNCHANGED pc /\
                 params' = [params EXCEPT !.multicast =
                              (typed.kind = "m" \/ (typed.kind # "u" /\ @))]
        <4>1. params' \in [multicast : BOOLEAN, group : Servers \cup {None, Nowhere},
                           address : Pointers]
          BY <1>t, <3>2
        <4>2. params'.address \in Pointers
          BY <4>1
        <4> QED
          BY <1>t, <1>12, <3>2, <4>1, <4>2, AtFacts DEF Connect, ServeKey
      <3> QED
        BY <1>12, <3>1, <3>2 DEF ServeKey
    <2> QED
      BY <1>t, <1>12, <2>1 DEF ServeKey, ReadKey, vectorVars
  <1>13. ASSUME NEW k \in Keys, Type(k) PROVE TypeOK'
    BY <1>t, <1>13 DEF Type, vectorVars, mainVars, linkVars
  <1>14. CASE Enter \/ SearchEnds \/ UNCHANGED vars
    BY <1>t, <1>14 DEF Enter, SearchEnds, vars, vectorVars, mainVars, linkVars, ttyVars
  <1> QED
    BY <1>1, <1>2, <1>3, <1>4, <1>5, <1>6, <1>7, <1>8, <1>9, <1>10, <1>11, <1>12, <1>13,
       <1>14 DEF Next, Main, ServerDiscoveredCallback, Terminated

-----------------------------------------------------------------------------
(* The vector                                                               *)

LEMMA VectorStep ==
    ASSUME DiscoveryInv, [Next]_vars
    PROVE  VectorInv'
  <1>t. TypeOK /\ VectorInv
    BY DEF DiscoveryInv
  <1>l. Len(found) \in Nat /\ Len(label) \in Nat
    BY <1>t, ElementFacts DEF TypeOK
  <1>1. ASSUME NEW s \in Servers, AnnounceServer(s) PROVE VectorInv'
    <2> DEFINE e == [key |-> Hotkey, server |-> s]
    <2>1. /\ callback = "idle" /\ callback' = "append" /\ searching
          /\ label' = Append(label, e) /\ UNCHANGED <<found, searching>>
      BY <1>1 DEF AnnounceServer, CallbackFrame, mainVars
    <2>2. e \in Labels
      BY <1>t, LabelAppended
    <2>3. e.key = IF Len(found) + 1 <= HotkeyCount THEN Len(found) + 1 ELSE 0
      BY <1>l DEF Hotkey
    <2> HIDE DEF e
    <2>4. /\ Len(label') = Len(label) + 1
          /\ \A i \in 1..Len(label) : label'[i] = label[i]
          /\ label'[Len(label) + 1] = e
      BY <1>t, <2>1, <2>2, AppendFacts DEF TypeOK
    <2>5. Len(label) = Len(found)
      BY <1>t, <1>l, <2>1 DEF VectorInv
    <2>6. \A i \in 1..Len(label') : i \in 1..Len(label) \/ i = Len(found) + 1
      BY <1>l, <2>4, <2>5
    <2> QED
      BY <1>t, <1>l, <2>1, <2>3, <2>4, <2>5, <2>6 DEF VectorInv
  <1>2. CASE AppendInPlace \/ AppendMoves
    <2>1. /\ callback = "append" /\ callback' # "append" /\ found' = Appended
          /\ UNCHANGED <<label, searching>>
      BY <1>2 DEF AppendInPlace, AppendMoves, CallbackFrame, mainVars
    <2>2. /\ Len(label) = Len(found) + 1 /\ Len(found') = Len(found) + 1
          /\ \A i \in 1..Len(found) : found'[i] = found[i]
          /\ found'[Len(found) + 1] = label[Len(label)].server
      BY <1>t, <2>1, AppendedFacts
    <2>3. \A i \in 1..Len(found') : i \in 1..Len(found) \/ i = Len(found) + 1
      BY <1>l, <2>2
    <2>4. searching'
      BY <1>t, <2>1 DEF VectorInv
    <2> QED
      BY <1>t, <1>l, <2>1, <2>2, <2>3, <2>4 DEF VectorInv
  <1>3. CASE /\ UNCHANGED <<found, label>> /\ (callback' = "append" <=> callback = "append")
             /\ (searching' \/ callback' = "idle")
    BY <1>t, <1>3 DEF VectorInv
  <1>4. ASSUME Main \/ AppendBegins \/ AppendEnds \/ (\E k \in Keys : Type(k)) \/ Enter
               \/ SearchEnds \/ UNCHANGED vars
        PROVE  /\ UNCHANGED <<found, label>>
               /\ (callback' = "append" <=> callback = "append")
               /\ (searching' \/ callback' = "idle")
    BY <1>t, <1>4 DEF VectorInv, Main, SearchGetch, SearchKey, TestSize, TakeElement, Fill,
       FreeDiscovery, ConnectClient, Poll, ServeKey, AppendBegins, AppendEnds, Type, Enter,
       SearchEnds, vars, vectorVars, mainVars, CallbackFrame
  <1> QED
    BY <1>1, <1>2, <1>3, <1>4 DEF Next, ServerDiscoveredCallback, Terminated

\* The server printed beside a key is the element with that number.
LEMMA LabelledElement ==
    ASSUME TypeOK, VectorInv, NEW n \in 1..Len(found), n <= HotkeyCount
    PROVE  Labelled(n) = found[n]
  <1>1. Len(found) \in Nat /\ Len(label) \in Nat /\ Len(found) <= Len(label)
    BY ElementFacts DEF TypeOK, VectorInv
  <1>2. n \in 1..Len(label) /\ label[n].key = n
    BY <1>1 DEF VectorInv
  <1>3. \A i \in 1..Len(label) : label[i].key = n => i = n
    BY DEF VectorInv
  <1> DEFINE c == CHOOSE i \in 1..Len(label) : label[i].key = n
  <1>4. c = n
    BY <1>2, <1>3
  <1>5. Labelled(n) = label[c].server
    BY <1>2 DEF Labelled
  <1> HIDE DEF c
  <1> QED
    BY <1>4, <1>5 DEF VectorInv

-----------------------------------------------------------------------------
(* The choice                                                               *)

LEMMA ChoiceStep ==
    ASSUME DiscoveryInv, [Next]_vars
    PROVE  ChoiceInv'
  <1>t. TypeOK /\ VectorInv /\ ChoiceInv
    BY DEF DiscoveryInv
  <1>l. Len(found) \in Nat /\ digit \in Nat
    BY <1>t, ElementFacts DEF TypeOK
  <1> USE DEF ChoiceInv, Chosen
  <1>n. \A n \in 1..Len(found) : found[n] # None
    BY <1>t, ElementFacts DEF TypeOK
  <1>1. ASSUME NEW s \in Servers, AnnounceServer(s) PROVE ChoiceInv'
    BY <1>t, <1>1 DEF AnnounceServer, CallbackFrame, mainVars, linkVars
  <1>2. CASE AppendInPlace
    <2>1. /\ callback = "append" /\ searching /\ found' = Appended
          /\ UNCHANGED <<block, disturbed, mainVars, linkVars>>
      BY <1>t, <1>2 DEF AppendInPlace, CallbackFrame, VectorInv
    <2>2. /\ Len(found') = Len(found) + 1
          /\ \A i \in 1..Len(found) : found'[i] = found[i]
      BY <1>t, <2>1, AppendedFacts
    <2>3. digit # 0 /\ digit <= Len(found) => digit \in 1..Len(found)
      BY <1>l
    <2> QED
      BY <1>t, <1>l, <2>1, <2>2, <2>3 DEF mainVars, linkVars
  <1>3. CASE AppendMoves
    <2>1. /\ callback = "append" /\ searching /\ found' = Appended
          /\ disturbed' = (disturbed \/ pc \in {"fill", "free"})
          /\ UNCHANGED <<mainVars, linkVars>>
      BY <1>t, <1>3 DEF AppendMoves, CallbackFrame, VectorInv
    <2>2. Len(found') = Len(found) + 1
      BY <1>t, <2>1, AppendedFacts
    <2>3. pc \notin {"connect", "loop"}
      BY <1>t, <2>1
    <2>4. UNCHANGED <<pc, digit, element, wanted, searching, conn, params>>
      BY <2>1 DEF mainVars, linkVars
    <2>5. ~disturbed' => ~disturbed /\ pc \notin {"fill", "free"}
      BY <2>1
    <2>6. digit <= Len(found) => digit <= Len(found')
      BY <1>l, <2>2
    <2> QED
      BY <1>t, <2>1, <2>3, <2>4, <2>5, <2>6
  <1>4. CASE AppendBegins \/ AppendEnds
    BY <1>t, <1>4 DEF AppendBegins, AppendEnds, CallbackFrame, mainVars, linkVars
  <1>5. CASE SearchGetch
    BY <1>t, <1>5 DEF SearchGetch, vectorVars, linkVars
  <1>6. CASE SearchKey
    <2>1. typed.kind = "choose" => typed.n # 0
      BY <1>t, KeyFacts DEF TypeOK
    <2> QED
      BY <1>t, <1>6, <2>1 DEF SearchKey, vectorVars, linkVars
  \* The size is what it seems unless the vector is moving.
  <1>7. CASE TestSize
    <2>1. /\ pc = "test" /\ pc' \in {"index", "search"} /\ disturbed' = Moving
          /\ UNCHANGED <<vectorVars, linkVars, searching, digit, element, wanted>>
      BY <1>7 DEF TestSize
    <2>2. ~Moving /\ pc' = "index" => digit <= Len(found)
      <3> SUFFICES ASSUME ~Moving, pc' = "index" PROVE digit <= Len(found)
        OBVIOUS
      <3>1. InBounds(digit) = {digit <= Len(found)}
        BY DEF InBounds, Moving
      <3>2. PICK ok \in InBounds(digit) : pc' = IF ok THEN "index" ELSE "search"
        BY <1>7 DEF TestSize
      <3>3. ok
        BY <3>2
      <3> QED
        BY <3>1, <3>2, <3>3
    <2>3. conn = None
      BY <1>t, <2>1
    <2> QED
      BY <1>t, <2>1, <2>2, <2>3 DEF vectorVars, linkVars
  <1>8. CASE TakeElement
    <2>1. /\ pc = "index" /\ pc' = "fill" /\ disturbed' = (disturbed \/ Moving)
          /\ element' = [block |-> Begin, index |-> digit] /\ wanted' = Labelled(digit)
          /\ UNCHANGED <<vectorVars, linkVars, searching, digit>>
      BY <1>8 DEF TakeElement
    <2>2. conn = None /\ digit # 0
      BY <1>t, <2>1
    <2>3. ASSUME ~disturbed'
          PROVE  digit <= Len(found) /\ wanted' = found[digit]
                 /\ element' = [block |-> block, index |-> digit]
      <3>1. digit \in 1..Len(found) /\ digit <= HotkeyCount
        BY <1>t, <1>l, <2>1, <2>2, <2>3 DEF TypeOK
      <3>2. Begin = block
        BY <2>1, <2>3 DEF Begin, Moving
      <3> QED
        BY <1>t, <2>1, <3>1, <3>2, LabelledElement
    <2> QED
      BY <1>t, <2>1, <2>2, <2>3 DEF vectorVars, linkVars
  <1>9. CASE Fill
    <2>1. /\ pc = "fill" /\ pc' = "free"
          /\ UNCHANGED <<vectorVars, searching, digit, element, wanted, conn, disturbed>>
      BY <1>9 DEF Fill
    <2>2. PICK s \in At(element) :
             params' = [multicast |-> s \in Legacy \/ s \in Multicasting,
                        group     |-> IF s \in Legacy THEN None ELSE s,
                        address   |-> element]
      BY <1>9 DEF Fill
    <2>3. ~disturbed => s = wanted
      BY <1>t, <2>1, <2>2, AtElement
    <2>4. params'.address = element
      BY <2>2
    <2>5. params'.group = IF s \in Legacy THEN None ELSE s
      BY <2>2
    <2> QED
      BY <1>t, <2>1, <2>3, <2>4, <2>5 DEF vectorVars
  <1>10. CASE FreeDiscovery
    BY <1>t, <1>10 DEF FreeDiscovery, vectorVars, linkVars
  <1>11. CASE ConnectClient
    <2>1. /\ pc = "connect" /\ pc' = (IF conn' = None THEN "exited" ELSE "loop")
          /\ conn' \in (At(params.address) \ {Nowhere}) \cup {None}
          /\ UNCHANGED <<vectorVars, searching, digit, element, wanted, params, disturbed>>
      BY <1>11 DEF ConnectClient, Connect
    <2>2. ~disturbed /\ wanted # None => At(params.address) = {wanted}
      BY <1>t, <2>1, AtElement
    <2> QED
      BY <1>t, <2>1, <2>2 DEF vectorVars
  <1>12. CASE Poll
    BY <1>t, <1>12 DEF Poll, vectorVars, mainVars, linkVars
  <1>13. CASE ServeKey
    <2>1. /\ pc = "loop" /\ pc' \in {"loop", "exited"}
          /\ UNCHANGED <<vectorVars, searching, digit, element, wanted, disturbed>>
      BY <1>13 DEF ServeKey
    <2>2. CASE UNCHANGED linkVars
      BY <1>t, <2>1, <2>2 DEF vectorVars, linkVars
    <2>3. CASE Connect(params') /\
               params' = [params EXCEPT !.multicast =
                            (typed.kind = "m" \/ (typed.kind # "u" /\ @))]
      <3>1. params'.address = params.address /\ params'.group = params.group
        BY <1>t, <2>3 DEF TypeOK
      <3>2. ~disturbed /\ wanted # None => At(params.address) = {wanted}
        BY <1>t, <2>1, AtElement
      <3>3. conn' \in (At(params.address) \ {Nowhere}) \cup {None}
        BY <2>3, <3>1 DEF Connect
      <3> QED
        BY <1>t, <2>1, <3>1, <3>2, <3>3 DEF vectorVars
    <2> QED
      BY <1>13, <2>2, <2>3 DEF ServeKey
  <1>14. CASE (\E k \in Keys : Type(k)) \/ Enter \/ UNCHANGED vars
    BY <1>t, <1>14 DEF Type, Enter, vars, vectorVars, mainVars, linkVars
  \* Without a key nothing was wanted: a choice always leaves the loop.
  <1>15. CASE SearchEnds
    BY <1>t, <1>15 DEF SearchEnds, vectorVars, linkVars
  <1> QED
    BY <1>1, <1>2, <1>3, <1>4, <1>5, <1>6, <1>7, <1>8, <1>9, <1>10, <1>11, <1>12, <1>13,
       <1>14, <1>15 DEF Next, Main, ServerDiscoveredCallback, Terminated

\* At any time: a vector that agrees with what was printed, and a pointer that is
\* the chosen server's as long as no append disturbs it.
THEOREM DiscoveryInvariant == Spec => []DiscoveryInv
  <1>1. DiscoveryInv /\ [Next]_vars => DiscoveryInv'
    BY TypeStep, VectorStep, ChoiceStep DEF DiscoveryInv
  <1> QED
    BY InvInit, <1>1, PTL DEF Spec

-----------------------------------------------------------------------------
\* A key opens the server that was printed beside it.
THEOREM HotkeysRight == Spec => []HotkeysNameServers
  <1>1. DiscoveryInv => HotkeysNameServers
    <2> SUFFICES ASSUME DiscoveryInv PROVE HotkeysNameServers
      OBVIOUS
    <2>1. \A i \in 1..Len(label) :
             label[i].key \in 1..Len(found) => label[i].key = i /\ i \in 1..Len(found)
      BY DEF DiscoveryInv, VectorInv
    <2> QED
      BY <2>1 DEF DiscoveryInv, VectorInv, HotkeysNameServers
  <1> QED
    BY <1>1, DiscoveryInvariant, PTL

\* Whatever is connected for a key, at first or again, is the server printed beside it,
\* unless an append moved the vector between the key and the end of the search.
THEOREM ConnectsToChosen == Spec => []ConnectsToChosenUnlessMoved
  <1>1. DiscoveryInv => ConnectsToChosenUnlessMoved
    BY DEF DiscoveryInv, ChoiceInv, ConnectsToChosenUnlessMoved
  <1> QED
    BY <1>1, DiscoveryInvariant, PTL

\* From the first connection on nothing moves the servers any more.
THEOREM AddressesKept == Spec => AddressesStay
  <1> DEFINE Stays == (pc \in {"connect", "loop"}) => UNCHANGED <<found, block>>
  <1>1. ASSUME DiscoveryInv, [Next]_vars, pc \in {"connect", "loop"}
        PROVE  UNCHANGED <<found, block>>
    <2>1. callback = "idle"
      BY <1>1 DEF DiscoveryInv, ChoiceInv, VectorInv
    <2> QED
      BY <1>1, <2>1 DEF Next, Main, ServerDiscoveredCallback, AnnounceServer, AppendInPlace,
         AppendMoves, AppendBegins, AppendEnds, SearchGetch, SearchKey, TestSize, TakeElement,
         Fill, FreeDiscovery, ConnectClient, Poll, ServeKey, Type, Enter, SearchEnds, Terminated,
         vars, vectorVars
  <1>2. DiscoveryInv /\ [Next]_vars => [Stays]_vars
    BY <1>1
  <1> QED
    BY <1>2, DiscoveryInvariant, PTL DEF Spec, AddressesStay

-----------------------------------------------------------------------------
(* The end of the search                                                    *)

\* The steps the library's thread has left as long as the search goes on: four for a
\* server not printed yet, and those of the append under way.
Printed == {label[i].server : i \in 1..Len(label)}
AppendLeft ==
    CASE callback = "append" -> 3
      [] callback = "released" -> 2
      [] callback = "torn" -> 1
      [] OTHER -> 0
CallbackLeft == 4 * Cardinality(Servers \ Printed) + AppendLeft

\* The steps main has left from the key to the first connection, or its failure.
ChoiceLeft ==
    CASE pc = "index" -> 4
      [] pc = "fill" -> 3
      [] pc = "free" -> 2
      [] pc = "connect" -> 1
      [] OTHER -> 0

\* Main never goes back behind a choice, and a step of the library's thread is one
\* of the few it has left.
ChoiceNearer ==
    [][/\ pc \in {"index", "fill", "free", "connect"} =>
              UNCHANGED mainVars \/ ChoiceLeft' < ChoiceLeft
       /\ UNCHANGED vectorVars \/ CallbackLeft' < CallbackLeft]_vars

\* A server is printed once: what is not printed yet shrinks.
LEMMA PrintedGrows ==
    ASSUME DiscoveryInv, IsFiniteSet(Servers), NEW s \in Servers, AnnounceServer(s)
    PROVE  /\ Cardinality(Servers \ Printed)' = Cardinality(Servers \ Printed) - 1
           /\ Cardinality(Servers \ Printed) \in Nat /\ Cardinality(Servers \ Printed)' \in Nat
  <1> DEFINE e == [key |-> Hotkey, server |-> s]
  <1>1. label \in Seq(Labels) /\ e \in Labels
    <2>1. Len(found) \in Nat
      BY ElementFacts DEF DiscoveryInv, TypeOK
    <2>2. Hotkey \in 0..HotkeyCount
      BY <2>1 DEF Hotkey
    <2> QED
      BY <2>2 DEF DiscoveryInv, TypeOK, Labels
  <1>2. label' = Append(label, e) /\ callback = "idle" /\ \A i \in 1..Len(found) : found[i] # s
    BY DEF AnnounceServer
  <1>3. s \notin Printed
    BY <1>2 DEF Printed, DiscoveryInv, VectorInv
  <1>4. /\ Len(label') = Len(label) + 1 /\ Len(label) \in Nat
        /\ \A i \in 1..Len(label) : label'[i] = label[i]
        /\ label'[Len(label) + 1] = e
    BY <1>1, <1>2, AppendFacts
  <1>5. Printed' = Printed \cup {s}
    <2>1. Printed' = {label'[i].server : i \in 1..(Len(label) + 1)}
      BY <1>4 DEF Printed
    <2>2. 1..(Len(label) + 1) = 1..Len(label) \cup {Len(label) + 1}
      BY <1>4
    <2>3. label'[Len(label) + 1].server = s
      BY <1>4
    <2> QED
      BY <1>4, <2>1, <2>2, <2>3 DEF Printed
  <1> DEFINE rest == Servers \ Printed
  <1>6. (Servers \ Printed)' = rest \ {s} /\ s \in rest
    BY <1>3, <1>5
  <1>7. IsFiniteSet(rest)
    BY FS_Subset
  <1> HIDE DEF rest
  <1>8. /\ Cardinality(rest \ {s}) = Cardinality(rest) - 1 /\ Cardinality(rest) \in Nat
        /\ Cardinality(rest \ {s}) \in Nat
    BY <1>6, <1>7, FS_RemoveElement, FS_CardinalityType
  <1> QED
    BY <1>6, <1>8 DEF rest

\* The servers the library still has to report bound what its thread does.
LEMMA CallbackLeftType ==
    ASSUME IsFiniteSet(Servers)
    PROVE  /\ Cardinality(Servers) \in Nat /\ Cardinality(Servers \ Printed) \in Nat
           /\ Cardinality(Servers \ Printed) <= Cardinality(Servers)
  BY FS_Subset, FS_CardinalityType

LEMMA CallbackNearer ==
    ASSUME DiscoveryInv, IsFiniteSet(Servers), [Next]_vars
    PROVE  UNCHANGED vectorVars \/ CallbackLeft' < CallbackLeft
  <1>1. ASSUME NEW s \in Servers, AnnounceServer(s)
        PROVE  CallbackLeft' < CallbackLeft
    <2>1. AppendLeft = 0 /\ AppendLeft' = 3
      BY <1>1 DEF AnnounceServer, AppendLeft
    <2>2. /\ Cardinality(Servers \ Printed') = Cardinality(Servers \ Printed) - 1
          /\ Cardinality(Servers \ Printed) \in Nat
      BY <1>1, PrintedGrows
    <2> QED
      BY <2>1, <2>2 DEF CallbackLeft
  <1>2. CASE ServerDiscoveredCallback
    <2>1. Printed' = Printed
      BY <1>2 DEF ServerDiscoveredCallback, AppendInPlace, AppendMoves, AppendBegins, AppendEnds,
         Printed
    <2>2. AppendLeft \in Nat /\ AppendLeft' \in Nat /\ AppendLeft' < AppendLeft
      BY <1>2 DEF ServerDiscoveredCallback, AppendInPlace, AppendMoves, AppendBegins, AppendEnds,
         AppendLeft
    <2> QED
      BY <2>1, <2>2, CallbackLeftType DEF CallbackLeft
  <1>3. CASE Main \/ (\E k \in Keys : Type(k)) \/ Enter \/ SearchEnds \/ Terminated
             \/ UNCHANGED vars
    BY <1>3 DEF Main, SearchGetch, SearchKey, TestSize, TakeElement, Fill, FreeDiscovery,
       ConnectClient, Poll, ServeKey, Type, Enter, SearchEnds, Terminated, vars
  <1> QED
    BY <1>1, <1>2, <1>3 DEF Next

LEMMA MainNearer ==
    ASSUME [Next]_vars, pc \in {"index", "fill", "free", "connect"}
    PROVE  UNCHANGED mainVars \/ ChoiceLeft' < ChoiceLeft
  <1>1. CASE Main
    BY <1>1 DEF Main, SearchGetch, SearchKey, TestSize, TakeElement, Fill, FreeDiscovery,
       ConnectClient, Poll, ServeKey, ChoiceLeft
  <1>2. CASE \/ \E s \in Servers : AnnounceServer(s)
             \/ ServerDiscoveredCallback
             \/ \E k \in Keys : Type(k)
             \/ Enter \/ SearchEnds \/ Terminated \/ UNCHANGED vars
    BY <1>2 DEF AnnounceServer, ServerDiscoveredCallback, AppendInPlace, AppendMoves,
       AppendBegins, AppendEnds, CallbackFrame, Type, Enter, SearchEnds, Terminated, vars
  <1> QED
    BY <1>1, <1>2 DEF Next

\* From the key to the attempt to connect main has four steps left, and what it waits for
\* at the end of the search, the return of the callback, is at most four steps away for
\* each server on the network: servers that are found meanwhile cannot keep it for ever.
\* ChoiceIsTried adds that both threads are scheduled.
THEOREM ChoiceIsBounded ==
    ASSUME IsFiniteSet(Servers)
    PROVE  Spec => ChoiceNearer /\ [](CallbackLeft \in 0..(4 * Cardinality(Servers)))
  <1> DEFINE Bounded == CallbackLeft \in 0..(4 * Cardinality(Servers))
             Nearer == /\ pc \in {"index", "fill", "free", "connect"} =>
                              UNCHANGED mainVars \/ ChoiceLeft' < ChoiceLeft
                       /\ UNCHANGED vectorVars \/ CallbackLeft' < CallbackLeft
  <1>1. Init => Bounded
    <2> SUFFICES ASSUME Init PROVE Bounded
      OBVIOUS
    <2>1. AppendLeft = 0
      BY DEF Init, AppendLeft
    <2> QED
      BY <2>1, CallbackLeftType DEF CallbackLeft
  <1>2. DiscoveryInv /\ [Next]_vars => [Nearer]_vars
    BY CallbackNearer, MainNearer
  <1>3. DiscoveryInv /\ Bounded /\ [Next]_vars => Bounded'
    <2> SUFFICES ASSUME DiscoveryInv, Bounded, [Next]_vars PROVE Bounded'
      OBVIOUS
    <2>1. CASE UNCHANGED vectorVars
      BY <2>1 DEF vectorVars, CallbackLeft, AppendLeft, Printed
    <2>2. CASE CallbackLeft' < CallbackLeft
      <3>1. CallbackLeft' \in Nat
        <4>1. AppendLeft' \in Nat
          BY DEF AppendLeft
        <4>2. Cardinality(Servers \ Printed') \in Nat
          BY FS_Subset, FS_CardinalityType
        <4> QED
          BY <4>1, <4>2 DEF CallbackLeft
      <3> QED
        BY <2>2, <3>1, CallbackLeftType
    <2> QED
      BY <2>1, <2>2, CallbackNearer
  <1> QED
    BY <1>1, <1>2, <1>3, DiscoveryInvariant, PTL DEF Spec, ChoiceNearer
==============================================================================
