---------------------------- MODULE ServerDiscovery ----------------------------
(***************************************************************************)
(* SampleClient.cpp before and beside its frames: the search for servers,  *)
(* whose callback appends to g_discoveredServers on a thread of the        *)
(* library while main indexes it; the connection parameters, which keep    *)
(* pointers into that vector; the keys that connect again with them; and   *)
(* the terminal the keys come from (the POSIX _kbhit and getch).           *)
(*                                                                         *)
(* The vector is its elements and the block of memory they live in.  An    *)
(* append that finds no room is three steps, as the library's push_back    *)
(* does it: the elements are in a new block and the old one is released;   *)
(* the vector begins in the new block and still ends in the old one; it is *)
(* whole again.  What main reads in between, or through a pointer into a   *)
(* released block, may be anything.                                        *)
(***************************************************************************)
EXTENDS Integers, Sequences

CONSTANTS Servers,       \* the servers on the network
          Legacy,        \* those whose description has no connection info
          Multicasting,  \* those that stream in multicast
          HotkeyCount,   \* keys that choose a server (9 in the code)
          None, Nowhere  \* no server; what a pointer to released memory names

ASSUME ServersAssumption ==
    /\ None \notin Servers /\ Nowhere \notin Servers
    /\ None # Nowhere
    /\ Legacy \subseteq Servers /\ Multicasting \subseteq Servers
    /\ HotkeyCount \in Nat \ {0}

\* The keys that are read for what they do; "n" is the digit of "choose".
Key(kind, n) == [kind |-> kind, n |-> n]
NoKey == Key("none", 0)
Keys == {Key("choose", n) : n \in 1..HotkeyCount}
          \cup {Key(k, 0) : k \in {"q", "r", "m", "u", "c"}}

NoPointer == [block |-> 0, index |-> 0]

VARIABLES
    \* g_discoveredServers: elements, capacity, block of memory; and the
    \* position of the callback in an append
    found, room, block, callback,
    label,      \* what was printed: servers and the keys beside them
    searching,  \* NatNet_FreeAsyncServerDiscovery has not been called
    \* main: position, digit read, the reference to the element
    pc, digit, element,
    params,     \* g_connectParams
    conn,       \* the server the client is connected to
    \* the terminal: line mode, _kbhit has been called, the key typed, its line
    \* is complete
    icanon, polled, typed, entered,
    \* history: the server whose key was pressed, None as long as no key was
    \* taken; an append that moves the vector fell between the key and the end
    \* of the search
    wanted, disturbed

vectorVars == <<found, room, block, callback, label>>
mainVars == <<searching, pc, digit, element, wanted>>
linkVars == <<params, conn>>
ttyVars == <<icanon, polled, typed, entered>>
vars == <<vectorVars, mainVars, linkVars, ttyVars, disturbed>>

Init ==
    /\ found = <<>> /\ room = 0 /\ block = 1 /\ callback = "idle" /\ label = <<>>
    /\ searching = TRUE /\ pc = "search" /\ digit = 0 /\ element = NoPointer
    /\ params = [multicast |-> TRUE, group |-> None, address |-> NoPointer]
    /\ conn = None
    /\ icanon = TRUE /\ polled = FALSE /\ typed = NoKey /\ entered = FALSE
    /\ wanted = None /\ disturbed = FALSE

Running == pc # "exited"

-----------------------------------------------------------------------------
(* ServerDiscoveredCallback, on the library's thread                        *)

CallbackFrame == <<mainVars, linkVars, ttyVars>>

\* Fault: the number of the server, not its key, is printed.
HotkeyFromZero == IF Len(found) < HotkeyCount THEN Len(found) ELSE 0

\* Fault: the keys do not end.
HotkeyUnbounded == Len(found) + 1

\* The key printed beside the next server, 0 for '.': no key is left.
Hotkey == IF Len(found) < HotkeyCount THEN Len(found) + 1 ELSE 0

\* A server is printed beside its key.  The library reports each server once.
AnnounceServer(s) ==
    /\ Running /\ searching
    /\ callback = "idle"
    /\ \A i \in 1..Len(found) : found[i] # s
    /\ label' = Append(label, [key |-> Hotkey, server |-> s])
    /\ callback' = "append"
    /\ UNCHANGED <<CallbackFrame, found, room, block, disturbed>>

\* push_back of the server printed last.
Appended == Append(found, label[Len(label)].server)

\* Fault: main locks the vector until the search has ended.
AppendInPlaceLocked ==
    /\ Running
    /\ callback = "append"
    /\ Len(found) < room
    /\ pc \notin {"index", "fill", "free"}
    /\ found' = Appended
    /\ callback' = "idle"
    /\ UNCHANGED <<CallbackFrame, room, block, label, disturbed>>

AppendInPlace ==
    /\ Running
    /\ callback = "append"
    /\ Len(found) < room
    /\ found' = Appended
    /\ callback' = "idle"
    /\ UNCHANGED <<CallbackFrame, room, block, label, disturbed>>

\* Without room: all elements are in a new block, the old one is released.
AppendMoves ==
    /\ Running
    /\ callback = "append"
    /\ Len(found) = room
    /\ found' = Appended
    /\ room' = IF room = 0 THEN 1 ELSE 2 * room
    /\ block' = block + 1
    /\ callback' = "released"
    /\ disturbed' = (disturbed \/ pc \in {"fill", "free"})
    /\ UNCHANGED <<CallbackFrame, label>>

AppendBegins ==
    /\ Running
    /\ callback = "released"
    /\ callback' = "torn"
    /\ UNCHANGED <<CallbackFrame, found, room, block, label, disturbed>>

AppendEnds ==
    /\ Running
    /\ callback = "torn"
    /\ callback' = "idle"
    /\ UNCHANGED <<CallbackFrame, found, room, block, label, disturbed>>

ServerDiscoveredCallback == AppendInPlace \/ AppendMoves \/ AppendBegins \/ AppendEnds

\* What main makes of size() and of the vector's begin at this moment.
InBounds(n) ==
    CASE callback = "released" -> {n < Len(found)}
      [] callback = "torn" -> BOOLEAN
      [] OTHER -> {n <= Len(found)}
Begin == IF callback = "released" THEN block - 1 ELSE block
\* The server that was printed beside a key.
Labelled(n) ==
    IF \E i \in 1..Len(label) : label[i].key = n
    THEN label[CHOOSE i \in 1..Len(label) : label[i].key = n].server
    ELSE None
Moving == callback \in {"released", "torn"}

\* The server that is read through a pointer into the vector.
At(p) ==
    IF p.block = block /\ p.index <= Len(found) THEN {found[p.index]}
    ELSE Servers \cup {Nowhere}

-----------------------------------------------------------------------------
(* main: the search                                                         *)

\* getch turns line buffering off, blocks, and turns it on again.
SearchGetch ==
    /\ pc = "search"
    /\ icanon' = FALSE
    /\ pc' = "getch"
    /\ UNCHANGED <<vectorVars, linkVars, searching, digit, element, wanted, polled,
                   typed, entered, disturbed>>

ReadKey == typed' = NoKey /\ entered' = FALSE /\ icanon' = TRUE

SearchKey ==
    /\ pc = "getch"
    /\ typed # NoKey
    /\ ReadKey
    /\ \/ typed.kind = "choose" /\ pc' = "test" /\ digit' = typed.n
       \/ typed.kind = "q" /\ pc' = "exited" /\ UNCHANGED digit
       \/ typed.kind \notin {"choose", "q"} /\ pc' = "search" /\ UNCHANGED digit
    /\ UNCHANGED <<vectorVars, linkVars, searching, element, wanted, polled, disturbed>>

TestSize ==
    /\ pc = "test"
    /\ \E ok \in InBounds(digit) : pc' = IF ok THEN "index" ELSE "search"
    /\ disturbed' = Moving
    /\ UNCHANGED <<vectorVars, linkVars, ttyVars, searching, digit, element, wanted>>

\* Fault: the key's number is taken for the index.
TakeElementOffByOne ==
    /\ pc = "index"
    /\ element' = [block |-> Begin, index |-> IF digit < Len(found) THEN digit + 1 ELSE digit]
    /\ wanted' = Labelled(digit)
    /\ disturbed' = (disturbed \/ Moving)
    /\ pc' = "fill"
    /\ UNCHANGED <<vectorVars, linkVars, ttyVars, searching, digit>>

\* The reference to the element with the key's number.
TakeElement ==
    /\ pc = "index"
    /\ element' = [block |-> Begin, index |-> digit]
    /\ wanted' = Labelled(digit)
    /\ disturbed' = (disturbed \/ Moving)
    /\ pc' = "fill"
    /\ UNCHANGED <<vectorVars, linkVars, ttyVars, searching, digit>>

\* The parameters: type and group are copied, the addresses are pointers.
Fill ==
    /\ pc = "fill"
    /\ \E s \in At(element) :
          params' = [multicast |-> s \in Legacy \/ s \in Multicasting,
                     group     |-> IF s \in Legacy THEN None ELSE s,
                     address   |-> element]
    /\ pc' = "free"
    /\ UNCHANGED <<vectorVars, ttyVars, searching, digit, element, wanted, conn, disturbed>>

\* Fault: the search goes on behind the connection.
FreeDiscoveryForgotten ==
    /\ pc = "free"
    /\ pc' = "connect"
    /\ UNCHANGED <<vectorVars, linkVars, ttyVars, searching, digit, element, wanted,
                   disturbed>>

\* The library ends the search when a callback under way has returned.
FreeDiscovery ==
    /\ pc = "free"
    /\ callback = "idle"
    /\ searching' = FALSE
    /\ pc' = "connect"
    /\ UNCHANGED <<vectorVars, linkVars, ttyVars, digit, element, wanted, disturbed>>

\* Connect uses the parameters as they are at this moment; any server may fail
\* to answer.
Connect(p) == conn' \in (At(p.address) \ {Nowhere}) \cup {None}

ConnectClient ==
    /\ pc = "connect"
    /\ Connect(params)
    /\ pc' = IF conn' = None THEN "exited" ELSE "loop"
    /\ UNCHANGED <<vectorVars, ttyVars, searching, digit, element, wanted, params, disturbed>>

-----------------------------------------------------------------------------
(* main: the keys of the loop                                               *)

\* Line mode when _kbhit counts the bytes: its first call turns it off.
Kbhit == icanon /\ polled
Readable == typed # NoKey /\ (entered \/ ~Kbhit)

\* No key.
Poll ==
    /\ pc = "loop"
    /\ ~Readable
    /\ polled' = TRUE
    /\ icanon' = Kbhit
    /\ UNCHANGED <<vectorVars, mainVars, linkVars, typed, entered, disturbed>>

\* _kbhit and getch: a key is read, and served.
ServeKey ==
    /\ pc = "loop"
    /\ Readable
    /\ polled' = TRUE
    /\ ReadKey
    /\ LET k == typed.kind
       IN \/ k = "q" /\ pc' = "exited" /\ UNCHANGED linkVars
          \/ k = "choose" /\ UNCHANGED <<pc, linkVars>>
          \/ /\ k \in {"r", "m", "u", "c"}
             /\ params' = [params EXCEPT !.multicast = (k = "m" \/ (k # "u" /\ @))]
             /\ Connect(params')
             /\ UNCHANGED pc
    /\ UNCHANGED <<vectorVars, searching, digit, element, wanted, disturbed>>

Main ==
    \/ SearchGetch \/ SearchKey \/ TestSize \/ TakeElement \/ Fill
    \/ FreeDiscovery \/ ConnectClient
    \/ Poll \/ ServeKey

-----------------------------------------------------------------------------
(* External: the user                                                       *)

\* Bound: one key waits at a time.
Type(k) ==
    /\ Running
    /\ typed = NoKey
    /\ typed' = k
    /\ UNCHANGED <<vectorVars, mainVars, linkVars, icanon, polled, entered, disturbed>>

\* The input ends, or a read of it fails: getch returns 0, which ends the search
\* with the parameters as they were at the start.
SearchEnds ==
    /\ pc = "getch"
    /\ icanon' = TRUE
    /\ pc' = "free"
    /\ UNCHANGED <<vectorVars, linkVars, searching, digit, element, wanted, polled,
                   typed, entered, disturbed>>

Enter ==
    /\ Running
    /\ typed # NoKey /\ icanon /\ ~entered
    /\ entered' = TRUE
    /\ UNCHANGED <<vectorVars, mainVars, linkVars, icanon, polled, typed, disturbed>>

Terminated == ~Running /\ UNCHANGED vars

Next ==
    \/ Main
    \/ \E s \in Servers : AnnounceServer(s)
    \/ ServerDiscoveredCallback
    \/ \E k \in Keys : Type(k)
    \/ Enter \/ SearchEnds
    \/ Terminated

Spec == Init /\ [][Next]_vars

\* The two threads are scheduled; servers and user owe nothing.
FairSpec == Spec /\ WF_vars(Main) /\ WF_vars(ServerDiscoveredCallback)

-----------------------------------------------------------------------------
(* Properties                                                               *)

Labels == [key : 0..HotkeyCount, server : Servers]
Pointers == [block : Nat, index : 1..HotkeyCount] \cup {NoPointer}

\* Type correctness of every variable.
TypeOK ==
    /\ found \in Seq(Servers) /\ room \in Nat /\ block \in Nat \ {0}
    /\ label \in Seq(Labels)
    /\ callback \in {"idle", "append", "released", "torn"}
    /\ searching \in BOOLEAN
    /\ pc \in {"search", "getch", "test", "index", "fill", "free", "connect",
               "loop", "exited"}
    /\ digit \in 0..HotkeyCount /\ element \in Pointers
    /\ params \in [multicast : BOOLEAN, group : Servers \cup {None, Nowhere},
                   address : Pointers]
    /\ conn \in Servers \cup {None} /\ wanted \in Servers \cup {None}
    /\ icanon \in BOOLEAN /\ polled \in BOOLEAN /\ entered \in BOOLEAN
    /\ typed \in Keys \cup {NoKey} /\ disturbed \in BOOLEAN

\* What was printed is what is in the vector, or about to be appended to it.
VectorInv ==
    /\ Len(label) = Len(found) + (IF callback = "append" THEN 1 ELSE 0)
    /\ \A i \in 1..Len(found) : found[i] = label[i].server
    /\ \A i \in 1..Len(label) : label[i].key = IF i <= HotkeyCount THEN i ELSE 0
    /\ searching \/ callback = "idle"

\* The element with the key's number, and the reference to it.
Chosen ==
    /\ digit # 0 /\ digit <= Len(found) /\ wanted = found[digit]
    /\ element = [block |-> block, index |-> digit]

\* How far a choice has come, and what an undisturbed one has reached.  A search
\* that ended without a key comes to its connection with nothing chosen.
ChoiceInv ==
    /\ pc \in {"connect", "loop"} => ~searching
    /\ pc \notin {"loop", "exited"} => conn = None
    /\ pc \in {"search", "getch", "test", "index"} => wanted = None
    /\ pc \in {"test", "index"} => digit # 0
    /\ ~disturbed =>
          /\ pc = "index" => digit <= Len(found)
          /\ pc = "fill" => Chosen
          /\ wanted # None =>
                /\ conn \in {wanted, None}
                /\ pc \in {"free", "connect", "loop"} =>
                      /\ Chosen
                      /\ params.address = element
                      /\ params.group = IF wanted \in Legacy THEN None ELSE wanted

\* The search as a whole: types, a vector that agrees with what was printed, and a
\* pointer that is the chosen server's as long as no append disturbs it.
DiscoveryInv == TypeOK /\ VectorInv /\ ChoiceInv

\* A key opens the server that was printed beside it, for as many servers as
\* there are keys: nothing but the callback, one call at a time, grows the vector.
HotkeysNameServers ==
    \A i \in 1..Len(label) :
        /\ label[i].key \in 1..Len(found) => found[label[i].key] = label[i].server
        /\ label[i].key = (IF i <= HotkeyCount THEN i ELSE 0)

\* After a key was taken for a server, whatever is connected, at first or again by
\* 'r', 'm', 'u' or 'c', is the server printed beside that key, with its group, unless
\* an append moved the vector between the key and the end of the search.  (Without a
\* key, when getch returned 0, the default parameters are used.)
ConnectsToChosenUnlessMoved ==
    ~disturbed /\ wanted # None =>
        /\ conn \in {wanted, None}
        /\ pc \in {"free", "connect", "loop"} =>
              params.group = IF wanted \in Legacy THEN None ELSE wanted

\* What SampleClient.cpp:173 prints: "Press the number key that corresponds to any
\* discovered server to connect to that server."  The vector is read without a lock
\* while the library's thread appends to it: the element may be another server's.
KeyConnectsToThatServer == wanted # None => conn \in {wanted, None}

\* From the first connection on nothing moves the servers any more: an address that
\* is good for it is good for every later one.
AddressesStay == [][(pc \in {"connect", "loop"}) => UNCHANGED <<found, block>>]_vars

\* A key that was taken for a server leads to an attempt to connect: the end of
\* the search waits for a callback, and no callback waits for main.
ChoiceIsTried == pc = "index" ~> pc \in {"loop", "exited"}
==============================================================================
