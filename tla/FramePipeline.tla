---------------------------- MODULE FramePipeline ----------------------------
(***************************************************************************)
(* The frame pipeline of SampleClient.cpp: DataHandler, called by the      *)
(* NatNet library on its own thread for every frame, the network queue     *)
(* behind gNetworkQueueMutex, and the main loop, which takes the queue     *)
(* over, shows and writes the frames, and fetches the data descriptions    *)
(* again when a frame says that the asset list changed.                    *)
(*                                                                         *)
(* A frame is its place in the order of arrival, the version of the asset  *)
(* list it was built from, and its TrackedModelsChanged bit.  The content  *)
(* is left out, and so are the keys that only send a command and print the *)
(* answer.  The library and the server are external; as the library does,  *)
(* GetDataDescriptionList leaves its argument alone when it fails.         *)
(***************************************************************************)
EXTENDS Integers, Sequences

CONSTANTS MaxQueueSize,  \* kMaxQueueSize
          MaxFrames,     \* bound: frames that arrive
          MaxChanges,    \* bound: changes of the asset list in the server
          Unreliable     \* frames may be lost on their way to DataHandler

ASSUME PipelineAssumption ==
    /\ MaxQueueSize \in Nat \ {0}
    /\ MaxFrames \in Nat
    /\ MaxChanges \in Nat
    /\ Unreliable \in BOOLEAN

AssetVersion == 0..MaxChanges
NoMaps == -1
Frame == [seq : 1..MaxFrames, assets : AssetVersion, changed : BOOLEAN]
NoFrame == [seq |-> 0, assets |-> 0, changed |-> FALSE]

VARIABLES
    \* the thread that calls DataHandler: position, the copy of the frame
    dataPc, hand,
    \* gNetworkQueueMutex, gNetworkQueue
    lock, queue,
    \* main thread: position, who called UpdateDataDescriptions or Connect,
    \* bRunning, displayQueue and the place reached in it
    mainPc, caller, running, display, pos,
    \* gNeedUpdatedDataDescriptions, gPauseOutput, g_outputFile, g_pDataDefs
    need, pause, file, defs,
    \* asset list the maps were built from, list at the time of the request
    maps, asked,
    \* frames whose members are allocated; last frame shown, last one written
    heap, shown, written,
    \* history: newest asset list announced by a frame taken off the queue
    announced,
    \* external: library connected, asset list of the server, next frame says
    \* it changed, number of frames that arrived
    connected, assets, changeDue, arrived

dataVars == <<dataPc, hand>>
queueVars == <<lock, queue>>
displayVars == <<display, pos, shown, written, announced>>
descVars == <<file, defs, maps, asked>>
serverVars == <<assets, changeDue, arrived>>
vars == <<dataVars, queueVars, mainPc, caller, running, displayVars, need, pause,
          descVars, heap, connected, serverVars>>

Init ==
    /\ dataPc = "wait" /\ hand = NoFrame
    /\ lock = "free" /\ queue = <<>>
    /\ mainPc = "connect" /\ caller = "init" /\ running = TRUE
    /\ display = <<>> /\ pos = 1
    /\ need = TRUE /\ pause = FALSE /\ file = "none" /\ defs = "null"
    /\ maps = NoMaps /\ asked = 0
    /\ heap = {} /\ shown = NoFrame /\ written = 0 /\ announced = 0
    /\ connected = FALSE /\ assets = 0 /\ changeDue = FALSE /\ arrived = 0

Alive == mainPc \notin {"exited", "aborted"}
Numbers(frames) == {frames[i].seq : i \in 1..Len(frames)}
Announced(frames) ==
    {frames[i].assets : i \in {j \in 1..Len(frames) : frames[j].changed}}
IsNewest(v, versions) == v \in versions /\ \A w \in versions : w <= v

-----------------------------------------------------------------------------
(* DataHandler, on the thread of the library                                *)

DataFrame == <<mainPc, caller, running, displayVars, need, pause, descVars,
               connected, assets>>

\* The library calls DataHandler, which copies the frame.
DataCopy ==
    /\ Alive /\ connected
    /\ dataPc = "wait"
    /\ arrived < MaxFrames
    /\ arrived' = arrived + 1
    /\ hand' = [seq |-> arrived + 1, assets |-> assets, changed |-> changeDue]
    /\ changeDue' = FALSE
    /\ heap' = heap \cup {arrived + 1}
    /\ dataPc' = "lock"
    /\ UNCHANGED <<DataFrame, queueVars>>

DataLock ==
    /\ Alive
    /\ dataPc = "lock"
    /\ lock = "free"
    /\ lock' = "data"
    /\ dataPc' = "push"
    /\ UNCHANGED <<DataFrame, hand, queue, heap, changeDue, arrived>>

\* Fault: the dropped frame is not released.
DataDropLeaks ==
    /\ Alive
    /\ dataPc = "lock"
    /\ lock = "main"
    /\ hand' = NoFrame
    /\ dataPc' = "wait"
    /\ UNCHANGED <<DataFrame, queueVars, heap, changeDue, arrived>>

\* try_lock_for gives up after 5 ms: the frame is dropped.
DataDrop ==
    /\ Alive
    /\ dataPc = "lock"
    /\ lock = "main"
    /\ heap' = heap \ {hand.seq}
    /\ hand' = NoFrame
    /\ dataPc' = "wait"
    /\ UNCHANGED <<DataFrame, queueVars, changeDue, arrived>>

\* Under the lock: add the frame, release the oldest ones above the cap.
DataPush ==
    /\ Alive
    /\ dataPc = "push"
    /\ IF Len(queue) + 1 > MaxQueueSize
       THEN /\ heap' = heap \ {Head(queue).seq}
            /\ queue' = Append(Tail(queue), hand)
       ELSE /\ queue' = Append(queue, hand)
            /\ UNCHANGED heap
    /\ hand' = NoFrame
    /\ lock' = "free"
    /\ dataPc' = "wait"
    /\ UNCHANGED <<DataFrame, changeDue, arrived>>

DataHandler == DataCopy \/ DataLock \/ DataDrop \/ DataPush

-----------------------------------------------------------------------------
(* Main thread: connections                                                 *)

MainFrame == <<dataVars, serverVars>>

\* ConnectClient or ResetClient; only at the start does a failure end main.
Connect ==
    /\ mainPc = "connect"
    /\ connected' \in BOOLEAN
    /\ \/ /\ caller = "init"
          /\ \/ connected' /\ mainPc' = "release"
             \/ mainPc' = "exited"
       \/ caller = "key" /\ mainPc' = "output"
    /\ UNCHANGED <<MainFrame, queueVars, caller, running, displayVars, need, pause,
                   descVars, heap>>

\* Disconnect stops the stream; a DataHandler under way is waited for.
Join ==
    /\ mainPc = "join"
    /\ dataPc = "wait"
    /\ mainPc' = IF running THEN "connect" ELSE "exitRelease"
    /\ UNCHANGED <<MainFrame, queueVars, caller, running, displayVars, need, pause,
                   descVars, heap, connected>>

-----------------------------------------------------------------------------
(* Main thread: UpdateDataDescriptions, on behalf of "init", "loop" or "key" *)

\* Releasing what has been released before is undefined: abort, or nothing.
Released == IF defs = "null" THEN "null" ELSE "dangling"
After(pc) == IF defs = "dangling" THEN {pc, "aborted"} ELSE {pc}

UpdateRelease ==
    /\ mainPc = "release"
    /\ defs' = Released
    /\ asked' = assets
    /\ mainPc' \in After("fetch")
    /\ UNCHANGED <<MainFrame, queueVars, caller, running, displayVars, need, pause,
                   file, maps, heap, connected>>

BackFromUpdate ==
    mainPc' = CASE caller = "init" -> "loop"
                [] caller = "loop" -> "keys"
                [] OTHER -> "output"

\* Fault: a retry of the main loop is never told that the list has arrived.
UpdateSucceedsUnnoticed ==
    /\ mainPc = "fetch"
    /\ connected
    /\ defs' = "valid"
    /\ maps' \in asked..assets
    /\ need' = (caller # "key" /\ need)
    /\ file' \in IF caller = "init" THEN {"none", "open"} ELSE {file}
    /\ BackFromUpdate
    /\ UNCHANGED <<MainFrame, queueVars, caller, running, displayVars, pause, asked,
                   heap, connected>>

\* The list in the answer is one the server had since the request.  Only the
\* callers in the main loop clear gNeedUpdatedDataDescriptions, only main's
\* first call is followed by fopen, which may fail.
UpdateSucceeds ==
    /\ mainPc = "fetch"
    /\ connected
    /\ defs' = "valid"
    /\ maps' \in asked..assets
    /\ need' = (caller = "init" /\ need)
    /\ file' \in IF caller = "init" THEN {"none", "open"} ELSE {file}
    /\ BackFromUpdate
    /\ UNCHANGED <<MainFrame, queueVars, caller, running, displayVars, pause, asked,
                   heap, connected>>

\* Fault: a failed request counts as served.
UpdateFailsForgets ==
    /\ mainPc = "fetch"
    /\ need' = FALSE
    /\ BackFromUpdate
    /\ UNCHANGED <<MainFrame, queueVars, caller, running, displayVars, pause,
                   descVars, heap, connected>>

\* No answer: g_pDataDefs keeps pointing at what was released.
UpdateFails ==
    /\ mainPc = "fetch"
    /\ BackFromUpdate
    /\ UNCHANGED <<MainFrame, queueVars, caller, running, displayVars, need, pause,
                   descVars, heap, connected>>

-----------------------------------------------------------------------------
(* Main thread: the loop and ProcessKeyboardInput                           *)

LoopTop ==
    /\ mainPc = "loop"
    /\ IF need
       THEN mainPc' = "release" /\ caller' = "loop"
       ELSE mainPc' = "keys" /\ UNCHANGED caller
    /\ UNCHANGED <<MainFrame, queueVars, running, displayVars, need, pause, descVars,
                   heap, connected>>

\* No key, or one that only talks to the server.
KeyNone ==
    /\ mainPc = "keys"
    /\ mainPc' = "output"
    /\ UNCHANGED <<MainFrame, queueVars, caller, running, displayVars, need, pause,
                   descVars, heap, connected>>

\* 's'
KeyDescriptions ==
    /\ mainPc = "keys"
    /\ caller' = "key"
    /\ mainPc' = "release"
    /\ UNCHANGED <<MainFrame, queueVars, running, displayVars, need, pause, descVars,
                   heap, connected>>

\* 'r', 'm', 'u' and 'c' disconnect and connect again.
KeyReconnect ==
    /\ mainPc = "keys"
    /\ caller' = "key"
    /\ connected' = FALSE
    /\ mainPc' = "join"
    /\ UNCHANGED <<MainFrame, queueVars, running, displayVars, need, pause, descVars,
                   heap>>

\* 'z'
KeyPause ==
    /\ mainPc = "keys"
    /\ pause' = ~pause
    /\ mainPc' = "output"
    /\ UNCHANGED <<MainFrame, queueVars, caller, running, displayVars, need, descVars,
                   heap, connected>>

\* 'q': the round of the loop under way is completed.
KeyQuit ==
    /\ mainPc = "keys"
    /\ running' = FALSE
    /\ mainPc' = "output"
    /\ UNCHANGED <<MainFrame, queueVars, caller, displayVars, need, pause, descVars,
                   heap, connected>>

Keys == KeyNone \/ KeyDescriptions \/ KeyReconnect \/ KeyPause \/ KeyQuit

NextRound == IF running THEN "loop" ELSE "exit"

-----------------------------------------------------------------------------
(* Main thread: OutputFrameQueueToConsole                                   *)

\* Paused, or the lock is not to be had within 5 ms: nothing to show.
OutputSkip ==
    /\ mainPc = "output"
    /\ pause \/ lock = "data"
    /\ mainPc' = NextRound
    /\ UNCHANGED <<MainFrame, queueVars, caller, running, displayVars, need, pause,
                   descVars, heap, connected>>

OutputLock ==
    /\ mainPc = "output"
    /\ ~pause
    /\ lock = "free"
    /\ lock' = "main"
    /\ mainPc' = "take"
    /\ UNCHANGED <<MainFrame, queue, caller, running, displayVars, need, pause,
                   descVars, heap, connected>>

\* Fault: the network queue is copied and not cleared.
OutputTakeCopies ==
    /\ mainPc = "take"
    /\ display' = queue
    /\ pos' = 1
    /\ lock' = "free"
    /\ mainPc' = "show"
    /\ UNCHANGED <<MainFrame, queue, caller, running, shown, written, announced, need,
                   pause, descVars, heap, connected>>

OutputTake ==
    /\ mainPc = "take"
    /\ display' = queue
    /\ pos' = 1
    /\ queue' = <<>>
    /\ lock' = "free"
    /\ mainPc' = "show"
    /\ UNCHANGED <<MainFrame, caller, running, shown, written, announced, need, pause,
                   descVars, heap, connected>>

\* The list is being waited for, or this frame announces a new one: this frame
\* and all the frames behind it are given up.
OutputBreak ==
    /\ mainPc = "show"
    /\ pos <= Len(display)
    /\ need \/ display[pos].changed
    /\ need' = TRUE
    /\ announced' \in AssetVersion
    /\ IsNewest(announced', {announced} \cup Announced(display))
    /\ mainPc' = "freeAll"
    /\ UNCHANGED <<MainFrame, queueVars, caller, running, display, pos, shown, written,
                   pause, descVars, heap, connected>>

OutputShow ==
    /\ mainPc = "show"
    /\ pos <= Len(display)
    /\ ~need
    /\ ~display[pos].changed
    /\ shown' = display[pos]
    /\ written' = IF file = "open" THEN display[pos].seq ELSE written
    /\ pos' = pos + 1
    /\ UNCHANGED <<MainFrame, queueVars, mainPc, caller, running, display, announced,
                   need, pause, descVars, heap, connected>>

OutputEnd ==
    /\ mainPc = "show"
    /\ pos > Len(display)
    /\ mainPc' = "freeAll"
    /\ UNCHANGED <<MainFrame, queueVars, caller, running, displayVars, need, pause,
                   descVars, heap, connected>>

\* Fault: bRunning is not tested.
OutputFreeForever ==
    /\ mainPc = "freeAll"
    /\ heap' = heap \ Numbers(display)
    /\ display' = <<>>
    /\ pos' = 1
    /\ mainPc' = "loop"
    /\ UNCHANGED <<MainFrame, queueVars, caller, running, shown, written, announced,
                   need, pause, descVars, connected>>

\* Every frame taken is released, shown or not.
OutputFree ==
    /\ mainPc = "freeAll"
    /\ heap' = heap \ Numbers(display)
    /\ display' = <<>>
    /\ pos' = 1
    /\ mainPc' = NextRound
    /\ UNCHANGED <<MainFrame, queueVars, caller, running, shown, written, announced,
                   need, pause, descVars, connected>>

OutputFrameQueueToConsole ==
    OutputSkip \/ OutputLock \/ OutputTake \/ OutputBreak \/ OutputShow \/ OutputEnd
      \/ OutputFree

-----------------------------------------------------------------------------
(* Main thread: the end                                                     *)

ExitDisconnect ==
    /\ mainPc = "exit"
    /\ connected' = FALSE
    /\ mainPc' = "join"
    /\ UNCHANGED <<MainFrame, queueVars, caller, running, displayVars, need, pause,
                   descVars, heap>>

\* The footer is written and the file closed, the descriptions are released.
ExitRelease ==
    /\ mainPc = "exitRelease"
    /\ file' = "none"
    /\ defs' = "null"
    /\ mainPc' \in After("exited")
    /\ UNCHANGED <<MainFrame, queueVars, caller, running, displayVars, need, pause,
                   maps, asked, heap, connected>>

Main ==
    \/ Connect \/ Join
    \/ UpdateRelease \/ UpdateSucceeds \/ UpdateFails
    \/ LoopTop \/ Keys \/ OutputFrameQueueToConsole
    \/ ExitDisconnect \/ ExitRelease

-----------------------------------------------------------------------------
(* External                                                                 *)

ClientVars == <<dataVars, queueVars, mainPc, caller, running, displayVars, need, pause,
                descVars, heap, connected, arrived>>

AssetListChanges ==
    /\ Alive
    /\ assets < MaxChanges
    /\ assets' = assets + 1
    /\ changeDue' = TRUE
    /\ UNCHANGED ClientVars

\* A frame that says the list changed does not reach DataHandler.
AnnouncementLost ==
    /\ Alive
    /\ Unreliable \/ ~connected
    /\ changeDue
    /\ changeDue' = FALSE
    /\ UNCHANGED <<ClientVars, assets>>

Terminated == ~Alive /\ UNCHANGED vars

Next == DataHandler \/ Main \/ AssetListChanges \/ AnnouncementLost \/ Terminated

Spec == Init /\ [][Next]_vars

\* Both threads are scheduled; a connected server answers some request in the end.
FairSpec ==
    /\ Spec
    /\ WF_vars(DataHandler)
    /\ WF_vars(Main)
    /\ SF_vars(UpdateSucceeds)

-----------------------------------------------------------------------------
(* Properties                                                               *)

MainPcs == {"connect", "join", "release", "fetch", "loop", "keys", "output", "take",
            "show", "freeAll", "exit", "exitRelease", "exited", "aborted"}

\* Type correctness, the cap on the network queue included.
TypeOK ==
    /\ dataPc \in {"wait", "lock", "push"} /\ hand \in Frame \cup {NoFrame}
    /\ lock \in {"free", "data", "main"}
    /\ queue \in Seq(Frame) /\ Len(queue) <= MaxQueueSize
    /\ mainPc \in MainPcs /\ caller \in {"init", "loop", "key"} /\ running \in BOOLEAN
    /\ display \in Seq(Frame) /\ pos \in 1..(Len(display) + 1)
    /\ need \in BOOLEAN /\ pause \in BOOLEAN
    /\ file \in {"none", "open"} /\ defs \in {"null", "valid", "dangling"}
    /\ maps \in AssetVersion \cup {NoMaps} /\ asked \in AssetVersion
    /\ heap \subseteq 1..MaxFrames
    /\ shown \in Frame \cup {NoFrame} /\ written \in 0..MaxFrames
    /\ announced \in AssetVersion
    /\ connected \in BOOLEAN /\ assets \in AssetVersion /\ changeDue \in BOOLEAN
    /\ arrived \in 0..MaxFrames

InHand == IF dataPc = "wait" THEN {} ELSE {hand.seq}

\* Who holds the lock, and who holds a frame, is where it should be.
HoldersInv ==
    /\ dataPc # "wait" => hand \in Frame
    /\ lock = "data" <=> dataPc = "push"
    /\ lock = "main" <=> mainPc = "take"
    /\ mainPc \notin {"show", "freeAll"} => display = <<>>

Ascending(frames) ==
    \A i, j \in 1..Len(frames) : i < j => frames[i].seq < frames[j].seq

\* Frames are numbered in the order of arrival from the display queue through
\* the network queue to the frame in DataHandler.
OrderInv ==
    /\ Ascending(display) /\ Ascending(queue)
    /\ \A i \in 1..Len(display), j \in 1..Len(queue) : display[i].seq < queue[j].seq
    /\ mainPc = "show" => \A i \in pos..Len(display) : shown.seq < display[i].seq
    /\ \A j \in 1..Len(queue) : shown.seq < queue[j].seq
    /\ dataPc # "wait" =>
          /\ hand.seq = arrived
          /\ shown.seq < hand.seq
          /\ \A i \in 1..Len(display) : display[i].seq < hand.seq
          /\ \A j \in 1..Len(queue) : queue[j].seq < hand.seq
    /\ shown.seq <= arrived
    /\ \A i \in 1..Len(display) : display[i].seq <= arrived
    /\ \A j \in 1..Len(queue) : queue[j].seq <= arrived

\* No asset list is newer than the server's.
AssetsInv ==
    /\ maps <= assets /\ asked <= assets /\ announced <= assets
    /\ hand.assets <= assets
    /\ \A i \in 1..Len(display) : display[i].assets <= assets
    /\ \A j \in 1..Len(queue) : queue[j].assets <= assets
    /\ mainPc = "fetch" => announced <= asked

\* Every copy of a frame whose members are allocated is in exactly one place,
\* in DataHandler, in the network queue or in the display queue, and every
\* frame in one of these is allocated: none is leaked while main runs, none is
\* released twice and none is used after its release, whichever of the two
\* threads drops it and for whatever reason.
FramesOwnedOnce ==
    /\ heap = InHand \cup Numbers(queue) \cup Numbers(display)
    /\ InHand \cap (Numbers(queue) \cup Numbers(display)) = {}
    /\ Numbers(queue) \cap Numbers(display) = {}

\* Frames are shown with maps at least as recent as every asset list that any
\* frame taken off the queue announced, the announcements among the frames
\* thrown away behind another one and failed requests included.
MapsFollowFlags == ~need => announced <= maps

\* The inductive invariant of the proofs.
PipelineInv ==
    TypeOK /\ HoldersInv /\ OrderInv /\ AssetsInv /\ FramesOwnedOnce /\ MapsFollowFlags

ToShow == IF mainPc = "show" THEN {display[i].seq : i \in pos..Len(display)} ELSE {}

Feed == INSTANCE FrameFeed
          WITH accepted <- arrived,
               held <- InHand \cup Numbers(queue) \cup ToShow,
               delivered <- shown.seq

\* The pipeline implements the abstract feed: frames are lost at the cap, at a
\* lock not obtained and behind an announcement, and the others are shown in
\* the order of their arrival, each once.
ImplementsFeed == Feed!Spec

\* A list that is waited for arrives, or the session ends or loses its server.
NeedIsServed == need ~> (~need \/ ~connected \/ ~running \/ ~Alive)

\* 'q' ends the program: no wait for the lock or for a DataHandler under way
\* holds main back for ever.
QuitEnds == ~running ~> ~Alive

\* SampleClient.cpp:736 says of the maps: "Update maps whenever the asset list in
\* Motive has changed (as indicated in the data packet's TrackedModelsChanged
\* bit)".  The names shown with a frame are from its asset list or a later one.
MapsCoverFrame == shown.assets <= maps \/ shown = NoFrame
==============================================================================
