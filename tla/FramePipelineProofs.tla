------------------------- MODULE FramePipelineProofs -------------------------
(***************************************************************************)
(* Safety of the frame pipeline for every size of the queue and any number *)
(* of frames and changes: PipelineInv is inductive, so no frame is leaked  *)
(* or released twice and no frame is shown with maps older than an asset   *)
(* list announced before, and every step of the pipeline is a step of the  *)
(* abstract feed or leaves it alone.  Beside it, FileInv relates the file   *)
(* to the console and QuitInv bounds the way to the end of the program.     *)
(***************************************************************************)
EXTENDS FramePipeline, TLAPS

\* An index below another one is not the last.
LEMMA BelowLast ==
    ASSUME NEW n \in Nat, NEW i \in 1..(n + 1), NEW j \in 1..(n + 1), i < j
    PROVE  i \in 1..n /\ (j \in 1..n \/ j = n + 1)
  OBVIOUS

\* What adding a frame at the end of a queue does.
LEMMA AppendFacts ==
    ASSUME NEW q \in Seq(Frame), NEW f \in Frame
    PROVE  /\ Append(q, f) \in Seq(Frame)
           /\ Len(Append(q, f)) = Len(q) + 1
           /\ \A i \in 1..Len(q) : Append(q, f)[i] = q[i]
           /\ Append(q, f)[Len(q) + 1] = f
           /\ Numbers(Append(q, f)) = Numbers(q) \cup {f.seq}
  <1>1. /\ Append(q, f) \in Seq(Frame)
        /\ Len(Append(q, f)) = Len(q) + 1
        /\ \A i \in 1..Len(q) : Append(q, f)[i] = q[i]
        /\ Append(q, f)[Len(q) + 1] = f
    OBVIOUS
  <1>2. 1..(Len(q) + 1) = 1..Len(q) \cup {Len(q) + 1}
    OBVIOUS
  <1>3. Numbers(Append(q, f)) = Numbers(q) \cup {f.seq}
    BY <1>1, <1>2 DEF Numbers
  <1> QED
    BY <1>1, <1>3

\* What removing the oldest frame does.
LEMMA TailFacts ==
    ASSUME NEW q \in Seq(Frame), q # <<>>
    PROVE  /\ Tail(q) \in Seq(Frame)
           /\ Len(q) \in Nat \ {0}
           /\ Len(Tail(q)) = Len(q) - 1
           /\ \A i \in 1..Len(Tail(q)) : Tail(q)[i] = q[i + 1]
           /\ Head(q) = q[1]
           /\ Numbers(q) = {Head(q).seq} \cup Numbers(Tail(q))
  <1>1. /\ Tail(q) \in Seq(Frame)
        /\ Len(q) \in Nat \ {0}
        /\ Len(Tail(q)) = Len(q) - 1
        /\ \A i \in 1..Len(Tail(q)) : Tail(q)[i] = q[i + 1]
        /\ Head(q) = q[1]
    OBVIOUS
  <1>2. \A i \in 1..Len(q) : i = 1 \/ (i - 1 \in 1..Len(Tail(q)) /\ q[i] = Tail(q)[i - 1])
    BY <1>1
  <1>3. \A i \in 1..Len(Tail(q)) : i + 1 \in 1..Len(q)
    BY <1>1
  <1>4. Numbers(q) = {Head(q).seq} \cup Numbers(Tail(q))
    BY <1>1, <1>2, <1>3 DEF Numbers
  <1> QED
    BY <1>1, <1>4

\* The frames of a queue are frames.
LEMMA NumbersType ==
    ASSUME NEW q \in Seq(Frame)
    PROVE  /\ \A i \in 1..Len(q) : q[i] \in Frame /\ q[i].seq \in 1..MaxFrames
           /\ Numbers(q) \subseteq 1..MaxFrames
  <1>1. \A i \in 1..Len(q) : q[i] \in Frame
    OBVIOUS
  <1>2. \A f \in Frame : f.seq \in 1..MaxFrames
    BY DEF Frame
  <1> QED
    BY <1>1, <1>2 DEF Numbers

LEMMA EmptyNumbers == Numbers(<<>>) = {} /\ Len(<<>>) = 0 /\ <<>> \in Seq(Frame)
  BY DEF Numbers

LEMMA TypeInit == Init => TypeOK
  <1> SUFFICES ASSUME Init PROVE TypeOK
    OBVIOUS
  <1>1. 0 \in AssetVersion /\ 0 \in 0..MaxFrames
    BY PipelineAssumption DEF AssetVersion
  <1>2. queue \in Seq(Frame) /\ Len(queue) <= MaxQueueSize
    BY PipelineAssumption, EmptyNumbers DEF Init
  <1>3. display \in Seq(Frame) /\ pos \in 1..(Len(display) + 1)
    BY EmptyNumbers DEF Init
  <1> QED
    BY <1>1, <1>2, <1>3 DEF Init, TypeOK, MainPcs

USE PipelineAssumption

LEMMA TypeStep ==
    ASSUME TypeOK, HoldersInv, [Next]_vars
    PROVE  TypeOK'
  <1> USE DEF TypeOK, MainPcs
  <1>1. CASE DataCopy
    <2>1. hand' \in Frame
      BY <1>1 DEF DataCopy, Frame
    <2>2. arrived' \in 0..MaxFrames /\ heap' \subseteq 1..MaxFrames
      BY <1>1 DEF DataCopy
    <2>3. changeDue' \in BOOLEAN
      BY <1>1 DEF DataCopy
    <2> QED
      BY <1>1, <2>1, <2>2, <2>3
      DEF DataCopy, DataFrame, displayVars, descVars, queueVars
  <1>2. CASE DataLock
    BY <1>2 DEF DataLock, DataFrame, displayVars, descVars
  <1>3. CASE DataDrop
    <2>1. heap' \subseteq 1..MaxFrames
      BY <1>3 DEF DataDrop
    <2> QED
      BY <1>3, <2>1 DEF DataDrop, DataFrame, displayVars, descVars, queueVars
  <1>4. CASE DataPush
    <2>1. hand \in Frame
      BY <1>4 DEF DataPush, HoldersInv
    <2>2. queue' \in Seq(Frame) /\ Len(queue') <= MaxQueueSize
      <3>1. CASE Len(queue) + 1 > MaxQueueSize
        <4>1. queue # <<>> /\ queue' = Append(Tail(queue), hand)
          BY <1>4, <3>1 DEF DataPush
        <4>2. Tail(queue) \in Seq(Frame) /\ Len(Tail(queue)) = Len(queue) - 1
          BY <4>1
        <4> QED
          BY <4>1, <4>2, <2>1
      <3>2. CASE ~(Len(queue) + 1 > MaxQueueSize)
        <4>1. queue' = Append(queue, hand)
          BY <1>4, <3>2 DEF DataPush
        <4> QED
          BY <4>1, <2>1, <3>2
      <3> QED
        BY <3>1, <3>2
    <2>3. heap' \subseteq 1..MaxFrames
      BY <1>4 DEF DataPush
    <2> QED
      BY <1>4, <2>2, <2>3 DEF DataPush, DataFrame, displayVars, descVars
  <1>5. CASE Connect
    BY <1>5 DEF Connect, MainFrame, dataVars, serverVars, queueVars, displayVars, descVars
  <1>6. CASE Join
    BY <1>6 DEF Join, MainFrame, dataVars, serverVars, queueVars, displayVars, descVars
  <1>7. CASE UpdateRelease
    BY <1>7 DEF UpdateRelease, Released, After, MainFrame, dataVars, serverVars,
                queueVars, displayVars
  <1>8. CASE UpdateSucceeds
    <2>1. maps' \in AssetVersion
      BY <1>8 DEF UpdateSucceeds, AssetVersion
    <2>2. file' \in {"none", "open"} /\ need' \in BOOLEAN
      BY <1>8 DEF UpdateSucceeds
    <2>3. mainPc' \in {"loop", "keys", "output"}
      BY <1>8 DEF UpdateSucceeds, BackFromUpdate
    <2> QED
      BY <1>8, <2>1, <2>2, <2>3
      DEF UpdateSucceeds, MainFrame, dataVars, serverVars, queueVars, displayVars
  <1>9. CASE UpdateFails
    BY <1>9 DEF UpdateFails, BackFromUpdate, MainFrame, dataVars, serverVars,
                queueVars, displayVars, descVars
  <1>10. CASE LoopTop
    BY <1>10 DEF LoopTop, MainFrame, dataVars, serverVars, queueVars, displayVars, descVars
  <1>11. CASE Keys
    <2>1. running' \in BOOLEAN /\ connected' \in BOOLEAN /\ pause' \in BOOLEAN
      BY <1>11 DEF Keys, KeyNone, KeyDescriptions, KeyReconnect, KeyPause, KeyQuit
    <2>2. mainPc' \in MainPcs /\ caller' \in {"init", "loop", "key"}
      BY <1>11 DEF Keys, KeyNone, KeyDescriptions, KeyReconnect, KeyPause, KeyQuit
    <2>3. UNCHANGED <<MainFrame, queueVars, displayVars, need, descVars, heap>>
      BY <1>11 DEF Keys, KeyNone, KeyDescriptions, KeyReconnect, KeyPause, KeyQuit
    <2> QED
      BY <2>1, <2>2, <2>3
      DEF MainFrame, dataVars, serverVars, queueVars, displayVars, descVars
  <1>12. CASE OutputSkip
    BY <1>12 DEF OutputSkip, NextRound, MainFrame, dataVars, serverVars, queueVars,
                 displayVars, descVars
  <1>13. CASE OutputLock
    BY <1>13 DEF OutputLock, MainFrame, dataVars, serverVars, displayVars, descVars
  <1>14. CASE OutputTake
    BY <1>14, EmptyNumbers
    DEF OutputTake, MainFrame, dataVars, serverVars, descVars
  <1>15. CASE OutputBreak
    BY <1>15 DEF OutputBreak, MainFrame, dataVars, serverVars, queueVars, descVars
  <1>16. CASE OutputShow
    <2>1. pos \in 1..Len(display) /\ display[pos] \in Frame
      BY <1>16 DEF OutputShow
    <2>2. display[pos].seq \in 1..MaxFrames
      BY <2>1 DEF Frame
    <2>3. written' \in 0..MaxFrames
      BY <1>16, <2>2 DEF OutputShow
    <2>4. pos' \in 1..(Len(display) + 1)
      BY <1>16, <2>1 DEF OutputShow
    <2> QED
      BY <1>16, <2>1, <2>3, <2>4
      DEF OutputShow, MainFrame, dataVars, serverVars, queueVars, descVars
  <1>17. CASE OutputEnd
    BY <1>17 DEF OutputEnd, MainFrame, dataVars, serverVars, queueVars, displayVars, descVars
  <1>18. CASE OutputFree
    <2>1. heap' \subseteq 1..MaxFrames
      BY <1>18 DEF OutputFree
    <2>2. display' \in Seq(Frame) /\ pos' \in 1..(Len(display') + 1)
      BY <1>18, EmptyNumbers DEF OutputFree
    <2> QED
      BY <1>18, <2>1, <2>2
      DEF OutputFree, NextRound, MainFrame, dataVars, serverVars, queueVars, descVars
  <1>19. CASE ExitDisconnect
    <2>1. connected' \in BOOLEAN
      BY <1>19 DEF ExitDisconnect
    <2> QED
      BY <1>19, <2>1
      DEF ExitDisconnect, MainFrame, dataVars, serverVars, queueVars, displayVars, descVars
  <1>20. CASE ExitRelease
    BY <1>20 DEF ExitRelease, After, MainFrame, dataVars, serverVars, queueVars, displayVars
  <1>21. CASE AssetListChanges
    BY <1>21 DEF AssetListChanges, AssetVersion, ClientVars, dataVars, queueVars,
                 displayVars, descVars
  <1>22. CASE AnnouncementLost
    <2>1. changeDue' \in BOOLEAN
      BY <1>22 DEF AnnouncementLost
    <2> QED
      BY <1>22, <2>1
      DEF AnnouncementLost, ClientVars, dataVars, queueVars, displayVars, descVars
  <1>23. CASE UNCHANGED vars
    BY <1>23 DEF vars, dataVars, queueVars, displayVars, descVars, serverVars
  <1> QED
    BY <1>1, <1>2, <1>3, <1>4, <1>5, <1>6, <1>7, <1>8, <1>9, <1>10, <1>11, <1>12,
       <1>13, <1>14, <1>15, <1>16, <1>17, <1>18, <1>19, <1>20, <1>21, <1>22, <1>23
    DEF Next, DataHandler, Main, OutputFrameQueueToConsole, Terminated

\* The steps that move a frame; all the others leave the frames where they are.
Moves == DataCopy \/ DataDrop \/ DataPush \/ OutputTake \/ OutputShow \/ OutputFree

LEMMA QuietSteps ==
    ASSUME [Next]_vars, ~Moves
    PROVE  /\ UNCHANGED <<hand, queue, display, pos, shown, arrived, heap>>
           /\ dataPc' = "wait" <=> dataPc = "wait"
           /\ mainPc' = "show" => mainPc = "show"
  <1> USE DEF MainFrame, dataVars, serverVars, queueVars, displayVars
  <1>1. CASE DataLock
    BY <1>1 DEF DataLock, DataFrame
  <1>2. CASE Connect \/ Join
    BY <1>2 DEF Connect, Join
  <1>3. CASE UpdateRelease
    BY <1>3 DEF UpdateRelease, After
  <1>4. CASE UpdateSucceeds \/ UpdateFails
    BY <1>4 DEF UpdateSucceeds, UpdateFails, BackFromUpdate
  <1>5. CASE LoopTop \/ Keys
    BY <1>5 DEF LoopTop, Keys, KeyNone, KeyDescriptions, KeyReconnect, KeyPause, KeyQuit
  <1>6. CASE OutputSkip \/ OutputLock
    BY <1>6 DEF OutputSkip, OutputLock, NextRound
  <1>7. CASE OutputBreak \/ OutputEnd
    BY <1>7 DEF OutputBreak, OutputEnd
  <1>8. CASE ExitDisconnect \/ ExitRelease
    BY <1>8 DEF ExitDisconnect, ExitRelease, After
  <1>9. CASE AssetListChanges \/ AnnouncementLost
    BY <1>9 DEF AssetListChanges, AnnouncementLost, ClientVars
  <1>10. CASE UNCHANGED vars
    BY <1>10 DEF vars
  <1> QED
    BY <1>1, <1>2, <1>3, <1>4, <1>5, <1>6, <1>7, <1>8, <1>9, <1>10
    DEF Moves, Next, DataHandler, Main, OutputFrameQueueToConsole, Terminated

LEMMA HoldersStep ==
    ASSUME TypeOK, HoldersInv, [Next]_vars
    PROVE  HoldersInv'
  <1> USE DEF HoldersInv, MainFrame, DataFrame, dataVars, queueVars, displayVars
  <1>1. CASE DataCopy
    <2>1. hand' \in Frame
      BY <1>1 DEF DataCopy, Frame, TypeOK
    <2> QED
      BY <1>1, <2>1 DEF DataCopy
  <1>2. CASE DataLock
    BY <1>2 DEF DataLock
  <1>3. CASE DataDrop
    BY <1>3 DEF DataDrop
  <1>4. CASE DataPush
    BY <1>4 DEF DataPush
  <1>5. CASE Connect \/ Join
    BY <1>5 DEF Connect, Join
  <1>6. CASE UpdateRelease
    BY <1>6 DEF UpdateRelease, After
  <1>7. CASE UpdateSucceeds \/ UpdateFails
    BY <1>7 DEF UpdateSucceeds, UpdateFails, BackFromUpdate
  <1>8. CASE LoopTop \/ Keys
    BY <1>8 DEF LoopTop, Keys, KeyNone, KeyDescriptions, KeyReconnect, KeyPause, KeyQuit
  <1>9. CASE OutputSkip \/ OutputLock
    BY <1>9 DEF OutputSkip, OutputLock, NextRound
  <1>10. CASE OutputTake
    BY <1>10 DEF OutputTake
  <1>11. CASE OutputBreak \/ OutputShow \/ OutputEnd
    BY <1>11 DEF OutputBreak, OutputShow, OutputEnd
  <1>12. CASE OutputFree
    BY <1>12 DEF OutputFree, NextRound
  <1>13. CASE ExitDisconnect \/ ExitRelease
    BY <1>13 DEF ExitDisconnect, ExitRelease, After
  <1>14. CASE AssetListChanges \/ AnnouncementLost
    BY <1>14 DEF AssetListChanges, AnnouncementLost, ClientVars
  <1>15. CASE UNCHANGED vars
    BY <1>15 DEF vars
  <1> QED
    BY <1>1, <1>2, <1>3, <1>4, <1>5, <1>6, <1>7, <1>8, <1>9, <1>10, <1>11, <1>12,
       <1>13, <1>14, <1>15
    DEF Next, DataHandler, Main, OutputFrameQueueToConsole, Terminated

LEMMA OrderStep ==
    ASSUME TypeOK, HoldersInv, OrderInv, [Next]_vars
    PROVE  OrderInv'
  <1> USE DEF TypeOK
  <1>s. shown.seq \in Int
    BY DEF Frame, NoFrame
  <1>d. \A i \in 1..Len(display) : display[i].seq \in Int
    BY NumbersType
  <1>q. \A i \in 1..Len(queue) : queue[i].seq \in Int
    BY NumbersType
  <1>h. hand.seq \in Int
    BY DEF Frame, NoFrame
  <1>1. CASE DataCopy
    <2>1. /\ UNCHANGED <<queue, display, pos, shown, mainPc>>
          /\ arrived' = arrived + 1 /\ hand'.seq = arrived + 1
      BY <1>1 DEF DataCopy, DataFrame, displayVars, queueVars
    <2> QED
      BY <2>1, <1>s, <1>d, <1>q DEF OrderInv, Ascending
  <1>2. CASE DataDrop
    <2>1. UNCHANGED <<queue, display, pos, shown, mainPc, arrived>> /\ dataPc' = "wait"
      BY <1>2 DEF DataDrop, DataFrame, displayVars, queueVars
    <2> QED
      BY <2>1 DEF OrderInv, Ascending
  <1>3. CASE DataPush
    <2>1. UNCHANGED <<display, pos, shown, mainPc, arrived>> /\ dataPc' = "wait"
      BY <1>3 DEF DataPush, DataFrame, displayVars
    <2>2. hand \in Frame /\ dataPc # "wait"
      BY <1>3 DEF DataPush, HoldersInv
    <2>3. PICK left \in Seq(Frame) :
             /\ queue' = Append(left, hand)
             /\ \/ left = queue
                \/ queue # <<>> /\ left = Tail(queue)
      <3>1. CASE Len(queue) + 1 > MaxQueueSize
        <4>1. queue # <<>> /\ queue' = Append(Tail(queue), hand)
          BY <1>3, <3>1 DEF DataPush
        <4> QED
          BY <4>1, TailFacts
      <3>2. CASE ~(Len(queue) + 1 > MaxQueueSize)
        BY <1>3, <3>2 DEF DataPush
      <3> QED
        BY <3>1, <3>2
    <2>4. /\ Ascending(left)
          /\ \A i \in 1..Len(left) : \E j \in 1..Len(queue) : left[i] = queue[j]
      <3>1. CASE left = queue
        BY <3>1 DEF OrderInv
      <3>2. CASE queue # <<>> /\ left = Tail(queue)
        <4>1. \A i \in 1..Len(left) : i + 1 \in 1..Len(queue) /\ left[i] = queue[i + 1]
          BY <3>2, TailFacts
        <4>2. Len(left) \in Nat
          BY <2>3
        <4>3. ASSUME NEW i \in 1..Len(left), NEW j \in 1..Len(left), i < j
              PROVE  left[i].seq < left[j].seq
          <5>1. i + 1 \in 1..Len(queue) /\ j + 1 \in 1..Len(queue) /\ i + 1 < j + 1
            BY <4>1, <4>2, <4>3
          <5>2. queue[i + 1].seq < queue[j + 1].seq
            BY <5>1 DEF OrderInv, Ascending
          <5> QED
            BY <4>1, <5>2
        <4> QED
          BY <4>1, <4>3 DEF Ascending
      <3> QED
        BY <2>3, <3>1, <3>2
    <2>5. /\ Len(queue') = Len(left) + 1 /\ Len(left) \in Nat
          /\ \A i \in 1..Len(left) : queue'[i] = left[i]
          /\ queue'[Len(left) + 1] = hand
      BY <2>2, <2>3, AppendFacts
    <2>6. \A i \in 1..Len(left) : left[i].seq < hand.seq /\ left[i].seq \in Int
      BY <2>2, <2>4, <1>q DEF OrderInv
    <2>7. Ascending(queue')
      <3> SUFFICES ASSUME NEW i \in 1..Len(queue'), NEW j \in 1..Len(queue'), i < j
                   PROVE  queue'[i].seq < queue'[j].seq
        BY DEF Ascending
      <3>1. i \in 1..Len(left) /\ (j \in 1..Len(left) \/ j = Len(left) + 1)
        <4> HIDE DEF TypeOK
        <4> QED
          BY <2>5, BelowLast
      <3> QED
        BY <3>1, <2>4, <2>5, <2>6 DEF Ascending
    <2>8. \A j \in 1..Len(queue') :
             \/ queue'[j] = hand
             \/ \E k \in 1..Len(queue) : queue'[j] = queue[k]
      <3> TAKE j \in 1..Len(queue')
      <3>1. j \in 1..Len(left) \/ j = Len(left) + 1
        BY <2>5
      <3> QED
        BY <3>1, <2>4, <2>5
    <2>9. hand.seq = arrived
      BY <2>2 DEF OrderInv
    <2>10. \A j \in 1..Len(queue') : queue'[j].seq <= arrived /\ shown.seq < queue'[j].seq
      <3>1. hand.seq <= arrived /\ shown.seq < hand.seq
        BY <2>2, <2>9 DEF OrderInv
      <3>2. \A k \in 1..Len(queue) : queue[k].seq <= arrived /\ shown.seq < queue[k].seq
        BY DEF OrderInv
      <3> QED
        BY <2>8, <3>1, <3>2
    <2>11. \A i \in 1..Len(display), j \in 1..Len(queue') : display[i].seq < queue'[j].seq
      BY <2>2, <2>8 DEF OrderInv
    <2>12. Ascending(display)' /\ Ascending(queue)'
      BY <2>1, <2>7 DEF OrderInv, Ascending
    <2> QED
      BY <2>1, <2>10, <2>11, <2>12 DEF OrderInv
  <1>4. CASE OutputTake
    <2>1. /\ display' = queue /\ pos' = 1 /\ queue' = <<>> /\ Len(queue') = 0
          /\ UNCHANGED <<shown, arrived, hand, dataPc>>
      BY <1>4, EmptyNumbers DEF OutputTake, MainFrame, dataVars, serverVars
    <2> QED
      BY <2>1 DEF OrderInv, Ascending
  <1>5. CASE OutputShow
    <2>1. /\ pos \in 1..Len(display) /\ mainPc = "show"
          /\ shown' = display[pos] /\ pos' = pos + 1
          /\ UNCHANGED <<display, queue, arrived, hand, dataPc, mainPc>>
      BY <1>5 DEF OutputShow, MainFrame, dataVars, serverVars, queueVars
    <2>2. \A i \in (pos + 1)..Len(display) : display[pos].seq < display[i].seq
      BY <2>1 DEF OrderInv, Ascending
    <2> QED
      BY <2>1, <2>2 DEF OrderInv, Ascending
  <1>6. CASE OutputFree
    <2>1. /\ display' = <<>> /\ Len(display') = 0 /\ mainPc' # "show"
          /\ UNCHANGED <<shown, queue, arrived, hand, dataPc>>
      BY <1>6, EmptyNumbers
      DEF OutputFree, NextRound, MainFrame, dataVars, serverVars, queueVars
    <2> QED
      BY <2>1 DEF OrderInv, Ascending
  <1>7. CASE ~Moves
    BY <1>7, QuietSteps DEF OrderInv, Ascending
  <1> QED
    BY <1>1, <1>2, <1>3, <1>4, <1>5, <1>6, <1>7 DEF Moves

LEMMA OwnedStep ==
    ASSUME TypeOK, HoldersInv, OrderInv, FramesOwnedOnce, [Next]_vars
    PROVE  FramesOwnedOnce'
  <1> USE DEF TypeOK
  <1>1. CASE DataCopy
    <2>1. /\ UNCHANGED <<queue, display>>
          /\ heap' = heap \cup {arrived + 1} /\ hand'.seq = arrived + 1
          /\ dataPc = "wait" /\ dataPc' = "lock"
      BY <1>1 DEF DataCopy, DataFrame, displayVars, queueVars
    <2>2. arrived + 1 \notin Numbers(queue) \cup Numbers(display)
      <3>1. \A i \in 1..Len(queue) : queue[i].seq # arrived + 1
        BY NumbersType DEF OrderInv
      <3>2. \A i \in 1..Len(display) : display[i].seq # arrived + 1
        BY NumbersType DEF OrderInv
      <3> QED
        BY <3>1, <3>2 DEF Numbers
    <2>3. Numbers(queue)' = Numbers(queue) /\ Numbers(display)' = Numbers(display)
      BY <2>1 DEF Numbers
    <2>4. InHand = {} /\ InHand' = {arrived + 1}
      BY <2>1 DEF InHand
    <2> QED
      BY <2>1, <2>2, <2>3, <2>4 DEF FramesOwnedOnce
  <1>2. CASE DataDrop
    <2>1. /\ UNCHANGED <<queue, display>>
          /\ heap' = heap \ {hand.seq} /\ dataPc = "lock" /\ dataPc' = "wait"
      BY <1>2 DEF DataDrop, DataFrame, displayVars, queueVars
    <2>2. Numbers(queue)' = Numbers(queue) /\ Numbers(display)' = Numbers(display)
      BY <2>1 DEF Numbers
    <2>3. InHand = {hand.seq} /\ InHand' = {}
      BY <2>1 DEF InHand
    <2> QED
      BY <2>1, <2>2, <2>3 DEF FramesOwnedOnce
  <1>3. CASE DataPush
    <2>1. /\ UNCHANGED <<display>> /\ dataPc = "push" /\ dataPc' = "wait"
          /\ hand \in Frame
      BY <1>3 DEF DataPush, DataFrame, displayVars, HoldersInv
    <2>2. InHand = {hand.seq} /\ InHand' = {}
      BY <2>1 DEF InHand
    <2>3. Numbers(display)' = Numbers(display)
      BY <2>1 DEF Numbers
    <2>4. CASE Len(queue) + 1 > MaxQueueSize
      <3>1. /\ queue # <<>> /\ queue' = Append(Tail(queue), hand)
            /\ heap' = heap \ {Head(queue).seq}
        BY <1>3, <2>4 DEF DataPush
      <3>2. Numbers(queue') = Numbers(Tail(queue)) \cup {hand.seq}
        BY <3>1, <2>1, TailFacts, AppendFacts
      <3>3. Head(queue).seq \notin Numbers(Tail(queue))
        <4>1. \A i \in 1..Len(Tail(queue)) : queue[1].seq < Tail(queue)[i].seq
          BY <3>1, TailFacts DEF OrderInv, Ascending
        <4>2. \A i \in 1..Len(Tail(queue)) : Tail(queue)[i].seq \in Int
          BY <3>1, TailFacts, NumbersType
        <4> QED
          BY <3>1, <4>1, <4>2, TailFacts DEF Numbers
      <3>4. Numbers(queue) = {Head(queue).seq} \cup Numbers(Tail(queue))
        BY <3>1, TailFacts
      <3>5. Numbers(queue)' = Numbers(queue')
        BY DEF Numbers
      <3> QED
        BY <2>2, <2>3, <3>1, <3>2, <3>3, <3>4, <3>5 DEF FramesOwnedOnce
    <2>5. CASE ~(Len(queue) + 1 > MaxQueueSize)
      <3>1. queue' = Append(queue, hand) /\ heap' = heap
        BY <1>3, <2>5 DEF DataPush
      <3>2. Numbers(queue') = Numbers(queue) \cup {hand.seq}
        BY <3>1, <2>1, AppendFacts
      <3>3. Numbers(queue)' = Numbers(queue')
        BY DEF Numbers
      <3> QED
        BY <2>2, <2>3, <3>1, <3>2, <3>3 DEF FramesOwnedOnce
    <2> QED
      BY <2>4, <2>5
  <1>4. CASE OutputTake
    <2>1. /\ display' = queue /\ queue' = <<>> /\ display = <<>>
          /\ UNCHANGED <<heap, hand, dataPc>>
      BY <1>4 DEF OutputTake, MainFrame, dataVars, HoldersInv
    <2>2. Numbers(queue)' = {} /\ Numbers(display)' = Numbers(queue) /\ Numbers(display) = {}
      BY <2>1, EmptyNumbers DEF Numbers
    <2>3. InHand' = InHand
      BY <2>1 DEF InHand
    <2> QED
      BY <2>1, <2>2, <2>3 DEF FramesOwnedOnce
  <1>5. CASE OutputShow
    <2>1. UNCHANGED <<queue, display, heap, hand, dataPc>>
      BY <1>5 DEF OutputShow, MainFrame, dataVars, queueVars
    <2>2. Numbers(display)' = Numbers(display) /\ Numbers(queue)' = Numbers(queue)
      BY <2>1 DEF Numbers
    <2>3. InHand' = InHand
      BY <2>1 DEF InHand
    <2> QED
      BY <2>1, <2>2, <2>3 DEF FramesOwnedOnce
  <1>6. CASE OutputFree
    <2>1. /\ display' = <<>> /\ heap' = heap \ Numbers(display)
          /\ UNCHANGED <<queue, hand, dataPc>>
      BY <1>6 DEF OutputFree, MainFrame, dataVars, queueVars
    <2>2. Numbers(display)' = {} /\ Numbers(queue)' = Numbers(queue) /\ InHand' = InHand
      BY <2>1, EmptyNumbers DEF Numbers, InHand
    <2> QED
      BY <2>1, <2>2 DEF FramesOwnedOnce
  <1>7. CASE ~Moves
    <2>1. /\ UNCHANGED <<hand, queue, display, heap>>
          /\ dataPc' = "wait" <=> dataPc = "wait"
      BY <1>7, QuietSteps
    <2>2. Numbers(display)' = Numbers(display) /\ Numbers(queue)' = Numbers(queue)
      BY <2>1 DEF Numbers
    <2>3. InHand' = InHand
      BY <2>1 DEF InHand
    <2> QED
      BY <2>1, <2>2, <2>3 DEF FramesOwnedOnce
  <1> QED
    BY <1>1, <1>2, <1>3, <1>4, <1>5, <1>6, <1>7 DEF Moves

LEMMA AssetsStep ==
    ASSUME TypeOK, HoldersInv, AssetsInv, [Next]_vars
    PROVE  AssetsInv'
  <1> USE DEF TypeOK
  <1>a. /\ assets \in Int /\ maps \in Int /\ asked \in Int /\ announced \in Int
        /\ hand.assets \in Int
    BY DEF AssetVersion, NoMaps, Frame, NoFrame
  <1>1. CASE DataCopy
    <2>1. /\ UNCHANGED <<queue, display, mainPc, maps, asked, announced, assets>>
          /\ hand'.assets = assets
      BY <1>1 DEF DataCopy, DataFrame, displayVars, queueVars, descVars
    <2> QED
      BY <2>1, <1>a DEF AssetsInv
  <1>2. CASE DataDrop
    <2>1. /\ UNCHANGED <<queue, display, mainPc, maps, asked, announced, assets>>
          /\ hand'.assets = 0 /\ 0 <= assets
      BY <1>2 DEF DataDrop, DataFrame, displayVars, queueVars, descVars, NoFrame, AssetVersion
    <2> QED
      BY <2>1 DEF AssetsInv
  <1>3. CASE DataPush
    <2>1. /\ UNCHANGED <<display, mainPc, maps, asked, announced, assets>>
          /\ hand'.assets = 0 /\ 0 <= assets /\ hand \in Frame
      BY <1>3 DEF DataPush, DataFrame, displayVars, descVars, NoFrame, AssetVersion, HoldersInv
    <2>2. \A j \in 1..Len(queue') : queue'[j].assets <= assets
      <3>1. CASE Len(queue) + 1 > MaxQueueSize
        <4>1. queue # <<>> /\ queue' = Append(Tail(queue), hand)
          BY <1>3, <3>1 DEF DataPush
        <4>2. \A i \in 1..Len(Tail(queue)) : i + 1 \in 1..Len(queue) /\ Tail(queue)[i] = queue[i + 1]
          BY <4>1, TailFacts
        <4>3. TAKE j \in 1..Len(queue')
        <4>4. j \in 1..Len(Tail(queue)) \/ queue'[j] = hand
          BY <2>1, <4>1, TailFacts, AppendFacts
        <4> QED
          BY <2>1, <4>1, <4>2, <4>4, TailFacts, AppendFacts DEF AssetsInv
      <3>2. CASE ~(Len(queue) + 1 > MaxQueueSize)
        <4>1. queue' = Append(queue, hand)
          BY <1>3, <3>2 DEF DataPush
        <4>2. TAKE j \in 1..Len(queue')
        <4>3. j \in 1..Len(queue) \/ queue'[j] = hand
          BY <2>1, <4>1, AppendFacts
        <4> QED
          BY <2>1, <4>1, <4>3, AppendFacts DEF AssetsInv
      <3> QED
        BY <3>1, <3>2
    <2> QED
      BY <2>1, <2>2 DEF AssetsInv
  <1>4. CASE OutputTake
    <2>1. /\ display' = queue /\ Len(queue') = 0 /\ mainPc' = "show"
          /\ UNCHANGED <<hand, maps, asked, announced, assets>>
      BY <1>4, EmptyNumbers DEF OutputTake, MainFrame, dataVars, serverVars, descVars
    <2> QED
      BY <2>1 DEF AssetsInv
  <1>5. CASE OutputShow
    <2>1. UNCHANGED <<queue, display, hand, mainPc, maps, asked, announced, assets>>
      BY <1>5 DEF OutputShow, MainFrame, dataVars, serverVars, queueVars, descVars
    <2> QED
      BY <2>1 DEF AssetsInv
  <1>6. CASE OutputFree
    <2>1. /\ Len(display') = 0 /\ mainPc' # "fetch"
          /\ UNCHANGED <<queue, hand, maps, asked, announced, assets>>
      BY <1>6, EmptyNumbers
      DEF OutputFree, NextRound, MainFrame, dataVars, serverVars, queueVars, descVars
    <2> QED
      BY <2>1 DEF AssetsInv
  <1>7. CASE UpdateRelease
    <2>1. /\ asked' = assets
          /\ UNCHANGED <<queue, display, hand, maps, announced, assets>>
      BY <1>7 DEF UpdateRelease, MainFrame, dataVars, serverVars, queueVars, displayVars
    <2> QED
      BY <2>1, <1>a DEF AssetsInv
  <1>8. CASE UpdateSucceeds
    <2>1. /\ maps' <= assets /\ mainPc' # "fetch"
          /\ UNCHANGED <<queue, display, hand, asked, announced, assets>>
      BY <1>8 DEF UpdateSucceeds, BackFromUpdate, MainFrame, dataVars, serverVars,
                  queueVars, displayVars
    <2> QED
      BY <2>1 DEF AssetsInv
  <1>9. CASE OutputBreak
    <2>1. /\ announced' \in {announced} \cup Announced(display) /\ mainPc' # "fetch"
          /\ UNCHANGED <<queue, display, hand, maps, asked, assets>>
      BY <1>9 DEF OutputBreak, IsNewest, MainFrame, dataVars, serverVars, queueVars, descVars
    <2>2. announced' <= assets
      BY <2>1 DEF AssetsInv, Announced
    <2> QED
      BY <2>1, <2>2 DEF AssetsInv
  <1>10. CASE AssetListChanges
    <2>1. assets' = assets + 1
      BY <1>10 DEF AssetListChanges
    <2>2. UNCHANGED <<queue, display, hand, mainPc, maps, asked, announced>>
      BY <1>10 DEF AssetListChanges, ClientVars, dataVars, queueVars, displayVars, descVars
    <2>3. /\ \A i \in 1..Len(queue) : queue[i].assets \in Int
          /\ \A i \in 1..Len(display) : display[i].assets \in Int
      <3>1. \A f \in Frame : f.assets \in Int
        BY DEF Frame, AssetVersion
      <3> QED
        BY <3>1, NumbersType
    <2>4. \A x \in Int : x <= assets => x <= assets'
      BY <2>1, <1>a
    <2> HIDE DEF TypeOK
    <2> QED
      BY <2>2, <2>3, <2>4, <1>a DEF AssetsInv
  <1>11. ASSUME UNCHANGED <<queue, display, hand, maps, asked, announced, assets>>,
                mainPc' = "fetch" => mainPc = "fetch"
         PROVE  AssetsInv'
    BY <1>11 DEF AssetsInv
  <1>12. CASE DataLock
    BY <1>12, <1>11 DEF DataLock, DataFrame, displayVars, descVars
  <1> USE DEF MainFrame, dataVars, serverVars, queueVars, displayVars, descVars
  <1>13. CASE Connect \/ Join \/ LoopTop
    BY <1>13, <1>11 DEF Connect, Join, LoopTop
  <1>14. CASE UpdateFails
    BY <1>14, <1>11 DEF UpdateFails, BackFromUpdate
  <1>15. CASE Keys
    BY <1>15, <1>11 DEF Keys, KeyNone, KeyDescriptions, KeyReconnect, KeyPause, KeyQuit
  <1>16. CASE OutputSkip \/ OutputLock \/ OutputEnd
    BY <1>16, <1>11 DEF OutputSkip, OutputLock, OutputEnd, NextRound
  <1>17. CASE ExitDisconnect \/ ExitRelease
    BY <1>17, <1>11 DEF ExitDisconnect, ExitRelease, After
  <1>18. CASE AnnouncementLost
    BY <1>18, <1>11 DEF AnnouncementLost, ClientVars
  <1>19. CASE UNCHANGED vars
    BY <1>19, <1>11 DEF vars
  <1> QED
    BY <1>1, <1>2, <1>3, <1>4, <1>5, <1>6, <1>7, <1>8, <1>9, <1>10, <1>12, <1>13,
       <1>14, <1>15, <1>16, <1>17, <1>18, <1>19
    DEF Next, DataHandler, Main, OutputFrameQueueToConsole, Terminated

LEMMA MapsStep ==
    ASSUME TypeOK, AssetsInv, MapsFollowFlags, [Next]_vars
    PROVE  MapsFollowFlags'
  <1> USE DEF MapsFollowFlags, MainFrame, DataFrame, displayVars, descVars
  <1>1. CASE DataHandler
    BY <1>1 DEF DataHandler, DataCopy, DataLock, DataDrop, DataPush
  <1>2. CASE Connect \/ Join \/ UpdateRelease \/ UpdateFails \/ LoopTop
    BY <1>2 DEF Connect, Join, UpdateRelease, UpdateFails, LoopTop
  <1>3. CASE UpdateSucceeds
    <2>1. announced <= asked /\ asked <= maps' /\ announced' = announced
      BY <1>3 DEF UpdateSucceeds, AssetsInv
    <2>2. announced \in Int /\ asked \in Int /\ maps' \in Int
      BY <1>3 DEF UpdateSucceeds, TypeOK, AssetVersion
    <2> QED
      BY <2>1, <2>2
  <1>4. CASE Keys
    BY <1>4 DEF Keys, KeyNone, KeyDescriptions, KeyReconnect, KeyPause, KeyQuit
  <1>5. CASE OutputBreak
    BY <1>5 DEF OutputBreak
  <1>6. CASE OutputSkip \/ OutputLock \/ OutputTake \/ OutputShow \/ OutputEnd \/ OutputFree
    BY <1>6 DEF OutputSkip, OutputLock, OutputTake, OutputShow, OutputEnd, OutputFree
  <1>7. CASE ExitDisconnect \/ ExitRelease
    BY <1>7 DEF ExitDisconnect, ExitRelease
  <1>8. CASE AssetListChanges \/ AnnouncementLost
    BY <1>8 DEF AssetListChanges, AnnouncementLost, ClientVars
  <1>9. CASE UNCHANGED vars
    BY <1>9 DEF vars
  <1> QED
    BY <1>1, <1>2, <1>3, <1>4, <1>5, <1>6, <1>7, <1>8, <1>9
    DEF Next, Main, OutputFrameQueueToConsole, Terminated

-----------------------------------------------------------------------------
(* The inductive invariant                                                  *)

LEMMA InitPipelineInv == Init => PipelineInv
  <1> SUFFICES ASSUME Init PROVE PipelineInv
    OBVIOUS
  <1>1. TypeOK
    BY TypeInit
  <1>2. Len(queue) = 0 /\ Len(display) = 0 /\ Numbers(queue) = {} /\ Numbers(display) = {}
    BY EmptyNumbers DEF Init
  <1>3. HoldersInv
    BY DEF Init, HoldersInv
  <1>4. OrderInv
    BY <1>2 DEF Init, OrderInv, Ascending, NoFrame
  <1>5. AssetsInv
    BY <1>2 DEF Init, AssetsInv, NoMaps, NoFrame
  <1>6. FramesOwnedOnce
    BY <1>2 DEF Init, FramesOwnedOnce, InHand
  <1>7. MapsFollowFlags
    BY DEF Init, MapsFollowFlags
  <1> QED
    BY <1>1, <1>3, <1>4, <1>5, <1>6, <1>7 DEF PipelineInv

LEMMA NextPipelineInv == PipelineInv /\ [Next]_vars => PipelineInv'
  BY TypeStep, HoldersStep, OrderStep, OwnedStep, AssetsStep, MapsStep DEF PipelineInv

\* The invariant of the pipeline, type correctness and the cap on the network
\* queue included, holds throughout every run of the client.
THEOREM PipelineInvariant == Spec => []PipelineInv
  <1> QED
    BY InitPipelineInv, NextPipelineInv, PTL DEF Spec

\* No copy of a frame is leaked, released twice or used after its release,
\* whichever thread drops it: at the cap, at a lock not obtained, behind an
\* announcement or after it was shown.
THEOREM FramesReleasedOnce == Spec => []FramesOwnedOnce
  <1>1. PipelineInv => FramesOwnedOnce
    BY DEF PipelineInv
  <1> QED
    BY <1>1, PipelineInvariant, PTL

\* While gNeedUpdatedDataDescriptions is off, the maps are at least as recent
\* as every asset list announced by a frame taken off the network queue.
THEOREM MapsRecent == Spec => []MapsFollowFlags
  <1>1. PipelineInv => MapsFollowFlags
    BY DEF PipelineInv
  <1> QED
    BY <1>1, PipelineInvariant, PTL

-----------------------------------------------------------------------------
(* The pipeline implements the abstract feed                                *)

Held == InHand \cup Numbers(queue) \cup ToShow

LEMMA FeedInit == Init => Feed!Init
  <1> SUFFICES ASSUME Init PROVE Feed!Init
    OBVIOUS
  <1>1. Numbers(queue) = {} /\ InHand = {} /\ ToShow = {}
    BY EmptyNumbers DEF Init, InHand, ToShow
  <1> QED
    BY <1>1 DEF Init, Feed!Init, NoFrame

\* A step that only shrinks the set of frames held loses some of them.
LEMMA FeedLose ==
    ASSUME Held' \subseteq Held, UNCHANGED <<arrived, shown>>
    PROVE  Feed!Next
  <1>1. Feed!Lose(Held \ Held')
    BY DEF Held, Feed!Lose
  <1> QED
    BY <1>1 DEF Held, Feed!Next

\* The frames to be shown are among the frames of the display queue.
LEMMA ToShowFacts ==
    ASSUME TypeOK
    PROVE  ToShow \subseteq Numbers(display)
  BY DEF ToShow, Numbers, TypeOK

LEMMA FeedShow ==
    ASSUME PipelineInv, OutputShow
    PROVE  Feed!Deliver(display[pos].seq) /\ display[pos].seq \in Held
  <1> DEFINE n == display[pos].seq
  <1>t. /\ TypeOK /\ HoldersInv /\ OrderInv /\ FramesOwnedOnce
        /\ display \in Seq(Frame) /\ Len(display) \in Nat /\ pos \in 1..Len(display)
        /\ mainPc = "show" /\ queue \in Seq(Frame) /\ Len(queue) \in Nat
    BY DEF PipelineInv, TypeOK, OutputShow
  <1>1. /\ UNCHANGED <<mainPc, display, queue, dataPc, hand, arrived>>
        /\ shown'.seq = n /\ pos' = pos + 1
    BY DEF OutputShow, MainFrame, dataVars, queueVars, serverVars
  <1>2. n \in ToShow /\ n \in Int
    BY <1>t, NumbersType DEF ToShow
  <1>3. \A m \in ToShow : n <= m
    <2>1. TAKE m \in ToShow
    <2>2. PICK i \in pos..Len(display) : m = display[i].seq
      BY <1>t DEF ToShow
    <2>3. i = pos \/ (pos < i /\ i \in 1..Len(display))
      BY <1>t
    <2>4. m \in Int
      BY <1>t, <2>2, NumbersType
    <2> QED
      BY <1>t, <1>2, <2>2, <2>3, <2>4 DEF OrderInv, Ascending
  <1>4. \A m \in Numbers(queue) \cup InHand : n < m
    BY <1>t, <1>2 DEF OrderInv, Numbers, InHand
  <1>5. ToShow' = ToShow \ {n}
    <2>1. ToShow' = {display[i].seq : i \in (pos + 1)..Len(display)}
      BY <1>t, <1>1 DEF ToShow
    <2>2. \A i \in (pos + 1)..Len(display) : n < display[i].seq
      BY <1>t DEF OrderInv, Ascending
    <2>3. pos..Len(display) = {pos} \cup ((pos + 1)..Len(display))
      BY <1>t
    <2>4. ToShow = {n} \cup ToShow'
      <3>1. ToShow = {display[i].seq : i \in pos..Len(display)}
        BY <1>t DEF ToShow
      <3> QED
        BY <2>1, <2>3, <3>1
    <2>5. n \notin ToShow'
      BY <1>2, <2>1, <2>2
    <2> QED
      BY <2>4, <2>5
  <1>6. InHand' = InHand /\ Numbers(queue)' = Numbers(queue)
    BY <1>1 DEF InHand, Numbers
  <1>7. n \notin InHand \cup Numbers(queue)
    BY <1>2, <1>4
  <1>8. Held' = Held \ {n}
    BY <1>5, <1>6, <1>7 DEF Held
  <1>9. \A m \in Held : n <= m
    <2>1. \A m \in Numbers(queue) : m \in Int
      BY <1>t, NumbersType
    <2>2. \A m \in InHand : m \in Int
      BY <1>t DEF InHand, TypeOK, Frame, NoFrame
    <2> QED
      BY <1>2, <1>3, <1>4, <2>1, <2>2 DEF Held
  <1> QED
    BY <1>1, <1>2, <1>8, <1>9 DEF Held, Feed!Deliver

LEMMA FeedStep == PipelineInv /\ [Next]_vars => [Feed!Next]_(Feed!feedVars)
  <1> SUFFICES ASSUME PipelineInv, [Next]_vars PROVE [Feed!Next]_(Feed!feedVars)
    OBVIOUS
  <1>t. /\ TypeOK /\ HoldersInv /\ FramesOwnedOnce
        /\ ToShow \subseteq Numbers(display)
    BY ToShowFacts DEF PipelineInv
  <1>1. ASSUME DataCopy PROVE Feed!Accept
    <2>1. /\ arrived' = arrived + 1 /\ InHand = {} /\ InHand' = {arrived'}
          /\ UNCHANGED <<queue, display, pos, mainPc, shown>>
      BY <1>1 DEF DataCopy, DataFrame, displayVars, queueVars, InHand
    <2>2. Numbers(queue)' = Numbers(queue) /\ ToShow' = ToShow
      BY <2>1 DEF Numbers, ToShow
    <2>3. arrived \in Nat /\ arrived' \in Nat /\ arrived' > arrived
      BY <1>t, <2>1 DEF TypeOK
    <2> QED
      BY <2>1, <2>2, <2>3 DEF Feed!Accept
  <1>2. ASSUME DataDrop PROVE Feed!Next
    <2>1. UNCHANGED <<queue, display, pos, mainPc, shown, arrived>> /\ dataPc' = "wait"
      BY <1>2 DEF DataDrop, DataFrame, displayVars, queueVars
    <2>2. InHand' = {} /\ Numbers(queue)' = Numbers(queue) /\ ToShow' = ToShow
      BY <2>1 DEF InHand, Numbers, ToShow
    <2> QED
      BY <2>1, <2>2, FeedLose DEF Held
  <1>3. ASSUME DataPush PROVE Feed!Next
    <2>1. /\ UNCHANGED <<display, pos, mainPc, shown, arrived>> /\ dataPc' = "wait"
          /\ hand \in Frame /\ InHand = {hand.seq} /\ InHand' = {}
      BY <1>3, <1>t DEF DataPush, DataFrame, displayVars, HoldersInv, InHand
    <2>2. ToShow' = ToShow
      BY <2>1 DEF ToShow
    <2>3. Numbers(queue') \subseteq Numbers(queue) \cup {hand.seq}
      <3>1. CASE Len(queue) + 1 > MaxQueueSize
        <4>1. queue # <<>> /\ queue' = Append(Tail(queue), hand)
          BY <1>3, <1>t, <3>1 DEF DataPush, TypeOK
        <4>2. queue \in Seq(Frame)
          BY <1>t DEF TypeOK
        <4>3. Tail(queue) \in Seq(Frame) /\ Numbers(Tail(queue)) \subseteq Numbers(queue)
          BY <4>1, <4>2, TailFacts
        <4>4. Numbers(queue') = Numbers(Tail(queue)) \cup {hand.seq}
          BY <2>1, <4>1, <4>3, AppendFacts
        <4> QED
          BY <4>3, <4>4
      <3>2. CASE ~(Len(queue) + 1 > MaxQueueSize)
        <4>1. queue' = Append(queue, hand)
          BY <1>3, <3>2 DEF DataPush
        <4> QED
          BY <1>t, <2>1, <4>1, AppendFacts DEF TypeOK
      <3> QED
        BY <3>1, <3>2
    <2>4. Numbers(queue)' = Numbers(queue')
      BY DEF Numbers
    <2> QED
      BY <2>1, <2>2, <2>3, <2>4, FeedLose DEF Held
  \* What is taken over is to be shown; nothing was left to show.
  <1>4. ASSUME OutputTake PROVE UNCHANGED Feed!feedVars
    <2>1. /\ display' = queue /\ pos' = 1 /\ queue' = <<>>
          /\ mainPc = "take" /\ mainPc' = "show"
          /\ UNCHANGED <<dataPc, hand, arrived, shown>>
      BY <1>4 DEF OutputTake, MainFrame, dataVars, serverVars
    <2>2. InHand' = InHand /\ ToShow = {} /\ Numbers(queue)' = {}
      BY <2>1, EmptyNumbers DEF InHand, ToShow, Numbers
    <2>3. ToShow' = Numbers(queue)
      BY <2>1 DEF ToShow, Numbers
    <2> QED
      BY <2>1, <2>2, <2>3 DEF Feed!feedVars
  <1>5. ASSUME OutputShow PROVE Feed!Next
    BY <1>5, FeedShow DEF Feed!Next, Held
  <1>6. ASSUME OutputFree PROVE Feed!Next
    <2>1. mainPc' # "show" /\ UNCHANGED <<dataPc, hand, queue, arrived, shown>>
      BY <1>6 DEF OutputFree, NextRound, MainFrame, dataVars, serverVars, queueVars
    <2>2. InHand' = InHand /\ ToShow' = {} /\ Numbers(queue)' = Numbers(queue)
      BY <2>1 DEF InHand, ToShow, Numbers
    <2> QED
      BY <2>1, <2>2, FeedLose DEF Held
  \* The other steps move no frame; OutputBreak gives up what was to be shown.
  <1>7. ASSUME ~Moves PROVE Feed!Next
    <2>1. /\ UNCHANGED <<hand, queue, display, pos, shown, arrived>>
          /\ dataPc' = "wait" <=> dataPc = "wait"
          /\ mainPc' = "show" => mainPc = "show"
      BY <1>7, QuietSteps
    <2>2. /\ InHand' = InHand /\ Numbers(queue)' = Numbers(queue)
          /\ ToShow' \subseteq ToShow
      BY <2>1 DEF InHand, Numbers, ToShow
    <2> QED
      BY <2>1, <2>2, FeedLose DEF Held
  <1>8. Feed!Accept => Feed!Next
    BY DEF Feed!Next
  <1> QED
    BY <1>1, <1>2, <1>3, <1>4, <1>5, <1>6, <1>7, <1>8 DEF Moves

\* Every run of the client is a behaviour of the abstract feed: a bounded queue,
\* a lock that either thread may fail to get and frames given up behind an
\* announcement lose frames, but never show one twice or out of order.
THEOREM PipelineImplementsFeed == Spec => ImplementsFeed
  <1> QED
    BY FeedInit, FeedStep, PipelineInvariant, PTL
       DEF Spec, ImplementsFeed, Feed!Spec

-----------------------------------------------------------------------------
(* What the user sees                                                       *)

\* The console shows the frames in the order of their arrival, and never one again.
ShownInOrder == [][shown' # shown => shown.seq < shown'.seq]_vars

THEOREM FramesShownInOrder == Spec => ShownInOrder
  <1>1. PipelineInv /\ [Next]_vars => [shown' # shown => shown.seq < shown'.seq]_vars
    <2> SUFFICES ASSUME PipelineInv, [Next]_vars, shown' # shown PROVE shown.seq < shown'.seq
      OBVIOUS
    <2>1. OutputShow
      <3>1. Moves
        BY QuietSteps
      <3>2. ~(DataCopy \/ DataDrop \/ DataPush)
        BY DEF DataCopy, DataDrop, DataPush, DataFrame, displayVars
      <3>3. ~(OutputTake \/ OutputFree)
        BY DEF OutputTake, OutputFree
      <3> QED
        BY <3>1, <3>2, <3>3 DEF Moves
    <2>2. pos \in pos..Len(display) /\ shown' = display[pos] /\ mainPc = "show"
      BY <2>1 DEF OutputShow, PipelineInv, TypeOK
    <2> QED
      BY <2>2 DEF PipelineInv, OrderInv
  <1> QED
    BY <1>1, PipelineInvariant, PTL DEF Spec, ShownInOrder

\* The file is opened before the first frame is shown; from then on each frame
\* shown is written before the next step of main.
FileInv ==
    /\ mainPc \in {"connect", "release", "fetch"} /\ caller = "init"
          => shown = NoFrame /\ written = 0
    /\ mainPc \in {"exit", "exitRelease"} => ~running
    /\ mainPc = "join" => ~running \/ caller = "key"
    /\ file = "open" => written = shown.seq

LEMMA FileInit == Init => FileInv
  BY DEF Init, FileInv, NoFrame

LEMMA FileStep == FileInv /\ [Next]_vars => FileInv'
  <1> SUFFICES ASSUME FileInv, [Next]_vars PROVE FileInv'
    OBVIOUS
  <1> USE DEF FileInv, MainFrame, DataFrame, displayVars, descVars
  <1>1. CASE DataHandler
    BY <1>1 DEF DataHandler, DataCopy, DataLock, DataDrop, DataPush
  <1>2. CASE Connect \/ Join
    BY <1>2 DEF Connect, Join
  <1>3. CASE UpdateRelease \/ UpdateFails
    BY <1>3 DEF UpdateRelease, After, UpdateFails, BackFromUpdate
  \* fopen comes with the first answer, and then nothing has been shown.
  <1>4. CASE UpdateSucceeds
    <2>1. NoFrame.seq = 0
      BY DEF NoFrame
    <2> QED
      BY <1>4, <2>1 DEF UpdateSucceeds, BackFromUpdate
  <1>5. CASE LoopTop \/ Keys
    BY <1>5 DEF LoopTop, Keys, KeyNone, KeyDescriptions, KeyReconnect, KeyPause, KeyQuit
  <1>6. CASE OutputFrameQueueToConsole
    BY <1>6 DEF OutputFrameQueueToConsole, OutputSkip, OutputLock, OutputTake, OutputBreak,
       OutputShow, OutputEnd, OutputFree, NextRound
  <1>7. CASE ExitDisconnect \/ ExitRelease
    BY <1>7 DEF ExitDisconnect, ExitRelease, After
  <1>8. CASE AssetListChanges \/ AnnouncementLost
    BY <1>8 DEF AssetListChanges, AnnouncementLost, ClientVars
  <1>9. CASE UNCHANGED vars
    BY <1>9 DEF vars
  <1> QED
    BY <1>1, <1>2, <1>3, <1>4, <1>5, <1>6, <1>7, <1>8, <1>9 DEF Next, Main, Terminated

\* While the output file is open, the last frame written to it is the last one shown on
\* the console: no break, failed update or reconnection lets the two drift apart.
THEOREM FileFollowsConsole == Spec => [](file = "open" => written = shown.seq)
  <1>1. FileInv => (file = "open" => written = shown.seq)
    BY DEF FileInv
  <1> QED
    BY FileInit, FileStep, <1>1, PTL DEF Spec

-----------------------------------------------------------------------------
(* The way to the end                                                       *)

\* Once 'q' is pressed main completes its round and goes to the end; a display queue is
\* never longer than the network queue may be.
QuitInv ==
    /\ ~running => mainPc \in {"output", "take", "show", "freeAll", "exit", "join",
                               "exitRelease", "exited", "aborted"}
    /\ ~running /\ mainPc = "join" => ~connected
    /\ mainPc \in {"exit", "exitRelease"} => ~running
    /\ Len(display) <= MaxQueueSize

LEMMA QuitInit == Init => QuitInv
  BY EmptyNumbers DEF Init, QuitInv

LEMMA QuitStep == PipelineInv /\ QuitInv /\ [Next]_vars => QuitInv'
  <1> SUFFICES ASSUME PipelineInv, QuitInv, [Next]_vars PROVE QuitInv'
    OBVIOUS
  <1> USE DEF QuitInv, MainFrame, DataFrame, displayVars
  <1>1. CASE DataHandler
    BY <1>1 DEF DataHandler, DataCopy, DataLock, DataDrop, DataPush
  <1>2. CASE Connect \/ Join
    BY <1>2 DEF Connect, Join
  <1>3. CASE UpdateRelease
    BY <1>3 DEF UpdateRelease, After
  <1>4. CASE UpdateSucceeds \/ UpdateFails
    BY <1>4 DEF UpdateSucceeds, UpdateFails, BackFromUpdate
  <1>5. CASE LoopTop \/ Keys
    BY <1>5 DEF LoopTop, Keys, KeyNone, KeyDescriptions, KeyReconnect, KeyPause, KeyQuit
  <1>6. CASE OutputTake
    BY <1>6 DEF OutputTake, PipelineInv, TypeOK
  <1>7. CASE OutputFree
    BY <1>7, EmptyNumbers DEF OutputFree, NextRound
  <1>8. CASE OutputSkip \/ OutputLock \/ OutputBreak \/ OutputShow \/ OutputEnd
    BY <1>8 DEF OutputSkip, OutputLock, OutputBreak, OutputShow, OutputEnd, NextRound
  <1>9. CASE ExitDisconnect \/ ExitRelease
    BY <1>9 DEF ExitDisconnect, ExitRelease, After
  <1>10. CASE AssetListChanges \/ AnnouncementLost
    BY <1>10 DEF AssetListChanges, AnnouncementLost, ClientVars
  <1>11. CASE UNCHANGED vars
    BY <1>11 DEF vars
  <1> QED
    BY <1>1, <1>2, <1>3, <1>4, <1>5, <1>6, <1>7, <1>8, <1>9, <1>10, <1>11
    DEF Next, Main, OutputFrameQueueToConsole, Terminated

\* The steps main is from the end of the program, and DataHandler from its return.
QuitDistance ==
    CASE mainPc = "output" -> MaxQueueSize + 7
      [] mainPc = "take" -> MaxQueueSize + 6
      [] mainPc = "show" -> 6 + Len(display) - pos
      [] mainPc = "freeAll" -> 4
      [] mainPc = "exit" -> 3
      [] mainPc = "join" -> 2
      [] mainPc = "exitRelease" -> 1
      [] OTHER -> 0
HandlerDistance ==
    CASE dataPc = "lock" -> 2
      [] dataPc = "push" -> 1
      [] OTHER -> 0

LEMMA QuitDistanceType ==
    ASSUME PipelineInv, QuitInv, ~running
    PROVE  QuitDistance \in 0..(MaxQueueSize + 7)
  <1>1. Len(display) \in Nat /\ pos \in 1..(Len(display) + 1) /\ Len(display) <= MaxQueueSize
    BY DEF PipelineInv, TypeOK, QuitInv
  <1> QED
    BY <1>1 DEF QuitInv, QuitDistance

LEMMA QuitCloser ==
    ASSUME PipelineInv, QuitInv, ~running, Main
    PROVE  QuitDistance' < QuitDistance
  <1>0. /\ Len(display) \in Nat /\ pos \in 1..(Len(display) + 1) /\ Len(display) <= MaxQueueSize
        /\ Len(queue) \in Nat /\ Len(queue) <= MaxQueueSize
    BY DEF PipelineInv, TypeOK, QuitInv
  <1>1. CASE OutputSkip
    BY <1>0, <1>1 DEF OutputSkip, NextRound, QuitDistance
  <1>2. CASE OutputLock
    BY <1>0, <1>2 DEF OutputLock, QuitDistance
  <1>3. CASE OutputTake
    BY <1>0, <1>3 DEF OutputTake, QuitDistance
  <1>4. CASE OutputBreak \/ OutputEnd
    BY <1>0, <1>4 DEF OutputBreak, OutputEnd, QuitDistance, displayVars
  <1>5. CASE OutputShow
    BY <1>0, <1>5 DEF OutputShow, QuitDistance
  <1>6. CASE OutputFree
    BY <1>0, <1>6 DEF OutputFree, NextRound, QuitDistance
  <1>7. CASE ExitDisconnect \/ Join \/ ExitRelease
    BY <1>7 DEF ExitDisconnect, Join, ExitRelease, After, QuitDistance
  <1>8. ~(Connect \/ UpdateRelease \/ UpdateSucceeds \/ UpdateFails \/ LoopTop \/ Keys)
    BY DEF QuitInv, Connect, UpdateRelease, UpdateSucceeds, UpdateFails, LoopTop, Keys, KeyNone,
       KeyDescriptions, KeyReconnect, KeyPause, KeyQuit
  <1> QED
    BY <1>1, <1>2, <1>3, <1>4, <1>5, <1>6, <1>7, <1>8 DEF Main, OutputFrameQueueToConsole

\* After 'q' every step of main brings it nearer to the end of the program, and while it
\* waits for DataHandler each step of that brings its return nearer.
QuitNearer ==
    [][~running => /\ UNCHANGED <<mainPc, pos, display>> \/ QuitDistance' < QuitDistance
                   /\ mainPc = "join" /\ dataPc' # dataPc => HandlerDistance' < HandlerDistance]_vars

\* After 'q' at most MaxQueueSize + 7 steps of main are left, whatever the library
\* delivers meanwhile, and the last of them wait for two steps of DataHandler at most.
THEOREM QuitIsBounded == Spec => QuitNearer /\ [](~running => QuitDistance \in 0..(MaxQueueSize + 7))
  <1>1. PipelineInv /\ QuitInv => (~running => QuitDistance \in 0..(MaxQueueSize + 7))
    BY QuitDistanceType
  <1>2. PipelineInv /\ QuitInv /\ [Next]_vars
           => [~running => /\ UNCHANGED <<mainPc, pos, display>> \/ QuitDistance' < QuitDistance
                           /\ mainPc = "join" /\ dataPc' # dataPc
                                 => HandlerDistance' < HandlerDistance]_vars
    <2> SUFFICES ASSUME PipelineInv, QuitInv, Next, ~running
                 PROVE  /\ UNCHANGED <<mainPc, pos, display>> \/ QuitDistance' < QuitDistance
                        /\ mainPc = "join" /\ dataPc' # dataPc
                              => HandlerDistance' < HandlerDistance
      OBVIOUS
    <2>1. CASE Main
      <3>1. dataPc' = dataPc
        <4> USE DEF MainFrame, dataVars
        <4>1. CASE OutputFrameQueueToConsole
          BY <4>1 DEF OutputFrameQueueToConsole, OutputSkip, OutputLock, OutputTake, OutputBreak,
             OutputShow, OutputEnd, OutputFree
        <4>2. CASE ExitDisconnect \/ Join \/ ExitRelease
          BY <4>2 DEF ExitDisconnect, Join, ExitRelease
        <4>3. ~(Connect \/ UpdateRelease \/ UpdateSucceeds \/ UpdateFails \/ LoopTop \/ Keys)
          BY DEF QuitInv, Connect, UpdateRelease, UpdateSucceeds, UpdateFails, LoopTop, Keys,
             KeyNone, KeyDescriptions, KeyReconnect, KeyPause, KeyQuit
        <4> QED
          BY <2>1, <4>1, <4>2, <4>3 DEF Main
      <3> QED
        BY <2>1, <3>1, QuitCloser
    <2>2. CASE DataHandler
      <3>1. UNCHANGED <<mainPc, pos, display>>
        BY <2>2 DEF DataHandler, DataCopy, DataLock, DataDrop, DataPush, DataFrame, displayVars
      <3>2. mainPc = "join" => HandlerDistance' < HandlerDistance
        BY <2>2 DEF DataHandler, DataCopy, DataLock, DataDrop, DataPush, QuitInv, HandlerDistance
      <3> QED
        BY <3>1, <3>2
    <2>3. CASE AssetListChanges \/ AnnouncementLost \/ Terminated
      BY <2>3 DEF AssetListChanges, AnnouncementLost, Terminated, ClientVars, vars, dataVars,
         displayVars
    <2> QED
      BY <2>1, <2>2, <2>3 DEF Next
  <1>3. QuitInv /\ PipelineInv /\ [Next]_vars => QuitInv'
    BY QuitStep
  <1> QED
    BY <1>1, <1>2, <1>3, QuitInit, PipelineInvariant, PTL DEF Spec, QuitNearer

-----------------------------------------------------------------------------
(* The way to a request                                                     *)

\* The steps main is from its request for the descriptions that are waited for.
StepsToRequest ==
    [join |-> 8, connect |-> 7, keys |-> 7, output |-> 6, take |-> 5, show |-> 4, freeAll |-> 3,
     loop |-> 2, release |-> 1, fetch |-> 0, exit |-> 0, exitRelease |-> 0, exited |-> 0,
     aborted |-> 0]
RequestDistance == StepsToRequest[mainPc]

\* While the descriptions are waited for, every step of main brings their request
\* nearer, unless the user presses 'q' or connects again: no frame is shown, and none of
\* the ways round the queue leads away from the top of the loop.
RequestNearer ==
    [][need /\ running' /\ Alive /\ mainPc # "fetch" /\ mainPc' # "join"
          => UNCHANGED <<mainPc, pos, display>> \/ RequestDistance' < RequestDistance]_vars

\* The moves of main from one place to the next while it owes a request.
RequestMoves ==
    {<<"join", "connect">>, <<"connect", "release">>, <<"connect", "output">>,
     <<"connect", "exited">>, <<"keys", "output">>, <<"keys", "release">>, <<"output", "loop">>,
     <<"output", "take">>, <<"take", "show">>, <<"show", "freeAll">>, <<"freeAll", "loop">>,
     <<"loop", "release">>, <<"release", "fetch">>, <<"release", "aborted">>}

LEMMA RequestMove ==
    ASSUME QuitInv, need, running', mainPc # "fetch", mainPc' # "join", Main
    PROVE  <<mainPc, mainPc'>> \in RequestMoves
  <1> USE DEF RequestMoves
  <1>1. CASE Connect \/ Join
    BY <1>1 DEF Connect, Join
  <1>2. CASE UpdateRelease
    BY <1>2 DEF UpdateRelease, After
  <1>3. CASE LoopTop
    BY <1>3 DEF LoopTop
  <1>4. CASE Keys
    BY <1>4 DEF Keys, KeyNone, KeyDescriptions, KeyReconnect, KeyPause, KeyQuit
  <1>5. CASE OutputSkip \/ OutputFree
    BY <1>5 DEF OutputSkip, OutputFree, NextRound
  <1>6. CASE OutputLock \/ OutputTake
    BY <1>6 DEF OutputLock, OutputTake
  <1>7. CASE OutputBreak \/ OutputEnd
    BY <1>7 DEF OutputBreak, OutputEnd
  <1>8. ~(OutputShow \/ UpdateSucceeds \/ UpdateFails \/ ExitDisconnect \/ ExitRelease)
    BY DEF OutputShow, UpdateSucceeds, UpdateFails, ExitDisconnect, ExitRelease, QuitInv
  <1> QED
    BY <1>1, <1>2, <1>3, <1>4, <1>5, <1>6, <1>7, <1>8 DEF Main, OutputFrameQueueToConsole

LEMMA RequestCloser ==
    ASSUME <<mainPc, mainPc'>> \in RequestMoves
    PROVE  RequestDistance' < RequestDistance
  BY DEF RequestMoves, RequestDistance, StepsToRequest

\* While the descriptions are waited for, the program is at most eight steps of main
\* from asking for them, however many frames arrive.  NeedIsServed adds that main is
\* scheduled and that a connected server answers some request.
THEOREM RequestIsNear == Spec => RequestNearer /\ [](RequestDistance \in 0..8)
  <1>1. PipelineInv => RequestDistance \in 0..8
    BY DEF PipelineInv, TypeOK, MainPcs, RequestDistance, StepsToRequest
  <1>2. QuitInv /\ [Next]_vars
           => [need /\ running' /\ Alive /\ mainPc # "fetch" /\ mainPc' # "join"
                 => UNCHANGED <<mainPc, pos, display>>
                      \/ RequestDistance' < RequestDistance]_vars
    <2> SUFFICES ASSUME QuitInv, Next, need, running', mainPc # "fetch", mainPc' # "join"
                 PROVE  UNCHANGED <<mainPc, pos, display>> \/ RequestDistance' < RequestDistance
      OBVIOUS
    <2>1. CASE Main
      BY <2>1, RequestMove, RequestCloser
    <2>2. CASE DataHandler
      BY <2>2 DEF DataHandler, DataCopy, DataLock, DataDrop, DataPush, DataFrame, displayVars
    <2>3. CASE AssetListChanges \/ AnnouncementLost \/ Terminated
      BY <2>3 DEF AssetListChanges, AnnouncementLost, Terminated, ClientVars, vars, displayVars
    <2> QED
      BY <2>1, <2>2, <2>3 DEF Next
  <1>3. QuitInv /\ PipelineInv /\ [Next]_vars => QuitInv'
    BY QuitStep
  <1> QED
    BY <1>1, <1>2, <1>3, QuitInit, PipelineInvariant, PTL DEF Spec, RequestNearer
==============================================================================
