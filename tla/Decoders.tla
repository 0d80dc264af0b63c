------------------------------ MODULE Decoders ------------------------------
(***************************************************************************)
(* One packet read by both decoders side by side: a frame of mocap data    *)
(* (UnpackFrameData and __unpack_mocap_data) or a packet of data           *)
(* descriptions (UnpackDescription and __unpack_data_descriptions).        *)
(* A step is the content of one section, item or dataset; cpp and py are   *)
(* the bytes of the payload that each decoder has taken for the content so *)
(* far.  Once they differ the decoders read different bytes: the steps     *)
(* that follow say what each one takes for what the packet holds there.    *)
(***************************************************************************)
EXTENDS FrameLayout, DescriptionLayout

CONSTANTS
  Versions,        \* the bitstream versions
  Contents,        \* the content of an item
  MaxItems,        \* items of a section, datasets of a packet
  LegacyCounts     \* unlabeled markers of a frame

ASSUME VersionsAssumption == Versions \subseteq Version
ASSUME ContentsAssumption == Contents \subseteq Content
ASSUME MaxItemsAssumption == MaxItems \in Nat
ASSUME LegacyAssumption   == LegacyCounts \subseteq Nat

VARIABLES
  version,   \* the version both programs hold
  at,        \* the section being read
  left,      \* its items that are left, NoCount before its count is read
  cpp, py,   \* bytes taken by each decoder
  flags,     \* where each reading of the frame's flags found them
  raised     \* Python's decoding has ended in an exception

vars == <<version, at, left, cpp, py, flags, raised>>

NoCount == -1
NoFlags == -1

Sections == DOMAIN Following \cup {"Datasets", "End"}

TypeOK ==
  /\ version \in Versions
  /\ at \in Sections
  /\ left \in -1..MaxItems
  /\ cpp \in Nat /\ py \in Nat
  /\ flags \in [cpp : Int, peek : Int, py : Int]
  /\ raised \in BOOLEAN

Init ==
  /\ version \in Versions
  /\ at \in {"Prefix", "Datasets"}
  /\ left = NoCount
  /\ cpp = 0 /\ py = 0
  /\ flags = [cpp |-> NoFlags, peek |-> NoFlags, py |-> NoFlags]
  /\ raised = FALSE

Advance(c, p) == cpp' = cpp + c /\ py' = py + p

(* The frame number. *)
UnpackFramePrefixData ==
  /\ at = "Prefix"
  /\ at' = Following[at]
  /\ Advance(Prefix, Prefix)
  /\ UNCHANGED <<version, left, flags, raised>>

UnpackLegacyOtherMarkers ==
  /\ at = "LegacyMarkers"
  /\ at' = Following[at]
  /\ \E n \in LegacyCounts :
       Advance(CppLegacyMarkers(version, n), PyLegacyMarkers(version, n))
  /\ UNCHANGED <<version, left, flags, raised>>

(* The count of a section and its size; a section the version does not     *)
(* have takes nothing.                                                     *)
UnpackCount ==
  /\ at \in Counted
  /\ left = NoCount
  /\ \E k \in 0..MaxItems : left' = IF CppHas(version, at) THEN k ELSE 0
  /\ Advance(Opt(CppHas(version, at), 4 + CppDataSize(version)),
             Opt(PyHas(version, at), 4 + PyDataSize(version)))
  /\ UNCHANGED <<version, at, flags, raised>>

UnpackItem(c) ==
  /\ at \in Counted
  /\ left > 0
  /\ left' = left - 1
  /\ Advance(CppItem(version, at, c),
             Opt(PyHas(version, at), PyItem(version, at, c)))
  /\ UNCHANGED <<version, at, flags, raised>>

(* The loop over a section's items ends. *)
EndItems ==
  /\ at \in Counted
  /\ left = 0
  /\ left' = NoCount
  /\ at' = Following[at]
  /\ UNCHANGED <<version, cpp, py, flags, raised>>

(* The packet ends where the C++ decoder ends: Unpack warns otherwise.     *)
FrameEnd == cpp + CppBeforeFlags(version) + CppFlags + CppTrailer

(* Unpack looks at the flags before it decodes, from the packet's end.     *)
Peek == FrameEnd - 6

(* Fault: the packet size is read without its sign. *)
PyRoomUnsigned == Unsigned16(FrameEnd) - py - 8

(* Python skips the suffix unless the packet size says that bytes follow   *)
(* the timecode.                                                           *)
PyRoom == Signed16(FrameEnd) - py - 8
PySuffixRead == PyRoom > 0

(* In the branch of major version 0 four results are unpacked into three   *)
(* variables.                                                              *)
UnpackFrameSuffixData ==
  /\ at = "Suffix"
  /\ at' = "End"
  /\ raised' = (PySuffixRead /\ version.major = 0)
  /\ flags' = [cpp  |-> cpp + CppBeforeFlags(version),
               peek |-> Peek,
               py   |-> IF PySuffixRead /\ version.major # 0
                          THEN py + PyBeforeFlags(version) ELSE NoFlags]
  /\ Advance(CppBeforeFlags(version) + CppFlags + CppTrailer,
             IF PySuffixRead /\ version.major # 0
               THEN PyBeforeFlags(version) + 2 ELSE 8)
  /\ UNCHANGED <<version, left>>

(* Fault: one dataset more than the packet has. *)
UnpackDatasetCountTooMany ==
  /\ at = "Datasets"
  /\ left = NoCount
  /\ \E k \in 0..MaxItems : left' = k + 1
  /\ Advance(4, 4)
  /\ UNCHANGED <<version, at, flags, raised>>

UnpackDatasetCount ==
  /\ at = "Datasets"
  /\ left = NoCount
  /\ \E k \in 0..MaxItems : left' = k
  /\ Advance(4, 4)
  /\ UNCHANGED <<version, at, flags, raised>>

UnpackDataset(kind, c) ==
  /\ at = "Datasets"
  /\ left > 0
  /\ left' = left - 1
  /\ raised' = PyDatasetRaises(version, kind, c)
  /\ Advance(CppDataset(version, kind, c),
             IF raised' THEN 0 ELSE PyDataset(version, kind, c))
  /\ UNCHANGED <<version, at, flags>>

(* A dataset of a type that no branch takes.  C++ gives up the rest of the *)
(* packet; Python returns one result where its caller unpacks two, and the *)
(* exception ends the thread.                                              *)
UnpackUnknownDataset ==
  /\ at = "Datasets"
  /\ left > 0
  /\ left' = NoCount
  /\ at' = "End"
  /\ raised' = TRUE
  /\ Advance(CppDatasetHeader(version), PyDatasetHeader(version))
  /\ UNCHANGED <<version, flags>>

EndDatasets ==
  /\ at = "Datasets"
  /\ left = 0
  /\ left' = NoCount
  /\ at' = "End"
  /\ UNCHANGED <<version, cpp, py, flags, raised>>

(* The socket's next datagram, perhaps after a change of the version.      *)
NextPacket ==
  /\ at = "End"
  /\ at' \in {"Prefix", "Datasets"}
  /\ version' \in Versions
  /\ cpp' = 0 /\ py' = 0
  /\ flags' = [cpp |-> NoFlags, peek |-> NoFlags, py |-> NoFlags]
  /\ UNCHANGED <<left, raised>>

(* An exception has ended the thread that reads the packets in Python.     *)
Terminated == raised /\ UNCHANGED vars

Step ==
  /\ ~raised
  /\ \/ UnpackFramePrefixData
     \/ UnpackLegacyOtherMarkers
     \/ UnpackCount
     \/ \E c \in Contents : UnpackItem(c)
     \/ EndItems
     \/ UnpackFrameSuffixData
     \/ UnpackDatasetCount
     \/ \E kind \in Kinds, c \in Contents : UnpackDataset(kind, c)
     \/ UnpackUnknownDataset
     \/ EndDatasets
     \/ NextPacket

Next == Step \/ Terminated

Spec == Init /\ [][Next]_vars
-----------------------------------------------------------------------------
(* The steps at which the two decoders of the repository are known to take *)
(* different bytes.                                                        *)
GapInCount ==
  at = "LabeledMarkers" /\ version = [major |-> 2, minor |-> 3]

GapInItem(c) ==
  \/ GapInCount
  \/ at = "RigidBodies" /\ version.major = 0
  \/ at = "Skeletons" /\ version.major = 2 /\ c.n > 0

(* The marker names of the rigid bodies of a dataset. *)
HasMarkers(kind, c) ==
  \/ kind = "RigidBody" /\ c.n > 0
  \/ kind \in {"Skeleton", "Asset"} /\ c.n > 0 /\ c.m > 0

GapInDataset(kind, c) ==
  \/ ~AtLeast(version, 4, 1)
  \/ HasMarkers(kind, c) /\ c.name.chars # c.name.bytes

SameAdvance == cpp' - cpp = py' - py

(* Outside the known gaps, whatever the version and the content, the two   *)
(* decoders take the same bytes: sections in the same versions, items and  *)
(* descriptions of the same width.                                         *)
AgreeOutsideGaps ==
  [][/\ UnpackFramePrefixData \/ UnpackLegacyOtherMarkers => SameAdvance
     /\ UnpackCount /\ ~GapInCount => SameAdvance
     /\ \A c \in Contents : UnpackItem(c) /\ ~GapInItem(c) => SameAdvance
     /\ \A kind \in Kinds, c \in Contents :
          UnpackDataset(kind, c) /\ ~raised' /\ ~GapInDataset(kind, c)
            => SameAdvance
     /\ UnpackUnknownDataset /\ AtLeast(version, 4, 1) => SameAdvance]_vars

(* The gaps are gaps: at every one of them the decoders part.              *)
GapsAreReal ==
  [][/\ UnpackCount /\ GapInCount => ~SameAdvance
     /\ \A c \in Contents : UnpackItem(c) /\ GapInItem(c) => ~SameAdvance
     /\ \A kind \in Kinds, c \in Contents :
          UnpackDataset(kind, c) /\ ~raised' /\ GapInDataset(kind, c)
            => ~SameAdvance
     /\ UnpackUnknownDataset /\ ~AtLeast(version, 4, 1) => ~SameAdvance]_vars

FrameRead == at = "End" /\ flags.cpp # NoFlags

(* A frame's flags (recording, model list changed) are found at one place  *)
(* by the C++ decoder, whether it looks from the packet's end or comes to  *)
(* them.  From version 3.0 on, in a frame whose size fits a signed 16-bit  *)
(* integer, Python finds them there up to 4.0 and in no later version:     *)
(* its suffix of 4.1 and later lacks the precision timestamp.              *)
FlagsFound ==
  FrameRead =>
    /\ flags.peek = flags.cpp
    /\ AtLeast(version, 3, 0) /\ cpp < 32768
         => (flags.py = flags.cpp <=> ~AtLeast(version, 4, 1))

(* From version 3.0 on, Python gives up the suffix of the frames that are  *)
(* too long for the signed size and of no other.                           *)
SuffixSkippedIffLong ==
  FrameRead /\ AtLeast(version, 3, 0) /\ cpp < 65536
    => (flags.py = NoFlags <=> cpp >= 32768)
=============================================================================
