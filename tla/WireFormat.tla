----------------------------- MODULE WireFormat -----------------------------
(***************************************************************************)
(* What the two decoders of the repository share about a packet: NatNet    *)
(* versions, the sections of a frame, and the content whose bytes they     *)
(* count.  PacketClient.cpp is one decoder (operators named Cpp...), the   *)
(* Python NatNetClient.py the other (operators named Py...).               *)
(*                                                                         *)
(* A name is abstracted to its length: the bytes it takes in UTF-8 and     *)
(* the characters those bytes stand for.                                   *)
(***************************************************************************)
EXTENDS Integers

Version == [major : Nat, minor : Nat]

(* The version is major.minor or a later one. *)
AtLeast(v, major, minor) ==
  v.major > major \/ (v.major = major /\ v.minor >= minor)

(* Both programs hold version 0.0 until a NAT_SERVERINFO tells them the    *)
(* server's; C++ takes 0 for "all fields present" where it says so.        *)
AtLeastOr0(v, major, minor) == v.major = 0 \/ AtLeast(v, major, minor)

(* A field that only some versions have. *)
Opt(present, width) == IF present THEN width ELSE 0

Name == {n \in [bytes : Nat, chars : Nat] : n.chars <= n.bytes}

CString(name) == name.bytes + 1

(* The content of one item: a name, n elements and m elements below.       *)
Content == [name : Name, n : Nat, m : Nat]

(* The sections of a frame that hold a count and that many items. *)
Counted == {"MarkerSets", "RigidBodies", "Skeletons", "Assets",
            "LabeledMarkers", "ForcePlates", "Devices"}

(* The section that UnpackFrameData and __unpack_mocap_data read next.     *)
Following ==
  [Prefix |-> "MarkerSets", MarkerSets |-> "LegacyMarkers",
   LegacyMarkers |-> "RigidBodies", RigidBodies |-> "Skeletons",
   Skeletons |-> "Assets", Assets |-> "LabeledMarkers",
   LabeledMarkers |-> "ForcePlates", ForcePlates |-> "Devices",
   Devices |-> "Suffix", Suffix |-> "End"]

(* The kinds of a dataset in a NAT_MODELDEF, in the order of their codes. *)
Kinds == {"MarkerSet", "RigidBody", "Skeleton", "ForcePlate", "Device",
          "Camera", "Asset"}

(* The packet size read as a signed 16-bit integer, as Python reads it;    *)
(* C++ copies the two bytes into a zeroed int.                             *)
Unsigned16(size) == size % 65536
Signed16(size) ==
  IF Unsigned16(size) < 32768 THEN Unsigned16(size) ELSE Unsigned16(size) - 65536
=============================================================================
