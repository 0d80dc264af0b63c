--------------------------- MODULE DecodersProofs ---------------------------
(***************************************************************************)
(* Proofs about Decoders: for every set of versions, content and number of *)
(* items, the two decoders take the same bytes outside the known gaps, and *)
(* Python finds the flags of the frames of versions 3.0 to 4.0.            *)
(***************************************************************************)
EXTENDS Decoders, TLAPS

LEMMA ProductIsNat == \A a, b \in Nat : a * b \in Nat
  OBVIOUS

(* More of a thing that is wider is wider. *)
LEMMA ProductGrows ==
  ASSUME NEW n \in Nat, n > 0, NEW a \in Nat, NEW b \in Nat, a < b
  PROVE  n * a < n * b
  OBVIOUS

LEMMA ConstantTypes ==
  /\ \A v \in Versions : v \in Version /\ v.major \in Nat /\ v.minor \in Nat
  /\ \A c \in Contents : c \in Content
  BY VersionsAssumption, ContentsAssumption DEF Version

LEMMA ContentTypes ==
  ASSUME NEW c \in Content
  PROVE  /\ c.n \in Nat /\ c.m \in Nat
         /\ c.name.bytes \in Nat /\ c.name.chars \in Nat
         /\ CString(c.name) \in Nat
  BY DEF Content, Name, CString

(* The bytes of an item are a natural number, to each decoder. *)
LEMMA ItemsAreNat ==
  ASSUME NEW v \in Version, NEW c \in Content, NEW section \in Counted
  PROVE  CppItem(v, section, c) \in Nat /\ PyItem(v, section, c) \in Nat
<1> USE ContentTypes
<1>1. v.major \in Nat /\ v.minor \in Nat
  BY DEF Version
<1>2. CppMarkerSet(c) \in Nat /\ PyMarkerSet(c) \in Nat
  BY DEF CppMarkerSet, PyMarkerSet
<1>3. \A k \in Nat : CppRigidBody(v, k) \in Nat /\ PyRigidBody(v, k) \in Nat
  BY <1>1 DEF CppRigidBody, PyRigidBody, PyRigidBody3, PyRigidBody26,
              PyRigidBody20, PyRigidBodyBefore2, Opt
<1>4. CppSkeleton(v, c) \in Nat /\ PySkeleton(v, c) \in Nat
  <2>1. CppBone(v) \in Nat
    BY <1>1 DEF CppBone, Opt
  <2>2. c.n * CppBone(v) \in Nat /\ c.n * PyRigidBody(v, c.m) \in Nat
    BY <2>1, <1>3, ProductIsNat
  <2> QED BY <2>2 DEF CppSkeleton, PySkeleton
<1>5. CppAsset(c) \in Nat /\ PyAsset(c) \in Nat
  BY DEF CppAsset, PyAsset, CppAssetRigidBody, CppAssetMarker,
         PyAssetRigidBody, PyAssetMarker
<1>6. CppLabeledMarker(v) \in Nat /\ PyLabeledMarker(v) \in Nat
  BY DEF CppLabeledMarker, PyLabeledMarker, Opt
<1>7. /\ CppForcePlate(c) \in Nat /\ PyForcePlate(c) \in Nat
      /\ CppDevice(c) \in Nat /\ PyDevice(c) \in Nat
  <2>1. 4 + 4 * c.m \in Nat
    OBVIOUS
  <2>2. c.n * (4 + 4 * c.m) \in Nat
    BY <2>1, ProductIsNat
  <2> QED BY <2>2 DEF CppForcePlate, PyForcePlate, CppDevice, PyDevice
<1> QED
  BY <1>2, <1>3, <1>4, <1>5, <1>6, <1>7 DEF CppItem, PyItem, Counted

(* An item of a section that its version has is as wide to Python as to    *)
(* C++, but for a version 0 rigid body, a version 2 skeleton with bones    *)
(* and the labeled markers of version 2.3.                                 *)
LEMMA ItemsAgree ==
  ASSUME NEW v \in Version, NEW c \in Content, NEW section \in Counted,
         CppHas(v, section),
         ~(section = "LabeledMarkers" /\ v.major = 2 /\ v.minor = 3),
         ~(section = "RigidBodies" /\ v.major = 0),
         ~(section = "Skeletons" /\ v.major = 2 /\ c.n > 0)
  PROVE  CppItem(v, section, c) = Opt(PyHas(v, section), PyItem(v, section, c))
<1> USE ContentTypes
<1>1. v.major \in Nat /\ v.minor \in Nat
  BY DEF Version
<1>2. CASE section = "MarkerSets"
  BY <1>2 DEF CppItem, PyItem, PyHas, Opt, CppMarkerSet, PyMarkerSet
<1>3. CASE section = "RigidBodies"
  <2>1. CppRigidBody(v, c.n) = PyRigidBody(v, c.n)
    BY <1>1, <1>3 DEF CppRigidBody, PyRigidBody, PyRigidBody3, PyRigidBody26,
              PyRigidBody20, PyRigidBodyBefore2, Opt, AtLeast, AtLeastOr0
  <2> QED BY <1>3, <2>1 DEF CppItem, PyItem, PyHas, Opt
<1>4. CASE section = "Skeletons"
  <2>1. AtLeast(v, 2, 1) /\ CppHas(v, section) = PyHas(v, section)
    BY <1>4 DEF CppHas, PyHas
  <2>2. CASE c.n = 0
    <3>1. \A k \in Nat : PyRigidBody(v, k) \in Nat
      BY <1>1 DEF PyRigidBody, PyRigidBody3, PyRigidBody26,
                  PyRigidBody20, PyRigidBodyBefore2
    <3>2. CppBone(v) \in Nat
      BY <1>1 DEF CppBone, Opt
    <3>3. CppSkeleton(v, c) = PySkeleton(v, c)
      BY <2>2, <3>1, <3>2 DEF CppSkeleton, PySkeleton
    <3> QED BY <1>4, <2>1, <3>3 DEF CppItem, PyItem, Opt
  <2>3. CASE v.major >= 3
    <3>1. CppBone(v) = 38 /\ PyRigidBody(v, c.m) = 38
      BY <1>1, <2>3 DEF CppBone, PyRigidBody, PyRigidBody3, Opt, AtLeast, AtLeastOr0
    <3>2. CppSkeleton(v, c) = PySkeleton(v, c)
      BY <3>1 DEF CppSkeleton, PySkeleton
    <3> QED BY <1>4, <2>1, <3>2 DEF CppItem, PyItem, Opt
  <2> QED BY <1>1, <1>4, <2>1, <2>2, <2>3 DEF AtLeast
<1>5. CASE section = "Assets"
  BY <1>5 DEF CppItem, PyItem, PyHas, CppHas, Opt, CppAsset, PyAsset,
         CppAssetRigidBody, CppAssetMarker, PyAssetRigidBody, PyAssetMarker
<1>6. CASE section = "LabeledMarkers"
  <2>1. PyHas(v, section)
    BY <1>1, <1>6 DEF CppHas, PyHas, PyHasLabeledMarkers, AtLeast
  <2>2. CppLabeledMarker(v) = PyLabeledMarker(v)
    BY <1>1, <1>6 DEF CppHas, CppLabeledMarker, PyLabeledMarker, Opt, AtLeast, AtLeastOr0
  <2> QED BY <1>6, <2>1, <2>2 DEF CppItem, PyItem, Opt
<1>7. CASE section = "ForcePlates"
  BY <1>7 DEF CppItem, PyItem, PyHas, PyHasForcePlates, CppHas, Opt,
              CppForcePlate, PyForcePlate
<1>8. CASE section = "Devices"
  BY <1>8 DEF CppItem, PyItem, PyHas, CppHas, Opt, CppDevice, PyDevice
<1> QED
  BY <1>2, <1>3, <1>4, <1>5, <1>6, <1>7, <1>8 DEF Counted

LEMMA RigidBodyDescIsNat ==
  ASSUME NEW v \in Version, NEW c \in Content
  PROVE  CppRigidBodyDesc(v, c) \in Nat /\ PyRigidBodyDesc(v, c) \in Nat
<1> USE ContentTypes
<1>1. v.major \in Nat /\ v.minor \in Nat
  BY DEF Version
<1>2. c.n * CString(c.name) \in Nat /\ PyMarkerNames(c) \in Nat
  BY ProductIsNat DEF PyMarkerNames
<1>3. CppRigidBodyDesc(v, c) \in Nat
  BY <1>1, <1>2 DEF CppRigidBodyDesc, Joint, Opt
<1>4. PyRigidBodyDesc(v, c) \in Nat
  <2>1. /\ PyRigidBodyDesc0(c) \in Nat /\ PyRigidBodyDesc1(c) \in Nat
        /\ PyRigidBodyDesc2(c) \in Nat /\ PyRigidBodyDesc3(c) \in Nat
        /\ PyRigidBodyDesc40(c) \in Nat /\ PyRigidBodyDesc42(c) \in Nat
    BY <1>2 DEF PyRigidBodyDesc0, PyRigidBodyDesc1, PyRigidBodyDesc2,
                PyRigidBodyDesc3, PyRigidBodyDesc40, PyRigidBodyDesc42, Joint
  <2>2. CASE v.major \in {0, 1, 2, 3, 4}
    BY <1>1, <2>1, <2>2 DEF PyRigidBodyDesc
  <2>3. CASE v.major > 4
    BY <1>1, <2>3 DEF PyRigidBodyDesc
  <2> QED BY <1>1, <2>2, <2>3
<1> QED BY <1>3, <1>4

(* From 4.1 on, a rigid body whose markers have ASCII names is as wide to  *)
(* Python as to C++, if Python decodes it.                                 *)
LEMMA RigidBodyDescsAgree ==
  ASSUME NEW v \in Version, NEW c \in Content,
         AtLeast(v, 4, 1), ~PyRigidBodyDescRaises(v),
         c.n = 0 \/ c.name.chars = c.name.bytes
  PROVE  CppRigidBodyDesc(v, c) = PyRigidBodyDesc(v, c)
<1> USE ContentTypes
<1>1. v.major = 4 /\ v.minor \in Nat /\ v.minor >= 1
  BY DEF Version, AtLeast, PyRigidBodyDescRaises
<1>2. c.n * CString(c.name) = PyMarkerNames(c)
  BY DEF PyMarkerNames, CString
<1>3. c.n * CString(c.name) \in Nat
  BY ProductIsNat
<1>4. CASE v.minor < 2
  <2>1. PyRigidBodyDesc(v, c) = PyRigidBodyDesc40(c)
    BY <1>1, <1>4 DEF PyRigidBodyDesc
  <2> QED
    BY <1>1, <1>2, <1>3, <1>4, <2>1
    DEF CppRigidBodyDesc, PyRigidBodyDesc40, Opt, AtLeast, AtLeastOr0, Joint
<1>5. CASE v.minor >= 2
  <2>1. PyRigidBodyDesc(v, c) = PyRigidBodyDesc42(c)
    BY <1>1, <1>5 DEF PyRigidBodyDesc
  <2> QED
    BY <1>1, <1>2, <1>3, <1>5, <2>1
    DEF CppRigidBodyDesc, PyRigidBodyDesc42, Opt, AtLeast, AtLeastOr0, Joint
<1> QED BY <1>1, <1>4, <1>5

(* The bytes of n rigid bodies of c.m markers each. *)
LEMMA RigidBodiesAgree ==
  ASSUME NEW v \in Version, NEW c \in Content, AtLeast(v, 4, 1),
         ~(c.n > 0 /\ PyRigidBodyDescRaises(v)),
         ~(c.n > 0 /\ c.m > 0 /\ c.name.chars # c.name.bytes)
  PROVE  c.n * CppRigidBodyDesc(v, [c EXCEPT !.n = c.m])
           = c.n * PyRigidBodyDesc(v, [c EXCEPT !.n = c.m])
<1> DEFINE d == [c EXCEPT !.n = c.m]
<1>1. d \in Content /\ d.n = c.m /\ d.name = c.name
  BY ContentTypes DEF Content
<1>2. CppRigidBodyDesc(v, d) \in Nat /\ PyRigidBodyDesc(v, d) \in Nat
  BY <1>1, RigidBodyDescIsNat
<1>3. CASE c.n = 0
  BY <1>2, <1>3
<1>4. CASE c.n > 0
  <2>1. d.n = 0 \/ d.name.chars = d.name.bytes
    BY <1>1, <1>4, ContentTypes
  <2>2. CppRigidBodyDesc(v, d) = PyRigidBodyDesc(v, d)
    BY <1>1, <1>4, <2>1, RigidBodyDescsAgree
  <2> QED BY <2>2
<1> QED BY <1>3, <1>4, ContentTypes

(* From 4.1 on, a dataset is as wide to Python as to C++, but for marker   *)
(* names that are not ASCII and what Python does not decode.               *)
LEMMA DatasetsAgree ==
  ASSUME NEW v \in Version, NEW c \in Content, NEW kind \in Kinds,
         AtLeast(v, 4, 1), ~PyDatasetRaises(v, kind, c),
         ~(HasMarkers(kind, c) /\ c.name.chars # c.name.bytes)
  PROVE  CppDataset(v, kind, c) = PyDataset(v, kind, c)
<1> USE ContentTypes
<1>1. v.major \in Nat /\ v.minor \in Nat
  BY DEF Version
<1>2. CppDatasetHeader(v) = PyDatasetHeader(v)
  BY DEF CppDatasetHeader, PyDatasetHeader, Opt
<1>3. CASE kind = "MarkerSet"
  BY <1>2, <1>3 DEF CppDataset, PyDataset, CppMarkerSetDesc, PyMarkerSetDesc
<1>4. CASE kind = "RigidBody"
  <2>1. CppRigidBodyDesc(v, c) = PyRigidBodyDesc(v, c)
    BY <1>4, RigidBodyDescsAgree DEF PyDatasetRaises, HasMarkers
  <2> QED BY <1>2, <1>4, <2>1 DEF CppDataset, PyDataset
<1>5. CASE kind = "Skeleton"
  <2>1. CppSkeletonDesc(v, c) = PySkeletonDesc(v, c)
    BY <1>5, RigidBodiesAgree DEF PyDatasetRaises, HasMarkers,
       CppSkeletonDesc, PySkeletonDesc
  <2> QED BY <1>2, <1>5, <2>1 DEF CppDataset, PyDataset
<1>6. CASE kind = "ForcePlate"
  <2>1. CppForcePlateDesc(v, c) = PyForcePlateDesc(v, c)
    BY <1>1 DEF CppForcePlateDesc, PyForcePlateDesc, Opt, AtLeast, AtLeastOr0
  <2> QED BY <1>2, <1>6, <2>1 DEF CppDataset, PyDataset
<1>7. CASE kind = "Device"
  <2>1. CppDeviceDesc(v, c) = PyDeviceDesc(v, c)
    BY <1>1 DEF CppDeviceDesc, PyDeviceDesc, Opt, AtLeast, AtLeastOr0
  <2> QED BY <1>2, <1>7, <2>1 DEF CppDataset, PyDataset
<1>8. CASE kind = "Camera"
  BY <1>2, <1>8 DEF CppDataset, PyDataset, CppCameraDesc, PyCameraDesc
<1>9. CASE kind = "Asset"
  <2>1. CppAssetDesc(v, c) = PyAssetDesc(v, c)
    BY <1>9, RigidBodiesAgree DEF PyDatasetRaises, HasMarkers,
       CppAssetDesc, PyAssetDesc, CppMarkerDesc, PyMarkerDesc
  <2> QED BY <1>2, <1>9, <2>1 DEF CppDataset, PyDataset
<1> QED
  BY <1>3, <1>4, <1>5, <1>6, <1>7, <1>8, <1>9 DEF Kinds

(* The bytes of a dataset are a natural number, to each decoder. *)
LEMMA DatasetsAreNat ==
  ASSUME NEW v \in Version, NEW c \in Content, NEW kind \in Kinds
  PROVE  CppDataset(v, kind, c) \in Nat /\ PyDataset(v, kind, c) \in Nat
<1> USE ContentTypes
<1> DEFINE d == [c EXCEPT !.n = c.m]
<1>1. CppDatasetHeader(v) \in Nat /\ PyDatasetHeader(v) \in Nat
  BY DEF CppDatasetHeader, PyDatasetHeader, Opt
<1>2. c.n * CString(c.name) \in Nat
  BY ProductIsNat
<1>3. /\ CppRigidBodyDesc(v, c) \in Nat /\ PyRigidBodyDesc(v, c) \in Nat
      /\ CppRigidBodyDesc(v, d) \in Nat /\ PyRigidBodyDesc(v, d) \in Nat
  BY RigidBodyDescIsNat DEF Content
<1>4. c.n * CppRigidBodyDesc(v, d) \in Nat /\ c.n * PyRigidBodyDesc(v, d) \in Nat
  BY <1>3, ProductIsNat
<1>5. CppMarkerSetDesc(c) \in Nat /\ PyMarkerSetDesc(c) \in Nat
  BY <1>2 DEF CppMarkerSetDesc, PyMarkerSetDesc
<1>6. CppSkeletonDesc(v, c) \in Nat /\ PySkeletonDesc(v, c) \in Nat
  BY <1>4 DEF CppSkeletonDesc, PySkeletonDesc
<1>7. CppForcePlateDesc(v, c) \in Nat /\ PyForcePlateDesc(v, c) \in Nat
  BY <1>2 DEF CppForcePlateDesc, PyForcePlateDesc, ForcePlateDesc, Opt
<1>8. CppDeviceDesc(v, c) \in Nat /\ PyDeviceDesc(v, c) \in Nat
  BY <1>2 DEF CppDeviceDesc, PyDeviceDesc, DeviceDesc, Opt
<1>9. CppCameraDesc(c) \in Nat /\ PyCameraDesc(c) \in Nat
  BY DEF CppCameraDesc, PyCameraDesc
<1>10. CppAssetDesc(v, c) \in Nat /\ PyAssetDesc(v, c) \in Nat
  <2>1. /\ CppMarkerDesc(c) \in Nat /\ PyMarkerDesc(c) \in Nat
        /\ c.m * CppMarkerDesc(c) \in Nat /\ c.m * PyMarkerDesc(c) \in Nat
    BY ProductIsNat DEF CppMarkerDesc, PyMarkerDesc
  <2> QED BY <1>4, <2>1 DEF CppAssetDesc, PyAssetDesc
<1>11. CASE kind = "MarkerSet"
  BY <1>1, <1>5, <1>11 DEF CppDataset, PyDataset
<1>12. CASE kind = "RigidBody"
  BY <1>1, <1>3, <1>12 DEF CppDataset, PyDataset
<1>13. CASE kind = "Skeleton"
  BY <1>1, <1>6, <1>13 DEF CppDataset, PyDataset
<1>14. CASE kind = "ForcePlate"
  BY <1>1, <1>7, <1>14 DEF CppDataset, PyDataset
<1>15. CASE kind = "Device"
  BY <1>1, <1>8, <1>15 DEF CppDataset, PyDataset
<1>16. CASE kind = "Camera"
  BY <1>1, <1>9, <1>16 DEF CppDataset, PyDataset
<1>17. CASE kind = "Asset"
  BY <1>1, <1>10, <1>17 DEF CppDataset, PyDataset
<1> QED
  BY <1>11, <1>12, <1>13, <1>14, <1>15, <1>16, <1>17 DEF Kinds

(* The bytes up to the flags are a natural number, and the same from 3.0   *)
(* to 4.0.                                                                 *)
LEMMA BeforeFlags ==
  ASSUME NEW v \in Version
  PROVE  /\ CppBeforeFlags(v) \in Nat /\ PyBeforeFlags(v) \in Nat
         /\ AtLeast(v, 3, 0) =>
              /\ PyBeforeFlags(v) = 40
              /\ CppBeforeFlags(v) = 40 + Opt(AtLeast(v, 4, 1), 8)
<1>1. v.major \in Nat /\ v.minor \in Nat
  BY DEF Version
<1> QED
  BY <1>1 DEF CppBeforeFlags, PyBeforeFlags, Opt, AtLeast, AtLeastOr0

-----------------------------------------------------------------------------
(* A section whose items are being read is one its version has. *)
ItemsPresent == at \in Counted /\ left > 0 => CppHas(version, at)

(* From 3.0 on the decoders go side by side up to a frame's suffix. *)
SideBySide ==
  at \in DOMAIN Following /\ AtLeast(version, 3, 0) => cpp = py

(* Only a frame leaves flags behind, and from 3.0 on it leaves them where  *)
(* its size says.                                                          *)
FlagsLeft ==
  /\ at # "End" => flags.cpp = NoFlags
  /\ at = "End" /\ flags.cpp # NoFlags =>
       /\ flags.peek = flags.cpp
       /\ AtLeast(version, 3, 0) =>
            LET start == cpp - (CppBeforeFlags(version) + 6) IN
              /\ start \in Nat
              /\ flags.cpp = cpp - 6
              /\ flags.py = IF Signed16(cpp) - start - 8 > 0
                              THEN start + 40 ELSE NoFlags

DecodersInv == TypeOK /\ ItemsPresent /\ SideBySide /\ FlagsLeft

LEMMA InitInv == Init => DecodersInv
<1> SUFFICES ASSUME Init PROVE DecodersInv
  OBVIOUS
<1>1. at \in Sections /\ at \notin {"End"} /\ at \notin Counted
  BY DEF Init, Sections, Following, Counted
<1>2. TypeOK
  <2>1. left \in -1..MaxItems
    BY MaxItemsAssumption DEF Init, NoCount
  <2>2. flags \in [cpp : Int, peek : Int, py : Int]
    BY DEF Init, NoFlags
  <2> QED BY <1>1, <2>1, <2>2 DEF Init, TypeOK
<1>3. ItemsPresent /\ SideBySide /\ FlagsLeft
  BY <1>1 DEF Init, ItemsPresent, SideBySide, FlagsLeft
<1> QED BY <1>2, <1>3 DEF DecodersInv

LEMMA FollowingSections ==
  /\ DOMAIN Following = {"Prefix", "LegacyMarkers", "Suffix"} \cup Counted
  /\ Following["Prefix"] = "MarkerSets" /\ Following["LegacyMarkers"] = "RigidBodies"
  /\ \A section \in Counted :
       Following[section] \in DOMAIN Following /\ Following[section] # "End"
  /\ "Datasets" \notin DOMAIN Following /\ "End" \notin DOMAIN Following
  BY DEF Following, Counted

(* The steps that take bytes, leave a frame's sections in order and do not *)
(* touch the flags.                                                        *)
LEMMA PrefixStep == DecodersInv /\ UnpackFramePrefixData => DecodersInv'
<1> SUFFICES ASSUME DecodersInv, UnpackFramePrefixData PROVE DecodersInv'
  OBVIOUS
<1> USE FollowingSections DEF DecodersInv, UnpackFramePrefixData, Advance, Prefix
<1>1. at' = "MarkerSets" /\ left' = left /\ cpp' = cpp + 4 /\ py' = py + 4
  OBVIOUS
<1>2. TypeOK'
  BY <1>1 DEF TypeOK, Sections, Counted
<1>3. SideBySide'
  BY <1>1 DEF SideBySide, TypeOK
<1>4. ItemsPresent' /\ FlagsLeft'
  <2>1. CppHas(version', at')
    BY <1>1 DEF CppHas
  <2> QED BY <1>1, <2>1 DEF FlagsLeft, ItemsPresent
<1> QED BY <1>2, <1>3, <1>4

LEMMA LegacyStep == DecodersInv /\ UnpackLegacyOtherMarkers => DecodersInv'
<1> SUFFICES ASSUME DecodersInv, UnpackLegacyOtherMarkers PROVE DecodersInv'
  OBVIOUS
<1> USE FollowingSections DEF DecodersInv
<1>1. PICK n \in LegacyCounts :
        Advance(CppLegacyMarkers(version, n), PyLegacyMarkers(version, n))
  BY DEF UnpackLegacyOtherMarkers
<1>2. /\ CppLegacyMarkers(version, n) \in Nat
      /\ PyLegacyMarkers(version, n) = CppLegacyMarkers(version, n)
  BY LegacyAssumption DEF CppLegacyMarkers, PyLegacyMarkers, CppDataSize, PyDataSize, Opt
<1>3. at' = "RigidBodies" /\ UNCHANGED <<version, left, flags, raised>>
  BY DEF UnpackLegacyOtherMarkers
<1>4. TypeOK'
  BY <1>1, <1>2, <1>3 DEF TypeOK, Advance, Sections, Counted
<1>5. SideBySide'
  BY <1>1, <1>2, <1>3 DEF SideBySide, TypeOK, Advance, UnpackLegacyOtherMarkers
<1>6. CppHas(version', at')
  BY <1>3 DEF CppHas
<1> QED
  BY <1>3, <1>4, <1>5, <1>6 DEF ItemsPresent, FlagsLeft, UnpackLegacyOtherMarkers

(* From 3.0 on both decoders find the same sections. *)
LEMMA SameSections ==
  ASSUME NEW v \in Version, NEW section \in Counted,
         ~(section = "LabeledMarkers" /\ v.major = 2 /\ v.minor = 3)
  PROVE  CppHas(v, section) = PyHas(v, section)
<1>1. v.major \in Nat /\ v.minor \in Nat
  BY DEF Version
<1>2. CASE section = "LabeledMarkers"
  <2>1. AtLeast(v, 2, 3) = AtLeast(v, 2, 4)
    BY <1>1, <1>2 DEF AtLeast
  <2> QED BY <1>2, <2>1 DEF CppHas, PyHas, PyHasLabeledMarkers
<1>3. CASE section # "LabeledMarkers"
  BY <1>3 DEF CppHas, PyHas, PyHasForcePlates, Counted
<1> QED BY <1>2, <1>3

LEMMA CountStep == DecodersInv /\ UnpackCount => DecodersInv'
<1> SUFFICES ASSUME DecodersInv, UnpackCount PROVE DecodersInv'
  OBVIOUS
<1> USE FollowingSections DEF DecodersInv
<1>1. version \in Version /\ version.major \in Nat /\ version.minor \in Nat
  BY ConstantTypes DEF TypeOK
<1>2. at \in Counted /\ UNCHANGED <<version, at, flags, raised>>
  BY DEF UnpackCount
<1>3. left' \in 0..MaxItems /\ (left' > 0 => CppHas(version, at))
  BY MaxItemsAssumption DEF UnpackCount
<1>4. /\ cpp' = cpp + Opt(CppHas(version, at), 4 + CppDataSize(version))
      /\ py' = py + Opt(PyHas(version, at), 4 + PyDataSize(version))
  BY DEF UnpackCount, Advance
<1>5. TypeOK'
  BY <1>2, <1>3, <1>4, MaxItemsAssumption
  DEF TypeOK, Opt, CppDataSize, PyDataSize
<1>6. SideBySide'
  <2> SUFFICES ASSUME AtLeast(version, 3, 0) PROVE cpp' = py'
    BY <1>2 DEF SideBySide
  <2>1. CppHas(version, at) = PyHas(version, at)
    BY <1>1, <1>2, SameSections DEF AtLeast
  <2>2. cpp = py
    BY <1>2 DEF SideBySide
  <2> QED BY <1>4, <2>1, <2>2 DEF CppDataSize, PyDataSize
<1>7. ItemsPresent' /\ FlagsLeft'
  BY <1>2, <1>3 DEF ItemsPresent, FlagsLeft, Counted
<1> QED BY <1>5, <1>6, <1>7

LEMMA ItemStep ==
  ASSUME DecodersInv, NEW c \in Contents, UnpackItem(c)
  PROVE  DecodersInv'
<1> USE FollowingSections DEF DecodersInv
<1>1. version \in Version /\ version.major \in Nat /\ version.minor \in Nat
      /\ c \in Content
  BY ConstantTypes DEF TypeOK
<1>2. /\ at \in Counted /\ UNCHANGED <<version, at, flags, raised>>
      /\ left > 0 /\ left' = left - 1 /\ CppHas(version, at)
  BY DEF UnpackItem, ItemsPresent
<1>3. /\ cpp' = cpp + CppItem(version, at, c)
      /\ py' = py + Opt(PyHas(version, at), PyItem(version, at, c))
  BY DEF UnpackItem, Advance
<1>4. CppItem(version, at, c) \in Nat /\ PyItem(version, at, c) \in Nat
  BY <1>1, <1>2, ItemsAreNat
<1>5. TypeOK'
  BY <1>2, <1>3, <1>4, MaxItemsAssumption DEF TypeOK, Opt
<1>6. SideBySide'
  <2> SUFFICES ASSUME AtLeast(version, 3, 0) PROVE cpp' = py'
    BY <1>2 DEF SideBySide
  <2>1. CppItem(version, at, c) = Opt(PyHas(version, at), PyItem(version, at, c))
    BY <1>1, <1>2, ItemsAgree DEF AtLeast
  <2>2. cpp = py
    BY <1>2 DEF SideBySide
  <2> QED BY <1>3, <2>1, <2>2
<1>7. ItemsPresent' /\ FlagsLeft'
  BY <1>2 DEF ItemsPresent, FlagsLeft, Counted
<1> QED BY <1>5, <1>6, <1>7

LEMMA EndItemsStep == DecodersInv /\ EndItems => DecodersInv'
<1> SUFFICES ASSUME DecodersInv, EndItems PROVE DecodersInv'
  OBVIOUS
<1> USE FollowingSections DEF DecodersInv, EndItems
<1>1. at' \in DOMAIN Following /\ at' # "End" /\ left' = -1
  BY DEF NoCount
<1>2. TypeOK'
  BY <1>1, MaxItemsAssumption DEF TypeOK, Sections
<1>3. SideBySide'
  BY <1>1 DEF SideBySide
<1>4. ItemsPresent' /\ FlagsLeft'
  BY <1>1 DEF ItemsPresent, FlagsLeft, Counted
<1> QED BY <1>2, <1>3, <1>4

LEMMA SuffixStep == DecodersInv /\ UnpackFrameSuffixData => DecodersInv'
<1> SUFFICES ASSUME DecodersInv, UnpackFrameSuffixData PROVE DecodersInv'
  OBVIOUS
<1> USE FollowingSections DEF DecodersInv
<1>1. version \in Version /\ version.major \in Nat /\ version.minor \in Nat
  BY ConstantTypes DEF TypeOK
<1>2. CppBeforeFlags(version) \in Nat /\ PyBeforeFlags(version) \in Nat
  BY <1>1, BeforeFlags
<1>3. cpp \in Nat /\ py \in Nat
  BY DEF TypeOK
<1>4. /\ at = "Suffix" /\ at' = "End" /\ UNCHANGED <<version, left>>
      /\ cpp' = cpp + CppBeforeFlags(version) + 6
      /\ py' = py + (IF PySuffixRead /\ version.major # 0
                       THEN PyBeforeFlags(version) + 2 ELSE 8)
      /\ flags' = [cpp  |-> cpp + CppBeforeFlags(version), peek |-> Peek,
                   py   |-> IF PySuffixRead /\ version.major # 0
                              THEN py + PyBeforeFlags(version) ELSE NoFlags]
      /\ raised' \in BOOLEAN
  BY <1>2, <1>3 DEF UnpackFrameSuffixData, Advance, CppFlags, CppTrailer
<1>5. FrameEnd = cpp' /\ Peek = cpp + CppBeforeFlags(version)
  BY <1>2, <1>3, <1>4 DEF FrameEnd, Peek, CppFlags, CppTrailer
<1>6. TypeOK'
  <2>1. flags' \in [cpp : Int, peek : Int, py : Int]
    BY <1>2, <1>3, <1>4, <1>5 DEF NoFlags
  <2>2. cpp' \in Nat /\ py' \in Nat
    BY <1>2, <1>3, <1>4
  <2> QED BY <1>4, <2>1, <2>2 DEF TypeOK, Sections
<1>7. ItemsPresent' /\ SideBySide'
  BY <1>4 DEF ItemsPresent, SideBySide, Counted
<1>8. FlagsLeft'
  <2> DEFINE start == cpp' - (CppBeforeFlags(version) + 6)
  <2>1. start = cpp
    BY <1>2, <1>3, <1>4
  <2>2. /\ flags'.peek = flags'.cpp /\ flags'.cpp = cpp' - 6
    BY <1>2, <1>3, <1>4, <1>5
  <2>3. ASSUME AtLeast(version, 3, 0)
        PROVE  flags'.py = IF Signed16(cpp') - start - 8 > 0 THEN start + 40 ELSE NoFlags
    <3>1. cpp = py /\ version.major # 0 /\ PyBeforeFlags(version) = 40
      BY <1>1, <1>4, <2>3, BeforeFlags DEF SideBySide, AtLeast
    <3>2. PySuffixRead = (Signed16(cpp') - start - 8 > 0)
      BY <1>5, <2>1, <3>1 DEF PySuffixRead, PyRoom
    <3> QED BY <1>4, <2>1, <3>1, <3>2
  <2> QED BY <1>3, <1>4, <2>1, <2>2, <2>3 DEF FlagsLeft
<1> QED BY <1>6, <1>7, <1>8

LEMMA DatasetCountStep == DecodersInv /\ UnpackDatasetCount => DecodersInv'
<1> SUFFICES ASSUME DecodersInv, UnpackDatasetCount PROVE DecodersInv'
  OBVIOUS
<1> USE FollowingSections DEF DecodersInv, UnpackDatasetCount, Advance
<1>1. TypeOK'
  BY MaxItemsAssumption DEF TypeOK
<1>2. ItemsPresent' /\ SideBySide' /\ FlagsLeft'
  BY DEF ItemsPresent, SideBySide, FlagsLeft, Counted
<1> QED BY <1>1, <1>2

LEMMA DatasetStep ==
  ASSUME DecodersInv, NEW kind \in Kinds, NEW c \in Contents,
         UnpackDataset(kind, c)
  PROVE  DecodersInv'
<1> USE FollowingSections DEF DecodersInv
<1>1. version \in Version /\ c \in Content
  BY ConstantTypes DEF TypeOK
<1>2. CppDataset(version, kind, c) \in Nat /\ PyDataset(version, kind, c) \in Nat
  BY <1>1, DatasetsAreNat
<1>3. at = "Datasets" /\ left > 0 /\ left' = left - 1
      /\ UNCHANGED <<version, at, flags>>
      /\ raised' = PyDatasetRaises(version, kind, c)
  BY DEF UnpackDataset
<1>4. raised' \in BOOLEAN
  BY <1>3 DEF PyDatasetRaises
<1>5. cpp' \in Nat /\ py' \in Nat
  BY <1>2 DEF UnpackDataset, Advance, TypeOK
<1>6. TypeOK'
  BY <1>3, <1>4, <1>5, MaxItemsAssumption DEF TypeOK
<1>7. ItemsPresent' /\ SideBySide' /\ FlagsLeft'
  BY <1>3 DEF ItemsPresent, SideBySide, FlagsLeft, Counted
<1> QED BY <1>6, <1>7

LEMMA UnknownDatasetStep == DecodersInv /\ UnpackUnknownDataset => DecodersInv'
<1> SUFFICES ASSUME DecodersInv, UnpackUnknownDataset PROVE DecodersInv'
  OBVIOUS
<1> USE FollowingSections DEF DecodersInv, UnpackUnknownDataset
<1>1. CppDatasetHeader(version) \in Nat /\ PyDatasetHeader(version) \in Nat
  BY DEF CppDatasetHeader, PyDatasetHeader, Opt
<1>2. TypeOK'
  BY <1>1, MaxItemsAssumption DEF TypeOK, Sections, NoCount, Advance
<1>3. ItemsPresent' /\ SideBySide' /\ FlagsLeft'
  BY DEF ItemsPresent, SideBySide, FlagsLeft, Counted
<1> QED BY <1>2, <1>3

LEMMA EndDatasetsStep == DecodersInv /\ EndDatasets => DecodersInv'
<1> SUFFICES ASSUME DecodersInv, EndDatasets PROVE DecodersInv'
  OBVIOUS
<1> USE FollowingSections DEF DecodersInv, EndDatasets
<1>1. TypeOK'
  BY MaxItemsAssumption DEF TypeOK, Sections, NoCount
<1>2. ItemsPresent' /\ SideBySide' /\ FlagsLeft'
  BY DEF ItemsPresent, SideBySide, FlagsLeft, Counted
<1> QED BY <1>1, <1>2

LEMMA NextPacketStep == DecodersInv /\ NextPacket => DecodersInv'
<1> SUFFICES ASSUME DecodersInv, NextPacket PROVE DecodersInv'
  OBVIOUS
<1> USE FollowingSections DEF DecodersInv, NextPacket
<1>1. flags' \in [cpp : Int, peek : Int, py : Int] /\ flags'.cpp = NoFlags
  BY DEF NoFlags
<1>2. TypeOK'
  BY <1>1 DEF TypeOK, Sections
<1>3. ItemsPresent' /\ SideBySide' /\ FlagsLeft'
  BY <1>1 DEF ItemsPresent, SideBySide, FlagsLeft, Counted
<1> QED BY <1>2, <1>3

LEMMA NextInv == DecodersInv /\ [Next]_vars => DecodersInv'
<1> SUFFICES ASSUME DecodersInv, [Next]_vars PROVE DecodersInv'
  OBVIOUS
<1>1. CASE UNCHANGED vars
  BY <1>1 DEF vars, DecodersInv, TypeOK, ItemsPresent, SideBySide, FlagsLeft
<1>2. ASSUME NEW c \in Contents, UnpackItem(c) PROVE DecodersInv'
  BY <1>2, ItemStep
<1>3. ASSUME NEW kind \in Kinds, NEW c \in Contents, UnpackDataset(kind, c)
      PROVE  DecodersInv'
  BY <1>3, DatasetStep
<1> QED
  BY <1>1, <1>2, <1>3, PrefixStep, LegacyStep, CountStep, EndItemsStep,
     SuffixStep, DatasetCountStep, UnknownDatasetStep, EndDatasetsStep,
     NextPacketStep
  DEF Next, Step, Terminated

(* The inductive invariant of the two decoders. *)
THEOREM DecodersInvariant == Spec => []DecodersInv
<1>1. Init => DecodersInv
  BY InitInv
<1>2. DecodersInv /\ [Next]_vars => DecodersInv'
  BY NextInv
<1> QED BY <1>1, <1>2, PTL DEF Spec

(* The variables of the two decoders keep their types. *)
THEOREM TypeCorrect == Spec => []TypeOK
  BY DecodersInvariant, PTL DEF DecodersInv

(* In every frame from version 3.0 on that fits a signed 16-bit size,      *)
(* Python finds the flags where the C++ decoder does up to 4.0, and in no  *)
(* later version, whatever the sections hold.                              *)
THEOREM FlagsFoundAlways == Spec => []FlagsFound
<1>1. DecodersInv => FlagsFound
  <2> SUFFICES ASSUME DecodersInv, FrameRead PROVE
        /\ flags.peek = flags.cpp
        /\ AtLeast(version, 3, 0) /\ cpp < 32768
             => (flags.py = flags.cpp <=> ~AtLeast(version, 4, 1))
    BY DEF FlagsFound
  <2> USE DEF DecodersInv
  <2>1. version \in Version /\ cpp \in Nat
    BY ConstantTypes DEF TypeOK
  <2>2. flags.peek = flags.cpp
    BY DEF FlagsLeft, FrameRead
  <2>3. ASSUME AtLeast(version, 3, 0), cpp < 32768
        PROVE  flags.py = flags.cpp <=> ~AtLeast(version, 4, 1)
    <3> DEFINE start == cpp - (CppBeforeFlags(version) + 6)
    <3>1. /\ start \in Nat /\ flags.cpp = cpp - 6
          /\ flags.py = IF Signed16(cpp) - start - 8 > 0 THEN start + 40 ELSE NoFlags
      BY <2>3 DEF FlagsLeft, FrameRead
    <3>2. CppBeforeFlags(version) = 40 + Opt(AtLeast(version, 4, 1), 8)
      BY <2>1, <2>3, BeforeFlags
    <3>3. Signed16(cpp) = cpp
      BY <2>1, <2>3 DEF Signed16, Unsigned16
    <3>4. CASE AtLeast(version, 4, 1)
      <4>1. CppBeforeFlags(version) = 48
        BY <3>2, <3>4 DEF Opt
      <4> QED BY <2>1, <3>1, <3>3, <3>4, <4>1 DEF NoFlags
    <3>5. CASE ~AtLeast(version, 4, 1)
      <4>1. CppBeforeFlags(version) = 40
        BY <3>2, <3>5 DEF Opt
      <4> QED BY <2>1, <3>1, <3>3, <3>5, <4>1 DEF NoFlags
    <3> QED BY <3>4, <3>5
  <2> QED BY <2>2, <2>3
<1> QED BY <1>1, DecodersInvariant, PTL

(* From version 3.0 on, Python gives up the suffix of the frames of 32768  *)
(* bytes or more and of no shorter one.                                    *)
THEOREM SuffixSkippedAlways == Spec => []SuffixSkippedIffLong
<1>1. DecodersInv => SuffixSkippedIffLong
  <2> SUFFICES ASSUME DecodersInv, FrameRead, AtLeast(version, 3, 0), cpp < 65536
               PROVE  flags.py = NoFlags <=> cpp >= 32768
    BY DEF SuffixSkippedIffLong
  <2> USE DEF DecodersInv
  <2> DEFINE start == cpp - (CppBeforeFlags(version) + 6)
  <2>1. version \in Version /\ cpp \in Nat
    BY ConstantTypes DEF TypeOK
  <2>2. /\ start \in Nat
        /\ flags.py = IF Signed16(cpp) - start - 8 > 0 THEN start + 40 ELSE NoFlags
    BY DEF FlagsLeft, FrameRead
  <2>3. CppBeforeFlags(version) = 40 + Opt(AtLeast(version, 4, 1), 8)
    BY <2>1, BeforeFlags
  <2>4. Signed16(cpp) = IF cpp < 32768 THEN cpp ELSE cpp - 65536
    BY <2>1 DEF Signed16, Unsigned16
  <2>5. CASE cpp < 32768
    BY <2>1, <2>2, <2>3, <2>4, <2>5 DEF Opt, NoFlags
  <2>6. CASE cpp >= 32768
    BY <2>1, <2>2, <2>3, <2>4, <2>6 DEF Opt, NoFlags
  <2> QED BY <2>1, <2>5, <2>6
<1> QED BY <1>1, DecodersInvariant, PTL

(* Outside the known gaps, both decoders take the same bytes at every      *)
(* step, whatever the versions, the content and the number of items.       *)
THEOREM AgreeOutsideGapsAlways == Spec => AgreeOutsideGaps
<1> DEFINE Agree ==
      /\ UnpackFramePrefixData \/ UnpackLegacyOtherMarkers => SameAdvance
      /\ UnpackCount /\ ~GapInCount => SameAdvance
      /\ \A c \in Contents : UnpackItem(c) /\ ~GapInItem(c) => SameAdvance
      /\ \A kind \in Kinds, c \in Contents :
           UnpackDataset(kind, c) /\ ~raised' /\ ~GapInDataset(kind, c)
             => SameAdvance
      /\ UnpackUnknownDataset /\ AtLeast(version, 4, 1) => SameAdvance
<1>1. DecodersInv => Agree
  <2> SUFFICES ASSUME DecodersInv PROVE Agree
    OBVIOUS
  <2>1. /\ version \in Version /\ cpp \in Nat /\ py \in Nat
        /\ version.major \in Nat /\ version.minor \in Nat
    BY ConstantTypes DEF DecodersInv, TypeOK
  <2>2. version = [major |-> version.major, minor |-> version.minor]
    BY <2>1 DEF Version
  <2>3. UnpackFramePrefixData \/ UnpackLegacyOtherMarkers => SameAdvance
    <3>1. UnpackFramePrefixData => SameAdvance
      BY <2>1 DEF UnpackFramePrefixData, Advance, Prefix, SameAdvance
    <3>2. ASSUME UnpackLegacyOtherMarkers PROVE SameAdvance
      <4>1. PICK n \in LegacyCounts :
              Advance(CppLegacyMarkers(version, n), PyLegacyMarkers(version, n))
        BY <3>2 DEF UnpackLegacyOtherMarkers
      <4>2. CppLegacyMarkers(version, n) = PyLegacyMarkers(version, n)
            /\ CppLegacyMarkers(version, n) \in Nat
        BY LegacyAssumption DEF CppLegacyMarkers, PyLegacyMarkers,
           CppDataSize, PyDataSize, Opt
      <4> QED BY <2>1, <4>1, <4>2 DEF Advance, SameAdvance
    <3> QED BY <3>1, <3>2
  <2>4. ASSUME UnpackCount, ~GapInCount PROVE SameAdvance
    <3>1. CppHas(version, at) = PyHas(version, at)
      BY <2>1, <2>2, <2>4, SameSections DEF GapInCount, UnpackCount
    <3>2. Opt(CppHas(version, at), 4 + CppDataSize(version)) \in Nat
      BY DEF Opt, CppDataSize
    <3>3. Opt(CppHas(version, at), 4 + CppDataSize(version))
            = Opt(PyHas(version, at), 4 + PyDataSize(version))
      BY <3>1 DEF CppDataSize, PyDataSize
    <3> QED BY <2>1, <2>4, <3>2, <3>3 DEF UnpackCount, Advance, SameAdvance
  <2>5. ASSUME NEW c \in Contents, UnpackItem(c), ~GapInItem(c)
        PROVE  SameAdvance
    <3>1. at \in Counted /\ CppHas(version, at) /\ c \in Content
      BY <2>5, ConstantTypes DEF UnpackItem, DecodersInv, ItemsPresent
    <3>2. CppItem(version, at, c) = Opt(PyHas(version, at), PyItem(version, at, c))
      BY <2>1, <2>2, <2>5, <3>1, ItemsAgree DEF GapInItem, GapInCount
    <3>3. CppItem(version, at, c) \in Nat
      BY <2>1, <3>1, ItemsAreNat
    <3> QED BY <2>1, <2>5, <3>2, <3>3 DEF UnpackItem, Advance, SameAdvance
  <2>6. ASSUME NEW kind \in Kinds, NEW c \in Contents, UnpackDataset(kind, c),
               ~raised', ~GapInDataset(kind, c)
        PROVE  SameAdvance
    <3>1. c \in Content /\ ~PyDatasetRaises(version, kind, c)
      BY <2>6, ConstantTypes DEF UnpackDataset
    <3>2. CppDataset(version, kind, c) = PyDataset(version, kind, c)
      BY <2>1, <2>6, <3>1, DatasetsAgree DEF GapInDataset
    <3>3. CppDataset(version, kind, c) \in Nat
      BY <2>1, <3>1, DatasetsAreNat
    <3> QED BY <2>1, <2>6, <3>2, <3>3 DEF UnpackDataset, Advance, SameAdvance
  <2>7. ASSUME UnpackUnknownDataset, AtLeast(version, 4, 1) PROVE SameAdvance
    <3>1. CppDatasetHeader(version) = 8 /\ PyDatasetHeader(version) = 8
      BY <2>7 DEF CppDatasetHeader, PyDatasetHeader, Opt
    <3> QED BY <2>1, <2>7, <3>1 DEF UnpackUnknownDataset, Advance, SameAdvance
  <2> QED BY <2>3, <2>4, <2>5, <2>6, <2>7
<1>2. DecodersInv => [Agree]_vars
  BY <1>1
<1> QED BY <1>2, DecodersInvariant, PTL DEF AgreeOutsideGaps

-----------------------------------------------------------------------------
(* The gaps, one by one.                                                   *)

(* At a gap an item is not as wide to Python as to C++. *)
LEMMA ItemsPart ==
  ASSUME NEW v \in Version, NEW c \in Content, NEW section \in Counted,
         CppHas(v, section),
         \/ section = "LabeledMarkers" /\ v.major = 2 /\ v.minor = 3
         \/ section = "RigidBodies" /\ v.major = 0
         \/ section = "Skeletons" /\ v.major = 2 /\ c.n > 0
  PROVE  CppItem(v, section, c) # Opt(PyHas(v, section), PyItem(v, section, c))
<1> USE ContentTypes
<1>1. v.major \in Nat /\ v.minor \in Nat
  BY DEF Version
<1>2. CASE section = "LabeledMarkers" /\ v.major = 2 /\ v.minor = 3
  <2>1. CppItem(v, section, c) = 20
    BY <1>2 DEF CppItem, CppLabeledMarker, Opt, AtLeast, AtLeastOr0
  <2>2. ~PyHas(v, section)
    BY <1>2 DEF PyHas, PyHasLabeledMarkers, AtLeast
  <2> QED BY <2>1, <2>2 DEF Opt
<1>3. CASE section = "RigidBodies" /\ v.major = 0
  <2>1. CppItem(v, section, c) = 42 + 12 * c.n
    BY <1>3 DEF CppItem, CppRigidBody, Opt, AtLeastOr0
  <2>2. PyHas(v, section) /\ PyItem(v, section, c) = 36 + 12 * c.n
    BY <1>1, <1>3 DEF PyHas, PyItem, PyRigidBody, PyRigidBodyBefore2, AtLeast
  <2> QED BY <2>1, <2>2 DEF Opt
<1>4. CASE section = "Skeletons" /\ v.major = 2 /\ c.n > 0
  <2>1. PyHas(v, section)
    BY <1>4 DEF CppHas, PyHas
  <2>2. /\ CppBone(v) \in Nat /\ PyRigidBody(v, c.m) \in Nat
        /\ CppBone(v) < PyRigidBody(v, c.m)
    BY <1>1, <1>4 DEF CppBone, PyRigidBody, PyRigidBody26, PyRigidBody20, Opt,
       AtLeast, AtLeastOr0
  <2>3. c.n * CppBone(v) < c.n * PyRigidBody(v, c.m)
    BY <1>4, <2>2, ProductGrows
  <2>4. c.n * CppBone(v) \in Nat /\ c.n * PyRigidBody(v, c.m) \in Nat
    BY <2>2, ProductIsNat
  <2> QED
    BY <1>4, <2>1, <2>3, <2>4 DEF CppItem, PyItem, CppSkeleton, PySkeleton, Opt
<1> QED BY <1>2, <1>3, <1>4

(* Python never takes more bytes for a rigid body's description than C++,  *)
(* and fewer where, from 4.0 on, a marker's name is not ASCII.             *)
LEMMA RigidBodyDescsOrdered ==
  ASSUME NEW v \in Version, NEW c \in Content
  PROVE  /\ PyRigidBodyDesc(v, c) <= CppRigidBodyDesc(v, c)
         /\ /\ v.major = 4 /\ c.n > 0 /\ c.name.chars # c.name.bytes
            => PyRigidBodyDesc(v, c) < CppRigidBodyDesc(v, c)
<1> USE ContentTypes
<1>1. v.major \in Nat /\ v.minor \in Nat
  BY DEF Version
<1>2. c.name.chars <= c.name.bytes
  BY DEF Content, Name
<1>3. /\ c.n * CString(c.name) \in Nat /\ PyMarkerNames(c) \in Nat
      /\ PyMarkerNames(c) <= c.n * CString(c.name)
      /\ c.n > 0 /\ c.name.chars # c.name.bytes
           => PyMarkerNames(c) < c.n * CString(c.name)
  <2>1. CASE c.name.chars = c.name.bytes
    BY <2>1, ProductIsNat DEF PyMarkerNames, CString
  <2>2. CASE c.n = 0
    BY <2>2 DEF PyMarkerNames, CString
  <2>3. CASE c.n > 0 /\ c.name.chars < c.name.bytes
    <3>1. c.n * (c.name.chars + 1) < c.n * (c.name.bytes + 1)
      BY <2>3, ProductGrows
    <3> QED BY <3>1, ProductIsNat DEF PyMarkerNames, CString
  <2> QED BY <1>2, <2>1, <2>2, <2>3
<1>4. CASE v.major = 0
  BY <1>1, <1>3, <1>4 DEF CppRigidBodyDesc, PyRigidBodyDesc, PyRigidBodyDesc0,
     PyRigidBodyDesc42, Joint, Opt, AtLeast, AtLeastOr0
<1>5. CASE v.major = 1
  BY <1>1, <1>5 DEF CppRigidBodyDesc, PyRigidBodyDesc, PyRigidBodyDesc1,
     Joint, Opt, AtLeast, AtLeastOr0
<1>6. CASE v.major = 2
  BY <1>1, <1>6 DEF CppRigidBodyDesc, PyRigidBodyDesc, PyRigidBodyDesc2,
     Joint, Opt, AtLeast, AtLeastOr0
<1>7. CASE v.major = 3
  BY <1>1, <1>7 DEF CppRigidBodyDesc, PyRigidBodyDesc, PyRigidBodyDesc3,
     Joint, Opt, AtLeast, AtLeastOr0
<1>8. CASE v.major = 4 /\ v.minor < 2
  BY <1>1, <1>3, <1>8 DEF CppRigidBodyDesc, PyRigidBodyDesc, PyRigidBodyDesc40,
     Joint, Opt, AtLeast, AtLeastOr0
<1>9. CASE v.major = 4 /\ v.minor >= 2
  BY <1>1, <1>3, <1>9 DEF CppRigidBodyDesc, PyRigidBodyDesc, PyRigidBodyDesc42,
     Joint, Opt, AtLeast, AtLeastOr0
<1>10. CASE v.major > 4
  <2>1. PyRigidBodyDesc(v, c) = 0
    BY <1>1, <1>10 DEF PyRigidBodyDesc
  <2> QED BY <1>10, <2>1, RigidBodyDescIsNat
<1> QED BY <1>1, <1>4, <1>5, <1>6, <1>7, <1>8, <1>9, <1>10

(* The same of n rigid bodies of c.m markers each. *)
LEMMA RigidBodiesOrdered ==
  ASSUME NEW v \in Version, NEW c \in Content
  PROVE  LET d == [c EXCEPT !.n = c.m]
             Cpp == c.n * CppRigidBodyDesc(v, d)
             Py == c.n * PyRigidBodyDesc(v, d)
         IN  /\ Cpp \in Nat /\ Py \in Nat /\ Py <= Cpp
             /\ /\ v.major = 4 /\ c.n > 0 /\ c.m > 0 /\ c.name.chars # c.name.bytes
                => Py < Cpp
<1> DEFINE d == [c EXCEPT !.n = c.m]
<1>1. d \in Content /\ d.n = c.m /\ d.name = c.name /\ c.n \in Nat /\ c.m \in Nat
  BY ContentTypes DEF Content
<1>2. CppRigidBodyDesc(v, d) \in Nat /\ PyRigidBodyDesc(v, d) \in Nat
  BY <1>1, RigidBodyDescIsNat
<1>3. /\ PyRigidBodyDesc(v, d) <= CppRigidBodyDesc(v, d)
      /\ /\ v.major = 4 /\ c.m > 0 /\ c.name.chars # c.name.bytes
         => PyRigidBodyDesc(v, d) < CppRigidBodyDesc(v, d)
  BY <1>1, RigidBodyDescsOrdered
<1> HIDE DEF d
<1>4. /\ c.n * CppRigidBodyDesc(v, d) \in Nat /\ c.n * PyRigidBodyDesc(v, d) \in Nat
  BY <1>1, <1>2, ProductIsNat
<1>5. CASE c.n = 0
  BY <1>2, <1>4, <1>5 DEF d
<1>6. CASE c.n > 0 /\ PyRigidBodyDesc(v, d) < CppRigidBodyDesc(v, d)
  <2>1. c.n * PyRigidBodyDesc(v, d) < c.n * CppRigidBodyDesc(v, d)
    BY <1>1, <1>2, <1>6, ProductGrows
  <2> QED BY <1>4, <2>1 DEF d
<1>7. CASE c.n > 0 /\ PyRigidBodyDesc(v, d) = CppRigidBodyDesc(v, d)
  BY <1>2, <1>3, <1>4, <1>7 DEF d
<1> QED BY <1>1, <1>2, <1>3, <1>5, <1>6, <1>7

(* At a gap a dataset is not as wide to Python as to C++, if Python        *)
(* decodes it: before 4.1 for want of its size, later by its names.        *)
LEMMA DatasetsPart ==
  ASSUME NEW v \in Version, NEW c \in Content, NEW kind \in Kinds,
         ~PyDatasetRaises(v, kind, c),
         ~AtLeast(v, 4, 1) \/ (HasMarkers(kind, c) /\ c.name.chars # c.name.bytes)
  PROVE  CppDataset(v, kind, c) # PyDataset(v, kind, c)
<1> USE ContentTypes
<1> DEFINE d == [c EXCEPT !.n = c.m]
           Later == AtLeast(v, 4, 1)
           Cpp == c.n * CppRigidBodyDesc(v, d)
           Py == c.n * PyRigidBodyDesc(v, d)
<1>1. v.major \in Nat /\ v.minor \in Nat
  BY DEF Version
<1>2. CppDatasetHeader(v) = 8 /\ PyDatasetHeader(v) = IF Later THEN 8 ELSE 4
  BY DEF CppDatasetHeader, PyDatasetHeader, Opt
<1>3. /\ CppRigidBodyDesc(v, c) \in Nat /\ PyRigidBodyDesc(v, c) \in Nat
      /\ PyRigidBodyDesc(v, c) <= CppRigidBodyDesc(v, c)
      /\ v.major = 4 /\ c.n > 0 /\ c.name.chars # c.name.bytes
           => PyRigidBodyDesc(v, c) < CppRigidBodyDesc(v, c)
  BY RigidBodyDescIsNat, RigidBodyDescsOrdered
<1>4. /\ Cpp \in Nat /\ Py \in Nat /\ Py <= Cpp
      /\ v.major = 4 /\ c.n > 0 /\ c.m > 0 /\ c.name.chars # c.name.bytes => Py < Cpp
  BY RigidBodiesOrdered
<1>5. c.n * CString(c.name) \in Nat
  BY ProductIsNat
<1>6. Later /\ HasMarkers(kind, c) => v.major = 4
  BY <1>1 DEF PyDatasetRaises, PyRigidBodyDescRaises, HasMarkers, AtLeast
<1> HIDE DEF d
<1>7. CASE kind = "RigidBody"
  BY <1>2, <1>3, <1>6, <1>7 DEF CppDataset, PyDataset, HasMarkers
<1>8. CASE kind = "Skeleton"
  <2>1. /\ CppSkeletonDesc(v, c) = CString(c.name) + 8 + Cpp
        /\ PySkeletonDesc(v, c) = CString(c.name) + 8 + Py
    BY DEF CppSkeletonDesc, PySkeletonDesc, d
  <2>2. /\ CppDataset(v, kind, c) = CppDatasetHeader(v) + CppSkeletonDesc(v, c)
        /\ PyDataset(v, kind, c) = PyDatasetHeader(v) + PySkeletonDesc(v, c)
    BY <1>8 DEF CppDataset, PyDataset
  <2>3. Later => Py < Cpp
    BY <1>4, <1>6, <1>8 DEF HasMarkers
  <2> HIDE DEF Cpp, Py, Later
  <2> QED BY <1>2, <1>4, <2>1, <2>2, <2>3
<1>9. CASE kind = "Asset"
  <2>1. c.m * CppMarkerDesc(c) \in Nat /\ PyMarkerDesc(c) = CppMarkerDesc(c)
    BY ProductIsNat DEF CppMarkerDesc, PyMarkerDesc
  <2> DEFINE Own == c.m * CppMarkerDesc(c)
  <2>2. /\ CppAssetDesc(v, c) = CString(c.name) + 12 + Cpp + 4 + Own
        /\ PyAssetDesc(v, c) = CString(c.name) + 12 + Py + 4 + Own
    BY <2>1 DEF CppAssetDesc, PyAssetDesc, d
  <2>3. /\ CppDataset(v, kind, c) = CppDatasetHeader(v) + CppAssetDesc(v, c)
        /\ PyDataset(v, kind, c) = PyDatasetHeader(v) + PyAssetDesc(v, c)
    BY <1>9 DEF CppDataset, PyDataset
  <2>4. Later => Py < Cpp
    BY <1>4, <1>6, <1>9 DEF HasMarkers
  <2> HIDE DEF Cpp, Py, Later, Own
  <2> QED BY <1>2, <1>4, <2>1, <2>2, <2>3, <2>4 DEF Own
\* The other kinds have no marker names and no gap but their header.
<1>10. CASE kind \in {"MarkerSet", "Camera"}
  <2>1. ~Later
    BY <1>10 DEF HasMarkers
  <2>2. /\ CppMarkerSetDesc(c) = PyMarkerSetDesc(c) /\ CppMarkerSetDesc(c) \in Nat
        /\ CppCameraDesc(c) = PyCameraDesc(c) /\ CppCameraDesc(c) \in Nat
    BY <1>5 DEF CppMarkerSetDesc, PyMarkerSetDesc, CppCameraDesc, PyCameraDesc
  <2> QED BY <1>2, <1>10, <2>1, <2>2 DEF CppDataset, PyDataset
<1>11. CASE kind \in {"ForcePlate", "Device"}
  <2>1. ~Later
    BY <1>11 DEF HasMarkers
  <2>2. /\ ForcePlateDesc(c) \in Nat /\ DeviceDesc(c) \in Nat
    BY <1>5 DEF ForcePlateDesc, DeviceDesc
  <2>3. /\ CppForcePlateDesc(v, c) \in Nat /\ PyForcePlateDesc(v, c) \in Nat
        /\ PyForcePlateDesc(v, c) <= CppForcePlateDesc(v, c)
        /\ CppDeviceDesc(v, c) \in Nat /\ PyDeviceDesc(v, c) \in Nat
        /\ PyDeviceDesc(v, c) <= CppDeviceDesc(v, c)
    BY <2>2 DEF CppForcePlateDesc, PyForcePlateDesc, CppDeviceDesc, PyDeviceDesc, Opt,
       AtLeastOr0
  <2> QED BY <1>2, <1>11, <2>1, <2>3 DEF CppDataset, PyDataset
<1> QED
  BY <1>7, <1>8, <1>9, <1>10, <1>11 DEF Kinds

(* At every gap the decoders part, whatever the content: none of them is   *)
(* there for caution.                                                      *)
THEOREM GapsAreRealAlways == Spec => GapsAreReal
<1> DEFINE Part ==
      /\ UnpackCount /\ GapInCount => ~SameAdvance
      /\ \A c \in Contents : UnpackItem(c) /\ GapInItem(c) => ~SameAdvance
      /\ \A kind \in Kinds, c \in Contents :
           UnpackDataset(kind, c) /\ ~raised' /\ GapInDataset(kind, c)
             => ~SameAdvance
      /\ UnpackUnknownDataset /\ ~AtLeast(version, 4, 1) => ~SameAdvance
<1>1. DecodersInv => Part
  <2> SUFFICES ASSUME DecodersInv PROVE Part
    OBVIOUS
  <2>1. /\ version \in Version /\ cpp \in Nat /\ py \in Nat
        /\ version.major \in Nat /\ version.minor \in Nat
    BY ConstantTypes DEF DecodersInv, TypeOK
  <2>2. ASSUME UnpackCount, GapInCount PROVE ~SameAdvance
    <3>1. CppHas(version, at) /\ ~PyHas(version, at)
      BY <2>2 DEF GapInCount, CppHas, PyHas, PyHasLabeledMarkers, AtLeast
    <3>2. CppDataSize(version) \in Nat
      BY DEF CppDataSize, Opt
    <3> QED BY <2>1, <2>2, <3>1, <3>2 DEF UnpackCount, Advance, SameAdvance, Opt
  <2>3. ASSUME NEW c \in Contents, UnpackItem(c), GapInItem(c)
        PROVE  ~SameAdvance
    <3>1. at \in Counted /\ CppHas(version, at) /\ c \in Content
      BY <2>3, ConstantTypes DEF UnpackItem, DecodersInv, ItemsPresent
    <3>2. CppItem(version, at, c) # Opt(PyHas(version, at), PyItem(version, at, c))
      BY <2>1, <2>3, <3>1, ItemsPart DEF GapInItem, GapInCount
    <3>3. /\ CppItem(version, at, c) \in Nat
          /\ Opt(PyHas(version, at), PyItem(version, at, c)) \in Nat
      BY <2>1, <3>1, ItemsAreNat DEF Opt
    <3> QED BY <2>1, <2>3, <3>2, <3>3 DEF UnpackItem, Advance, SameAdvance
  <2>4. ASSUME NEW kind \in Kinds, NEW c \in Contents, UnpackDataset(kind, c),
               ~raised', GapInDataset(kind, c)
        PROVE  ~SameAdvance
    <3>1. c \in Content /\ ~PyDatasetRaises(version, kind, c)
      BY <2>4, ConstantTypes DEF UnpackDataset
    <3>2. CppDataset(version, kind, c) # PyDataset(version, kind, c)
      BY <2>1, <2>4, <3>1, DatasetsPart DEF GapInDataset
    <3>3. CppDataset(version, kind, c) \in Nat /\ PyDataset(version, kind, c) \in Nat
      BY <2>1, <3>1, DatasetsAreNat
    <3> QED BY <2>1, <2>4, <3>2, <3>3 DEF UnpackDataset, Advance, SameAdvance
  <2>5. ASSUME UnpackUnknownDataset, ~AtLeast(version, 4, 1) PROVE ~SameAdvance
    <3>1. CppDatasetHeader(version) = 8 /\ PyDatasetHeader(version) = 4
      BY <2>5 DEF CppDatasetHeader, PyDatasetHeader, Opt
    <3> QED BY <2>1, <2>5, <3>1 DEF UnpackUnknownDataset, Advance, SameAdvance
  <2> QED BY <2>2, <2>3, <2>4, <2>5
<1>2. DecodersInv => [Part]_vars
  BY <1>1
<1> QED BY <1>2, DecodersInvariant, PTL DEF GapsAreReal
=============================================================================
