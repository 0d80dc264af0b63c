---------------------------- MODULE FrameLayout -----------------------------
(***************************************************************************)
(* The bytes of a frame of mocap data that each decoder takes, section by  *)
(* section and version by version.                                         *)
(***************************************************************************)
EXTENDS WireFormat

(* Sections that a version's frames have, to each decoder. *)
CppHas(v, section) ==
  CASE section = "Skeletons"      -> AtLeast(v, 2, 1)
    [] section = "Assets"         -> AtLeast(v, 4, 1)
    [] section = "LabeledMarkers" -> AtLeast(v, 2, 3)
    [] section = "ForcePlates"    -> AtLeast(v, 2, 9)
    [] section = "Devices"        -> AtLeast(v, 2, 11)
    [] OTHER                      -> TRUE

(* Fault: the first version is left out. *)
PyHasForcePlatesAfter29(v) == AtLeast(v, 2, 10)
PyHasForcePlates(v) == AtLeast(v, 2, 9)

(* The comment at the test says 2.3 and later; the test is minor > 3. *)
PyHasLabeledMarkers(v) == AtLeast(v, 2, 4)

PyHas(v, section) ==
  CASE section = "Skeletons"      -> AtLeast(v, 2, 1)
    [] section = "Assets"         -> AtLeast(v, 4, 1)
    [] section = "LabeledMarkers" -> PyHasLabeledMarkers(v)
    [] section = "ForcePlates"    -> PyHasForcePlates(v)
    [] section = "Devices"        -> AtLeast(v, 2, 11)
    [] OTHER                      -> TRUE

(* The size of a section, which UnpackDataSize reads and nobody uses.      *)
CppDataSize(v) == Opt(AtLeast(v, 4, 1), 4)
PyDataSize(v)  == Opt(AtLeast(v, 4, 1), 4)

Prefix == 4
CppLegacyMarkers(v, n) == 4 + CppDataSize(v) + 12 * n
PyLegacyMarkers(v, n)  == 4 + PyDataSize(v) + 12 * n

(* A marker set: its name, its marker count and positions.  Python gives   *)
(* up a marker set of more than 10000 markers, which no frame holds.       *)
CppMarkerSet(c) == CString(c.name) + 4 + 12 * c.n
PyMarkerSet(c)  == CString(c.name) + 4 + 12 * c.n

(* Fault: version 0.0 does not stand for all fields. *)
CppRigidBodyIgnoring0(v, markers) ==
  32 + Opt(v.major < 3, 4 + Opt(v.major >= 2, 8 * markers) + 12 * markers)
     + Opt(AtLeast(v, 2, 0), 4) + Opt(AtLeast(v, 2, 6), 2)

(* Pose; before 3.0 the markers with, from 2.0, their ids and sizes; then  *)
(* the mean error and the tracking flags.                                  *)
CppRigidBody(v, markers) ==
  32 + Opt(v.major < 3, 4 + Opt(v.major >= 2, 8 * markers) + 12 * markers)
     + Opt(AtLeastOr0(v, 2, 0), 4) + Opt(AtLeastOr0(v, 2, 6), 2)

(* Fault: the tracking flags are not read. *)
PyRigidBody3WithoutFlags(markers) == 36

PyRigidBody3(markers)      == 38
PyRigidBody26(markers)     == 42 + 20 * markers
PyRigidBody20(markers)     == 40 + 20 * markers
PyRigidBodyBefore2(markers) == 36 + 12 * markers

(* The branch for major version 0 comes behind major < 2 and is dead.      *)
PyRigidBody(v, markers) ==
  IF AtLeast(v, 3, 0) THEN PyRigidBody3(markers)
  ELSE IF AtLeast(v, 2, 6) THEN PyRigidBody26(markers)
  ELSE IF AtLeast(v, 2, 0) THEN PyRigidBody20(markers)
  ELSE PyRigidBodyBefore2(markers)

(* Bones have no markers in C++; Python reads a bone as a rigid body, and  *)
(* before 3.0 takes a marker count m from the bytes that follow the pose.  *)
CppBone(v) == 32 + Opt(v.major >= 2, 4) + Opt(AtLeastOr0(v, 2, 6), 2)
CppSkeleton(v, c) == 8 + c.n * CppBone(v)
PySkeleton(v, c)  == 8 + c.n * PyRigidBody(v, c.m)

CppAssetRigidBody == 38
CppAssetMarker    == 26
CppAsset(c) == 12 + c.n * CppAssetRigidBody + c.m * CppAssetMarker
PyAssetRigidBody == 38
PyAssetMarker    == 26
PyAsset(c) == 12 + c.n * PyAssetRigidBody + c.m * PyAssetMarker

CppLabeledMarker(v) ==
  20 + Opt(AtLeastOr0(v, 2, 6), 2) + Opt(AtLeastOr0(v, 3, 0), 4)
PyLabeledMarker(v) == 20 + Opt(AtLeast(v, 2, 6), 2) + Opt(AtLeast(v, 3, 0), 4)

(* An id and n channels of m frames. *)
CppForcePlate(c) == 8 + c.n * (4 + 4 * c.m)
PyForcePlate(c)  == 8 + c.n * (4 + 4 * c.m)
CppDevice(c) == 8 + c.n * (4 + 4 * c.m)
PyDevice(c)  == 8 + c.n * (4 + 4 * c.m)

CppItem(v, section, c) ==
  CASE section = "MarkerSets"     -> CppMarkerSet(c)
    [] section = "RigidBodies"    -> CppRigidBody(v, c.n)
    [] section = "Skeletons"      -> CppSkeleton(v, c)
    [] section = "Assets"         -> CppAsset(c)
    [] section = "LabeledMarkers" -> CppLabeledMarker(v)
    [] section = "ForcePlates"    -> CppForcePlate(c)
    [] section = "Devices"        -> CppDevice(c)

PyItem(v, section, c) ==
  CASE section = "MarkerSets"     -> PyMarkerSet(c)
    [] section = "RigidBodies"    -> PyRigidBody(v, c.n)
    [] section = "Skeletons"      -> PySkeleton(v, c)
    [] section = "Assets"         -> PyAsset(c)
    [] section = "LabeledMarkers" -> PyLabeledMarker(v)
    [] section = "ForcePlates"    -> PyForcePlate(c)
    [] section = "Devices"        -> PyDevice(c)

(* The suffix up to its flags: software latency, timecode, timestamp, the  *)
(* three camera timestamps and the precision timestamp.                    *)
CppBeforeFlags(v) ==
  Opt(v.major < 3, 4) + 8 + (IF AtLeast(v, 2, 7) THEN 8 ELSE 4)
    + Opt(AtLeastOr0(v, 3, 0), 24) + Opt(AtLeastOr0(v, 4, 1), 8)

(* Flags and the end-of-data tag. *)
CppFlags   == 2
CppTrailer == 4

(* The branch for 4.1 and later comes behind major >= 3 and is dead. *)
PyBeforeFlags(v) ==
  IF AtLeast(v, 3, 0) THEN 8 + 8 + 24
  ELSE IF AtLeast(v, 2, 7) THEN 8 + 8
  ELSE 8 + 4
=============================================================================
