------------------------- MODULE DescriptionLayout --------------------------
(***************************************************************************)
(* The bytes of a data description (one dataset of a NAT_MODELDEF) that    *)
(* each decoder takes.  All names of one description have the same length. *)
(***************************************************************************)
EXTENDS WireFormat

(* The type of a dataset and its size; C++ reads the size in every version.*)
CppDatasetHeader(v) == 4 + 4
PyDatasetHeader(v)  == 4 + Opt(AtLeast(v, 4, 1), 4)

CppMarkerSetDesc(c) == CString(c.name) + 4 + c.n * CString(c.name)
PyMarkerSetDesc(c)  == CString(c.name) + 4 + c.n * CString(c.name)

(* Id, parent id and offset. *)
Joint == 20

(* Name; joint; rotation; and the markers' positions, labels and names.    *)
CppRigidBodyDesc(v, c) ==
  Opt(AtLeastOr0(v, 2, 0), CString(c.name)) + Joint + Opt(AtLeastOr0(v, 4, 2), 16)
    + Opt(AtLeastOr0(v, 3, 0),
          4 + 16 * c.n + Opt(AtLeastOr0(v, 4, 0), c.n * CString(c.name)))

(* Python decodes a marker's name from UTF-8 and steps over as many bytes  *)
(* as the name has characters.                                             *)
PyMarkerNames(c) == c.n * (c.name.chars + 1)

PyRigidBodyDesc42(c)    == CString(c.name) + Joint + 16 + 4 + 16 * c.n + PyMarkerNames(c)
PyRigidBodyDesc40(c)    == CString(c.name) + Joint + 4 + 16 * c.n + PyMarkerNames(c)
PyRigidBodyDesc3(c)     == CString(c.name) + Joint + 4 + 16 * c.n
PyRigidBodyDesc2(c)     == CString(c.name) + Joint
PyRigidBodyDesc1(c)     == Joint
PyRigidBodyDesc0(c)     == PyRigidBodyDesc42(c)

PyRigidBodyDesc(v, c) ==
  CASE v.major = 0                 -> PyRigidBodyDesc0(c)
    [] v.major = 1                 -> PyRigidBodyDesc1(c)
    [] v.major = 2                 -> PyRigidBodyDesc2(c)
    [] v.major = 3                 -> PyRigidBodyDesc3(c)
    [] v.major = 4 /\ v.minor < 2  -> PyRigidBodyDesc40(c)
    [] v.major = 4 /\ v.minor >= 2 -> PyRigidBodyDesc42(c)
    [] OTHER                       -> 0

(* No branch of the dispatch takes major 5: its result is read unbound.    *)
PyRigidBodyDescRaises(v) == v.major > 4

CppSkeletonDesc(v, c) == CString(c.name) + 8 + c.n * CppRigidBodyDesc(v, [c EXCEPT !.n = c.m])
PySkeletonDesc(v, c)  == CString(c.name) + 8 + c.n * PyRigidBodyDesc(v, [c EXCEPT !.n = c.m])

(* Id, serial number, width, length and origin, the 12 x 12 calibration    *)
(* matrix, the corners, the types, and the channels' names.                *)
ForcePlateDesc(c) ==
  4 + CString(c.name) + 20 + 4 * 144 + 4 * 12 + 8 + 4 + c.n * CString(c.name)
CppForcePlateDesc(v, c) == Opt(AtLeastOr0(v, 3, 0), ForcePlateDesc(c))
PyForcePlateDesc(v, c)  == Opt(AtLeast(v, 3, 0), ForcePlateDesc(c))

(* Id, name and serial number, the types, and the channels' names. *)
DeviceDesc(c) == 4 + 2 * CString(c.name) + 8 + 4 + c.n * CString(c.name)
CppDeviceDesc(v, c) == Opt(AtLeastOr0(v, 3, 0), DeviceDesc(c))
PyDeviceDesc(v, c)  == Opt(AtLeast(v, 3, 0), DeviceDesc(c))

CppCameraDesc(c) == CString(c.name) + 12 + 16
PyCameraDesc(c)  == CString(c.name) + 12 + 16

CppMarkerDesc(c) == CString(c.name) + 22
PyMarkerDesc(c)  == CString(c.name) + 22

(* An asset of n rigid bodies, each of m markers, and m markers of its own.*)
CppAssetDesc(v, c) ==
  CString(c.name) + 12 + c.n * CppRigidBodyDesc(v, [c EXCEPT !.n = c.m])
    + 4 + c.m * CppMarkerDesc(c)
PyAssetDesc(v, c) ==
  CString(c.name) + 12 + c.n * PyRigidBodyDesc(v, [c EXCEPT !.n = c.m])
    + 4 + c.m * PyMarkerDesc(c)

CppDataset(v, kind, c) == CppDatasetHeader(v) +
  CASE kind = "MarkerSet"  -> CppMarkerSetDesc(c)
    [] kind = "RigidBody"  -> CppRigidBodyDesc(v, c)
    [] kind = "Skeleton"   -> CppSkeletonDesc(v, c)
    [] kind = "ForcePlate" -> CppForcePlateDesc(v, c)
    [] kind = "Device"     -> CppDeviceDesc(v, c)
    [] kind = "Camera"     -> CppCameraDesc(c)
    [] kind = "Asset"      -> CppAssetDesc(v, c)

PyDataset(v, kind, c) == PyDatasetHeader(v) +
  CASE kind = "MarkerSet"  -> PyMarkerSetDesc(c)
    [] kind = "RigidBody"  -> PyRigidBodyDesc(v, c)
    [] kind = "Skeleton"   -> PySkeletonDesc(v, c)
    [] kind = "ForcePlate" -> PyForcePlateDesc(v, c)
    [] kind = "Device"     -> PyDeviceDesc(v, c)
    [] kind = "Camera"     -> PyCameraDesc(c)
    [] kind = "Asset"      -> PyAssetDesc(v, c)

(* The rigid bodies that Python's decoding of the dataset comes to. *)
PyDatasetRaises(v, kind, c) ==
  /\ PyRigidBodyDescRaises(v)
  /\ \/ kind = "RigidBody"
     \/ kind \in {"Skeleton", "Asset"} /\ c.n > 0
=============================================================================
