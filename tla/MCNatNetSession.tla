--------------------------- MODULE MCNatNetSession ---------------------------
(* Small instances of NatNetSession for TLC.                               *)
EXTENDS NatNetSession

V31 == <<3, 1>>
V42 == <<4, 2>>

OnlyV42 == {V42}
OnlyV31 == {V31}
NoUserVersions == {}
==============================================================================
