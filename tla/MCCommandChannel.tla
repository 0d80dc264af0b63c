--------------------------- MODULE MCCommandChannel ---------------------------
(* Small instances of CommandChannel for TLC.                              *)
EXTENDS CommandChannel

V31 == <<3, 1>>
V40 == <<4, 0>>
V41 == <<4, 1>>

ThreeVersions == {V31, V40, V41}
KeyVersions == {V31, V40}
\* Just above the limits of the buffer as it grows, and the longest frame of all.
FrameLengths == {49153, 59154, 65539}
TwoAndOne == [cmd |-> 2, data |-> 1]
==============================================================================
