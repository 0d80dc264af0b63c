----------------------------- MODULE MCDecoders -----------------------------
(* Instances of Decoders for TLC. *)
EXTENDS Decoders

V(major, minor) == [major |-> major, minor |-> minor]

(* Each version at which a test of either decoder changes, and the one     *)
(* before it.                                                              *)
EveryVersion ==
  {V(0, 0), V(1, 0), V(2, 0), V(2, 1), V(2, 2), V(2, 3), V(2, 4), V(2, 5),
   V(2, 6), V(2, 7), V(2, 8), V(2, 9), V(2, 10), V(2, 11), V(3, 0), V(3, 1),
   V(4, 0), V(4, 1), V(4, 2), V(5, 0)}

Ascii    == [bytes |-> 2, chars |-> 2]
NonAscii == [bytes |-> 2, chars |-> 1]

SmallContents == [name : {Ascii, NonAscii}, n : 0..1, m : 0..1]

(* No unlabeled marker, one, and as many as make the frame long. *)
Legacy == {0, 1, 2731}
=============================================================================
