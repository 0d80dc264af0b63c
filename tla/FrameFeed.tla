------------------------------- MODULE FrameFeed -------------------------------
(***************************************************************************)
(* What the sample client promises about the frames it is handed: it may   *)
(* lose any of them, but it shows those it keeps in the order in which     *)
(* they arrived, and none of them twice.                                   *)
(*                                                                         *)
(* FramePipeline implements this specification with a bounded queue, a     *)
(* display queue and a lock that both threads give up on after 5 ms.       *)
(***************************************************************************)
EXTENDS Integers

VARIABLES accepted,   \* number of the last frame handed over
          held,       \* numbers of the frames accepted, not shown, not lost
          delivered   \* number of the last frame shown

feedVars == <<accepted, held, delivered>>

Init == accepted = 0 /\ held = {} /\ delivered = 0

Accept ==
    /\ accepted' \in Nat
    /\ accepted' > accepted
    /\ held' = held \cup {accepted'}
    /\ UNCHANGED delivered

\* Any frames may be given up, for want of room or of the lock.
Lose(lost) ==
    /\ held' = held \ lost
    /\ UNCHANGED <<accepted, delivered>>

\* Only the oldest frame held is shown.
Deliver(n) ==
    /\ n \in held
    /\ \A m \in held : n <= m
    /\ delivered' = n
    /\ held' = held \ {n}
    /\ UNCHANGED accepted

Next ==
    \/ Accept
    \/ \E lost \in SUBSET held : Lose(lost)
    \/ \E n \in held : Deliver(n)

Spec == Init /\ [][Next]_feedVars
==============================================================================
