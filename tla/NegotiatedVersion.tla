-------------------------- MODULE NegotiatedVersion --------------------------
(***************************************************************************)
(* What a NatNet client promises about the bitstream version it decodes    *)
(* packets with, whatever the threads and the network do: the version is   *)
(* unset until the server announces one, it is taken from the server once, *)
(* and from then on only the user changes it, and only on a connection     *)
(* whose server offered the change.                                        *)
(*                                                                         *)
(* NatNetSession implements this specification with separate stores to the *)
(* components of the version, made by two threads; CommandChannel with an  *)
(* announcement, answers and a string that is parsed again.                *)
(***************************************************************************)
EXTENDS Integers

CONSTANTS ServerVersions,  \* the versions a server may announce
          UserVersions,    \* the versions a user may ask for
          Unset,           \* the version before any announcement
          Changeable       \* may a server offer the change at all (unicast only)

VARIABLES version,         \* the version packets are decoded with
          offered          \* the server lets the client change the version

cellVars == <<version, offered>>

Init == version = Unset /\ offered = FALSE

\* The server's first announcement is taken.
Negotiate ==
    /\ version = Unset
    /\ version' \in ServerVersions \cup UserVersions
    /\ UNCHANGED offered

\* The connection turns out to allow changes; offers are never withdrawn.
Offer ==
    /\ version # Unset
    /\ Changeable
    /\ offered' = TRUE
    /\ UNCHANGED version

\* The user picks another version.
Change ==
    /\ offered
    /\ version' \in UserVersions
    /\ UNCHANGED offered

Next == Negotiate \/ Offer \/ Change

Spec == Init /\ [][Next]_cellVars
==============================================================================
