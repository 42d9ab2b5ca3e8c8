--------------------------- MODULE MCNetworkRoom ---------------------------
(***************************************************************************)
(* Values of NetworkRoom's constants for TLC: the scripts of the peers.    *)
(***************************************************************************)
EXTENDS NetworkRoom

Good      == { "CREDENTIALS_GOOD" }
Bad       == { "CREDENTIALS_BAD" }
JoinAcked == { "PARTICIPANT_JOIN_ACK" }
Leaving   == { "PARTICIPANT_LEAVE_ACK" }

\* One peer sends any two frames, the other logs in, rightly or not,
\* introduces itself and leaves.
AnyAndLeave == << << Frames, Frames >>, << Good \cup Bad, JoinAcked, Leaving >> >>

\* Three peers log in, the last rightly or not, and introduce themselves.
ThreeJoin == [s \in 1 .. 3 |-> << IF s = 3 THEN Good \cup Bad ELSE Good, JoinAcked >>]

\* One peer logs in, the other introduces itself to it.
OneJoins == << << Good >>, << Good, JoinAcked >> >>

\* Two peers keep to the protocol: one logs in and sends updates, as nr_client
\* does, the other introduces itself and leaves.
Orderly == << << Good, { "PARTICIPANT_UPDATE_ACK" } >>,
              << { "HANDSHAKE_HELLO_ACK" }, Good, JoinAcked, Leaving >> >>

\* A wrong login, and nothing else.
WrongLogin == [s \in 1 .. 1 |-> << Bad >>]
=============================================================================
