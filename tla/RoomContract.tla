---------------------------- MODULE RoomContract ----------------------------
(***************************************************************************)
(* What the network room promises, whatever handlers, sockets and threads  *)
(* keep the promise: a participant enters only with a login that was       *)
(* accepted and only while there is room; it enters once, and when it has  *)
(* left, or was turned away after its id was drawn, it never comes back.   *)
(***************************************************************************)
EXTENDS Naturals, FiniteSets

CONSTANTS Participants, RoomSizes

VARIABLES room, left, known, capacity
vars == << room, left, known, capacity >>

Init == /\ room = {} /\ left = {} /\ known = {}
        /\ capacity \in RoomSizes

\* A login is accepted; the participant need not be admitted.
Login(p) == /\ known' = known \cup {p}
            /\ UNCHANGED << room, left, capacity >>

Enter(p) == /\ p \notin room \cup left
            /\ Cardinality(room) < capacity
            /\ known' \in { known, known \cup {p} }
            /\ p \in known'
            /\ room' = room \cup {p}
            /\ UNCHANGED << left, capacity >>

TurnAway(p) == /\ p \notin room
               /\ known' \in { known, known \cup {p} }
               /\ left' = left \cup {p}
               /\ UNCHANGED << room, capacity >>

Leave(p) == /\ p \in room
            /\ room' = room \ {p}
            /\ left' = left \cup {p}
            /\ UNCHANGED << known, capacity >>

Resize(n) == /\ capacity' = n
             /\ UNCHANGED << room, left, known >>

Next == \/ \E p \in Participants : Login(p) \/ Enter(p) \/ TurnAway(p) \/ Leave(p)
        \/ \E n \in RoomSizes : Resize(n)

Spec == Init /\ [][Next]_vars
=============================================================================
