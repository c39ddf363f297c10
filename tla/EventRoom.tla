---- MODULE EventRoom ----
(***************************************************************************)
(* What the entrance of an event promises: the rooms are given to one run  *)
(* at a time, nobody comes in but for that run, and when it is over the    *)
(* rooms are empty.                                                        *)
(***************************************************************************)
CONSTANTS Player, Holder, None

VARIABLES holder,     \* the run that has the rooms, or None
          guests      \* the players in them

room == <<holder, guests>>

Init == holder = None /\ guests = {}

Give(r) == /\ holder = None /\ guests = {}
           /\ holder' = r /\ UNCHANGED guests

Enter(p) == /\ holder # None /\ p \notin guests
            /\ guests' = guests \cup {p} /\ UNCHANGED holder

Go(out) == guests' = guests \ out /\ UNCHANGED holder

TakeBack == /\ holder # None
            /\ holder' = None /\ guests' = {}

Next == \/ \E r \in Holder : Give(r)
        \/ \E p \in Player : Enter(p)
        \/ \E out \in SUBSET guests : Go(out)
        \/ TakeBack

Spec == Init /\ [][Next]_room
====
