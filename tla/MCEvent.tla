------------------------------ MODULE MCEvent ------------------------------
(* Instances of EventInstance for TLC. *)
EXTENDS EventInstance, EventScripts

CONSTANTS a, b, d

\* A party of two and a player who has a party of his own.
Teams == [p \in Player |-> IF p = d THEN d ELSE a]

\* The scripts that are played together. The others hold by the same properties
\* one by one, but their entrances ask for nothing and make too many states.
Played == Loaded \ {ZakumPQ, ElementThanatos, MV, s_4jrush, Relic, Romeo,
                    KyrinTrainingGroundC, DollHouse}

=============================================================================
