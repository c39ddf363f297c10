---- MODULE EventScripts ----
(***************************************************************************)
(* The scripts of the events that EventInstance plays: for each file of    *)
(* data/scripts/event one record with what its functions do, and for each  *)
(* NPC or portal that starts it what it checks. What happens inside the    *)
(* rooms (stages, monsters, rewards) is left out.                          *)
(***************************************************************************)
EXTENDS Integers

\* The bodies a handler of these scripts may have.
Nothing       == [out |-> "none", warp |-> FALSE, most |-> -1, eject |-> FALSE,
                  reset |-> "never", orExit |-> FALSE]
EndAll(r)     == [Nothing EXCEPT !.most = 100, !.eject = TRUE, !.reset = r]
Unregister(r) == [Nothing EXCEPT !.out = "one", !.most = 0, !.reset = r]
SendOut       == [Nothing EXCEPT !.out = "one", !.warp = TRUE]
EndOrExit(n, r) == [Nothing EXCEPT !.most = n, !.eject = TRUE, !.reset = r, !.orExit = TRUE]

\* What an entrance checks before it calls startInstance.
NoGate    == [gates |-> {"none"}, counted |-> {}]
FlagGate  == [gates |-> {"flag"}, counted |-> {}]
HeadsGate == [gates |-> {"heads"}, counted |-> {"hall"}]

Base == [property |-> "other", closes |-> "never", gates |-> {"none"}, counted |-> {},
         who |-> "solo", together |-> FALSE, mapped |-> TRUE, rooms |-> {"hall"},
         inside |-> {"hall"}, byMap |-> FALSE, asksOut |-> FALSE, byHand |-> FALSE,
         answer |-> 0, changed |-> Unregister("never"), left |-> SendOut,
         disband |-> EndAll("never"), clear |-> Nothing, timeout |-> EndAll("never"),
         exit |-> SendOut, dead |-> Nothing, slain |-> Nothing, asked |-> Nothing]

\* The script s entered as entrance g has it, by w.
From(s, g, w) == [s EXCEPT !.gates = g.gates, !.counted = g.counted, !.who = w]
Together(s)   == [s EXCEPT !.together = TRUE]

----
(* Entrances                                                               *)

npc_9040002 == NoGate
npc_2030008 == NoGate          \* the fire demon and the Zakum quest
npc_2041023 == NoGate          \* a party of two
s4berserk   == NoGate
s4rush      == NoGate
s4nest_in   == HeadsGate
npc_1090000 == NoGate
s4resurrection_in == FlagGate
s4resur_enter     == FlagGate
npc_1061012 == FlagGate
npc_9310006 == FlagGate
npc_9310039 == FlagGate
npc_2120002 == FlagGate
npc_2040034 == FlagGate        \* LPQOpen, set when startInstance has returned
npc_1012112 == FlagGate
npc_2030006_1 == FlagGate
npc_2013000 == FlagGate
npc_2112004 == NoGate
npc_2112003 == NoGate
npc_2094000 == FlagGate
npc_2133000 == HeadsGate
npc_9220018 == NoGate
npc_2020008 == FlagGate
npc_9020000 == HeadsGate       \* it looks into 800 to 804, not into 805
npc_2030006_2 == FlagGate
npc_2030006_4 == [gates |-> {"instance"}, counted |-> {}]
npc_9310057   == npc_2030006_4
npc_2040002 == NoGate          \* it reads noEntry, which nothing sets

----
(* No property: an instance ends when its last player has gone, or late    *)

Relic           == From(Base, npc_9040002, "solo")
FireDemon       == From(Base, npc_2030008, "solo")
ElementThanatos == From(Base, npc_2041023, "member")
s_4jberserk     == From(Base, s4berserk, "solo")
s_4jrush        == From(Base, s4rush, "leader")
s4nest          == From(Base, s4nest_in, "solo")

----
(* The property "started": set by setup, given back by the script alone    *)

Started == [Base EXCEPT !.property = "started", !.closes = "setup",
              !.changed = Unregister("if"), !.disband = EndAll("always"),
              !.timeout = EndAll("always")]

KyrinTrainingGroundC == From(Started, npc_1090000, "solo")
KyrinTrainingGroundV == From(Started, npc_1090000, "solo")
s4resurrection  == From(Started, s4resurrection_in, "solo")
s4resurrection2 == From(Started, s4resur_enter, "solo")
s4aWorld        == From(Started, npc_1061012, "member")

\* Counts the players of the event in its maps instead of the instance's list.
ZakumPQ == From([Started EXCEPT !.byMap = TRUE, !.asksOut = TRUE,
                   !.disband = EndAll("if"), !.clear = EndAll("if"),
                   !.timeout = EndAll("if"), !.asked = EndAll("if"),
                   !.left = [SendOut EXCEPT !.most = 0, !.reset = "if"],
                   !.exit = [SendOut EXCEPT !.most = 0, !.reset = "if"],
                   !.answer = -4], npc_2030008, "leader")

----
(* The property "state"; who leaves the party is sent out                  *)

Stated == [Started EXCEPT !.property = "state", !.left = EndOrExit(1, "if")]

WuGongPQ == From([Stated EXCEPT !.answer = -3], npc_9310006, "leader")
shaoling == From([Stated EXCEPT !.dead = EndAll("always")], npc_9310039, "leader")
QiajiPQ  == From([Stated EXCEPT !.dead = EndAll("always"), !.mapped = FALSE],
                 npc_2120002, "leader")
LudiPQ   == From([Stated EXCEPT !.property = "other", !.closes = "after",
                    !.left = EndOrExit(6, "never"), !.changed = Unregister("never"),
                    !.disband = EndAll("never"), !.timeout = EndAll("never"),
                    !.asksOut = TRUE, !.asked = EndAll("always"), !.byHand = TRUE,
                    !.answer = -3], npc_2040034, "leader")

----
(* The property "state"; who leaves the party is unregistered and stays    *)

Kept == [Stated EXCEPT !.exit = Unregister("if"), !.left = EndAll("always")]

HenesysPQ == From([Kept EXCEPT !.left = EndOrExit(2, "always"),
                     !.slain = EndAll("always")],
                  [gates |-> npc_1012112.gates \cup npc_2030006_1.gates, counted |-> {}],
                  "leader")
OrbisPQ   == From(Kept, npc_2013000, "leader")
Romeo     == Together(From(Kept, npc_2112004, "leader"))
Juliet    == Together(From([Kept EXCEPT !.left = EndOrExit(3, "always")],
                           npc_2112003, "leader"))
Pirate    == From(Kept, npc_2094000, "leader")
Ellin     == Together(From([Kept EXCEPT !.left = EndOrExit(3, "always")],
                           npc_2133000, "leader"))
MV        == Together(From([Kept EXCEPT !.left = EndOrExit(0, "always")],
                           npc_9220018, "leader"))
ProtectTylus == From([Kept EXCEPT !.left = Nothing, !.disband = Nothing,
                        !.slain = EndAll("always")], npc_2020008, "member")

----
(* The rest                                                                *)

\* Two rooms, the second of which one entrance forgets; the timer sends the
\* players out and leaves the instance.
KerningPQ == From([Stated EXCEPT !.rooms = {"hall", "annex"}, !.inside = {"hall", "annex"},
                     !.left = EndOrExit(3, "never"), !.answer = -2,
                     !.timeout = [Nothing EXCEPT !.out = "all", !.warp = TRUE]],
                  [gates |-> npc_9020000.gates \cup npc_2030006_2.gates,
                   counted |-> npc_9020000.counted], "leader")

\* One instance for each of three texts; one text is played.
English == Together(From([Base EXCEPT
                            !.changed = [Unregister("never") EXCEPT !.most = 2, !.eject = TRUE],
                            !.exit = [SendOut EXCEPT !.most = 2, !.eject = TRUE],
                            !.left = EndOrExit(2, "never"), !.answer = -2],
                         npc_2030006_4, "leader"))

\* Its changedMap ignores the rooms of another event and not its own.
DollHouse == From([Stated EXCEPT !.inside = {}, !.changed = SendOut,
                     !.exit = EndAll("always"), !.left = Nothing, !.disband = Nothing],
                  npc_2040002, "solo")

Loaded == {Relic, FireDemon, ElementThanatos, s_4jberserk, s_4jrush, s4nest,
           KyrinTrainingGroundC, KyrinTrainingGroundV, s4resurrection, s4resurrection2,
           s4aWorld, ZakumPQ, WuGongPQ, shaoling, QiajiPQ, LudiPQ, HenesysPQ, OrbisPQ,
           Romeo, Juliet, Pirate, Ellin, MV, ProtectTylus, KerningPQ, English, DollHouse}
====
