---- MODULE EventInstance ----
(***************************************************************************)
(* Event instances: a party quest played in maps that all parties share.   *)
(* EventManager and EventInstanceManager are the engine; the script of the *)
(* event decides, in one handler per occasion, who is unregistered, who is *)
(* warped out and when the instance is disposed; the NPC or portal at the  *)
(* entrance decides who may start it.                                      *)
(*                                                                         *)
(* The engine is translated here once. A script is a record of Scripts,    *)
(* chosen at start-up: how its entrance decides, and one handler record    *)
(* for each function of its file (module EventScripts has the records).    *)
(***************************************************************************)
EXTENDS Integers, FiniteSets

CONSTANTS Player,       \* the characters of one channel
          Inst,         \* objects an EventInstanceManager may occupy
          None,         \* no instance, no party
          Scripts,      \* the event scripts that may be loaded
          TeamOf,       \* [Player -> Player]: the party leader of each at first
          Overlap       \* TRUE: two entrances may be used at the same time

VARIABLES script,       \* the event that is played
          flag,         \* the property the entrance reads: "open" or "closed"
          current,      \* the instance EventManager.instances has under the name
          live,         \* live[e]: e was created and not disposed
          chars,        \* chars[e]: EventInstanceManager.chars
          timer,        \* timer[e]: the event timer is armed
          inst,         \* inst[p]: MapleCharacter.eventInstance
          at,           \* at[p]: a room of the event, "out" or "gone" (offline)
          team,         \* team[p]: leader of p's party, or None
          entry,        \* entry[p]: how far p's talk at the entrance has got
          came          \* came[p]: the run that brought p into the rooms

players == <<inst, at, team, came>>
engine  == <<flag, current, live, chars, timer>>
vars    == <<script, engine, players, entry>>

Rooms == {"hall", "annex"}
Idle    == [step |-> "idle", run |-> None, left |-> {}]
Checked == [step |-> "checked", run |-> None, left |-> {}]
Entry   == {Idle, Checked} \cup [step : {"entering"}, run : Inst, left : SUBSET Player]

\* What a handler of a script does, in this order: out is unregistered (and
\* sent outside if warp); disposeIfPlayerBelow(most, eject or stay); the flag
\* is reset if that disposed, or in any case. With orExit, playerExit runs
\* instead when the instance is not disposed.
Handler == [out : {"none", "one", "all"}, warp : BOOLEAN, most : Int,
            eject : BOOLEAN, reset : {"if", "always", "never"}, orExit : BOOLEAN]

Script == [property : {"state", "started", "other"},     \* what holds the flag
           closes : {"setup", "after", "never"},         \* who sets it, and when
           gates : SUBSET {"flag", "heads", "instance", "none"}, \* what the
                                                         \* entrances read
           counted : SUBSET Rooms,                       \* rooms they look into
           who : {"solo", "member", "leader"},           \* who may start it
           together : BOOLEAN,                           \* all members must be there
           mapped : BOOLEAN,                             \* its maps are in the data
           rooms : SUBSET Rooms,                         \* rooms the event uses
           inside : SUBSET Rooms,                        \* rooms changedMap ignores
           byMap : BOOLEAN,                              \* counts heads, not chars
           asksOut : BOOLEAN,                            \* an NPC inside lets them out
           byHand : BOOLEAN,                             \* an NPC reopens empty rooms
           answer : Int,                                 \* playerDisconnected returns
           changed : Handler, left : Handler, disband : Handler, clear : Handler,
           timeout : Handler, exit : Handler, dead : Handler, slain : Handler,
           asked : Handler]

\* changedMap takes the player out before anything else; the handlers of the
\* timer and the monsters have no player to take out.
ASSUME Typed == /\ Scripts \subseteq Script
                /\ TeamOf \in [Player -> Player]
                /\ Overlap \in BOOLEAN
                /\ None \notin Inst \cup Player
                /\ \A s \in Scripts : /\ s.changed.out = "one"
                                     /\ ~s.changed.orExit /\ ~s.exit.orExit
                                     /\ ~s.timeout.orExit /\ s.timeout.out # "one"

\* disposeIfPlayerBelow(100, ...) means everyone: an instance has a party's members.
ASSUME Few == IsFiniteSet(Player) /\ Cardinality(Player) <= 100

TypeOK == /\ script \in Scripts
          /\ flag \in {"open", "closed"}
          /\ current \in Inst \cup {None}
          /\ live \in [Inst -> BOOLEAN]
          /\ chars \in [Inst -> SUBSET Player]
          /\ timer \in [Inst -> BOOLEAN]
          /\ inst \in [Player -> Inst \cup {None}]
          /\ at \in [Player -> Rooms \cup {"out", "gone"}]
          /\ team \in [Player -> Player \cup {None}]
          /\ entry \in [Player -> Entry]
          /\ came \in [Player -> Inst \cup {None}]

Inside(p)   == at[p] \in Rooms
Free(p)     == entry[p].step = "idle"      \* p's thread is not in an entrance
Playing(p, e) == inst[p] = e /\ e # None /\ live[e]

----
(***************************************************************************)
(* The engine: one handler of the script run for instance e and player p   *)
(***************************************************************************)

Leavers(g, e, p) == CASE g.out = "none" -> {}
                      [] g.out = "one"  -> {p}
                      [] g.out = "all"  -> chars[e]

\* Whom disposeIfPlayerBelow counts and ends with: the instance's list, or, in
\* the script that has its own version, all players of the event in its maps.
Crowd(g, e, p) ==
  (IF script.byMap THEN {q \in Player : inst[q] # None /\ Inside(q)} ELSE chars[e])
    \ Leavers(g, e, p)

Ends(g, e, p) == Cardinality(Crowd(g, e, p)) <= g.most

\* The handler that takes effect: h itself, or playerExit in its else branch.
Taken(h, e, p) == IF h.orExit /\ ~Ends(h, e, p) THEN script.exit ELSE h

\* Fault: a script gives the property back only where it asks what was disposed.
ReopensIf(g, ends) == ends /\ g.reset = "if"

\* EventManager.disposeInstance gives "state" back when it was the last one.
Reopens(g, ends) == \/ g.reset = "always"
                    \/ g.reset = "if" /\ ends
                    \/ script.property = "state" /\ ends

\* Fault: a player is unregistered, its list keeps it.
RunKeeping(h, e, p) ==
  LET g    == Taken(h, e, p)
      ends == Ends(g, e, p)
      out  == Leavers(g, e, p)
  IN  /\ chars' = [chars EXCEPT ![e] = IF ends THEN {} ELSE @]
      /\ live'  = [live EXCEPT ![e] = ~ends]
      /\ inst'  = [q \in Player |-> IF \/ q \in out
                                       \/ ends /\ q \in Crowd(g, e, p) \cup chars[e]
                                    THEN None ELSE inst[q]]
      /\ current' = IF ends THEN None ELSE current
      /\ flag' = IF Reopens(g, ends) THEN "open" ELSE flag

\* Run the handler: unregister, dispose, reset. A disposed instance leaves the
\* table by its name, whatever instance the table has under it.
Run(h, e, p) ==
  LET g    == Taken(h, e, p)
      ends == Ends(g, e, p)
      out  == Leavers(g, e, p)
  IN  /\ chars' = [chars EXCEPT ![e] = IF ends THEN {} ELSE @ \ out]
      /\ live'  = [live EXCEPT ![e] = ~ends]
      /\ inst'  = [q \in Player |-> IF \/ q \in out
                                       \/ ends /\ q \in Crowd(g, e, p) \cup chars[e]
                                    THEN None ELSE inst[q]]
      /\ current' = IF ends THEN None ELSE current
      /\ flag' = IF Reopens(g, ends) THEN "open" ELSE flag

\* Fault: whoever is unregistered or ends with the instance is not warped.
WarpedNobody(h, e, p) == {}

\* Who is warped out by it.
Warped(h, e, p) ==
  LET g == Taken(h, e, p)
  IN  (IF g.warp THEN Leavers(g, e, p) ELSE {})
        \cup (IF g.eject /\ Ends(g, e, p) THEN Crowd(g, e, p) ELSE {})

\* Fault: the map a script sends players to does not exist.
MoveNowhere(out, p, m) ==
  /\ at' = [q \in Player |-> IF q = p THEN m ELSE IF q \in out THEN None ELSE at[q]]
  /\ came' = [q \in Player |-> IF at'[q] \in Rooms THEN came[q] ELSE None]

\* The players of `out` leave the rooms; everyone else stays, but p is at m.
Move(out, p, m) ==
  /\ at' = [q \in Player |-> IF q = p THEN m ELSE IF q \in out THEN "out" ELSE at[q]]
  /\ came' = [q \in Player |-> IF at'[q] \in Rooms THEN came[q] ELSE None]

\* The timer of a disposed instance does nothing.
Disarm(h, e, p) ==
  timer' = [timer EXCEPT ![e] = @ /\ ~Ends(Taken(h, e, p), e, p)]

\* The handler runs for e and p does not move by itself.
Handle(h, e, p) ==
  /\ Run(h, e, p)
  /\ Disarm(h, e, p)
  /\ Move(Warped(h, e, p), p, IF p \in Warped(h, e, p) THEN "out" ELSE at[p])

\* Fault: the last player who disconnects leaves the instance behind.
LostKept == [out |-> "one", warp |-> FALSE, most |-> -1, eject |-> FALSE,
             reset |-> "never", orExit |-> FALSE]

\* What playerDisconnected does after the script's answer, which it always takes
\* for 0: the number a script returns is an Integer and is cast to Double.
Lost == [out |-> "one", warp |-> FALSE, most |-> 0, eject |-> FALSE,
         reset |-> "never", orExit |-> FALSE]

----
(***************************************************************************)
(* The entrance: an NPC or portal checks, EventManager.startInstance calls *)
(* setup and registers the players; other players act in between           *)
(***************************************************************************)

\* Whom startInstance registers: the player, or every member of the party.
Group(l) == IF script.who = "solo" \/ team[l] = None THEN {l}
            ELSE {q \in Player : team[q] = team[l]}

\* Fault: an entrance that reads nothing.
GateWide(g) == g \in {"flag", "heads", "instance", "none"}

Gate(g) == CASE g = "flag"     -> flag = "open"
             [] g = "heads"    -> \A q \in Player : at[q] \notin script.counted
             [] g = "instance" -> current = None
             [] g = "none"     -> TRUE

Talk(l) ==
  /\ Free(l) /\ at[l] = "out"
  /\ Overlap \/ \A q \in Player : Free(q)
  /\ \E g \in script.gates : Gate(g)
  /\ script.who # "solo" => team[l] # None
  /\ script.who = "leader" => team[l] = l
  /\ script.together => \A q \in Group(l) : at[q] = "out"
  /\ entry' = [entry EXCEPT ![l] = Checked]
  /\ UNCHANGED <<script, engine, players>>

\* An object nothing refers to any more.
Unused(e) == /\ e # current
             /\ chars[e] = {} /\ ~timer[e]
             /\ \A q \in Player : inst[q] # e /\ came[q] # e /\ entry[q].run # e

\* Which of them newInstance gets makes no difference.
Fresh(e) == Unused(e) /\ e = CHOOSE x \in Inst : Unused(x)

\* Fault: setup forgets the property.
SetupOpen(l, e) ==
  /\ entry[l].step = "checked" /\ Fresh(e)
  /\ UNCHANGED flag
  /\ current' = e
  /\ live' = [live EXCEPT ![e] = TRUE]
  /\ timer' = [timer EXCEPT ![e] = script.mapped]
  /\ entry' = [entry EXCEPT ![l] = [step |-> "entering", run |-> e, left |-> Group(l)]]
  /\ UNCHANGED <<script, chars, players>>

\* setup. Without its maps it fails half-way, after newInstance and before the
\* timer, and nobody is registered.
Setup(l, e) ==
  /\ entry[l].step = "checked" /\ Fresh(e)
  /\ flag' = IF script.closes = "setup" THEN "closed" ELSE flag
  /\ current' = e
  /\ live' = [live EXCEPT ![e] = TRUE]
  /\ timer' = [timer EXCEPT ![e] = script.mapped]
  /\ entry' = [entry EXCEPT ![l] =
                 IF script.mapped THEN [step |-> "entering", run |-> e, left |-> Group(l)]
                 ELSE Idle]
  /\ UNCHANGED <<script, chars, players>>

\* Fault: registerPlayer does not look whether the instance was disposed.
RegisterLate(l, q) ==
  LET e == entry[l].run
  IN  /\ entry[l].step = "entering" /\ q \in entry[l].left
      /\ at[q] = "out"
      /\ entry' = [entry EXCEPT ![l].left = @ \ {q}]
      /\ at' = [at EXCEPT ![q] = "hall"]
      /\ came' = [came EXCEPT ![q] = e]
      /\ chars' = [chars EXCEPT ![e] = @ \cup {q}]
      /\ inst' = [inst EXCEPT ![q] = e]
      /\ UNCHANGED <<script, flag, current, live, timer, team>>

\* registerPlayer and playerEntry for the next member. A room that changedMap
\* does not know unregisters at once.
Register(l, q) ==
  LET e == entry[l].run
  IN  /\ entry[l].step = "entering" /\ q \in entry[l].left
      /\ at[q] = "out" /\ live[e]
      /\ entry' = [entry EXCEPT ![l].left = @ \ {q}]
      /\ at' = [at EXCEPT ![q] = "hall"]
      /\ came' = [came EXCEPT ![q] = e]
      /\ IF "hall" \in script.inside
         THEN /\ chars' = [chars EXCEPT ![e] = @ \cup {q}]
              /\ inst' = [inst EXCEPT ![q] = e]
         ELSE /\ inst' = [inst EXCEPT ![q] = None]
              /\ UNCHANGED chars
      /\ UNCHANGED <<script, flag, current, live, timer, team>>

\* A member getCharacterById does not find in the map of the entrance (whoever
\* talks is there), or nobody registers any more.
Skip(l, q) ==
  /\ entry[l].step = "entering" /\ q \in entry[l].left
  /\ \/ at[q] # "out"
     \/ ~live[entry[l].run]
     \/ ~script.together /\ q # l
  /\ entry' = [entry EXCEPT ![l].left = @ \ {q}]
  /\ UNCHANGED <<script, engine, players>>

\* startInstance returns; one entrance sets its property only then.
Finish(l) ==
  /\ entry[l].step = "entering" /\ entry[l].left = {}
  /\ entry' = [entry EXCEPT ![l] = Idle]
  /\ flag' = IF script.closes = "after" THEN "closed" ELSE flag
  /\ UNCHANGED <<script, current, live, chars, timer, players>>

----
(***************************************************************************)
(* Occasions                                                               *)
(***************************************************************************)

\* changeMap: changedMap runs first, then the player moves where it meant to,
\* unless that has moved it already.
Walk(p, m) ==
  LET e == inst[p]
  IN  /\ Free(p) /\ Inside(p)
      /\ m \in (script.rooms \cup {"out"}) \ {at[p]}
      /\ IF Playing(p, e) /\ m \notin script.inside
         THEN /\ Run(script.changed, e, p)
              /\ Disarm(script.changed, e, p)
              /\ Move(Warped(script.changed, e, p), p,
                      IF p \in Warped(script.changed, e, p) THEN "out" ELSE m)
         ELSE UNCHANGED <<engine, inst>> /\ Move({}, p, m)
      /\ UNCHANGED <<script, team, entry>>

\* MapleClient.disconnect; the map keeps nobody who is offline.
Disconnect(p) ==
  LET e == inst[p]
  IN  /\ Free(p) /\ at[p] # "gone"
      /\ IF Playing(p, e) THEN Run(Lost, e, p) /\ Disarm(Lost, e, p)
         ELSE /\ inst' = [inst EXCEPT ![p] = None]
              /\ UNCHANGED engine
      /\ Move({}, p, "gone")
      /\ UNCHANGED <<script, team, entry>>

\* A login: the rooms' forced return puts everyone outside.
Return(p) ==
  /\ at[p] = "gone"
  /\ Move({}, p, "out")
  /\ UNCHANGED <<script, engine, inst, team, entry>>

\* The requests of PartyHandler, and what they tell the instance.
Tell(h, p) == IF Playing(p, inst[p]) THEN Handle(h, inst[p], p)
              ELSE UNCHANGED <<engine, inst, at, came>>

Leave(p) ==
  /\ Free(p) /\ at[p] # "gone" /\ team[p] \notin {None, p}
  /\ Tell(script.left, p)
  /\ team' = [team EXCEPT ![p] = None]
  /\ UNCHANGED <<script, entry>>

Disband(p) ==
  /\ Free(p) /\ at[p] # "gone" /\ team[p] = p
  /\ Tell(script.disband, p)
  /\ team' = [q \in Player |-> IF team[q] = p THEN None ELSE team[q]]
  /\ UNCHANGED <<script, entry>>

\* Expelling a member who is online ends the leader's instance.
Expel(p, q) ==
  /\ Free(p) /\ at[p] # "gone" /\ team[p] = p /\ team[q] = p /\ q # p
  /\ IF at[q] # "gone" THEN Tell(script.disband, p)
     ELSE UNCHANGED <<engine, inst, at, came>>
  /\ team' = [team EXCEPT ![q] = None]
  /\ UNCHANGED <<script, entry>>

\* A player founds a party, or joins one.
Join(p, l) ==
  /\ Free(p) /\ at[p] # "gone" /\ team[p] = None
  /\ l = p \/ team[l] = l
  /\ team' = [team EXCEPT ![p] = l]
  /\ UNCHANGED <<script, engine, inst, at, came, entry>>

\* The NPC inside lets the leader's party out, or one player.
AskOut(p) ==
  /\ script.asksOut /\ Free(p) /\ Inside(p)
  /\ Playing(p, inst[p])
  /\ Handle(IF team[p] = p THEN script.asked ELSE script.left, inst[p], p)
  /\ UNCHANGED <<script, team, entry>>

Die(p) ==
  /\ Inside(p) /\ Playing(p, inst[p])
  /\ Handle(script.dead, inst[p], p)
  /\ UNCHANGED <<script, team, entry>>

\* The last monster, or the one that was to be protected, is dead.
Slain(e, p) ==
  /\ live[e] /\ p \in chars[e]
  /\ Handle(script.slain, e, p)
  /\ UNCHANGED <<script, team, entry>>

\* An NPC calls finishPQ.
Clear(e, p) ==
  /\ live[e] /\ p \in chars[e] /\ Free(p)
  /\ Handle(script.clear, e, p)
  /\ UNCHANGED <<script, team, entry>>

Timeout(e, p) ==
  /\ timer[e]
  /\ Run(script.timeout, e, p)
  /\ timer' = [timer EXCEPT ![e] = FALSE]
  /\ Move(Warped(script.timeout, e, p), p,
          IF p \in Warped(script.timeout, e, p) THEN "out" ELSE at[p])
  /\ UNCHANGED <<script, team, entry>>

\* An NPC gives the property back when it sees nobody in the rooms.
Reset(p) ==
  /\ script.byHand /\ Free(p) /\ at[p] = "out"
  /\ \A q \in Player : ~Inside(q)
  /\ flag' = "open"
  /\ UNCHANGED <<script, current, live, chars, timer, players, entry>>

----
Init == /\ script \in Scripts
        /\ flag = "open" /\ current = None
        /\ live = [e \in Inst |-> FALSE]
        /\ chars = [e \in Inst |-> {}]
        /\ timer = [e \in Inst |-> FALSE]
        /\ inst = [p \in Player |-> None]
        /\ at = [p \in Player |-> "out"]
        /\ team = TeamOf
        /\ entry = [p \in Player |-> Idle]
        /\ came = [p \in Player |-> None]

Entrance(p) == \/ Talk(p) \/ Finish(p)
               \/ \E e \in Inst : Setup(p, e)
               \/ \E q \in Player : Register(p, q) \/ Skip(p, q)

Playful(p) == \/ \E m \in Rooms \cup {"out"} : Walk(p, m)
              \/ Disconnect(p) \/ Return(p)
              \/ AskOut(p) \/ Die(p) \/ Reset(p)

Requests(p) == \/ Leave(p) \/ Disband(p)
               \/ \E q \in Player : Expel(p, q) \/ Join(p, q)

Occasions(e) == \E p \in Player : Slain(e, p) \/ Clear(e, p) \/ Timeout(e, p)

Next == \/ \E p \in Player : Entrance(p) \/ Playful(p) \/ Requests(p)
        \/ \E e \in Inst : Occasions(e)

Spec == Init /\ [][Next]_vars

\* EventTimer fires, and a thread that is in startInstance goes on.
FairSpec ==
  /\ Spec
  /\ \A e \in Inst : WF_vars(\E p \in Player : Timeout(e, p))
  /\ \A l \in Player : WF_vars(\E e \in Inst : Setup(l, e)) /\ WF_vars(Finish(l))
                       /\ WF_vars(\E q \in Player : Register(l, q) \/ Skip(l, q))

----
(* Properties. Each says of which scripts it holds.                        *)

\* Whom the handler takes out of the instance it warps out as well.
Clears(h) == /\ h.out # "none" => h.warp
             /\ h.most > 0 => h.eject
             /\ h.reset = "always" => h.most >= 100

\* Every handler clears, changedMap knows the rooms and sees whom it ends with.
SendsOut(s) ==
  /\ s.rooms \subseteq s.inside /\ "hall" \in s.inside
  /\ s.changed.most > 0 => s.changed.eject
  /\ s.changed.reset = "always" => s.changed.most >= 100
  /\ \A h \in {s.left, s.disband, s.clear, s.timeout, s.dead, s.slain, s.asked} :
       Clears(h) /\ (h.orExit => Clears(s.exit))

\* Every entrance reads what the event closes.
Guards(s) == \/ s.gates = {"flag"} /\ s.closes # "never"
             \/ s.gates = {"instance"}

\* The property is the one disposal gives back, and the timer disposes.
Returns(s) == s.property = "state" /\ s.mapped /\ s.timeout.most >= 100

\* An instance lists exactly the players who refer to it, and none once it is
\* disposed (EventInstanceManager.chars, MapleCharacter.eventInstance).
MembersAgree == ~script.byMap => \A e \in Inst, p \in Player :
                                    p \in chars[e] <=> Playing(p, e)

\* Whoever is in the rooms of a script that sends everyone out belongs to a live
\* instance, which will end.
InsideBelongs == SendsOut(script) => \A p \in Player : Inside(p) => Playing(p, inst[p])

\* An instance that has players is the one its event manager knows by name.
KnownByName == Guards(script) /\ SendsOut(script) =>
                 \A e \in Inst : chars[e] # {} => current = e

\* Everyone in the rooms of the event came in with the same run.
OneRunInside == Guards(script) /\ SendsOut(script) =>
                  \A p, q \in Player : Inside(p) /\ Inside(q) => came[p] = came[q]

\* While the entrance is closed somebody plays or is being let in, also after a
\* disconnection, which no function of the script takes part in.
ClosedIsUsed == Returns(script) /\ "hall" \in script.inside /\ flag = "closed" =>
                  \E p \in Player : Inside(p) \/ entry[p].step # "idle"

\* An entrance that is closed opens again.
OpensAgain == (Returns(script) /\ flag = "closed") ~> (flag = "open")

\* The rooms are given to one run at a time and are empty when it is over. The
\* events whose entrance promises nothing have no room to keep.
Promised == Guards(script) /\ SendsOut(script)
Room == INSTANCE EventRoom
          WITH Holder <- Inst,
               holder <- IF Promised THEN current ELSE None,
               guests <- IF Promised THEN {p \in Player : Inside(p)} ELSE {}
KeepsTheRoom == Room!Spec
====
