---- MODULE EventProofs ----
(***************************************************************************)
(* Theorems about event instances, for every set of scripts, players and   *)
(* instances: types; the lists agree with the players' references; whoever *)
(* is in the rooms of a script that sends everyone out belongs to a live   *)
(* instance. Module EventRoomProofs goes on from here.                     *)
(***************************************************************************)
EXTENDS EventInstance, EventScripts, FiniteSetTheorems, TLAPS

USE DEF Rooms, Idle, Checked, Entry, players, engine, vars

LEMMA HandlerTypes ==
  ASSUME TypeOK, NEW h \in Handler, NEW e, NEW p
  PROVE  Taken(h, e, p) \in Handler
BY Typed DEF TypeOK, Script, Taken

\* Running a handler keeps the types of what it changes.
LEMMA RunTypes ==
  ASSUME TypeOK, NEW h \in Handler, NEW e \in Inst, NEW p \in Player, Run(h, e, p)
  PROVE  /\ chars' \in [Inst -> SUBSET Player]
         /\ live' \in [Inst -> BOOLEAN]
         /\ inst' \in [Player -> Inst \cup {None}]
         /\ current' \in Inst \cup {None}
         /\ flag' \in {"open", "closed"}
<1> DEFINE g == Taken(h, e, p)  ends == Ends(g, e, p)  out == Leavers(g, e, p)
<1>1. ends \in BOOLEAN
  BY DEF Ends
<1> HIDE DEF g, ends, out
<1>2. /\ chars' = [chars EXCEPT ![e] = IF ends THEN {} ELSE @ \ out]
      /\ live'  = [live EXCEPT ![e] = ~ends]
      /\ inst'  = [q \in Player |-> IF \/ q \in out
                                       \/ ends /\ q \in Crowd(g, e, p) \cup chars[e]
                                    THEN None ELSE inst[q]]
      /\ current' = IF ends THEN None ELSE current
      /\ flag' = IF Reopens(g, ends) THEN "open" ELSE flag
  BY DEF Run, g, ends, out
<1>3. chars' \in [Inst -> SUBSET Player]
  BY <1>2 DEF TypeOK
<1>4. live' \in [Inst -> BOOLEAN]
  BY <1>1, <1>2, Zenon DEF TypeOK
<1>5. inst' \in [Player -> Inst \cup {None}]
  BY <1>2 DEF TypeOK
<1> QED
  BY <1>2, <1>3, <1>4, <1>5 DEF TypeOK

LEMMA MoveTypes ==
  ASSUME TypeOK, NEW out, NEW p, NEW m \in Rooms \cup {"out", "gone"}, Move(out, p, m)
  PROVE  /\ at' \in [Player -> Rooms \cup {"out", "gone"}]
         /\ came' \in [Player -> Inst \cup {None}]
BY DEF TypeOK, Move

LEMMA DisarmTypes ==
  ASSUME TypeOK, NEW h, NEW e, NEW p, Disarm(h, e, p)
  PROVE  timer' \in [Inst -> BOOLEAN]
<1> DEFINE b == timer[e] /\ ~Ends(Taken(h, e, p), e, p)
<1>1. timer' = [timer EXCEPT ![e] = b]
  BY DEF Disarm, TypeOK
<1>2. b \in BOOLEAN
  OBVIOUS
<1> QED
  BY <1>1, <1>2, Zenon DEF TypeOK

LEMMA HandleTypes ==
  ASSUME TypeOK, NEW h \in Handler, NEW e \in Inst, NEW p \in Player, Handle(h, e, p),
         UNCHANGED <<script, entry>>, team' \in [Player -> Player \cup {None}]
  PROVE  TypeOK'
<1>1. at[p] \in Rooms \cup {"out", "gone"}
  BY DEF TypeOK
<1>2. (IF p \in Warped(h, e, p) THEN "out" ELSE at[p]) \in Rooms \cup {"out", "gone"}
  BY <1>1
<1> QED
  BY <1>2, RunTypes, MoveTypes, DisarmTypes DEF Handle, TypeOK

LEMMA ScriptHandlers ==
  ASSUME TypeOK
  PROVE  /\ script \in Script
         /\ {script.changed, script.left, script.disband, script.clear, script.timeout,
             script.exit, script.dead, script.slain, script.asked} \subseteq Handler
         /\ Lost \in Handler
         /\ script.rooms \subseteq Rooms /\ script.inside \subseteq Rooms
BY Typed DEF TypeOK, Script, Handler, Lost

LEMMA TypesKept == TypeOK /\ [Next]_vars => TypeOK'
<1> SUFFICES ASSUME TypeOK, [Next]_vars PROVE TypeOK'
  OBVIOUS
<1> USE ScriptHandlers
<1>1. ASSUME NEW l \in Player, Talk(l) PROVE TypeOK'
  BY <1>1 DEF Talk, TypeOK
<1>2. ASSUME NEW l \in Player, NEW e \in Inst, Setup(l, e) PROVE TypeOK'
  <2>1. Group(l) \subseteq Player
    BY DEF Group
  <2>2. script.mapped \in BOOLEAN
    BY DEF Script
  <2>3. entry' \in [Player -> Entry]
    BY <1>2, <2>1 DEF Setup, TypeOK
  <2>4. timer' \in [Inst -> BOOLEAN]
    BY <1>2, <2>2, Zenon DEF Setup, TypeOK
  <2> QED
    BY <1>2, <2>3, <2>4 DEF Setup, TypeOK
<1>3. ASSUME NEW l \in Player, NEW q \in Player, Register(l, q) PROVE TypeOK'
  <2>1. entry[l].run \in Inst
    BY <1>3 DEF Register, TypeOK
  <2>2. entry' \in [Player -> Entry]
    <3>1. entry[l] \in [step : {"entering"}, run : Inst, left : SUBSET Player]
      BY <1>3 DEF Register, TypeOK
    <3>2. [entry[l] EXCEPT !.left = @ \ {q}]
            \in [step : {"entering"}, run : Inst, left : SUBSET Player]
      BY <3>1
    <3>3. entry' = [entry EXCEPT ![l] = [entry[l] EXCEPT !.left = @ \ {q}]]
      BY <1>3 DEF Register, TypeOK
    <3> QED
      BY <3>2, <3>3 DEF TypeOK
  <2>3. /\ chars' \in [Inst -> SUBSET Player]
        /\ inst' \in [Player -> Inst \cup {None}]
    BY <1>3, <2>1 DEF Register, TypeOK
  <2>4. /\ at' \in [Player -> Rooms \cup {"out", "gone"}]
        /\ came' \in [Player -> Inst \cup {None}]
    BY <1>3, <2>1 DEF Register, TypeOK
  <2> QED
    BY <1>3, <2>2, <2>3, <2>4 DEF Register, TypeOK
<1>4. ASSUME NEW l \in Player, NEW q \in Player, Skip(l, q) PROVE TypeOK'
  BY <1>4 DEF Skip, TypeOK
<1>5. ASSUME NEW l \in Player, Finish(l) PROVE TypeOK'
  BY <1>5 DEF Finish, TypeOK
<1>6. ASSUME NEW p \in Player, NEW m \in Rooms \cup {"out"}, Walk(p, m) PROVE TypeOK'
  <2>1. CASE Playing(p, inst[p]) /\ m \notin script.inside
    BY <1>6, <2>1, RunTypes, MoveTypes, DisarmTypes DEF Walk, TypeOK, Playing
  <2>2. CASE ~(Playing(p, inst[p]) /\ m \notin script.inside)
    BY <1>6, <2>2, MoveTypes DEF Walk, TypeOK
  <2> QED
    BY <2>1, <2>2
<1>7. ASSUME NEW p \in Player, Disconnect(p) PROVE TypeOK'
  <2>1. CASE Playing(p, inst[p])
    BY <1>7, <2>1, RunTypes, MoveTypes, DisarmTypes DEF Disconnect, TypeOK, Playing
  <2>2. CASE ~Playing(p, inst[p])
    BY <1>7, <2>2, MoveTypes DEF Disconnect, TypeOK
  <2> QED
    BY <2>1, <2>2
<1>8. ASSUME NEW p \in Player, Return(p) PROVE TypeOK'
  BY <1>8, MoveTypes DEF Return, TypeOK
<1>9. ASSUME NEW p \in Player, NEW h \in Handler, Tell(h, p), UNCHANGED <<script, entry>>,
             team' \in [Player -> Player \cup {None}]
      PROVE  TypeOK'
  <2>1. CASE Playing(p, inst[p])
    BY <1>9, <2>1, HandleTypes DEF Tell, TypeOK, Playing
  <2>2. CASE ~Playing(p, inst[p])
    BY <1>9, <2>2 DEF Tell, TypeOK
  <2> QED
    BY <2>1, <2>2
<1>10. ASSUME NEW p \in Player, Leave(p) \/ Disband(p) PROVE TypeOK'
  BY <1>9, <1>10 DEF Leave, Disband, TypeOK
<1>11. ASSUME NEW p \in Player, NEW q \in Player, Expel(p, q) PROVE TypeOK'
  <2>1. CASE at[q] # "gone"
    BY <1>9, <1>11, <2>1 DEF Expel, TypeOK
  <2>2. CASE at[q] = "gone"
    BY <1>11, <2>2 DEF Expel, TypeOK
  <2> QED
    BY <2>1, <2>2
<1>12. ASSUME NEW p \in Player, NEW l \in Player, Join(p, l) PROVE TypeOK'
  BY <1>12 DEF Join, TypeOK
<1>13. ASSUME NEW p \in Player, AskOut(p) \/ Die(p) PROVE TypeOK'
  BY <1>13, HandleTypes DEF AskOut, Die, TypeOK, Playing
<1>14. ASSUME NEW e \in Inst, NEW p \in Player, Slain(e, p) \/ Clear(e, p) PROVE TypeOK'
  BY <1>14, HandleTypes DEF Slain, Clear, TypeOK
<1>15. ASSUME NEW e \in Inst, NEW p \in Player, Timeout(e, p) PROVE TypeOK'
  <2>1. (IF p \in Warped(script.timeout, e, p) THEN "out" ELSE at[p])
          \in Rooms \cup {"out", "gone"}
    BY DEF TypeOK
  <2> QED
    BY <1>15, <2>1, RunTypes, MoveTypes DEF Timeout, TypeOK
<1>16. ASSUME NEW p \in Player, Reset(p) PROVE TypeOK'
  BY <1>16 DEF Reset, TypeOK
<1>17. CASE UNCHANGED vars
  BY <1>17 DEF TypeOK
<1> QED
  BY <1>1, <1>2, <1>3, <1>4, <1>5, <1>6, <1>7, <1>8, <1>10, <1>11, <1>12, <1>13, <1>14,
     <1>15, <1>16, <1>17
  DEF Next, Entrance, Playful, Requests, Occasions

LEMMA TypesAtFirst == Init => TypeOK
BY Typed DEF Init, TypeOK

\* Whatever the scripts are, every variable keeps its type.
THEOREM EventTypes == Spec => []TypeOK
BY TypesAtFirst, TypesKept, PTL DEF Spec

----
(* The lists and the references *)

\* The lists agree with the references; who is outside plays nowhere, and only
\* live instances have a timer: what registerPlayer and scheduledTimeout rely on
\* without asking.
Agree        == \A e \in Inst, p \in Player : p \in chars[e] <=> Playing(p, e)
OutMeansFree == \A p \in Player : ~Inside(p) => ~Playing(p, inst[p])
TimerIsLive  == \A e \in Inst : timer[e] => live[e]
Agreement    == ~script.byMap => Agree /\ OutMeansFree

Listed == TypeOK /\ TimerIsLive /\ Agreement

\* A handler that runs for a live instance keeps lists and references together,
\* and whoever it warps out refers to nothing any more.
LEMMA RunAgrees ==
  ASSUME TypeOK, Agree, ~script.byMap, NEW h \in Handler, NEW e \in Inst, live[e],
         NEW p \in Player, Run(h, e, p), Taken(h, e, p).out = "one" => inst[p] = e
  PROVE  /\ \A q \in Player : inst'[q] \in {None, inst[q]}
         /\ \A q \in Player : q \in Warped(h, e, p) => inst'[q] = None
         /\ Taken(h, e, p).out = "one" => inst'[p] = None
         /\ \A x \in Inst : live'[x] => live[x]
         /\ Agree'
<1> DEFINE g == Taken(h, e, p)  ends == Ends(g, e, p)  out == Leavers(g, e, p)
           crowd == Crowd(g, e, p)
<1>1. ends \in BOOLEAN /\ g \in Handler
  BY HandlerTypes DEF Ends
<1>2. crowd = chars[e] \ out
  BY DEF Crowd
<1>3. /\ out \in {{}, {p}, chars[e]}
      /\ g.out = "one" => out = {p}
      /\ out = {p} => g.out = "one" \/ chars[e] = {p}
  BY <1>1 DEF Leavers, Handler
<1> HIDE DEF g, ends, out
<1>4. /\ chars' = [chars EXCEPT ![e] = IF ends THEN {} ELSE @ \ out]
      /\ live'  = [live EXCEPT ![e] = ~ends]
      /\ inst'  = [q \in Player |-> IF \/ q \in out
                                       \/ ends /\ q \in Crowd(g, e, p) \cup chars[e]
                                    THEN None ELSE inst[q]]
  BY DEF Run, g, ends, out
<1>5. Warped(h, e, p) \subseteq out \cup (IF ends THEN crowd ELSE {})
  BY DEF Warped, g, ends, out, crowd
<1>6. g.out = "one" => inst[p] = e
  BY DEF g
<1>7. \A q \in Player : q \in out => inst[q] = e
  BY <1>3, <1>6, Typed DEF Agree, Playing, TypeOK
<1>8. \A q \in Player : inst'[q] \in {None, inst[q]}
  BY <1>4
<1>9. \A q \in Player : q \in Warped(h, e, p) => inst'[q] = None
  BY <1>1, <1>4, <1>5
<1>10. g.out = "one" => inst'[p] = None
  BY <1>1, <1>3, <1>4
<1>11. \A x \in Inst : live'[x] => live[x]
  BY <1>4 DEF TypeOK
<1>12. ASSUME NEW x \in Inst, NEW q \in Player PROVE (q \in chars[x] <=> Playing(q, x))'
  <2>1. CASE x # e
    <3>1. chars'[x] = chars[x] /\ live'[x] = live[x]
      BY <1>4, <2>1 DEF TypeOK
    <3>2. inst'[q] = x <=> inst[q] = x
      <4>1. q \in chars[e] => inst[q] = e
        BY DEF Agree, Playing
      <4>2. q \in out => inst[q] = e
        BY <1>7
      <4>3. q \in crowd => inst[q] = e
        BY <1>2, <4>1
      <4>4. x # None
        BY Typed
      <4> QED
        BY <1>4, <2>1, <4>1, <4>2, <4>3, <4>4
    <3> QED
      BY <3>1, <3>2 DEF Agree, Playing
  <2>2. CASE x = e /\ ends
    BY <1>4, <2>2 DEF Agree, Playing, TypeOK
  <2>3. CASE x = e /\ ~ends
    <3>1. chars'[x] = chars[x] \ out /\ live'[x]
      BY <1>1, <1>4, <2>3 DEF TypeOK
    <3>2. inst'[q] = IF q \in out THEN None ELSE inst[q]
      BY <1>1, <1>4, <2>3
    <3> QED
      BY <2>3, <3>1, <3>2, Typed DEF Agree, Playing
  <2> QED
    BY <1>1, <2>1, <2>2, <2>3
<1>13. Agree'
  BY <1>12 DEF Agree
<1> QED
  BY <1>8, <1>9, <1>10, <1>11, <1>13 DEF g

\* Whoever is outside after a handler was outside before it, was warped out by
\* it, or is p, whom it has then unregistered.
LEMMA MoveAgrees ==
  ASSUME TypeOK, OutMeansFree, NEW out \in SUBSET Player, NEW p \in Player, NEW m,
         Move(out, p, m),
         \A q \in Player : inst'[q] \in {None, inst[q]},
         \A q \in Player : q \in out => inst'[q] = None,
         \A x \in Inst : live'[x] => live[x],
         m \notin Rooms => ~Inside(p) \/ inst'[p] = None
  PROVE  OutMeansFree'
<1> SUFFICES ASSUME NEW q \in Player, (~Inside(q))', Playing(q, inst[q])' PROVE FALSE
  BY DEF OutMeansFree
<1>1. inst'[q] # None /\ inst'[q] = inst[q] /\ inst[q] \in Inst
  BY DEF Playing, TypeOK
<1>2. Playing(q, inst[q])
  BY <1>1 DEF Playing
<1>3. Inside(q)
  BY <1>2 DEF OutMeansFree
<1>4. at'[q] \notin Rooms
  BY DEF Inside
<1>5. at'[q] = IF q = p THEN m ELSE IF q \in out THEN "out" ELSE at[q]
  BY DEF Move
<1> QED
  BY <1>1, <1>3, <1>4, <1>5 DEF Inside

LEMMA WarpedPlayers ==
  ASSUME TypeOK, NEW h \in Handler, NEW e \in Inst, NEW p \in Player
  PROVE  Warped(h, e, p) \subseteq Player
<1>1. Leavers(Taken(h, e, p), e, p) \subseteq Player
  BY HandlerTypes DEF Leavers, TypeOK, Handler
<1>2. Crowd(Taken(h, e, p), e, p) \subseteq Player
  BY DEF Crowd, TypeOK
<1> QED
  BY <1>1, <1>2 DEF Warped

LEMMA HandleAgrees ==
  ASSUME Listed, ~script.byMap, NEW h \in Handler, NEW e \in Inst, live[e], NEW p \in Player,
         Taken(h, e, p).out = "one" => inst[p] = e, Run(h, e, p),
         Move(Warped(h, e, p), p, IF p \in Warped(h, e, p) THEN "out" ELSE at[p])
  PROVE  Agree' /\ OutMeansFree'
<1>1. TypeOK /\ Agree /\ OutMeansFree
  BY DEF Listed, Agreement
<1>2. /\ \A q \in Player : inst'[q] \in {None, inst[q]}
      /\ \A q \in Player : q \in Warped(h, e, p) => inst'[q] = None
      /\ \A x \in Inst : live'[x] => live[x]
      /\ Agree'
  BY <1>1, RunAgrees
<1>3. Warped(h, e, p) \in SUBSET Player
  BY <1>1, WarpedPlayers
<1> DEFINE m == IF p \in Warped(h, e, p) THEN "out" ELSE at[p]
<1>4. m \notin Rooms => ~Inside(p) \/ inst'[p] = None
  BY <1>2 DEF Inside
<1> HIDE DEF m
<1>5. Move(Warped(h, e, p), p, m)
  BY DEF m
<1> QED
  BY <1>1, <1>2, <1>3, <1>4, <1>5, MoveAgrees

LEMMA TimerKept == TypeOK /\ TimerIsLive /\ [Next]_vars => TimerIsLive'
<1> SUFFICES ASSUME TypeOK, TimerIsLive, [Next]_vars PROVE TimerIsLive'
  OBVIOUS
<1>1. ASSUME NEW h, NEW e \in Inst, NEW p, Run(h, e, p),
             Disarm(h, e, p) \/ timer' = [timer EXCEPT ![e] = FALSE]
      PROVE  TimerIsLive'
  <2> DEFINE ends == Ends(Taken(h, e, p), e, p)
  <2>1. live' = [live EXCEPT ![e] = ~ends]
    BY <1>1, Zenon DEF Run
  <2>2. \/ timer' = [timer EXCEPT ![e] = @ /\ ~ends]
        \/ timer' = [timer EXCEPT ![e] = FALSE]
    BY <1>1, Zenon DEF Disarm
  <2> HIDE DEF ends
  <2>3. ASSUME NEW x \in Inst, timer'[x] PROVE live'[x]
    <3>1. CASE x = e
      BY <2>1, <2>2, <2>3, <3>1, Zenon DEF TypeOK
    <3>2. CASE x # e
      BY <2>1, <2>2, <2>3, <3>2 DEF TypeOK, TimerIsLive
    <3> QED
      BY <3>1, <3>2
  <2> QED
    BY <2>3 DEF TimerIsLive
<1>2. ASSUME NEW h, NEW e \in Inst, NEW p, Handle(h, e, p) PROVE TimerIsLive'
  BY <1>1, <1>2 DEF Handle
<1>3. ASSUME UNCHANGED <<timer, live>> PROVE TimerIsLive'
  BY <1>3 DEF TimerIsLive
<1>4. ASSUME NEW h, NEW p \in Player, Tell(h, p) PROVE TimerIsLive'
  BY <1>2, <1>3, <1>4 DEF Tell, Playing, TypeOK
<1>5. ASSUME NEW l \in Player, NEW e \in Inst, Setup(l, e) PROVE TimerIsLive'
  BY <1>5 DEF Setup, TypeOK, TimerIsLive
<1>6. ASSUME NEW p \in Player, NEW m, Walk(p, m) PROVE TimerIsLive'
  BY <1>1, <1>3, <1>6 DEF Walk, Playing, TypeOK
<1>7. ASSUME NEW p \in Player, Disconnect(p) PROVE TimerIsLive'
  BY <1>1, <1>3, <1>7 DEF Disconnect, Playing, TypeOK
<1>8. ASSUME NEW p \in Player, NEW q \in Player, Expel(p, q) PROVE TimerIsLive'
  BY <1>3, <1>4, <1>8 DEF Expel
<1>9. ASSUME NEW p \in Player, Leave(p) \/ Disband(p) PROVE TimerIsLive'
  BY <1>4, <1>9 DEF Leave, Disband
<1>10. ASSUME NEW p \in Player, AskOut(p) \/ Die(p) PROVE TimerIsLive'
  BY <1>2, <1>10 DEF AskOut, Die, Playing, TypeOK
<1>11. ASSUME NEW e \in Inst, NEW p \in Player, Slain(e, p) \/ Clear(e, p) \/ Timeout(e, p)
       PROVE  TimerIsLive'
  BY <1>1, <1>2, <1>11 DEF Slain, Clear, Timeout
<1>12. ASSUME NEW p \in Player, NEW q \in Player,
              \/ Talk(p) \/ Finish(p) \/ Register(p, q) \/ Skip(p, q)
              \/ Return(p) \/ Join(p, q) \/ Reset(p) \/ UNCHANGED vars
       PROVE  TimerIsLive'
  BY <1>3, <1>12 DEF Talk, Finish, Register, Skip, Return, Join, Reset
<1>13. CASE UNCHANGED vars
  BY <1>3, <1>13
<1> QED
  BY <1>5, <1>6, <1>7, <1>8, <1>9, <1>10, <1>11, <1>12, <1>13
  DEF Next, Entrance, Playful, Requests, Occasions

LEMMA ScriptKept == [Next]_vars => script' = script
BY DEF Next, Entrance, Playful, Requests, Occasions, Talk, Finish, Setup, Register, Skip,
       Walk, Disconnect, Return, AskOut, Die, Reset, Leave, Disband, Expel, Join, Slain,
       Clear, Timeout

LEMMA AgreementKept ==
  ASSUME Listed, ~script.byMap, [Next]_vars
  PROVE  Agree' /\ OutMeansFree'
<1>1. /\ TypeOK /\ Agree /\ OutMeansFree /\ TimerIsLive
      /\ None \notin Inst
  BY Typed DEF Listed, Agreement
<1> USE ScriptHandlers, <1>1
<1>2. ASSUME UNCHANGED <<live, chars, inst, at>> PROVE Agree' /\ OutMeansFree'
  BY <1>2 DEF Agree, OutMeansFree, Playing, Inside
<1>3. ASSUME NEW h \in Handler, NEW e \in Inst, NEW p \in chars[e], Handle(h, e, p)
      PROVE  Agree' /\ OutMeansFree'
  <2>1. p \in Player /\ inst[p] = e /\ live[e]
    BY DEF Agree, Playing, TypeOK
  <2> QED
    BY <1>3, <2>1, HandleAgrees DEF Handle
<1>4. ASSUME NEW h \in Handler, NEW p \in Player, Tell(h, p)
      PROVE  Agree' /\ OutMeansFree'
  <2>1. CASE Playing(p, inst[p])
    <3>1. inst[p] \in Inst /\ p \in chars[inst[p]]
      BY <2>1 DEF Agree, Playing, TypeOK
    <3> QED
      BY <1>3, <1>4, <2>1, <3>1 DEF Tell
  <2>2. CASE ~Playing(p, inst[p])
    BY <1>2, <1>4, <2>2 DEF Tell
  <2> QED
    BY <2>1, <2>2
<1>5. ASSUME NEW l \in Player, NEW e \in Inst, Setup(l, e)
      PROVE  Agree' /\ OutMeansFree'
  <2>1. /\ chars' = chars /\ inst' = inst /\ at' = at
        /\ live' = [live EXCEPT ![e] = TRUE]
        /\ chars[e] = {} /\ \A q \in Player : inst[q] # e
    BY <1>5 DEF Setup, Fresh, Unused
  <2>2. \A q \in Player, x \in Inst : Playing(q, x)' <=> Playing(q, x)
    BY <2>1 DEF Playing, TypeOK
  <2>3. \A q \in Player : Playing(q, inst[q])' <=> Playing(q, inst[q])
    BY <2>1, <2>2 DEF Playing, TypeOK
  <2> QED
    BY <2>1, <2>2, <2>3 DEF Agree, OutMeansFree, Inside
<1>6. ASSUME NEW l \in Player, NEW q \in Player, Register(l, q)
      PROVE  Agree' /\ OutMeansFree'
  <2> DEFINE e == entry[l].run
  <2>1. e \in Inst
    BY <1>6 DEF Register, TypeOK
  <2>2. /\ live[e] /\ live' = live /\ at[q] = "out"
        /\ at' = [at EXCEPT ![q] = "hall"]
        /\ \/ chars' = [chars EXCEPT ![e] = @ \cup {q}] /\ inst' = [inst EXCEPT ![q] = e]
           \/ chars' = chars /\ inst' = [inst EXCEPT ![q] = None]
    BY <1>6 DEF Register
  <2> HIDE DEF e
  <2>3. ~Playing(q, inst[q])
    BY <2>2 DEF OutMeansFree, Inside
  <2>4. \A x \in Inst : q \notin chars[x]
    BY <2>3 DEF Agree, Playing
  <2>5. ASSUME NEW x \in Inst, NEW r \in Player PROVE (r \in chars[x] <=> Playing(r, x))'
    BY <2>1, <2>2, <2>4, <2>5 DEF Agree, Playing, TypeOK
  <2>6. ASSUME NEW r \in Player, (~Inside(r))' PROVE (~Playing(r, inst[r]))'
    BY <2>2, <2>6 DEF OutMeansFree, Playing, Inside, TypeOK
  <2> QED
    BY <2>5, <2>6 DEF Agree, OutMeansFree
<1>7. ASSUME NEW p \in Player, NEW m \in Rooms \cup {"out"}, Walk(p, m)
      PROVE  Agree' /\ OutMeansFree'
  <2>1. CASE Playing(p, inst[p]) /\ m \notin script.inside
    <3> DEFINE h == script.changed  e == inst[p]
               n == IF p \in Warped(h, e, p) THEN "out" ELSE m
    <3>1. e \in Inst /\ live[e] /\ h \in Handler /\ h.out = "one" /\ ~h.orExit
      BY <2>1, Typed DEF Playing, TypeOK
    <3>2. Taken(h, e, p) = h
      BY <3>1 DEF Taken
    <3>3. Run(h, e, p) /\ Move(Warped(h, e, p), p, n)
      BY <1>7, <2>1 DEF Walk
    <3> HIDE DEF h, e, n
    <3>4. e = inst[p]
      BY DEF e
    <3>5. /\ \A q \in Player : inst'[q] \in {None, inst[q]}
          /\ \A q \in Player : q \in Warped(h, e, p) => inst'[q] = None
          /\ inst'[p] = None
          /\ \A x \in Inst : live'[x] => live[x]
          /\ Agree'
      BY <3>1, <3>2, <3>3, <3>4, RunAgrees
    <3>6. Warped(h, e, p) \in SUBSET Player
      BY <3>1, WarpedPlayers
    <3> QED
      BY <3>3, <3>5, <3>6, MoveAgrees
  <2>2. CASE ~(Playing(p, inst[p]) /\ m \notin script.inside)
    <3>1. UNCHANGED <<live, chars, inst>> /\ Move({}, p, m)
      BY <1>7, <2>2 DEF Walk
    <3>2. m \notin Rooms => ~Playing(p, inst[p])
      BY <2>2
    <3>3. Agree'
      BY <3>1 DEF Agree, Playing
    <3>4. ASSUME NEW r \in Player, (~Inside(r))' PROVE (~Playing(r, inst[r]))'
      <4>1. at'[r] = IF r = p THEN m ELSE at[r]
        BY <3>1 DEF Move
      <4> QED
        BY <3>1, <3>2, <3>4, <4>1 DEF OutMeansFree, Playing, Inside
    <3> QED
      BY <3>3, <3>4 DEF OutMeansFree
  <2> QED
    BY <2>1, <2>2
<1>8. ASSUME NEW p \in Player, Disconnect(p) PROVE Agree' /\ OutMeansFree'
  <2>0. Move({}, p, "gone")
    BY <1>8 DEF Disconnect
  <2>1. CASE Playing(p, inst[p])
    <3>1. inst[p] \in Inst /\ live[inst[p]] /\ Run(Lost, inst[p], p)
      BY <1>8, <2>1 DEF Disconnect, Playing, TypeOK
    <3>2. Taken(Lost, inst[p], p) = Lost /\ Lost.out = "one"
      BY DEF Taken, Lost
    <3>3. /\ \A q \in Player : inst'[q] \in {None, inst[q]}
          /\ inst'[p] = None
          /\ \A x \in Inst : live'[x] => live[x]
          /\ Agree'
      BY <3>1, <3>2, RunAgrees
    <3>4. {} \in SUBSET Player
      OBVIOUS
    <3> QED
      BY <2>0, <3>3, <3>4, MoveAgrees
  <2>2. CASE ~Playing(p, inst[p])
    <3>1. inst' = [inst EXCEPT ![p] = None] /\ UNCHANGED <<live, chars>>
      BY <1>8, <2>2 DEF Disconnect
    <3>2. \A x \in Inst : p \notin chars[x]
      BY <2>2 DEF Agree, Playing
    <3>3. ASSUME NEW x \in Inst, NEW r \in Player PROVE (r \in chars[x] <=> Playing(r, x))'
      BY <3>1, <3>2 DEF Agree, Playing, TypeOK
    <3>4. \A q \in Player : inst'[q] \in {None, inst[q]}
      BY <3>1 DEF TypeOK
    <3>5. inst'[p] = None /\ \A x \in Inst : live'[x] => live[x]
      BY <3>1 DEF TypeOK
    <3>6. {} \in SUBSET Player
      OBVIOUS
    <3>7. OutMeansFree'
      BY <2>0, <3>4, <3>5, <3>6, MoveAgrees
    <3> QED
      BY <3>3, <3>7 DEF Agree
  <2> QED
    BY <2>1, <2>2
<1>9. ASSUME NEW p \in Player, Return(p) PROVE Agree' /\ OutMeansFree'
  <2>1. UNCHANGED <<live, chars, inst>> /\ Move({}, p, "out") /\ at[p] = "gone"
    BY <1>9 DEF Return
  <2>2. \A r \in Player : Inside(r) => Inside(r)'
    BY <2>1 DEF Move, Inside
  <2> QED
    BY <2>1, <2>2 DEF Agree, OutMeansFree, Playing
<1>10. ASSUME NEW p \in Player, Leave(p) \/ Disband(p) PROVE Agree' /\ OutMeansFree'
  BY <1>4, <1>10 DEF Leave, Disband
<1>11. ASSUME NEW p \in Player, NEW q \in Player, Expel(p, q)
       PROVE  Agree' /\ OutMeansFree'
  BY <1>2, <1>4, <1>11 DEF Expel
<1>12. ASSUME NEW p \in Player, AskOut(p) \/ Die(p) PROVE Agree' /\ OutMeansFree'
  <2>1. Playing(p, inst[p])
    BY <1>12 DEF AskOut, Die
  <2>2. inst[p] \in Inst /\ p \in chars[inst[p]]
    BY <2>1 DEF Agree, Playing, TypeOK
  <2> QED
    BY <1>3, <1>12, <2>2 DEF AskOut, Die
<1>13. ASSUME NEW e \in Inst, NEW p \in Player, Slain(e, p) \/ Clear(e, p)
       PROVE  Agree' /\ OutMeansFree'
  BY <1>3, <1>13 DEF Slain, Clear
<1>14. ASSUME NEW e \in Inst, NEW p \in Player, Timeout(e, p)
       PROVE  Agree' /\ OutMeansFree'
  <2>1. live[e]
    BY <1>14 DEF Timeout, TimerIsLive
  <2>2. script.timeout.out # "one" /\ Taken(script.timeout, e, p) = script.timeout
    BY Typed DEF Taken, TypeOK
  <2> QED
    BY <1>14, <2>1, <2>2, HandleAgrees DEF Timeout
<1>15. ASSUME NEW p \in Player, NEW q \in Player,
              Talk(p) \/ Finish(p) \/ Skip(p, q) \/ Join(p, q) \/ Reset(p)
       PROVE  Agree' /\ OutMeansFree'
  BY <1>2, <1>15 DEF Talk, Finish, Skip, Join, Reset
<1>16. CASE UNCHANGED vars
  BY <1>2, <1>16
<1> QED
  BY <1>5, <1>6, <1>7, <1>8, <1>9, <1>10, <1>11, <1>12, <1>13, <1>14, <1>15, <1>16
  DEF Next, Entrance, Playful, Requests, Occasions

LEMMA ListedKept == Listed /\ [Next]_vars => Listed'
<1> SUFFICES ASSUME Listed, [Next]_vars PROVE Listed'
  OBVIOUS
<1>1. TypeOK' /\ TimerIsLive'
  BY TypesKept, TimerKept DEF Listed
<1>2. script' = script
  BY ScriptKept
<1>3. ~script.byMap => Agree' /\ OutMeansFree'
  BY AgreementKept
<1> QED
  BY <1>1, <1>2, <1>3 DEF Listed, Agreement

LEMMA ListedAtFirst == Init => Listed
BY Typed, TypesAtFirst
DEF Init, Listed, Agreement, TimerIsLive, Agree, OutMeansFree, Playing, Inside, TypeOK

\* Of every script that counts by the instance's list, an instance lists exactly
\* the players who refer to it, and none once it is disposed.
THEOREM ListsAgree == Spec => []MembersAgree
<1>1. Listed => MembersAgree
  BY DEF Listed, Agreement, Agree, MembersAgree
<1> QED
  BY <1>1, ListedAtFirst, ListedKept, PTL DEF Spec

----
(***************************************************************************)
(* Who is inside. Of a script that sends everyone out, whoever a handler   *)
(* takes out of an instance, or ends with it, is warped out of the rooms,  *)
(* also where two entrances are used at once and where the script counts   *)
(* the heads in its maps.                                                  *)
(***************************************************************************)

\* A player inside belongs to the instance that let it in.
Belongs == \A p \in Player : Inside(p) => Playing(p, inst[p]) /\ came[p] = inst[p]

Belonging == SendsOut(script) => Belongs

\* disposeIfPlayerBelow(100, ...) ends any instance; with 0, an empty one.
LEMMA Bounds ==
  ASSUME TypeOK, NEW g \in Handler, NEW e \in Inst, NEW p
  PROVE  /\ g.most >= 100 => Ends(g, e, p)
         /\ Ends(g, e, p) /\ g.most <= 0 => Crowd(g, e, p) = {}
<1> DEFINE crowd == Crowd(g, e, p)
<1>1. crowd \subseteq Player
  BY DEF Crowd, TypeOK
<1> HIDE DEF crowd
<1>2. IsFiniteSet(crowd) /\ Cardinality(crowd) <= Cardinality(Player)
  BY <1>1, Few, FS_Subset
<1>3. Cardinality(crowd) \in Nat /\ Cardinality(Player) \in Nat
  BY <1>2, Few, FS_CardinalityType
<1>4. g.most \in Int
  BY DEF Handler
<1>5. g.most >= 100 => Cardinality(crowd) <= g.most
  BY <1>2, <1>3, <1>4, Few
<1>6. Cardinality(crowd) <= g.most /\ g.most <= 0 => Cardinality(crowd) = 0
  BY <1>3, <1>4
<1>7. Cardinality(crowd) = 0 => crowd = {}
  BY <1>2, FS_EmptySet
<1> QED
  BY <1>5, <1>6, <1>7 DEF Ends, crowd

\* A handler takes a player who is inside out of an instance by unregistering him,
\* or by ending an instance he is counted in, and then it ejects.
LEMMA RunLoses ==
  ASSUME TypeOK, Agreement, Belongs,
         NEW h \in Handler, NEW e \in Inst, live[e], NEW p \in Player, Run(h, e, p),
         Taken(h, e, p).most > 0 => Taken(h, e, p).eject
  PROVE  /\ \A q \in Player : Inside(q) /\ ~Playing(q, inst[q])' =>
              q \in Warped(h, e, p) \/ q \in Leavers(Taken(h, e, p), e, p)
         /\ \A q \in Player : Playing(q, inst[q])' => inst'[q] = inst[q]
<1> DEFINE g == Taken(h, e, p)  ends == Ends(g, e, p)  out == Leavers(g, e, p)
           crowd == Crowd(g, e, p)
<1>1. g \in Handler /\ ends \in BOOLEAN
  BY HandlerTypes DEF Ends
<1>2. ends /\ g.most <= 0 => crowd = {}
  BY HandlerTypes, Bounds
<1>3. ends /\ g.eject => crowd \subseteq Warped(h, e, p)
  BY DEF Warped
<1>4. g.most > 0 => g.eject
  OBVIOUS
<1>5. /\ live'  = [live EXCEPT ![e] = ~ends]
      /\ inst'  = [q \in Player |-> IF \/ q \in out
                                       \/ ends /\ q \in crowd \cup chars[e]
                                    THEN None ELSE inst[q]]
  BY DEF Run
<1>6. ASSUME NEW q \in Player, Inside(q), q \in chars[e] \/ inst[q] = e
      PROVE  q \in crowd \cup out
  <2>1. Playing(q, inst[q]) /\ inst[q] # None
    BY <1>6 DEF Belongs, Playing
  <2>2. ~script.byMap /\ inst[q] = e => q \in chars[e]
    BY <2>1 DEF Agreement, Agree
  <2> QED
    BY <1>6, <2>1, <2>2 DEF Crowd, crowd, out
<1> HIDE DEF g, ends, out, crowd
<1>7. ASSUME NEW q \in Player, Inside(q), (~Playing(q, inst[q]))', q \notin out
      PROVE  q \in Warped(h, e, p)
  <2>1. Playing(q, inst[q]) /\ inst[q] \in Inst
    BY <1>7 DEF Belongs, Playing, TypeOK
  <2>2. ends /\ (q \in crowd \cup chars[e] \/ inst[q] = e)
    <3>1. CASE inst'[q] = None
      BY <1>5, <1>7, <2>1, <3>1 DEF Playing
    <3>2. CASE inst'[q] # None
      BY <1>1, <1>5, <1>7, <2>1, <3>2 DEF Playing, TypeOK
    <3> QED
      BY <3>1, <3>2
  <2>3. q \in crowd
    BY <1>6, <1>7, <2>2
  <2>4. g.most > 0
    BY <1>1, <1>2, <2>2, <2>3 DEF Handler
  <2> QED
    BY <1>3, <1>4, <2>2, <2>3, <2>4
<1>8. \A q \in Player : Playing(q, inst[q])' => inst'[q] = inst[q]
  BY <1>5 DEF Playing
<1> QED
  BY <1>7, <1>8 DEF g, out

\* Players who stay in the rooms still belong to the instance they came with.
LEMMA MoveGrants ==
  ASSUME TypeOK, Belongs, NEW out \in SUBSET Player, NEW p \in Player,
         NEW m \in Rooms \cup {"out", "gone"}, Move(out, p, m),
         m \in Rooms => Inside(p),
         \A q \in Player : Inside(q) /\ ~Playing(q, inst[q])' =>
              q \in out \/ (q = p /\ m \notin Rooms),
         p \in out => m \notin Rooms,
         \A q \in Player : Playing(q, inst[q])' => inst'[q] = inst[q]
  PROVE  Belongs'
<1> SUFFICES ASSUME NEW q \in Player, Inside(q)'
             PROVE  Playing(q, inst[q])' /\ came'[q] = inst'[q]
  BY DEF Belongs
<1>1. at'[q] \in Rooms
  BY DEF Inside
<1>2. at'[q] = IF q = p THEN m ELSE IF q \in out THEN "out" ELSE at[q]
  BY DEF Move
<1>3. Inside(q) /\ q \notin out /\ ~(q = p /\ m \notin Rooms)
  BY <1>1, <1>2 DEF Inside
<1>4. Playing(q, inst[q]) /\ came[q] = inst[q]
  BY <1>3 DEF Belongs
<1>5. Playing(q, inst[q])'
  BY <1>3, <1>4
<1>6. came'[q] = came[q]
  BY <1>1 DEF Move
<1> QED
  BY <1>4, <1>5, <1>6

\* A handler that clears whom it takes out leaves nobody inside without his run.
LEMMA HandleGrants ==
  ASSUME TypeOK, Agreement, Belongs,
         NEW h \in Handler, NEW e \in Inst, live[e], NEW p \in Player, Run(h, e, p),
         Move(Warped(h, e, p), p, IF p \in Warped(h, e, p) THEN "out" ELSE at[p]),
         Clears(h), h.orExit => Clears(script.exit)
  PROVE  Belongs'
<1> DEFINE g == Taken(h, e, p)
<1>1. Clears(g)
  BY DEF Taken
<1>2. g \in Handler
  BY HandlerTypes
<1>3. Leavers(g, e, p) \subseteq Warped(h, e, p)
  BY <1>1, <1>2 DEF Warped, Clears, Leavers, Handler
<1> DEFINE m == IF p \in Warped(h, e, p) THEN "out" ELSE at[p]
<1>4. /\ \A q \in Player : Inside(q) /\ ~Playing(q, inst[q])' =>
           q \in Warped(h, e, p) \/ q \in Leavers(g, e, p)
      /\ \A q \in Player : Playing(q, inst[q])' => inst'[q] = inst[q]
  <2>1. Taken(h, e, p).most > 0 => Taken(h, e, p).eject
    BY <1>1 DEF Clears
  <2> HIDE DEF g
  <2> QED
    BY <2>1, RunLoses DEF g
<1> HIDE DEF g
<1>5. /\ m \in Rooms \cup {"out", "gone"}
      /\ m \in Rooms => Inside(p)
      /\ p \in Warped(h, e, p) => m \notin Rooms
  BY DEF TypeOK, Inside
<1>6. Warped(h, e, p) \in SUBSET Player
  BY WarpedPlayers
<1>7. Move(Warped(h, e, p), p, m)
  OBVIOUS
<1> HIDE DEF m
<1> QED
  BY <1>3, <1>4, <1>5, <1>6, <1>7, MoveGrants

\* The handlers of a script that sends everyone out, all but changedMap.
Tame(h) == h \in Handler /\ Clears(h) /\ (h.orExit => Clears(script.exit))

LEMMA TameHandlers ==
  ASSUME TypeOK, SendsOut(script)
  PROVE  \A h \in {script.left, script.disband, script.clear, script.timeout, script.dead,
                    script.slain, script.asked} : Tame(h)
BY ScriptHandlers DEF Tame, SendsOut

LEMMA BelongsKept == Listed /\ Belongs /\ SendsOut(script) /\ [Next]_vars => Belongs'
<1> SUFFICES ASSUME Listed, Belongs, SendsOut(script), [Next]_vars PROVE Belongs'
  OBVIOUS
<1>1. TypeOK /\ Agreement /\ TimerIsLive /\ None \notin Inst
  BY Typed DEF Listed
<1> USE ScriptHandlers, <1>1
<1>2. ASSUME UNCHANGED <<live, inst, at, came>> PROVE Belongs'
  BY <1>2 DEF Belongs, Playing, Inside
<1>3. ASSUME NEW h, Tame(h), NEW e \in Inst, live[e], NEW p \in Player, Handle(h, e, p)
      PROVE  Belongs'
  BY <1>3, HandleGrants DEF Handle, Tame
<1>4. ASSUME NEW h, Tame(h), NEW p \in Player, Tell(h, p) PROVE Belongs'
  <2>1. CASE Playing(p, inst[p])
    BY <1>3, <1>4, <2>1 DEF Tell, Playing, TypeOK
  <2>2. CASE ~Playing(p, inst[p])
    BY <1>2, <1>4, <2>2 DEF Tell
  <2> QED
    BY <2>1, <2>2
<1>5. \A h \in {script.left, script.disband, script.clear, script.timeout, script.dead,
                script.slain, script.asked} : Tame(h)
  BY TameHandlers
<1>6. ASSUME NEW l \in Player, NEW e \in Inst, Setup(l, e) PROVE Belongs'
  <2>1. live' = [live EXCEPT ![e] = TRUE] /\ UNCHANGED <<inst, at, came>>
    BY <1>6 DEF Setup
  <2> QED
    BY <2>1 DEF Belongs, Playing, Inside, TypeOK
<1>7. ASSUME NEW l \in Player, NEW q \in Player, Register(l, q) PROVE Belongs'
  <2> DEFINE e == entry[l].run
  <2>1. e \in Inst
    BY <1>7 DEF Register, TypeOK
  <2>2. /\ live[e] /\ live' = live
        /\ at' = [at EXCEPT ![q] = "hall"]
        /\ inst' = [inst EXCEPT ![q] = e] /\ came' = [came EXCEPT ![q] = e]
    BY <1>7 DEF Register, SendsOut
  <2> HIDE DEF e
  <2> QED
    BY <2>1, <2>2 DEF Belongs, Playing, Inside, TypeOK
<1>8. ASSUME NEW p \in Player, NEW m \in Rooms \cup {"out"}, Walk(p, m) PROVE Belongs'
  <2>1. CASE Playing(p, inst[p]) /\ m \notin script.inside
    <3> DEFINE h == script.changed  e == inst[p]
               n == IF p \in Warped(h, e, p) THEN "out" ELSE m
    <3>1. e \in Inst /\ live[e] /\ h \in Handler /\ h.out = "one" /\ ~h.orExit
      BY <2>1, Typed DEF Playing, TypeOK
    <3>2. Taken(h, e, p) = h /\ Leavers(h, e, p) = {p}
      BY <3>1 DEF Taken, Leavers
    <3>3. Run(h, e, p) /\ Move(Warped(h, e, p), p, n)
      BY <1>8, <2>1 DEF Walk
    <3>4. n = "out"
      BY <1>8, <2>1 DEF Walk, SendsOut
    <3>5. h.most > 0 => h.eject
      BY DEF SendsOut
    <3> HIDE DEF h, e, n
    <3>6. /\ \A q \in Player : Inside(q) /\ ~Playing(q, inst[q])' =>
               q \in Warped(h, e, p) \/ q \in Leavers(h, e, p)
          /\ \A q \in Player : Playing(q, inst[q])' => inst'[q] = inst[q]
      BY <3>1, <3>2, <3>3, <3>5, RunLoses
    <3>7. Warped(h, e, p) \in SUBSET Player
      BY <3>1, WarpedPlayers
    <3> QED
      BY <3>2, <3>3, <3>4, <3>6, <3>7, MoveGrants
  <2>2. CASE ~(Playing(p, inst[p]) /\ m \notin script.inside)
    <3>1. UNCHANGED <<live, inst>> /\ Move({}, p, m) /\ Inside(p)
      BY <1>8, <2>2 DEF Walk
    <3>2. {} \in SUBSET Player /\ m \in Rooms \cup {"out", "gone"}
      OBVIOUS
    <3>3. \A q \in Player : Playing(q, inst[q])' <=> Playing(q, inst[q])
      BY <3>1 DEF Playing
    <3>4. \A q \in Player : Inside(q) => Playing(q, inst[q])
      BY DEF Belongs
    <3> QED
      BY <3>1, <3>2, <3>3, <3>4, MoveGrants
  <2> QED
    BY <2>1, <2>2
<1>9. ASSUME NEW p \in Player, Disconnect(p) PROVE Belongs'
  <2>0. Move({}, p, "gone") /\ {} \in SUBSET Player
    BY <1>9 DEF Disconnect
  <2>1. CASE Playing(p, inst[p])
    <3>1. inst[p] \in Inst /\ live[inst[p]] /\ Run(Lost, inst[p], p)
      BY <1>9, <2>1 DEF Disconnect, Playing, TypeOK
    <3>2. /\ Taken(Lost, inst[p], p) = Lost /\ Lost.most = 0
          /\ Leavers(Lost, inst[p], p) = {p} /\ Warped(Lost, inst[p], p) = {}
      BY DEF Taken, Lost, Leavers, Warped
    <3>3. /\ \A q \in Player : Inside(q) /\ ~Playing(q, inst[q])' => q = p
          /\ \A q \in Player : Playing(q, inst[q])' => inst'[q] = inst[q]
      BY <3>1, <3>2, RunLoses
    <3> QED
      BY <2>0, <3>3, MoveGrants
  <2>2. CASE ~Playing(p, inst[p])
    <3>1. inst' = [inst EXCEPT ![p] = None] /\ live' = live
      BY <1>9, <2>2 DEF Disconnect
    <3>2. /\ \A q \in Player : Inside(q) /\ ~Playing(q, inst[q])' => q = p
          /\ \A q \in Player : Playing(q, inst[q])' => inst'[q] = inst[q]
      BY <3>1 DEF Belongs, Playing, TypeOK
    <3> QED
      BY <2>0, <3>2, MoveGrants
  <2> QED
    BY <2>1, <2>2
<1>10. ASSUME NEW p \in Player, Return(p) PROVE Belongs'
  <2>1. UNCHANGED <<live, inst>> /\ Move({}, p, "out") /\ {} \in SUBSET Player
    BY <1>10 DEF Return
  <2>2. \A q \in Player : Playing(q, inst[q])' <=> Playing(q, inst[q])
    BY <2>1 DEF Playing
  <2>3. \A q \in Player : Inside(q) => Playing(q, inst[q])
    BY DEF Belongs
  <2> QED
    BY <2>1, <2>2, <2>3, MoveGrants
<1>11. ASSUME NEW p \in Player, Leave(p) \/ Disband(p) PROVE Belongs'
  BY <1>4, <1>5, <1>11 DEF Leave, Disband
<1>12. ASSUME NEW p \in Player, NEW q \in Player, Expel(p, q) PROVE Belongs'
  <2>1. CASE at[q] # "gone"
    BY <1>4, <1>5, <1>12, <2>1 DEF Expel
  <2>2. CASE at[q] = "gone"
    BY <1>2, <1>12, <2>2 DEF Expel
  <2> QED
    BY <2>1, <2>2
<1>13. ASSUME NEW p \in Player, AskOut(p) \/ Die(p) PROVE Belongs'
  <2>1. inst[p] \in Inst /\ live[inst[p]]
    BY <1>13 DEF AskOut, Die, Playing, TypeOK
  <2>2. \E h \in {script.left, script.asked, script.dead} : Handle(h, inst[p], p)
    BY <1>13 DEF AskOut, Die
  <2> QED
    BY <1>3, <1>5, <2>1, <2>2
<1>14. ASSUME NEW e \in Inst, NEW p \in Player, Slain(e, p) \/ Clear(e, p) PROVE Belongs'
  <2>1. live[e] /\ \E h \in {script.slain, script.clear} : Handle(h, e, p)
    BY <1>14 DEF Slain, Clear
  <2> QED
    BY <1>3, <1>5, <2>1
<1>15. ASSUME NEW e \in Inst, NEW p \in Player, Timeout(e, p) PROVE Belongs'
  <2>1. live[e] /\ Tame(script.timeout)
    BY <1>5, <1>15 DEF Timeout, TimerIsLive
  <2> QED
    BY <1>15, <2>1, HandleGrants DEF Timeout, Tame
<1>16. ASSUME NEW p \in Player, NEW q \in Player,
              Talk(p) \/ Finish(p) \/ Skip(p, q) \/ Join(p, q) \/ Reset(p)
       PROVE  Belongs'
  BY <1>2, <1>16 DEF Talk, Finish, Skip, Join, Reset
<1>17. CASE UNCHANGED vars
  BY <1>2, <1>17
<1> QED
  BY <1>6, <1>7, <1>8, <1>9, <1>10, <1>11, <1>12, <1>13, <1>14, <1>15, <1>16, <1>17
  DEF Next, Entrance, Playful, Requests, Occasions

LEMMA BelongingKept == Listed /\ Belonging /\ [Next]_vars => Belonging'
BY BelongsKept, ScriptKept DEF Belonging

LEMMA BelongingAtFirst == Init => Belonging
BY DEF Init, Belonging, Belongs, Inside

\* Of every script that sends everyone out, whoever is in the rooms belongs to a live
\* instance, whatever entrances, requests and occasions run into each other.
THEOREM BelongInside == Spec => []InsideBelongs
<1>1. Listed /\ Belonging => InsideBelongs
  BY DEF Belonging, Belongs, InsideBelongs
<1> QED
  BY <1>1, ListedAtFirst, ListedKept, BelongingAtFirst, BelongingKept, PTL DEF Spec
====
