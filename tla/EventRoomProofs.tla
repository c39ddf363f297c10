---- MODULE EventRoomProofs ----
(***************************************************************************)
(* Theorems about the entrance of an event: of the scripts that promise    *)
(* it, the rooms are given to one run at a time and are empty when it is   *)
(* over (module EventRoom); of those that give the property back when they *)
(* dispose, a closed entrance means that somebody plays or is let in.      *)
(***************************************************************************)
EXTENDS EventProofs

USE DEF Rooms, Idle, Checked, Entry, players, engine, vars

----
(* The steps, as far as they concern the engine *)

HandlersOf(s) == {s.changed, s.left, s.disband, s.clear, s.timeout, s.dead, s.slain,
                  s.asked, Lost}

\* A handler runs for a live instance.
Handled == \E h \in HandlersOf(script), e \in Inst, p \in Player :
             live[e] /\ Run(h, e, p) /\ entry' = entry

\* The engine is not asked.
Elsewhere == UNCHANGED <<flag, current, live, chars, entry>>

\* Every step is one of the entrance, a handler, the hand of an NPC, or elsewhere.
LEMMA Steps ==
  ASSUME Listed, [Next]_vars
  PROVE  \/ \E l \in Player : Talk(l) \/ Finish(l)
         \/ \E l \in Player, e \in Inst : Setup(l, e)
         \/ \E l, q \in Player : Register(l, q) \/ Skip(l, q)
         \/ \E p \in Player : Reset(p)
         \/ Handled
         \/ Elsewhere
<1>1. TypeOK /\ TimerIsLive
  BY DEF Listed
<1>2. ASSUME NEW h \in HandlersOf(script), NEW p \in Player, Tell(h, p), entry' = entry
      PROVE  Handled \/ Elsewhere
  <2>1. CASE Playing(p, inst[p])
    BY <1>1, <1>2, <2>1 DEF Tell, Handle, Handled, Playing, TypeOK
  <2>2. CASE ~Playing(p, inst[p])
    BY <1>2, <2>2 DEF Tell, Elsewhere
  <2> QED
    BY <2>1, <2>2
<1>3. ASSUME NEW p \in Player, NEW m \in Rooms \cup {"out"}, Walk(p, m)
      PROVE  Handled \/ Elsewhere
  <2>1. CASE Playing(p, inst[p]) /\ m \notin script.inside
    BY <1>1, <1>3, <2>1 DEF Walk, Handled, HandlersOf, Playing, TypeOK
  <2>2. CASE ~(Playing(p, inst[p]) /\ m \notin script.inside)
    BY <1>3, <2>2 DEF Walk, Elsewhere
  <2> QED
    BY <2>1, <2>2
<1>4. ASSUME NEW p \in Player, Disconnect(p) PROVE Handled \/ Elsewhere
  <2>1. CASE Playing(p, inst[p])
    BY <1>1, <1>4, <2>1 DEF Disconnect, Handled, HandlersOf, Playing, TypeOK
  <2>2. CASE ~Playing(p, inst[p])
    BY <1>4, <2>2 DEF Disconnect, Elsewhere
  <2> QED
    BY <2>1, <2>2
<1>5. ASSUME NEW p \in Player, Leave(p) \/ Disband(p) PROVE Handled \/ Elsewhere
  <2>1. \E h \in HandlersOf(script) : Tell(h, p) /\ entry' = entry
    BY <1>5 DEF Leave, Disband, HandlersOf
  <2> QED
    BY <1>2, <2>1
<1>6. ASSUME NEW p \in Player, NEW q \in Player, Expel(p, q) PROVE Handled \/ Elsewhere
  <2>1. CASE at[q] # "gone"
    <3>1. Tell(script.disband, p) /\ entry' = entry
      BY <1>6, <2>1 DEF Expel
    <3> QED
      BY <1>2, <3>1 DEF HandlersOf
  <2>2. CASE at[q] = "gone"
    BY <1>6, <2>2 DEF Expel, Elsewhere
  <2> QED
    BY <2>1, <2>2
<1>7. ASSUME NEW p \in Player, AskOut(p) \/ Die(p) PROVE Handled
  <2>1. live[inst[p]] /\ inst[p] \in Inst /\ entry' = entry
    BY <1>1, <1>7 DEF AskOut, Die, Playing, TypeOK
  <2>2. \E h \in HandlersOf(script) : Run(h, inst[p], p)
    BY <1>7 DEF AskOut, Die, Handle, HandlersOf
  <2> QED
    BY <2>1, <2>2 DEF Handled
<1>8. ASSUME NEW e \in Inst, NEW p \in Player, Slain(e, p) \/ Clear(e, p) \/ Timeout(e, p)
      PROVE  Handled
  <2>1. live[e] /\ entry' = entry
    BY <1>1, <1>8 DEF Slain, Clear, Timeout, TimerIsLive
  <2>2. \E h \in HandlersOf(script) : Run(h, e, p)
    BY <1>8 DEF Slain, Clear, Timeout, Handle, HandlersOf
  <2> QED
    BY <2>1, <2>2 DEF Handled
<1>9. ASSUME NEW p \in Player, NEW q \in Player, Return(p) \/ Join(p, q) PROVE Elsewhere
  BY <1>9 DEF Return, Join, Elsewhere
<1>10. CASE UNCHANGED vars
  BY <1>10 DEF Elsewhere
<1> QED
  BY <1>3, <1>4, <1>5, <1>6, <1>7, <1>8, <1>9, <1>10
  DEF Next, Entrance, Playful, Requests, Occasions

\* Nobody comes into the rooms but by registerPlayer, and whoever waits outside
\* stays there until it or, with a free thread, until a walk or a disconnection.
LEMMA WaysIn ==
  ASSUME TypeOK, [Next]_vars, NEW r \in Player
  PROVE  /\ Inside(r)' /\ ~Inside(r) => \E l \in Player : Register(l, r)
         /\ at[r] = "out" /\ at'[r] # "out" =>
              Free(r) \/ \E l \in Player : Register(l, r)
<1> DEFINE Fine == /\ Inside(r)' => Inside(r)
                   /\ at[r] = "out" => at'[r] = "out" \/ Free(r)
<1>1. ASSUME at' = at PROVE Fine
  BY <1>1 DEF Inside
<1>2. ASSUME NEW out, NEW p, NEW m, Move(out, p, m), m \in {at[p], "out"} PROVE Fine
  BY <1>2 DEF Move, Inside
<1>3. ASSUME NEW h, NEW e, NEW p, Handle(h, e, p) PROVE Fine
  BY <1>2, <1>3 DEF Handle
<1>4. ASSUME NEW h, NEW p, Tell(h, p) PROVE Fine
  <2>1. CASE Playing(p, inst[p])
    BY <1>3, <1>4, <2>1 DEF Tell
  <2>2. CASE ~Playing(p, inst[p])
    BY <1>1, <1>4, <2>2 DEF Tell
  <2> QED
    BY <2>1, <2>2
<1>5. ASSUME NEW p \in Player, NEW m \in Rooms \cup {"out"}, Walk(p, m) PROVE Fine
  <2>1. Free(p) /\ Inside(p) /\ \E out, n : Move(out, p, n)
    BY <1>5 DEF Walk
  <2> QED
    BY <2>1 DEF Move, Inside, TypeOK
<1>6. ASSUME NEW p \in Player, Disconnect(p) PROVE Fine
  <2>1. Free(p) /\ Move({}, p, "gone")
    BY <1>6 DEF Disconnect
  <2> QED
    BY <2>1 DEF Move, Inside
<1>7. ASSUME NEW p \in Player, Return(p) PROVE Fine
  BY <1>2, <1>7 DEF Return
<1>8. ASSUME NEW p \in Player, Leave(p) \/ Disband(p) PROVE Fine
  BY <1>4, <1>8 DEF Leave, Disband
<1>9. ASSUME NEW p \in Player, NEW q \in Player, Expel(p, q) PROVE Fine
  <2>1. CASE at[q] # "gone"
    BY <1>4, <1>9, <2>1 DEF Expel
  <2>2. CASE at[q] = "gone"
    BY <1>1, <1>9, <2>2 DEF Expel
  <2> QED
    BY <2>1, <2>2
<1>10. ASSUME NEW p \in Player, AskOut(p) \/ Die(p) PROVE Fine
  BY <1>3, <1>10 DEF AskOut, Die
<1>11. ASSUME NEW e \in Inst, NEW p \in Player, Slain(e, p) \/ Clear(e, p) PROVE Fine
  BY <1>3, <1>11 DEF Slain, Clear
<1>12. ASSUME NEW e \in Inst, NEW p \in Player, Timeout(e, p) PROVE Fine
  BY <1>2, <1>12 DEF Timeout
<1>13. ASSUME NEW l \in Player, NEW q \in Player, Register(l, q), ~Register(l, r) PROVE Fine
  <2>1. q # r /\ at' = [at EXCEPT ![q] = "hall"]
    BY <1>13 DEF Register
  <2> QED
    BY <2>1 DEF Inside, TypeOK
<1>14. ASSUME NEW l \in Player, NEW q \in Player,
              \/ Talk(l) \/ Finish(l) \/ (\E e \in Inst : Setup(l, e)) \/ Skip(l, q)
              \/ Join(l, q) \/ Reset(l)
       PROVE  Fine
  BY <1>1, <1>14 DEF Talk, Finish, Setup, Skip, Join, Reset
<1>15. CASE UNCHANGED vars
  BY <1>1, <1>15
<1>16. CASE \E l \in Player : Register(l, r)
  BY <1>16
<1>17. ASSUME NEW l \in Player, ~Register(l, r), NEW q \in Player, Register(l, q) PROVE Fine
  BY <1>13, <1>17
<1> QED
  BY <1>5, <1>6, <1>7, <1>8, <1>9, <1>10, <1>11, <1>12, <1>14, <1>15, <1>16, <1>17
  DEF Next, Entrance, Playful, Requests, Occasions

\* What a handler does to the instances, and when it gives the property back.
LEMMA HandlerEffect ==
  ASSUME TypeOK, NEW h, NEW e \in Inst, NEW p, Run(h, e, p)
  PROVE  LET g    == Taken(h, e, p)
             ends == Ends(g, e, p)
         IN  /\ ends \in BOOLEAN
             /\ live' = [live EXCEPT ![e] = ~ends]
             /\ chars' = [chars EXCEPT ![e] = IF ends THEN {} ELSE @ \ Leavers(g, e, p)]
             /\ current' = IF ends THEN None ELSE current
             /\ flag' = IF Reopens(g, ends) THEN "open" ELSE flag
BY DEF Run, Ends

----
(* The entrance *)

\* One entrance is in use, and whom it has yet to register waits outside; above all
\* the one who talks, whom startInstance always registers.
OneEntrance == \A p, q \in Player : ~Free(p) /\ ~Free(q) => p = q
Waits == \A l \in Player : entry[l].step = "checked" \/ l \in entry[l].left => at[l] = "out"

Entrances == ~Overlap => OneEntrance /\ Waits

\* What the entrance's own steps do to the thread of one player.
LEMMA EntryStep ==
  ASSUME Listed, [Next]_vars, NEW r \in Player
  PROVE  /\ Free(r) /\ ~Free(r)' => Talk(r)
         /\ entry'[r].step = "checked" => entry[r].step = "checked" \/ Talk(r)
         /\ r \in entry'[r].left => r \in entry[r].left \/ entry[r].step = "checked"
         /\ Register(r, r) => r \notin entry'[r].left
<1>1. TypeOK
  BY DEF Listed
<1>2. entry[r] \in Entry
  BY <1>1 DEF TypeOK
<1>3. CASE entry' = entry
  <2>1. ~Register(r, r)
    BY <1>1, <1>3 DEF Register, TypeOK
  <2> QED
    BY <1>3, <2>1 DEF Free
<1>4. ASSUME NEW l \in Player, Talk(l) PROVE entry' = [entry EXCEPT ![l] = Checked]
  BY <1>4 DEF Talk
<1>5. ASSUME NEW l \in Player, Finish(l) PROVE entry' = [entry EXCEPT ![l] = Idle]
  BY <1>5 DEF Finish
<1>6. ASSUME NEW l \in Player, NEW e \in Inst, Setup(l, e)
      PROVE  /\ entry[l].step = "checked"
             /\ \/ entry' = [entry EXCEPT ![l] = Idle]
                \/ entry' = [entry EXCEPT ![l] = [step |-> "entering", run |-> e,
                                                left |-> Group(l)]]
  BY <1>6 DEF Setup
<1>7. ASSUME NEW l \in Player, NEW q \in Player, Register(l, q) \/ Skip(l, q)
      PROVE  /\ entry' = [entry EXCEPT ![l] = [entry[l] EXCEPT !.left = @ \ {q}]]
             /\ entry[l].step = "entering"
  BY <1>1, <1>7 DEF Register, Skip, TypeOK
<1>8. CASE \E l \in Player : Talk(l)
  BY <1>1, <1>4, <1>8 DEF Free, Register, TypeOK
<1>9. CASE \E l \in Player : Finish(l)
  BY <1>1, <1>5, <1>9 DEF Free, Register, Finish, TypeOK
<1>10. CASE \E l \in Player, e \in Inst : Setup(l, e)
  BY <1>1, <1>6, <1>10 DEF Free, Register, TypeOK
<1>11. ASSUME NEW l \in Player, NEW q \in Player, Register(l, q) \/ Skip(l, q)
       PROVE  /\ entry'[r].step = entry[r].step
              /\ entry'[r].left \subseteq entry[r].left
  BY <1>1, <1>2, <1>7, <1>11 DEF TypeOK
<1>12. Register(r, r) => r \notin entry'[r].left
  BY <1>1, <1>2, <1>7 DEF TypeOK
<1>13. CASE \E l, q \in Player : Register(l, q) \/ Skip(l, q)
  <2>1. entry'[r].step = entry[r].step /\ entry'[r].left \subseteq entry[r].left
    BY <1>11, <1>13
  <2> QED
    BY <1>12, <2>1 DEF Free
<1>14. entry' = entry \/ \E l \in Player : \/ Talk(l) \/ Finish(l)
                                         \/ (\E e \in Inst : Setup(l, e))
                                         \/ \E q \in Player : Register(l, q) \/ Skip(l, q)
  BY Steps DEF Handled, Elsewhere, Reset
<1> QED
  BY <1>3, <1>8, <1>9, <1>10, <1>13, <1>14

LEMMA EntrancesKept == Listed /\ Entrances /\ [Next]_vars => Entrances'
<1> SUFFICES ASSUME Listed, OneEntrance, Waits, ~Overlap, [Next]_vars
             PROVE  OneEntrance' /\ Waits'
  BY DEF Entrances
<1>1. TypeOK
  BY DEF Listed
<1>2. \A l \in Player : Talk(l) => at[l] = "out" /\ at' = at /\ \A q \in Player : Free(q)
  BY DEF Talk
<1>3. ASSUME NEW p \in Player, NEW q \in Player, ~Free(p)', ~Free(q)' PROVE p = q
  <2>1. CASE \E l \in Player : Talk(l)
    <3>1. PICK l \in Player : Talk(l)
      BY <2>1
    <3>2. \A r \in Player : r # l => Free(r)'
      BY <1>1, <1>2, <3>1 DEF Talk, Free, TypeOK
    <3> QED
      BY <1>3, <3>2
  <2>2. CASE ~\E l \in Player : Talk(l)
    BY <1>3, <2>2, EntryStep DEF OneEntrance
  <2> QED
    BY <2>1, <2>2
<1>4. ASSUME NEW l \in Player, entry'[l].step = "checked" \/ l \in entry'[l].left
      PROVE  at'[l] = "out"
  <2>1. CASE Talk(l)
    BY <1>2, <2>1
  <2>2. CASE ~Talk(l)
    <3>1. entry[l].step = "checked" \/ l \in entry[l].left
      BY <1>4, <2>2, EntryStep
    <3>2. at[l] = "out" /\ ~Free(l)
      BY <1>1, <3>1 DEF Waits, Free, TypeOK
    <3>3. ASSUME NEW k \in Player, Register(k, l) PROVE FALSE
      <4>1. entry[k].step = "entering"
        BY <3>3 DEF Register
      <4>2. k = l
        BY <3>2, <4>1 DEF OneEntrance, Free
      <4>3. l \notin entry'[l].left /\ entry'[l].step # "checked"
        BY <3>3, <4>1, <4>2, EntryStep DEF Talk, Free
      <4> QED
        BY <1>4, <4>3
    <3> QED
      BY <1>1, <3>2, <3>3, WaysIn
  <2> QED
    BY <2>1, <2>2
<1> QED
  BY <1>3, <1>4 DEF OneEntrance, Waits

----
(***************************************************************************)
(* Instances that are looked after: somebody is in them, or their entrance *)
(* has yet to register the one who talks there.                            *)
(***************************************************************************)

\* A handler that takes somebody out disposes of an instance it leaves empty, by
\* its own bound or by that of the branch it comes from.
EndsEmpty(h) == h.out = "none" \/ h.most >= 0

Minds(s, h) ==
  IF h.orExit THEN EndsEmpty(s.exit) \/ (h.out = "none" /\ h.most >= 1 /\ s.exit.out # "all")
  ELSE EndsEmpty(h)

Tends(s) == /\ s.mapped /\ "hall" \in s.inside /\ ~s.byMap
            /\ \A h \in HandlersOf(s) : Minds(s, h)

Letting(l, e) == entry[l].step = "entering" /\ entry[l].run = e /\ l \in entry[l].left

Tended == \A e \in Inst : live[e] => chars[e] # {} \/ \E l \in Player : Letting(l, e)

Tending == ~Overlap /\ Tends(script) => Tended

\* A handler that minds leaves an instance that had players players, or ends it.
LEMMA RunMinds ==
  ASSUME TypeOK, ~script.byMap, NEW h \in Handler, Minds(script, h),
         NEW e \in Inst, NEW p \in Player, chars[e] # {},
         ~Ends(Taken(h, e, p), e, p)
  PROVE  chars[e] \ Leavers(Taken(h, e, p), e, p) # {}
<1> DEFINE g == Taken(h, e, p)
<1>1. g \in Handler /\ script.exit \in Handler
  BY HandlerTypes, ScriptHandlers
<1>2. \A k \in Handler : Crowd(k, e, p) = chars[e] \ Leavers(k, e, p)
  BY DEF Crowd
<1>3. Cardinality({}) = 0
  BY FS_EmptySet
<1>4. CASE EndsEmpty(g)
  <2>1. CASE g.out = "none"
    BY <2>1 DEF Leavers
  <2>2. CASE g.most >= 0
    <3>1. Crowd(g, e, p) # {}
      BY <1>3, <2>2 DEF Ends
    <3> QED
      BY <1>1, <1>2, <3>1
  <2> QED
    BY <1>4, <2>1, <2>2 DEF EndsEmpty
<1>5. CASE ~EndsEmpty(g)
  <2>1. /\ h.orExit /\ ~Ends(h, e, p) /\ h.out = "none" /\ h.most >= 1
        /\ g = script.exit /\ g.out # "all"
    BY <1>5 DEF Taken, Minds, g
  <2>2. Crowd(h, e, p) = chars[e]
    BY <1>2, <2>1 DEF Leavers
  <2>3. Leavers(g, e, p) \subseteq {p}
    BY <1>1, <2>1 DEF Leavers, Handler
  <2>4. h.most \in Int
    BY DEF Handler
  <2>5. Cardinality({p}) = 1
    BY FS_Singleton
  <2>6. chars[e] # {p}
    BY <2>1, <2>2, <2>4, <2>5 DEF Ends
  <2> QED
    BY <2>3, <2>6
<1> QED
  BY <1>4, <1>5

LEMMA HandlersType ==
  ASSUME TypeOK
  PROVE  HandlersOf(script) \subseteq Handler
BY ScriptHandlers DEF HandlersOf

LEMMA TendedKept ==
  ASSUME Listed, Tended, OneEntrance, Waits, ~Overlap, Tends(script), [Next]_vars
  PROVE  Tended'
<1>1. TypeOK
  BY DEF Listed
<1>2. ASSUME NEW l \in Player, Talk(l) PROVE Tended'
  <2>1. UNCHANGED <<live, chars>> /\ entry' = [entry EXCEPT ![l] = Checked] /\ Free(l)
    BY <1>2 DEF Talk
  <2>2. \A k \in Player, e \in Inst : Letting(k, e) => Letting(k, e)'
    BY <1>1, <2>1 DEF Letting, Free, TypeOK
  <2> QED
    BY <2>1, <2>2 DEF Tended
<1>3. ASSUME NEW l \in Player, Finish(l) PROVE Tended'
  <2>1. UNCHANGED <<live, chars>> /\ entry' = [entry EXCEPT ![l] = Idle]
        /\ entry[l].left = {}
    BY <1>3 DEF Finish
  <2>2. \A k \in Player, e \in Inst : Letting(k, e) => Letting(k, e)'
    BY <1>1, <2>1 DEF Letting, TypeOK
  <2> QED
    BY <2>1, <2>2 DEF Tended
<1>4. ASSUME NEW l \in Player, NEW e \in Inst, Setup(l, e) PROVE Tended'
  <2>1. /\ entry[l].step = "checked" /\ chars' = chars /\ live' = [live EXCEPT ![e] = TRUE]
        /\ entry' = [entry EXCEPT ![l] = [step |-> "entering", run |-> e, left |-> Group(l)]]
    BY <1>4 DEF Setup, Tends
  <2>2. l \in Group(l)
    BY DEF Group
  <2>3. Letting(l, e)'
    BY <1>1, <2>1, <2>2 DEF Letting, TypeOK
  <2>4. \A k \in Player, x \in Inst : Letting(k, x) => Letting(k, x)'
    BY <1>1, <2>1 DEF Letting, TypeOK
  <2>5. \A x \in Inst : x # e => live'[x] = live[x]
    BY <1>1, <2>1 DEF TypeOK
  <2> QED
    BY <2>1, <2>3, <2>4, <2>5 DEF Tended
<1>5. ASSUME NEW l \in Player, NEW q \in Player, Register(l, q) \/ Skip(l, q) PROVE Tended'
  <2>1. /\ entry' = [entry EXCEPT ![l] = [entry[l] EXCEPT !.left = @ \ {q}]]
        /\ live' = live
    BY <1>1, <1>5 DEF Register, Skip, TypeOK
  <2>2. entry[l] \in [step : {"entering"}, run : Inst, left : SUBSET Player]
    BY <1>1, <1>5 DEF Register, Skip, TypeOK
  <2>3. \A k \in Player, x \in Inst : Letting(k, x) => Letting(k, x)' \/ (k = l /\ q = l)
    BY <1>1, <2>1, <2>2 DEF Letting, TypeOK
  <2>4. CASE Register(l, q)
    <3>1. chars' = [chars EXCEPT ![entry[l].run] = @ \cup {q}]
      BY <2>4 DEF Register, Tends
    <3>2. \A x \in Inst : chars[x] # {} => chars'[x] # {}
      BY <1>1, <3>1 DEF TypeOK
    <3>3. chars'[entry[l].run] # {}
      BY <1>1, <2>2, <3>1 DEF TypeOK
    <3>4. \A x \in Inst : Letting(l, x) => x = entry[l].run
      BY DEF Letting
    <3> QED
      BY <2>1, <2>3, <3>2, <3>3, <3>4 DEF Tended
  <2>5. CASE Skip(l, q)
    <3>1. chars' = chars
      BY <2>5 DEF Skip
    <3>2. q = l => ~live[entry[l].run]
      BY <1>1, <2>5 DEF Skip, Waits
    <3>3. \A x \in Inst : Letting(l, x) => x = entry[l].run
      BY DEF Letting
    <3> QED
      BY <2>1, <2>3, <3>1, <3>2, <3>3 DEF Tended
  <2> QED
    BY <1>5, <2>4, <2>5
<1>6. CASE Handled
  <2>1. PICK h \in HandlersOf(script), e \in Inst, p \in Player :
          live[e] /\ Run(h, e, p) /\ entry' = entry
    BY <1>6 DEF Handled
  <2> DEFINE g == Taken(h, e, p)  ends == Ends(g, e, p)
  <2>2. /\ ends \in BOOLEAN
        /\ live' = [live EXCEPT ![e] = ~ends]
        /\ chars' = [chars EXCEPT ![e] = IF ends THEN {} ELSE @ \ Leavers(g, e, p)]
    BY <1>1, <2>1, HandlerEffect
  <2>3. h \in Handler /\ Minds(script, h) /\ ~script.byMap
    BY <1>1, HandlersType DEF Tends
  <2>4. ~ends /\ chars[e] # {} => chars[e] \ Leavers(g, e, p) # {}
    BY <1>1, <2>3, RunMinds
  <2> HIDE DEF g, ends
  <2>5. \A k \in Player, x \in Inst : Letting(k, x)' <=> Letting(k, x)
    BY <2>1 DEF Letting
  <2>6. ASSUME NEW x \in Inst, live'[x], chars[x] # {} PROVE chars'[x] # {}
    <3>1. CASE x = e
      BY <1>1, <2>2, <2>4, <2>6, <3>1 DEF TypeOK
    <3>2. CASE x # e
      BY <1>1, <2>2, <2>6, <3>2 DEF TypeOK
    <3> QED
      BY <3>1, <3>2
  <2>7. \A x \in Inst : live'[x] => live[x]
    BY <1>1, <2>1, <2>2 DEF TypeOK
  <2> QED
    BY <2>5, <2>6, <2>7 DEF Tended
<1>7. CASE Elsewhere \/ \E p \in Player : Reset(p)
  BY <1>7 DEF Elsewhere, Reset, Tended, Letting
<1> QED
  BY <1>2, <1>3, <1>4, <1>5, <1>6, <1>7, Steps

LEMMA TendingKept == Listed /\ Entrances /\ Tending /\ [Next]_vars => Tending'
BY TendedKept, ScriptKept DEF Entrances, Tending

----
(***************************************************************************)
(* Sound scripts: the entrance reads what the event closes, and it is open *)
(* again only when the run is over. LudiPQ closes it when startInstance    *)
(* has returned, and an NPC opens it by hand when it sees the rooms empty. *)
(***************************************************************************)

Sound(s) ==
  /\ SendsOut(s) /\ ~s.byMap
  /\ \/ s.gates = {"instance"}
     \/ s.gates = {"flag"} /\ s.closes = "setup" /\ ~s.byHand
     \/ s.gates = {"flag"} /\ s.closes = "after" /\ s.mapped /\ (s.byHand => Tends(s))

Entering(e) == \E l \in Player : entry[l].step = "entering" /\ entry[l].run = e

\* The entrance is shut while e lasts, or its only user is still letting people in.
Shut(e) == \/ script.gates = {"instance"}
           \/ flag = "closed"
           \/ script.closes = "after" /\ Entering(e)

\* A live instance is the one that has the name, and its entrance is shut.
OneLive == \A e \in Inst : live[e] => current = e /\ Shut(e)

\* What an entrance has checked is still so: there is no run.
NoneLive == \A p \in Player : entry[p].step = "checked" => \A e \in Inst : ~live[e]

Granted == ~Overlap /\ Sound(script) => OneLive /\ NoneLive

\* The instance that has the name is live: disposal takes the name away.
NamedIsLive == current # None => live[current]

LEMMA NamedKept == Listed /\ NamedIsLive /\ [Next]_vars => NamedIsLive'
<1> SUFFICES ASSUME Listed, NamedIsLive, [Next]_vars PROVE NamedIsLive'
  OBVIOUS
<1>1. TypeOK
  BY DEF Listed
<1>2. CASE \E l \in Player, e \in Inst : Setup(l, e)
  BY <1>1, <1>2 DEF Setup, NamedIsLive, TypeOK
<1>3. CASE Handled
  <2>1. PICK h \in HandlersOf(script), e \in Inst, p \in Player : live[e] /\ Run(h, e, p)
    BY <1>3 DEF Handled
  <2> DEFINE ends == Ends(Taken(h, e, p), e, p)
  <2>2. /\ ends \in BOOLEAN
        /\ live' = [live EXCEPT ![e] = ~ends]
        /\ current' = IF ends THEN None ELSE current
    BY <1>1, <2>1, HandlerEffect
  <2> HIDE DEF ends
  <2>3. CASE ends
    BY <2>2, <2>3 DEF NamedIsLive
  <2>4. CASE ~ends
    BY <1>1, <2>1, <2>2, <2>4 DEF NamedIsLive, TypeOK
  <2> QED
    BY <2>3, <2>4
<1>4. CASE UNCHANGED <<live, current>>
  BY <1>4 DEF NamedIsLive
<1>5. ASSUME NEW l \in Player, NEW q \in Player,
             Talk(l) \/ Finish(l) \/ Register(l, q) \/ Skip(l, q) \/ Reset(l)
      PROVE  UNCHANGED <<live, current>>
  BY <1>5 DEF Talk, Finish, Register, Skip, Reset
<1> QED
  BY <1>2, <1>3, <1>4, <1>5, Steps DEF Elsewhere

\* Whatever handler of a sound script gives the property back disposes as well.
LEMMA SoundReset ==
  ASSUME TypeOK, Sound(script), NEW h \in HandlersOf(script), NEW e \in Inst, NEW p \in Player
  PROVE  Reopens(Taken(h, e, p), Ends(Taken(h, e, p), e, p)) => Ends(Taken(h, e, p), e, p)
<1> DEFINE g == Taken(h, e, p)
<1>1. h \in Handler /\ g \in Handler
  BY HandlersType, HandlerTypes
<1>2. ~script.changed.orExit
  BY Typed DEF TypeOK
<1>3. g.reset = "always" => g.most >= 100
  <2>1. CASE h = script.changed
    BY <1>2, <2>1 DEF Taken, Sound, SendsOut
  <2>2. CASE h = Lost
    BY <2>2 DEF Taken, Lost
  <2>3. CASE h \in {script.left, script.disband, script.clear, script.timeout, script.dead,
                    script.slain, script.asked}
    <3>1. Tame(h)
      BY <2>3, TameHandlers DEF Sound
    <3> QED
      BY <3>1 DEF Taken, Tame, Clears
  <2> QED
    BY <2>1, <2>2, <2>3 DEF HandlersOf
<1>4. g.most >= 100 => Ends(g, e, p)
  BY <1>1, Bounds
<1> HIDE DEF g
<1> QED
  BY <1>3, <1>4 DEF Reopens, g

LEMMA GrantsKept ==
  ASSUME Listed, OneLive, NoneLive, OneEntrance, Belongs, ~Overlap, Sound(script),
         Tends(script) => Tended, [Next]_vars
  PROVE  OneLive' /\ NoneLive'
<1>1. TypeOK /\ Agree /\ OutMeansFree /\ None \notin Inst
  BY Typed DEF Listed, Agreement, Sound
<1>2. script' = script
  BY ScriptKept
<1>3. ASSUME NEW l \in Player, Talk(l) PROVE OneLive' /\ NoneLive'
  <2>1. \A q \in Player : Free(q)
    BY <1>3 DEF Talk
  <2>2. (flag = "open" /\ script.gates = {"flag"}) \/ current = None
    BY <1>3 DEF Talk, Gate, Sound
  <2>3. \A e \in Inst : ~Entering(e)
    BY <2>1 DEF Entering, Free
  <2>4. \A e \in Inst : ~live[e]
    BY <1>1, <2>2, <2>3 DEF OneLive, Shut
  <2>5. live' = live
    BY <1>3 DEF Talk
  <2> QED
    BY <2>4, <2>5 DEF OneLive, NoneLive
<1>4. ASSUME NEW l \in Player, NEW e \in Inst, Setup(l, e) PROVE OneLive' /\ NoneLive'
  <2>1. /\ entry[l].step = "checked" /\ current' = e
        /\ live' = [live EXCEPT ![e] = TRUE]
        /\ script.closes = "setup" => flag' = "closed"
        /\ entry' = [entry EXCEPT ![l] =
                       IF script.mapped
                       THEN [step |-> "entering", run |-> e, left |-> Group(l)]
                       ELSE Idle]
    BY <1>4 DEF Setup
  <2>2. \A x \in Inst : live'[x] => x = e
    BY <1>1, <2>1 DEF NoneLive, TypeOK
  <2>3. script.mapped => Entering(e)'
    BY <1>1, <2>1 DEF Entering, TypeOK
  <2>4. Shut(e)'
    BY <1>2, <2>1, <2>3 DEF Shut, Sound
  <2>5. \A q \in Player : q # l => Free(q)
    BY <2>1 DEF OneEntrance, Free
  <2>6. \A q \in Player : entry'[q].step # "checked"
    BY <1>1, <2>1, <2>5 DEF Free, TypeOK
  <2> QED
    BY <2>1, <2>2, <2>4, <2>6 DEF OneLive, NoneLive
<1>5. ASSUME NEW l \in Player, NEW q \in Player, Register(l, q) \/ Skip(l, q)
      PROVE  OneLive' /\ NoneLive'
  <2>1. /\ UNCHANGED <<live, current, flag>> /\ entry[l] \in Entry
        /\ entry' = [entry EXCEPT ![l] = [entry[l] EXCEPT !.left = @ \ {q}]]
    BY <1>1, <1>5 DEF Register, Skip, TypeOK
  <2>2. \A k \in Player : entry'[k].step = entry[k].step /\ entry'[k].run = entry[k].run
    BY <1>1, <2>1 DEF TypeOK
  <2>3. \A x \in Inst : Shut(x) => Shut(x)'
    BY <1>2, <2>1, <2>2 DEF Shut, Entering
  <2> QED
    BY <2>1, <2>2, <2>3 DEF OneLive, NoneLive
<1>6. ASSUME NEW l \in Player, Finish(l) PROVE OneLive' /\ NoneLive'
  <2>1. /\ UNCHANGED <<live, current>> /\ entry' = [entry EXCEPT ![l] = Idle]
        /\ flag' = IF script.closes = "after" THEN "closed" ELSE flag
    BY <1>6 DEF Finish
  <2>2. \A x \in Inst : Shut(x) => Shut(x)'
    BY <1>2, <2>1 DEF Shut
  <2>3. \A k \in Player : entry'[k].step = "checked" => entry[k].step = "checked"
    BY <1>1, <2>1 DEF TypeOK
  <2> QED
    BY <2>1, <2>2, <2>3 DEF OneLive, NoneLive
<1>7. CASE Handled
  <2>1. PICK h \in HandlersOf(script), e \in Inst, p \in Player :
          live[e] /\ Run(h, e, p) /\ entry' = entry
    BY <1>7 DEF Handled
  <2> DEFINE g == Taken(h, e, p)  ends == Ends(g, e, p)
  <2>2. /\ ends \in BOOLEAN
        /\ live' = [live EXCEPT ![e] = ~ends]
        /\ current' = IF ends THEN None ELSE current
        /\ flag' = IF Reopens(g, ends) THEN "open" ELSE flag
    BY <1>1, <2>1, HandlerEffect
  <2>3. Reopens(g, ends) => ends
    BY <1>1, SoundReset
  <2> HIDE DEF g, ends
  <2>4. \A x \in Inst : live'[x] => live[x] /\ x = e /\ ~ends
    BY <1>1, <2>1, <2>2 DEF OneLive, TypeOK
  <2>5. ~ends => current' = current /\ flag' = flag
    BY <2>2, <2>3
  <2>6. \A x \in Inst : Shut(x) /\ flag' = flag => Shut(x)'
    BY <1>2, <2>1 DEF Shut, Entering
  <2> QED
    BY <2>1, <2>4, <2>5, <2>6 DEF OneLive, NoneLive
<1>8. ASSUME NEW p \in Player, Reset(p) PROVE OneLive' /\ NoneLive'
  <2>1. /\ script.byHand /\ UNCHANGED <<live, current, chars, inst, at, entry>>
        /\ \A q \in Player : ~Inside(q)
    BY <1>8 DEF Reset
  <2>2. \A x \in Inst : chars[x] = {}
    BY <1>1, <2>1 DEF Agree, OutMeansFree, Playing, TypeOK
  <2>3. \A x \in Inst : live[x] /\ Tends(script) => Entering(x)
    BY <2>2 DEF Tended, Letting, Entering
  <2>4. \A x \in Inst : live[x] => Shut(x)'
    BY <1>2, <2>1, <2>3 DEF Sound, Shut, Entering
  <2> QED
    BY <2>1, <2>4 DEF OneLive, NoneLive
<1>9. CASE Elsewhere
  BY <1>2, <1>9 DEF Elsewhere, OneLive, NoneLive, Shut, Entering
<1> QED
  BY <1>3, <1>4, <1>5, <1>6, <1>7, <1>8, <1>9, Steps

LEMMA GrantedKept ==
  Listed /\ Belonging /\ Entrances /\ Tending /\ Granted /\ [Next]_vars => Granted'
BY GrantsKept, ScriptKept DEF Granted, Belonging, Entrances, Tending, Sound

----
(***************************************************************************)
(* The scripts of the repository                                           *)
(***************************************************************************)

\* What an entrance that reads what the event closes has to come with.
GuardedWell(s) ==
  Guards(s) => /\ ~s.byMap
               /\ \/ s.gates = {"instance"}
                  \/ s.gates = {"flag"} /\ s.closes = "setup" /\ ~s.byHand
                  \/ s = LudiPQ

LEMMA GuardedLoaded == \A s \in Loaded : GuardedWell(s)
<1> USE DEF From, Together, NoGate, FlagGate, HeadsGate, Base, Started, Stated, Kept,
            Guards, GuardedWell
<1>1. GuardedWell(Relic)
  BY DEF Relic, npc_9040002
<1>2. GuardedWell(FireDemon)
  BY DEF FireDemon, npc_2030008
<1>3. GuardedWell(ElementThanatos)
  BY DEF ElementThanatos, npc_2041023
<1>4. GuardedWell(s_4jberserk)
  BY DEF s_4jberserk, s4berserk
<1>5. GuardedWell(s_4jrush)
  BY DEF s_4jrush, s4rush
<1>6. GuardedWell(s4nest)
  BY DEF s4nest, s4nest_in
<1>7. GuardedWell(KyrinTrainingGroundC)
  BY DEF KyrinTrainingGroundC, npc_1090000
<1>8. GuardedWell(KyrinTrainingGroundV)
  BY DEF KyrinTrainingGroundV, npc_1090000
<1>9. GuardedWell(s4resurrection)
  BY DEF s4resurrection, s4resurrection_in
<1>10. GuardedWell(s4resurrection2)
  BY DEF s4resurrection2, s4resur_enter
<1>11. GuardedWell(s4aWorld)
  BY DEF s4aWorld, npc_1061012
<1>12. GuardedWell(ZakumPQ)
  BY DEF ZakumPQ, npc_2030008
<1>13. GuardedWell(WuGongPQ)
  BY DEF WuGongPQ, npc_9310006
<1>14. GuardedWell(shaoling)
  BY DEF shaoling, npc_9310039
<1>15. GuardedWell(QiajiPQ)
  BY DEF QiajiPQ, npc_2120002
<1>16. GuardedWell(LudiPQ)
  BY DEF LudiPQ, npc_2040034
<1>17. GuardedWell(HenesysPQ)
  BY DEF HenesysPQ, npc_1012112, npc_2030006_1
<1>18. GuardedWell(OrbisPQ)
  BY DEF OrbisPQ, npc_2013000
<1>19. GuardedWell(Romeo)
  BY DEF Romeo, npc_2112004
<1>20. GuardedWell(Juliet)
  BY DEF Juliet, npc_2112003
<1>21. GuardedWell(Pirate)
  BY DEF Pirate, npc_2094000
<1>22. GuardedWell(Ellin)
  BY DEF Ellin, npc_2133000
<1>23. GuardedWell(MV)
  BY DEF MV, npc_9220018
<1>24. GuardedWell(ProtectTylus)
  BY DEF ProtectTylus, npc_2020008
<1>25. GuardedWell(KerningPQ)
  BY DEF KerningPQ, npc_9020000, npc_2030006_2
<1>26. GuardedWell(English)
  BY DEF English, npc_2030006_4
<1>27. GuardedWell(DollHouse)
  BY DEF DollHouse, npc_2040002
<1> QED
  BY <1>1, <1>2, <1>3, <1>4, <1>5, <1>6, <1>7, <1>8, <1>9, <1>10, <1>11, <1>12, <1>13,
     <1>14, <1>15, <1>16, <1>17, <1>18, <1>19, <1>20, <1>21, <1>22, <1>23, <1>24,
     <1>25, <1>26, <1>27
  DEF Loaded

\* The bodies of the scripts' handlers end what they empty, but for SendOut.
LEMMA Bodies ==
  /\ \A r : EndsEmpty(Unregister(r)) /\ ~Unregister(r).orExit
  /\ \A r : EndsEmpty(EndAll(r)) /\ ~EndAll(r).orExit
  /\ EndsEmpty(Nothing) /\ ~Nothing.orExit
  /\ EndsEmpty(Lost) /\ ~Lost.orExit
  /\ SendOut.out = "one" /\ ~SendOut.orExit
  /\ \A n, r : EndOrExit(n, r).orExit /\ EndOrExit(n, r).out = "none" /\ EndOrExit(n, r).most = n
BY DEF EndsEmpty, Unregister, EndAll, Nothing, SendOut, EndOrExit, Lost

LEMMA LudiTends == Tends(LudiPQ) /\ LudiPQ.closes = "after" /\ LudiPQ.gates = {"flag"}
BY Bodies DEF Tends, HandlersOf, Minds, LudiPQ, npc_2040034, FlagGate, From, Stated, Started, Base

\* Every script whose entrance guards and whose handlers send everyone out is sound.
LEMMA LoadedSound == \A s \in Loaded : Guards(s) /\ SendsOut(s) => Sound(s)
BY GuardedLoaded, LudiTends DEF GuardedWell, Sound, Tends

\* The bodies that warp out whomever they take out.
LEMMA ClearingBodies ==
  /\ Clears(Nothing) /\ ~Nothing.orExit /\ Clears(SendOut) /\ ~SendOut.orExit
  /\ \A r \in {"if", "always", "never"} : Clears(EndAll(r)) /\ ~EndAll(r).orExit
  /\ \A n \in Int, r \in {"if", "never"} : Clears(EndOrExit(n, r))
  /\ \A r \in {"if", "never"} : Unregister(r).most = 0 /\ Unregister(r).reset = r
BY DEF Clears, Nothing, SendOut, EndAll, EndOrExit, Unregister

\* The events of the repository whose entrance guards and whose handlers send out
\* everyone they take out.
Promising == {s4resurrection, s4resurrection2, s4aWorld, WuGongPQ, shaoling, QiajiPQ,
              OrbisPQ, Pirate, ProtectTylus, LudiPQ, English}

LEMMA PromisingScripts ==
  \A s \in Promising : s \in Loaded /\ Guards(s) /\ SendsOut(s)
<1> DEFINE Promises(s) == Guards(s) /\ SendsOut(s)
<1> USE ClearingBodies DEF From, Together, FlagGate, Base, Started, Stated, Kept, Guards, SendsOut
<1>1. Promises(s4resurrection)
  BY DEF s4resurrection, s4resurrection_in
<1>2. Promises(s4resurrection2)
  BY DEF s4resurrection2, s4resur_enter
<1>3. Promises(s4aWorld)
  BY DEF s4aWorld, npc_1061012
<1>4. Promises(WuGongPQ)
  BY DEF WuGongPQ, npc_9310006
<1>5. Promises(shaoling)
  BY DEF shaoling, npc_9310039
<1>6. Promises(QiajiPQ)
  BY DEF QiajiPQ, npc_2120002
<1>7. Promises(OrbisPQ)
  BY DEF OrbisPQ, npc_2013000
<1>8. Promises(Pirate)
  BY DEF Pirate, npc_2094000
<1>9. Promises(ProtectTylus)
  BY DEF ProtectTylus, npc_2020008
<1>10. Promises(LudiPQ)
  BY DEF LudiPQ, npc_2040034
<1>11. Promises(English)
  <2>1. English.changed.eject /\ English.changed.reset = "never"
    BY DEF English, Unregister, Nothing
  <2>2. Clears(English.exit)
    <3>1. English.exit = [SendOut EXCEPT !.most = 2, !.eject = TRUE]
      BY DEF English
    <3>2. Clears([SendOut EXCEPT !.most = 2, !.eject = TRUE])
      BY DEF SendOut, Nothing, Clears
    <3> QED
      BY <3>1, <3>2
  <2>3. Clears(English.left)
    BY DEF English
  <2> QED
    BY <2>1, <2>2, <2>3 DEF English, npc_2030006_4
<1> HIDE DEF Promises
<1>12. \A s \in Promising : Promises(s)
  BY <1>1, <1>2, <1>3, <1>4, <1>5, <1>6, <1>7, <1>8, <1>9, <1>10, <1>11 DEF Promising
<1>13. \A s \in Promising : s \in Loaded
  BY DEF Promising, Loaded
<1> QED
  BY <1>12, <1>13 DEF Promises

\* Every script whose property disposal gives back looks after its instances.
TendsWhenReturned(s) == Returns(s) /\ "hall" \in s.inside => Tends(s) /\ s.closes # "after"

LEMMA LoadedTends == \A s \in Loaded : TendsWhenReturned(s)
<1> USE Bodies DEF From, Together, Base, Started, Stated, Kept, Tends, HandlersOf, Minds,
                   Returns, TendsWhenReturned
<1>1. TendsWhenReturned(Relic)
  BY DEF Relic
<1>2. TendsWhenReturned(FireDemon)
  BY DEF FireDemon
<1>3. TendsWhenReturned(ElementThanatos)
  BY DEF ElementThanatos
<1>4. TendsWhenReturned(s_4jberserk)
  BY DEF s_4jberserk
<1>5. TendsWhenReturned(s_4jrush)
  BY DEF s_4jrush
<1>6. TendsWhenReturned(s4nest)
  BY DEF s4nest
<1>7. TendsWhenReturned(KyrinTrainingGroundC)
  BY DEF KyrinTrainingGroundC
<1>8. TendsWhenReturned(KyrinTrainingGroundV)
  BY DEF KyrinTrainingGroundV
<1>9. TendsWhenReturned(s4resurrection)
  BY DEF s4resurrection
<1>10. TendsWhenReturned(s4resurrection2)
  BY DEF s4resurrection2
<1>11. TendsWhenReturned(s4aWorld)
  BY DEF s4aWorld
<1>12. TendsWhenReturned(ZakumPQ)
  BY DEF ZakumPQ
<1>13. TendsWhenReturned(WuGongPQ)
  BY DEF WuGongPQ
<1>14. TendsWhenReturned(shaoling)
  BY DEF shaoling
<1>15. TendsWhenReturned(QiajiPQ)
  BY DEF QiajiPQ
<1>16. TendsWhenReturned(LudiPQ)
  BY DEF LudiPQ
<1>17. TendsWhenReturned(HenesysPQ)
  BY DEF HenesysPQ
<1>18. TendsWhenReturned(OrbisPQ)
  BY DEF OrbisPQ
<1>19. TendsWhenReturned(Romeo)
  BY DEF Romeo
<1>20. TendsWhenReturned(Juliet)
  BY DEF Juliet
<1>21. TendsWhenReturned(Pirate)
  BY DEF Pirate
<1>22. TendsWhenReturned(Ellin)
  BY DEF Ellin
<1>23. TendsWhenReturned(MV)
  BY DEF MV
<1>24. TendsWhenReturned(ProtectTylus)
  BY DEF ProtectTylus
<1>25. TendsWhenReturned(KerningPQ)
  <2>1. KerningPQ.timeout.most = -1
    BY DEF KerningPQ, Nothing
  <2> QED
    BY <2>1
<1>26. TendsWhenReturned(English)
  BY DEF English
<1>27. TendsWhenReturned(DollHouse)
  BY DEF DollHouse
<1> HIDE DEF TendsWhenReturned
<1> QED
  BY <1>1, <1>2, <1>3, <1>4, <1>5, <1>6, <1>7, <1>8, <1>9, <1>10, <1>11, <1>12, <1>13,
     <1>14, <1>15, <1>16, <1>17, <1>18, <1>19, <1>20, <1>21, <1>22, <1>23, <1>24,
     <1>25, <1>26, <1>27
  DEF Loaded

----
(***************************************************************************)
(* The theorems. Overlap is assumed away: two entrances that are used at   *)
(* once both find the property open (the properties are false then).       *)
(***************************************************************************)

\* What disposal gives back is open unless there is an instance to dispose.
ClosedIsLive == Returns(script) /\ script.closes # "after" /\ flag = "closed" =>
                  \E e \in Inst : live[e]

LEMMA ClosedKept == Listed /\ ClosedIsLive /\ [Next]_vars => ClosedIsLive'
<1> SUFFICES ASSUME Listed, ClosedIsLive, [Next]_vars,
                    Returns(script), script.closes # "after", flag' = "closed"
             PROVE  \E e \in Inst : live'[e]
  BY ScriptKept DEF ClosedIsLive
<1>1. TypeOK
  BY DEF Listed
<1>2. CASE \E l \in Player, e \in Inst : Setup(l, e)
  BY <1>1, <1>2 DEF Setup, TypeOK
<1>3. CASE Handled
  <2>1. PICK h \in HandlersOf(script), e \in Inst, p \in Player : live[e] /\ Run(h, e, p)
    BY <1>3 DEF Handled
  <2> DEFINE g == Taken(h, e, p)  ends == Ends(g, e, p)
  <2>2. /\ ends \in BOOLEAN
        /\ live' = [live EXCEPT ![e] = ~ends]
        /\ flag' = IF Reopens(g, ends) THEN "open" ELSE flag
    BY <1>1, <2>1, HandlerEffect
  <2>3. ends => Reopens(g, ends)
    BY DEF Reopens, Returns
  <2> HIDE DEF g, ends
  <2> QED
    BY <1>1, <2>1, <2>2, <2>3 DEF TypeOK
<1>4. ASSUME NEW l \in Player, NEW q \in Player,
             Talk(l) \/ Finish(l) \/ Register(l, q) \/ Skip(l, q) \/ Reset(l) \/ Elsewhere
      PROVE  live' = live /\ flag = "closed"
  BY <1>4 DEF Talk, Finish, Register, Skip, Reset, Elsewhere
<1> QED
  BY <1>2, <1>3, <1>4, Steps DEF Elsewhere, ClosedIsLive

\* The inductive invariant.
RoomInv == /\ Listed /\ Belonging /\ Entrances /\ Tending /\ Granted
         /\ NamedIsLive /\ ClosedIsLive

LEMMA RoomInvAtFirst == Init => RoomInv
<1> SUFFICES ASSUME Init PROVE RoomInv
  OBVIOUS
<1>1. Listed /\ Belonging
  BY ListedAtFirst, BelongingAtFirst
<1>2. Entrances
  BY DEF Init, Entrances, OneEntrance, Waits, Free
<1>3. Tending /\ Granted
  BY DEF Init, Tending, Tended, Granted, OneLive, NoneLive
<1>4. NamedIsLive /\ ClosedIsLive
  BY DEF Init, NamedIsLive, ClosedIsLive
<1> QED
  BY <1>1, <1>2, <1>3, <1>4 DEF RoomInv

LEMMA RoomInvKept == RoomInv /\ [Next]_vars => RoomInv'
BY ListedKept, BelongingKept, EntrancesKept, TendingKept, GrantedKept, NamedKept, ClosedKept
DEF RoomInv

\* With the scripts of the repository, one entrance at a time: an instance that has
\* players is the one EventManager finds under the event's name.
THEOREM NameFindsThePlayers ==
  ASSUME Scripts \subseteq Loaded, ~Overlap
  PROVE  Spec => []KnownByName
<1>1. RoomInv => KnownByName
  <2> SUFFICES ASSUME RoomInv, Guards(script), SendsOut(script),
                      NEW e \in Inst, NEW p \in chars[e]
               PROVE  current = e
    BY DEF KnownByName
  <2>1. TypeOK /\ script \in Loaded
    BY DEF RoomInv, Listed, TypeOK
  <2>2. OneLive /\ ~script.byMap
    BY <2>1, LoadedSound DEF RoomInv, Granted, Sound
  <2>3. live[e]
    BY <2>1, <2>2 DEF RoomInv, Listed, Agreement, Agree, Playing, TypeOK
  <2> QED
    BY <2>2, <2>3 DEF OneLive
<1> QED
  BY <1>1, RoomInvAtFirst, RoomInvKept, PTL DEF Spec

\* With the scripts of the repository, one entrance at a time: everyone in the rooms
\* came in with the same run.
THEOREM OneRunAtATime ==
  ASSUME Scripts \subseteq Loaded, ~Overlap
  PROVE  Spec => []OneRunInside
<1>1. RoomInv => OneRunInside
  <2> SUFFICES ASSUME RoomInv, Guards(script), SendsOut(script) PROVE OneRunInside
    BY DEF OneRunInside
  <2>1. TypeOK /\ script \in Loaded
    BY DEF RoomInv, Listed, TypeOK
  <2>2. OneLive /\ Belongs
    BY <2>1, LoadedSound DEF RoomInv, Granted, Belonging
  <2>3. \A p \in Player : Inside(p) => came[p] = current
    BY <2>1, <2>2 DEF OneLive, Belongs, Playing, TypeOK
  <2> QED
    BY <2>3 DEF OneRunInside
<1> QED
  BY <1>1, RoomInvAtFirst, RoomInvKept, PTL DEF Spec

\* With the scripts of the repository, one entrance at a time: while the property that
\* disposal gives back is closed, somebody plays or is being let in.
THEOREM ClosedEntranceIsUsed ==
  ASSUME Scripts \subseteq Loaded, ~Overlap
  PROVE  Spec => []ClosedIsUsed
<1>1. RoomInv => ClosedIsUsed
  <2> SUFFICES ASSUME RoomInv, Returns(script), "hall" \in script.inside, flag = "closed"
               PROVE  \E p \in Player : Inside(p) \/ entry[p].step # "idle"
    BY DEF ClosedIsUsed
  <2>1. TypeOK /\ script \in Loaded
    BY DEF RoomInv, Listed, TypeOK
  <2>2. Tends(script) /\ script.closes # "after"
    BY <2>1, LoadedTends DEF TendsWhenReturned
  <2>3. PICK e \in Inst : live[e]
    BY <2>2 DEF RoomInv, ClosedIsLive
  <2>4. CASE \E l \in Player : Letting(l, e)
    BY <2>4 DEF Letting
  <2>5. CASE chars[e] # {}
    <3>1. PICK p \in Player : p \in chars[e]
      BY <2>1, <2>5 DEF TypeOK
    <3>2. Inside(p)
      BY <2>2, <3>1 DEF RoomInv, Listed, Agreement, Agree, OutMeansFree, Playing, Tends
    <3> QED
      BY <3>2
  <2> QED
    BY <2>2, <2>3, <2>4, <2>5 DEF RoomInv, Tending, Tended
<1> QED
  BY <1>1, RoomInvAtFirst, RoomInvKept, PTL DEF Spec

----
(* The refinement of EventRoom *)

Guests == {p \in Player : Inside(p)}

\* Of a promised event every step gives the rooms, lets one player in, lets players
\* go, or takes the rooms back from nobody.
LEMMA RoomStep ==
  ASSUME RoomInv, RoomInv', ~Overlap, Sound(script), [Next]_vars
  PROVE  \/ /\ current = None /\ Guests = {} /\ current' \in Inst /\ Guests' = {}
         \/ /\ current # None /\ current' = current
            /\ \E p \in Player : p \notin Guests /\ Guests' = Guests \cup {p}
         \/ current' = current /\ Guests' \subseteq Guests
         \/ current # None /\ current' = None /\ Guests' = {}
<1>1. TypeOK /\ TypeOK' /\ script' = script /\ None \notin Inst
  BY Typed, ScriptKept DEF RoomInv, Listed
<1>2. OneLive /\ NoneLive /\ Belongs /\ OneLive' /\ Belongs'
  BY <1>1 DEF RoomInv, Granted, Belonging, Sound
<1>3. CASE \E l \in Player, e \in Inst : Setup(l, e)
  <2>1. PICK l \in Player, e \in Inst : Setup(l, e)
    BY <1>3
  <2>2. \A x \in Inst : ~live[x]
    BY <1>2, <2>1 DEF Setup, NoneLive
  <2>3. current = None
    BY <1>1, <2>2 DEF RoomInv, NamedIsLive, TypeOK
  <2>4. Guests = {}
    BY <1>1, <1>2, <2>2 DEF Guests, Belongs, Playing, TypeOK
  <2>5. current' = e /\ Guests' = Guests
    BY <2>1 DEF Setup, Guests, Inside
  <2> QED
    BY <2>3, <2>4, <2>5
<1>4. CASE \E l, q \in Player : Register(l, q)
  <2>1. PICK l \in Player, q \in Player : Register(l, q)
    BY <1>4
  <2>2. entry[l].run \in Inst /\ live[entry[l].run]
    BY <1>1, <2>1 DEF Register, TypeOK
  <2>3. current # None
    BY <1>1, <1>2, <2>2 DEF OneLive
  <2>4. current' = current /\ at[q] = "out" /\ at' = [at EXCEPT ![q] = "hall"]
    BY <2>1 DEF Register
  <2>5. q \notin Guests /\ Guests' = Guests \cup {q}
    BY <1>1, <2>4 DEF Guests, Inside, TypeOK
  <2> QED
    BY <2>3, <2>4, <2>5
<1>5. CASE ~\E l, q \in Player : Register(l, q)
  <2>1. Guests' \subseteq Guests
    BY <1>1, <1>5, WaysIn DEF Guests
  <2>2. CASE Handled
    <3>1. PICK h \in HandlersOf(script), e \in Inst, p \in Player : live[e] /\ Run(h, e, p)
      BY <2>2 DEF Handled
    <3>2. current = e /\ e # None
      BY <1>1, <1>2, <3>1 DEF OneLive
    <3>3. current' \in {None, current}
      BY <1>1, <3>1, HandlerEffect
    <3>4. ASSUME current' = None PROVE Guests' = {}
      <4>1. \A x \in Inst : ~live'[x]
        BY <1>1, <1>2, <3>4 DEF OneLive
      <4> QED
        BY <1>1, <1>2, <4>1 DEF Guests, Belongs, Playing, TypeOK
    <3> QED
      BY <2>1, <3>2, <3>3, <3>4
  <2>3. ASSUME NEW l \in Player, NEW q \in Player,
               Talk(l) \/ Finish(l) \/ Skip(l, q) \/ Reset(l) \/ Elsewhere
        PROVE  current' = current
    BY <2>3 DEF Talk, Finish, Skip, Reset, Elsewhere
  <2>4. current' = current \/ Handled \/ \E l \in Player, e \in Inst : Setup(l, e)
    BY <1>5, <2>3, Steps DEF RoomInv, Elsewhere
  <2> QED
    BY <1>3, <2>1, <2>2, <2>4
<1> QED
  BY <1>4, <1>5

\* What the last theorems say of scripts that promise something, without the condition:
\* the run in the rooms is the one known by name, and everyone inside is in it.
OneRunHasTheRooms ==
  /\ \A e \in Inst : chars[e] # {} => current = e
  /\ \A p, q \in Player : Inside(p) /\ Inside(q) => came[p] = came[q]
  /\ \A p \in Player : Inside(p) => Playing(p, inst[p])

\* Of the eleven events whose scripts promise their rooms, each keeps them for one run:
\* while parties start, leave, dissolve, die, disconnect and time out, everyone inside
\* belongs to the run that EventManager has under the event's name.
THEOREM ElevenKeepTheirRooms ==
  ASSUME Scripts \subseteq Promising, ~Overlap
  PROVE  Spec => []OneRunHasTheRooms
<1>1. Scripts \subseteq Loaded
  BY PromisingScripts
<1>2. TypeOK /\ KnownByName /\ OneRunInside /\ InsideBelongs => OneRunHasTheRooms
  BY PromisingScripts DEF TypeOK, KnownByName, OneRunInside, InsideBelongs, OneRunHasTheRooms
<1>3. Spec => []KnownByName
  BY <1>1, NameFindsThePlayers
<1>4. Spec => []OneRunInside
  BY <1>1, OneRunAtATime
<1> QED
  BY <1>2, <1>3, <1>4, EventTypes, BelongInside, PTL

LEMMA RoomAtFirst == Init => Room!Init
BY DEF Init, Room!Init, Inside

LEMMA RoomKept ==
  ASSUME RoomInv, RoomInv', ~Overlap, Scripts \subseteq Loaded, [Next]_vars
  PROVE  [Room!Next]_(Room!room)
<1>1. script' = script /\ TypeOK
  BY ScriptKept DEF RoomInv, Listed
<1>2. CASE ~Promised
  BY <1>1, <1>2 DEF Promised, Room!room
<1>3. CASE Promised
  <2>1. Promised'
    BY <1>1, <1>3 DEF Promised
  <2>2. Sound(script)
    BY <1>1, <1>3, LoadedSound DEF Promised, TypeOK
  <2> DEFINE holder == IF Promised THEN current ELSE None
             guests == IF Promised THEN Guests ELSE {}
  <2>3. holder = current /\ holder' = current' /\ guests = Guests /\ guests' = Guests'
    BY <1>3, <2>1
  <2> HIDE DEF holder, guests
  <2>4. \/ \E r \in Inst : /\ holder = None /\ guests = {}
                           /\ holder' = r /\ guests' = guests
        \/ \E p \in Player : /\ holder # None /\ p \notin guests
                             /\ guests' = guests \cup {p} /\ holder' = holder
        \/ \E out \in SUBSET guests : guests' = guests \ out /\ holder' = holder
        \/ holder # None /\ holder' = None /\ guests' = {}
    <3>1. CASE Guests' \subseteq Guests /\ current' = current
      <4>1. guests' = guests \ (guests \ guests') /\ guests \ guests' \in SUBSET guests
        BY <2>3, <3>1
      <4> QED
        BY <2>3, <3>1, <4>1
    <3>2. CASE ~(Guests' \subseteq Guests /\ current' = current)
      <4>1. \/ /\ current = None /\ Guests = {} /\ current' \in Inst /\ Guests' = {}
            \/ /\ current # None /\ current' = current
               /\ \E p \in Player : p \notin Guests /\ Guests' = Guests \cup {p}
            \/ current # None /\ current' = None /\ Guests' = {}
        BY <2>2, <3>2, RoomStep
      <4> QED
        BY <2>3, <4>1
    <3> QED
      BY <3>1, <3>2
  <2> QED
    BY <2>4 DEF Room!Next, Room!Give, Room!Enter, Room!Go, Room!TakeBack, holder, guests, Guests
<1> QED
  BY <1>2, <1>3

\* With the scripts of the repository, one entrance at a time, event instances
\* implement EventRoom: one run at a time, and the rooms empty when it is over.
THEOREM RoomRefinement ==
  ASSUME Scripts \subseteq Loaded, ~Overlap
  PROVE  Spec => KeepsTheRoom
<1>1. RoomInv /\ RoomInv' /\ [Next]_vars => [Room!Next]_(Room!room)
  BY RoomKept
<1> QED
  BY <1>1, RoomAtFirst, RoomInvAtFirst, RoomInvKept, PTL DEF Spec, KeepsTheRoom, Room!Spec
====
