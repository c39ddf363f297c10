---------------------------- MODULE PartyProofs ----------------------------
(***************************************************************************)
(* Proofs about Party, for any number of characters, channels and parties. *)
(***************************************************************************)
EXTENDS Party, SequenceTheorems, TLAPS

EntrySet == [chr : Char, online : BOOLEAN]

Roster == Seq(EntrySet)

-----------------------------------------------------------------------------
(* What the helpers on member lists keep.                                  *)

(* RemoveAt drops one entry and moves the later ones up.                   *)
LEMMA RemoveAtEntries ==
    ASSUME NEW S, NEW list \in Seq(S), NEW i \in 1..Len(list)
    PROVE  /\ RemoveAt(list, i) \in Seq(S)
           /\ Len(RemoveAt(list, i)) = Len(list) - 1
           /\ \A k \in 1..(Len(list) - 1) :
                 RemoveAt(list, i)[k] = IF k < i THEN list[k] ELSE list[k + 1]
  <1> DEFINE front == SubSeq(list, 1, i - 1)
             back  == SubSeq(list, i + 1, Len(list))
  <1>1. Len(list) \in Nat /\ \A k \in 1..Len(list) : list[k] \in S
    BY LenProperties, ElementOfSeq
  <1>2. /\ front \in Seq(S) /\ Len(front) = i - 1
        /\ \A k \in 1..(i - 1) : front[k] = list[k]
    BY <1>1, SubSeqProperties
  <1>3. /\ back \in Seq(S) /\ Len(back) = Len(list) - i
        /\ \A k \in 1..(Len(list) - i) : back[k] = list[i + k]
    <2>1. /\ back \in Seq(S)
          /\ Len(back) = IF i + 1 <= Len(list) THEN Len(list) - (i + 1) + 1 ELSE 0
          /\ \A k \in 1..(Len(list) - (i + 1) + 1) : back[k] = list[i + 1 + k - 1]
      BY <1>1, SubSeqProperties
    <2> QED BY <2>1, <1>1
  <1>4. /\ front \o back \in Seq(S)
        /\ Len(front \o back) = Len(front) + Len(back)
        /\ \A k \in 1..(Len(front) + Len(back)) :
              (front \o back)[k] = IF k <= Len(front) THEN front[k] ELSE back[k - Len(front)]
    BY <1>2, <1>3, ConcatProperties
  <1> HIDE DEF front, back
  <1>5. \A k \in 1..(Len(list) - 1) :
           (front \o back)[k] = IF k < i THEN list[k] ELSE list[k + 1]
    <2> TAKE k \in 1..(Len(list) - 1)
    <2>1. CASE k < i
      BY <2>1, <1>1, <1>2, <1>3, <1>4
    <2>2. CASE ~(k < i)
      <3>1. (front \o back)[k] = back[k - (i - 1)]
        BY <2>2, <1>1, <1>2, <1>3, <1>4
      <3>2. k - (i - 1) \in 1..(Len(list) - i) /\ i + (k - (i - 1)) = k + 1
        BY <2>2, <1>1
      <3> QED BY <3>1, <3>2, <2>2, <1>3
    <2> QED BY <2>1, <2>2
  <1>6. RemoveAt(list, i) = front \o back
    BY DEF RemoveAt, front, back
  <1>7. Len(front) + Len(back) = Len(list) - 1
    BY <1>1, <1>2, <1>3
  <1> QED BY <1>4, <1>5, <1>6, <1>7

(* A member list without one entry of c.                                   *)
LEMMA RemoveMember ==
    ASSUME NEW list \in Roster, NEW c \in Char, NEW new \in removeMember(list, c)
    PROVE  /\ new \in Roster
           /\ Len(new) <= Len(list)
           /\ Names(new) \subseteq Names(list)
           /\ \A d \in Names(list) : d # c => d \in Names(new)
           /\ \A k \in DOMAIN new : \E j \in DOMAIN list : new[k] = list[j]
  <1>0. Len(list) \in Nat /\ DOMAIN list = 1..Len(list)
    BY LenProperties DEF Roster
  <1>1. CASE c \notin Names(list)
    BY <1>0, <1>1 DEF removeMember
  <1>2. CASE c \in Names(list)
    <2>1. PICK i \in First(list, c) : new = RemoveAt(list, i)
      BY <1>2 DEF removeMember
    <2>2. i \in 1..Len(list) /\ list[i].chr = c
      BY <2>1, <1>0 DEF First
    <2>3. /\ new \in Roster /\ Len(new) = Len(list) - 1
          /\ \A k \in 1..(Len(list) - 1) : new[k] = IF k < i THEN list[k] ELSE list[k + 1]
      BY <2>1, <2>2, RemoveAtEntries DEF Roster
    <2>4. DOMAIN new = 1..(Len(list) - 1)
      BY <2>3, LenProperties DEF Roster
    <2>5. \A k \in DOMAIN new : \E j \in DOMAIN list : new[k] = list[j]
      <3> TAKE k \in DOMAIN new
      <3>1. k \in DOMAIN list /\ k + 1 \in DOMAIN list
        BY <2>4, <1>0
      <3> QED BY <3>1, <2>3, <2>4
    <2>6. Names(new) \subseteq Names(list)
      BY <2>5 DEF Names
    <2>7. \A d \in Names(list) : d # c => d \in Names(new)
      <3> SUFFICES ASSUME NEW d \in Names(list), d # c PROVE d \in Names(new)
        OBVIOUS
      <3>1. PICK j \in 1..Len(list) : list[j].chr = d
        BY <1>0 DEF Names
      <3>2. j # i
        BY <3>1, <2>2
      <3>3. CASE j < i
        <4>1. j \in 1..(Len(list) - 1) /\ new[j] = list[j]
          BY <3>3, <2>2, <2>3, <1>0
        <4> QED BY <4>1, <3>1, <2>4 DEF Names
      <3>4. CASE j > i
        <4>1. j - 1 \in 1..(Len(list) - 1) /\ new[j - 1] = list[j]
          BY <3>4, <2>2, <2>3, <1>0
        <4> QED BY <4>1, <3>1, <2>4 DEF Names
      <3> QED BY <3>2, <3>3, <3>4, <2>2, <1>0
    <2> QED BY <1>0, <2>3, <2>5, <2>6, <2>7
  <1> QED BY <1>1, <1>2

(* Rewriting the entries of a character keeps who is listed where.         *)
LEMMA UpdateKeeps ==
    ASSUME NEW lists \in [PartyId -> Roster], NEW p, NEW e \in EntrySet
    PROVE  /\ Update(lists, p, e) \in [PartyId -> Roster]
           /\ \A q \in PartyId :
                 /\ Len(Update(lists, p, e)[q]) = Len(lists[q])
                 /\ DOMAIN Update(lists, p, e)[q] = DOMAIN lists[q]
                 /\ Names(Update(lists, p, e)[q]) = Names(lists[q])
                 /\ \A i \in DOMAIN lists[q] :
                       Update(lists, p, e)[q][i] =
                          IF q = p /\ lists[q][i].chr = e.chr THEN e ELSE lists[q][i]
  <1> SUFFICES ASSUME NEW q \in PartyId
               PROVE  /\ Update(lists, p, e)[q] \in Roster
                      /\ Len(Update(lists, p, e)[q]) = Len(lists[q])
                      /\ DOMAIN Update(lists, p, e)[q] = DOMAIN lists[q]
                      /\ Names(Update(lists, p, e)[q]) = Names(lists[q])
                      /\ \A i \in DOMAIN lists[q] :
                            Update(lists, p, e)[q][i] =
                               IF q = p /\ lists[q][i].chr = e.chr THEN e ELSE lists[q][i]
    BY DEF Update
  <1>1. /\ lists[q] \in Roster /\ Len(lists[q]) \in Nat
        /\ DOMAIN lists[q] = 1..Len(lists[q])
        /\ \A i \in DOMAIN lists[q] : lists[q][i] \in EntrySet
    BY LenProperties, ElementOfSeq DEF Roster
  <1>2. CASE q # p
    BY <1>1, <1>2 DEF Update
  <1>3. CASE q = p
    <2> DEFINE new == [i \in 1..Len(lists[q]) |->
                          IF lists[q][i].chr = e.chr THEN e ELSE lists[q][i]]
    <2>1. Update(lists, p, e)[q] = new
      BY <1>1, <1>3 DEF Update, updateMember
    <2>2. new \in Roster /\ Len(new) = Len(lists[q]) /\ DOMAIN new = DOMAIN lists[q]
      <3>1. \A i \in 1..Len(lists[q]) : new[i] \in EntrySet
        BY <1>1
      <3> QED BY <3>1, <1>1, IsASeq, LenProperties DEF Roster
    <2>3. \A i \in DOMAIN lists[q] : new[i].chr = lists[q][i].chr
      BY <1>1
    <2>4. Names(new) = Names(lists[q])
      BY <2>2, <2>3 DEF Names
    <2> QED BY <1>1, <1>3, <2>1, <2>2, <2>4
  <1> QED BY <1>2, <1>3

LEMMA AppendKeeps ==
    ASSUME NEW list \in Roster, NEW e \in EntrySet
    PROVE  /\ Append(list, e) \in Roster
           /\ Len(Append(list, e)) = Len(list) + 1
           /\ Names(Append(list, e)) = Names(list) \cup {e.chr}
           /\ \A i \in 1..Len(list) : Append(list, e)[i] = list[i]
           /\ Append(list, e)[Len(list) + 1] = e
  <1>1. /\ Append(list, e) \in Roster /\ Len(Append(list, e)) = Len(list) + 1
        /\ \A i \in 1..Len(list) : Append(list, e)[i] = list[i]
        /\ Append(list, e)[Len(list) + 1] = e
    BY AppendProperties DEF Roster
  <1>2. /\ Len(list) \in Nat /\ DOMAIN list = 1..Len(list)
        /\ DOMAIN Append(list, e) = 1..(Len(list) + 1)
    BY <1>1, LenProperties DEF Roster
  <1>3. Names(Append(list, e)) \subseteq Names(list) \cup {e.chr}
    <2> SUFFICES ASSUME NEW i \in 1..(Len(list) + 1)
                 PROVE  Append(list, e)[i].chr \in Names(list) \cup {e.chr}
      BY <1>2 DEF Names
    <2>1. CASE i \in 1..Len(list)
      BY <2>1, <1>1, <1>2 DEF Names
    <2>2. CASE i = Len(list) + 1
      BY <2>2, <1>1
    <2> QED BY <2>1, <2>2, <1>2
  <1>4. Names(list) \cup {e.chr} \subseteq Names(Append(list, e))
    <2>1. \A i \in 1..Len(list) : list[i].chr \in Names(Append(list, e))
      BY <1>1, <1>2 DEF Names
    <2>2. e.chr \in Names(Append(list, e))
      BY <1>1, <1>2 DEF Names
    <2> QED BY <2>1, <2>2, <1>2 DEF Names
  <1> QED BY <1>1, <1>3, <1>4

LEMMA OneEntry ==
    ASSUME NEW e \in EntrySet
    PROVE  <<e>> \in Roster /\ Len(<<e>>) = 1 /\ Names(<<e>>) = {e.chr}
  <1>1. <<e>> \in Roster /\ Len(<<e>>) = 1 /\ <<e>>[1] = e
    BY DEF Roster
  <1>2. DOMAIN <<e>> = 1..1
    BY <1>1, LenProperties DEF Roster
  <1> QED BY <1>1, <1>2 DEF Names

LEMMA NoEntry == <<>> \in Roster /\ Len(<<>>) = 0 /\ Names(<<>>) = {}
  <1>1. <<>> \in Roster /\ Len(<<>>) = 0
    BY DEF Roster
  <1> QED BY <1>1, LenProperties DEF Names, Roster

LEMMA NewEntry ==
    ASSUME NEW c \in Char, NEW online \in BOOLEAN
    PROVE  Entry(c, online) \in EntrySet /\ Entry(c, online).chr = c
                                         /\ Entry(c, online).online = online
  BY DEF Entry, EntrySet

LEMMA NoPartyIsNone == NoParty \notin PartyId /\ None \notin PartyId /\ NoParty # None
  BY PartyAssumption DEF NoParty, PartyId

-----------------------------------------------------------------------------
(* Types.  Roster is the set of member lists TypeOK speaks of.             *)

LEMMA ToldType ==
    ASSUME NEW refs \in [Char -> PartyId \cup {NoParty}], NEW lists, NEW p
    PROVE  Told(refs, lists, p) \in [Char -> PartyId \cup {NoParty}]
  BY DEF Told

LEMMA FoundType ==
    ASSUME TypeOK, NEW id, NEW c
    PROVE  Found(id, c) \in PartyId \cup {NoParty}
  BY DEF Found, TypeOK

LEMMA InitTypes == Init => TypeOK
  <1> SUFFICES ASSUME Init PROVE TypeOK
    OBVIOUS
  <1>1. <<>> \in Seq([chr : Char, online : BOOLEAN])
    OBVIOUS
  <1> QED BY <1>1 DEF Init, TypeOK

(* A member list that a step rewrites is a member list.                    *)
LEMMA MembersType ==
    ASSUME TypeOK
    PROVE  /\ members \in [PartyId -> Roster]
           /\ \A p \in PartyId : \A list \in Roster :
                 [members EXCEPT ![p] = list] \in [PartyId -> Roster]
           /\ \A p : \A c \in Char : \A online \in BOOLEAN :
                 Update(members, p, Entry(c, online)) \in [PartyId -> Roster]
  <1>1. members \in [PartyId -> Roster]
    BY DEF TypeOK, Roster, EntrySet
  <1>2. \A p : \A c \in Char : \A online \in BOOLEAN :
           Update(members, p, Entry(c, online)) \in [PartyId -> Roster]
    BY <1>1, UpdateKeeps, NewEntry
  <1> QED BY <1>1, <1>2

LEMMA RequestTypes ==
    ASSUME TypeOK, NEW c \in Char, Request(c)
    PROVE  TypeOK'
  <1> USE DEF Server, placeVars
  <1>1. members \in [PartyId -> Roster] /\ Roster = Seq([chr : Char, online : BOOLEAN])
    BY MembersType DEF Roster, EntrySet
  <1>2. \A d \in Here : d \in Char /\ at[d] # None
    BY PartyAssumption DEF Here
  <1>3. CASE createParty(c)
    <2>1. <<Entry(c, TRUE)>> \in Roster
      BY NewEntry, OneEntry
    <2>2. members' \in [PartyId -> Roster]
      BY <1>1, <1>3, <2>1 DEF createParty
    <2>3. party' \in [Char -> PartyId \cup {NoParty}]
      BY <1>3 DEF createParty, TypeOK
    <2>4. \A d \in Char : at'[d] = None => party'[d] = NoParty
      BY <1>2, <1>3 DEF createParty, TypeOK
    <2>5. runningPartyId' \in Nat /\ leader' \in [PartyId -> Char \cup {None}]
      BY <1>3 DEF createParty, TypeOK
    <2> QED BY <1>1, <1>3, <2>2, <2>3, <2>4, <2>5 DEF createParty, TypeOK
  <1>4. ASSUME NEW p \in PartyId, Join(c, p)
        PROVE  TypeOK'
    <2>1. members' \in [PartyId -> Roster]
      BY <1>1, <1>4, NewEntry, AppendKeeps DEF Join
    <2>2. party' \in [Char -> PartyId \cup {NoParty}]
      BY <1>4, ToldType DEF Join, TypeOK
    <2>3. \A d \in Char : at'[d] = None => party'[d] = NoParty
      BY <1>2, <1>4 DEF Join, TypeOK, Told
    <2> QED BY <1>1, <1>4, <2>1, <2>2, <2>3 DEF Join, TypeOK
  <1>5. ASSUME NEW p \in PartyId, NEW d \in Char, TakeOut(p, d)
        PROVE  TypeOK'
    <2>1. members' \in [PartyId -> Roster]
      <3>1. PICK list \in removeMember(members[p], d) :
               members' = [members EXCEPT ![p] = list]
        BY <1>5 DEF TakeOut
      <3>2. list \in Roster
        BY <1>1, RemoveMember
      <3> QED BY <1>1, <3>1, <3>2
    <2>2. party' \in [Char -> PartyId \cup {NoParty}]
      BY SMTT(30), <1>5, ToldType DEF TakeOut, TypeOK
    <2>3. \A e \in Char : at'[e] = None => party'[e] = NoParty
      BY <1>2, <1>5 DEF TakeOut, TypeOK, Told
    <2> QED BY <1>1, <1>5, <2>1, <2>2, <2>3 DEF TakeOut, TypeOK
  <1>6. CASE Leave(c)
    BY <1>5, <1>6 DEF Leave, TypeOK
  <1>7. CASE Disband(c)
    <2>1. members' \in [PartyId -> Roster]
      BY <1>1, <1>7, NoEntry DEF Disband
    <2> QED BY <1>1, <1>2, <1>7, <2>1 DEF Disband, TypeOK
  <1>8. ASSUME NEW d \in Char, Expel(c, d)
        PROVE  TypeOK'
    BY <1>5, <1>8 DEF Expel, TypeOK
  <1>9. ASSUME NEW d \in Char, ChangeLeader(c, d)
        PROVE  TypeOK'
    <2>0. party[c] \in PartyId
      BY <1>9 DEF ChangeLeader, TypeOK
    <2>1. members' \in [PartyId -> Roster]
      <3>1. PICK i \in First(members[party[c]], d) :
               members' = Update(members, party[c], members[party[c]][i])
        BY <1>9 DEF ChangeLeader
      <3>2. members[party[c]][i] \in EntrySet
        BY <3>1, <2>0, <1>1, LenProperties, ElementOfSeq DEF First, Roster
      <3> QED BY <3>1, <3>2, <1>1, UpdateKeeps
    <2>2. party' \in [Char -> PartyId \cup {NoParty}]
      BY <1>9, ToldType DEF ChangeLeader, TypeOK
    <2>3. \A e \in Char : at'[e] = None => party'[e] = NoParty
      BY <1>2, <1>9 DEF ChangeLeader, TypeOK, Told
    <2>4. leader' \in [PartyId -> Char \cup {None}]
      BY <1>9 DEF ChangeLeader, TypeOK
    <2> QED BY <1>1, <1>9, <2>1, <2>2, <2>3, <2>4 DEF ChangeLeader, TypeOK
  <1>10. CASE silentPartyUpdate(c)
    <2>1. members' \in [PartyId -> Roster]
      BY <1>10, MembersType DEF silentPartyUpdate
    <2>2. party' \in [Char -> PartyId \cup {NoParty}]
      BY <1>10, ToldType DEF silentPartyUpdate, TypeOK
    <2>3. \A e \in Char : at'[e] = None => party'[e] = NoParty
      BY <1>2, <1>10 DEF silentPartyUpdate, TypeOK, Told
    <2> QED BY <1>1, <1>10, <2>1, <2>2, <2>3 DEF silentPartyUpdate, TypeOK
  <1> QED BY <1>3, <1>4, <1>6, <1>7, <1>8, <1>9, <1>10 DEF Request

LEMMA MoveTypes ==
    ASSUME TypeOK, NEW c \in Char, Move(c)
    PROVE  TypeOK'
  <1> USE DEF Server
  <1>1. members \in [PartyId -> Roster] /\ Roster = Seq([chr : Char, online : BOOLEAN])
    BY MembersType DEF Roster, EntrySet
  <1>2. \A d \in Here : d \in Char /\ at[d] # None
    BY PartyAssumption DEF Here
  <1>3. CASE saveToDB(c)
    BY <1>3 DEF saveToDB, TypeOK, partyVars
  <1>4. ASSUME NEW s \in Server, Depart(c, s)
        PROVE  TypeOK'
    BY <1>4 DEF Depart, TypeOK, partyVars
  <1>5. ASSUME NEW s \in Server, Loggedin(c, s)
        PROVE  TypeOK'
    <2> DEFINE old  == party[c]
               p    == Found(Carried(c, s), c)
               left == Update(members, old, Entry(c, FALSE))
               refs == Told(party, left, old)
    <2>1. left \in [PartyId -> Roster]
      BY MembersType
    <2>2. members' = Update(left, p, Entry(c, TRUE))
      BY <1>5 DEF Loggedin, LogOn
    <2>3. members' \in [PartyId -> Roster]
      BY <2>1, <2>2, UpdateKeeps, NewEntry
    <2>4. p \in PartyId \cup {NoParty}
      BY FoundType
    <2>5. refs \in [Char -> PartyId \cup {NoParty}]
      BY ToldType DEF TypeOK
    <2>6. Told(refs, left, p) \in [Char -> PartyId \cup {NoParty}]
      BY <2>5, ToldType
    <2>7. party' = [Told(refs, left, p) EXCEPT ![c] = p]
      BY <1>5 DEF Loggedin
    <2>8. \A d \in Char : at'[d] = None => party'[d] = NoParty
      <3> SUFFICES ASSUME NEW d \in Char, at'[d] = None PROVE party'[d] = NoParty
        OBVIOUS
      <3>1. at' = [at EXCEPT ![c] = s] /\ s # None
        BY <1>5, PartyAssumption DEF Loggedin
      <3>2. d # c /\ at[d] = None
        BY <3>1 DEF TypeOK
      <3>3. d \notin Here /\ party[d] = NoParty
        BY <3>2, <1>2 DEF TypeOK
      <3>4. refs[d] = NoParty
        BY <3>3 DEF Told
      <3>5. Told(refs, left, p)[d] = refs[d]
        BY <3>3 DEF Told
      <3> QED BY <3>2, <3>4, <3>5, <2>6, <2>7
    <2>9. party' \in [Char -> PartyId \cup {NoParty}]
      BY <2>4, <2>6, <2>7
    <2> HIDE DEF old, p, left, refs
    <2>10. /\ at' = [at EXCEPT ![c] = s] /\ transfer' = [transfer EXCEPT ![s][c] = None]
           /\ saved' = [saved EXCEPT ![c] = IF at[c] # None THEN party[c] ELSE @]
           /\ UNCHANGED <<parties, runningPartyId, leader>>
      BY <1>5 DEF Loggedin
    <2> QED BY <1>1, <2>3, <2>8, <2>9, <2>10 DEF TypeOK
  <1>6. ASSUME NEW s \in Server, PersistingTask(c, s)
        PROVE  TypeOK'
    BY <1>6 DEF PersistingTask, TypeOK, partyVars
  <1>7. CASE EnterCS(c)
    BY <1>7, FoundType, PartyAssumption DEF EnterCS, TypeOK, partyVars
  <1>8. CASE disconnect(c)
    <2>1. members' \in [PartyId -> Roster]
      BY <1>8, MembersType DEF disconnect
    <2>2. Told(party, members', party[c]) \in [Char -> PartyId \cup {NoParty}]
      BY ToldType DEF TypeOK
    <2>3. \A d \in Char : at'[d] = None => party'[d] = NoParty
      BY <1>2, <1>8, <2>2 DEF disconnect, TypeOK, Told
    <2>4. party' \in [Char -> PartyId \cup {NoParty}]
      BY <1>8, <2>2 DEF disconnect
    <2> QED BY <1>1, <1>8, <2>1, <2>3, <2>4 DEF disconnect, TypeOK
  <1> QED BY <1>3, <1>4, <1>5, <1>6, <1>7, <1>8 DEF Move

LEMMA RestartTypes ==
    ASSUME TypeOK, Restart
    PROVE  TypeOK'
  <1>1. <<>> \in Seq([chr : Char, online : BOOLEAN])
    OBVIOUS
  <1>2. runningPartyId' \in Nat
    BY DEF Restart, TypeOK, NextAfter, NoParty, PartyId
  <1> QED BY <1>1, <1>2 DEF Restart, TypeOK

(***************************************************************************)
(* Every field keeps its type, and a character out of the game refers to   *)
(* no party, for any characters, channels and bound.                       *)
(***************************************************************************)
THEOREM PartyTypes == Spec => []TypeOK
  <1>1. TypeOK /\ [Next]_vars => TypeOK'
    <2> SUFFICES ASSUME TypeOK, [Next]_vars PROVE TypeOK'
      OBVIOUS
    <2>1. CASE UNCHANGED vars
      BY <2>1 DEF TypeOK, vars, partyVars, placeVars
    <2> QED BY <2>1, RestartTypes, RequestTypes, MoveTypes DEF Next
  <1> QED BY InitTypes, <1>1, PTL DEF Spec

-----------------------------------------------------------------------------
(***************************************************************************)
(* Every id in use, or still carried by a character, was given out before. *)
(***************************************************************************)
IdsBelow == \A p \in PartyId : p \in parties \/ Referred(p) => p < runningPartyId

LEMMA InitIds == Init => IdsBelow
  BY NoPartyIsNone DEF Init, IdsBelow, Referred

(* A step that takes ids from where they are carried already.              *)
Carrying(p) == p = NoParty \/ p = None \/ p \in parties \/ Referred(p)

LEMMA IdsStay ==
    ASSUME IdsBelow, runningPartyId' = runningPartyId, parties' \subseteq parties,
           \A c \in Char : Carrying(party'[c]) /\ Carrying(saved'[c]),
           \A s \in Server : \A c \in Char : Carrying(transfer'[s][c])
    PROVE  IdsBelow'
  <1> SUFFICES ASSUME NEW p \in PartyId, p \in parties' \/ Referred(p)'
               PROVE  p < runningPartyId'
    BY DEF IdsBelow
  <1>1. CASE p \in parties'
    BY <1>1 DEF IdsBelow
  <1>2. CASE Referred(p)'
    <2>1. Carrying(p)
      BY <1>2 DEF Referred
    <2> QED BY <2>1, NoPartyIsNone DEF Carrying, IdsBelow
  <1> QED BY <1>1, <1>2

LEMMA RequestIds ==
    ASSUME TypeOK, IdsBelow, NEW c \in Char, Request(c)
    PROVE  IdsBelow'
  <1> USE DEF placeVars
  <1>0. /\ \A d \in Char : Carrying(party[d]) /\ Carrying(saved[d])
        /\ \A s \in Server : \A d \in Char : Carrying(transfer[s][d])
    BY DEF Carrying, Referred
  <1>1. \A lists, p : Carrying(p) => \A d \in Char : Carrying(Told(party, lists, p)[d])
    BY <1>0 DEF Told
  <1>2. CASE createParty(c)
    <2> SUFFICES ASSUME NEW p \in PartyId, p \in parties' \/ Referred(p)'
                 PROVE  p < runningPartyId'
      BY DEF IdsBelow
    <2>1. p = runningPartyId \/ p \in parties \/ Referred(p)
      BY <1>2 DEF createParty, Referred, TypeOK
    <2>2. runningPartyId' = runningPartyId + 1 /\ runningPartyId \in Nat /\ p \in Int
      BY <1>2 DEF createParty, TypeOK, PartyId
    <2>3. p = runningPartyId \/ p < runningPartyId
      BY <2>1 DEF IdsBelow
    <2> QED BY <2>2, <2>3
  <1>3. ASSUME NEW p \in PartyId, Join(c, p)
        PROVE  IdsBelow'
    <2>1. Carrying(p)
      BY <1>3 DEF Join, MayJoin, Carrying
    <2> QED BY <1>0, <1>1, <1>3, <2>1, IdsStay DEF Join
  <1>4. ASSUME NEW p, Carrying(p), NEW d \in Char, TakeOut(p, d)
        PROVE  IdsBelow'
    <2>1. \A e \in Char : Carrying(party'[e])
      <3>1. \A e \in Char : party'[e] \in {NoParty, Told(party, members', p)[e]}
        BY <1>4 DEF TakeOut
      <3>2. Carrying(NoParty)
        BY DEF Carrying
      <3> QED BY <3>1, <3>2, <1>1, <1>4
    <2> QED BY <1>0, <1>4, <2>1, IdsStay DEF TakeOut
  <1>5. CASE Leave(c)
    BY <1>0, <1>4, <1>5 DEF Leave
  <1>6. CASE Disband(c)
    <2>1. \A d \in Char : party'[d] = NoParty \/ party'[d] = party[d]
      BY <1>6 DEF Disband
    <2>2. \A d \in Char : Carrying(party'[d])
      BY <2>1, <1>0 DEF Carrying
    <2> QED BY <1>0, <1>6, <2>2, IdsStay DEF Disband
  <1>7. ASSUME NEW d \in Char, Expel(c, d)
        PROVE  IdsBelow'
    BY <1>0, <1>4, <1>7 DEF Expel
  <1>8. ASSUME NEW d \in Char, ChangeLeader(c, d)
        PROVE  IdsBelow'
    BY <1>0, <1>1, <1>8, IdsStay DEF ChangeLeader
  <1>9. CASE silentPartyUpdate(c)
    BY <1>0, <1>1, <1>9, IdsStay DEF silentPartyUpdate
  <1> QED BY <1>2, <1>3, <1>5, <1>6, <1>7, <1>8, <1>9 DEF Request

LEMMA MoveIds ==
    ASSUME TypeOK, IdsBelow, NEW c \in Char, Move(c)
    PROVE  IdsBelow'
  <1> USE DEF partyVars
  <1>0. /\ \A d \in Char : Carrying(party[d]) /\ Carrying(saved[d])
        /\ \A s \in Server : \A d \in Char : Carrying(transfer[s][d])
        /\ Carrying(NoParty) /\ Carrying(None)
    BY DEF Carrying, Referred
  <1>1. \A refs, lists, p : Carrying(p) /\ (\A d \in Char : Carrying(refs[d])) =>
           \A d \in Char : Carrying(Told(refs, lists, p)[d])
    BY DEF Told
  <1>2. \A id, d : Carrying(Found(id, d))
    BY DEF Found, Carrying
  <1>3. CASE saveToDB(c)
    BY <1>0, <1>3, IdsStay DEF saveToDB, TypeOK
  <1>4. ASSUME NEW s \in Server, Depart(c, s)
        PROVE  IdsBelow'
    <2>1. \A d \in Char : Carrying(party'[d]) /\ Carrying(saved'[d])
      BY <1>0, <1>4 DEF Depart, TypeOK
    <2>2. \A t \in Server : \A d \in Char : Carrying(transfer'[t][d])
      BY <1>0, <1>4 DEF Depart, TypeOK
    <2> QED BY <1>4, <2>1, <2>2, IdsStay DEF Depart
  <1>5. ASSUME NEW s \in Server, Loggedin(c, s)
        PROVE  IdsBelow'
    <2> DEFINE p    == Found(Carried(c, s), c)
               left == Update(members, party[c], Entry(c, FALSE))
               refs == Told(party, left, party[c])
               all  == Told(refs, left, p)
    <2>1. \A d \in Char : Carrying(refs[d])
      BY <1>0, <1>1
    <2>2. Carrying(p)
      BY <1>2
    <2>3. \A d \in Char : Carrying(all[d])
      BY <1>1, <2>1, <2>2
    <2>4. party' = [all EXCEPT ![c] = p]
      BY <1>5 DEF Loggedin
    <2>5. \A d \in Char : Carrying(party'[d])
      <3>1. DOMAIN all = Char
        BY DEF Told
      <3> HIDE DEF all, p
      <3>2. \A d \in Char : party'[d] = p \/ party'[d] = all[d]
        BY <2>4, <3>1
      <3> QED BY <3>2, <2>2, <2>3
    <2>6. \A d \in Char : Carrying(saved'[d])
      BY <1>0, <1>5 DEF Loggedin, TypeOK
    <2>7. \A t \in Server : \A d \in Char : Carrying(transfer'[t][d])
      BY <1>0, <1>5 DEF Loggedin, TypeOK
    <2>8. UNCHANGED <<parties, runningPartyId>>
      BY <1>5 DEF Loggedin
    <2> QED BY <2>5, <2>6, <2>7, <2>8, IdsStay
  <1>6. ASSUME NEW s \in Server, PersistingTask(c, s)
        PROVE  IdsBelow'
    <2>1. \A t \in Server : \A d \in Char : Carrying(transfer'[t][d])
      BY <1>0, <1>6 DEF PersistingTask, TypeOK
    <2> QED BY <1>0, <1>6, <2>1, IdsStay DEF PersistingTask
  <1>7. CASE EnterCS(c)
    <2>1. \A t \in Server : \A d \in Char : Carrying(transfer'[t][d])
      BY <1>0, <1>7 DEF EnterCS, TypeOK, Server
    <2>2. \A d \in Char : Carrying(party'[d])
      BY <1>0, <1>2, <1>7 DEF EnterCS, TypeOK
    <2> QED BY <1>0, <1>7, <2>1, <2>2, IdsStay DEF EnterCS
  <1>8. CASE disconnect(c)
    <2> DEFINE all == Told(party, members', party[c])
    <2>1. \A d \in Char : Carrying(all[d])
      BY <1>0, <1>1
    <2>2. DOMAIN all = Char /\ party' = [all EXCEPT ![c] = NoParty]
      BY <1>8 DEF disconnect, Told
    <2> HIDE DEF all
    <2>3. \A d \in Char : Carrying(party'[d])
      <3>1. \A d \in Char : party'[d] = NoParty \/ party'[d] = all[d]
        BY <2>2
      <3> QED BY <3>1, <2>1, <1>0
    <2>4. \A d \in Char : Carrying(saved'[d])
      BY <1>0, <1>8 DEF disconnect, TypeOK
    <2> QED BY <1>0, <1>8, <2>3, <2>4, IdsStay DEF disconnect
  <1> QED BY <1>3, <1>4, <1>5, <1>6, <1>7, <1>8 DEF Move

(* After a crash only the saved ids are left, and numbering starts above.  *)
LEMMA RestartIds ==
    ASSUME TypeOK, Restart
    PROVE  IdsBelow'
  <1> SUFFICES ASSUME NEW p \in PartyId, p \in parties' \/ Referred(p)'
               PROVE  p < runningPartyId'
    BY DEF IdsBelow
  <1>1. PICK last \in {saved[c] : c \in Char} :
           (\A c \in Char : saved[c] <= last) /\ runningPartyId' = last + 2
    BY DEF Restart, NextAfter
  <1>2. \E c \in Char : saved[c] = p
    BY NoPartyIsNone DEF Restart, Referred
  <1>3. last \in Int /\ p \in Int
    BY <1>1 DEF TypeOK, PartyId, NoParty
  <1> QED BY <1>1, <1>2, <1>3

LEMMA IdsStep == TypeOK /\ IdsBelow /\ [Next]_vars => IdsBelow'
  <1> SUFFICES ASSUME TypeOK, IdsBelow, [Next]_vars PROVE IdsBelow'
    OBVIOUS
  <1>1. CASE UNCHANGED vars
    BY <1>1 DEF IdsBelow, Referred, vars, partyVars, placeVars
  <1> QED BY <1>1, RequestIds, MoveIds, RestartIds DEF Next

(***************************************************************************)
(* A new party never gets an id that some character still refers to,       *)
(* whatever moves, crashes and returns came before.                        *)
(***************************************************************************)
THEOREM NewIdsAreUnknown == Spec => NewPartyIsUnknown
  <1>1. Init => TypeOK /\ IdsBelow
    BY InitTypes, InitIds
  <1>2. TypeOK /\ IdsBelow /\ TypeOK' /\ [Next]_vars => IdsBelow'
    BY IdsStep
  <1>3. TypeOK /\ IdsBelow /\ [Next]_vars => [\A p \in parties' \ parties : ~Referred(p)]_vars
    <2> SUFFICES ASSUME TypeOK, IdsBelow, Next
                 PROVE  \A p \in parties' \ parties : ~Referred(p)
      OBVIOUS
    <2>1. CASE parties' \subseteq parties
      BY <2>1
    <2>2. CASE \E c \in Char : createParty(c)
      <3> SUFFICES ASSUME NEW p \in parties' \ parties PROVE ~Referred(p)
        OBVIOUS
      <3>1. p = runningPartyId /\ p \in PartyId
        BY <2>2 DEF createParty
      <3>2. ~(runningPartyId < runningPartyId)
        BY DEF TypeOK
      <3> QED BY <3>1, <3>2 DEF IdsBelow
    <2>3. (\E c \in Char : createParty(c)) \/ parties' \subseteq parties
      BY DEF Next, Restart, Request, Move, Join, Leave, Expel, TakeOut, Disband,
             ChangeLeader, silentPartyUpdate, saveToDB, Depart, Loggedin,
             PersistingTask, EnterCS, disconnect, partyVars
    <2> QED BY <2>1, <2>2, <2>3
  <1> QED BY <1>1, <1>2, <1>3, PartyTypes, PTL DEF Spec, NewPartyIsUnknown

-----------------------------------------------------------------------------
(***************************************************************************)
(* The listing invariant.  A reference on a channel leads to a party that  *)
(* lists its holder; the lists of parties that are gone name nobody.       *)
(***************************************************************************)
Dead == \A p \in PartyId \ parties : Names(members[p]) = {}

ListingInv == TypeOK /\ IdsBelow /\ Dead /\ PartyListsIt /\ SizeLimit

Listed(refs) ==
    \A d \in Here : refs[d] # NoParty => refs[d] \in parties /\ d \in Names(members[refs[d]])

(* Telling the members of a list about their party keeps references right. *)
LEMMA ToldLists ==
    ASSUME Dead, NEW refs, Listed(refs), NEW lists, NEW p,
           \A q \in PartyId : Names(lists[q]) = Names(members[q])
    PROVE  Listed(Told(refs, lists, p))
  <1> SUFFICES ASSUME NEW d \in Here, Told(refs, lists, p)[d] # NoParty
               PROVE  /\ Told(refs, lists, p)[d] \in parties
                      /\ d \in Names(members[Told(refs, lists, p)[d]])
    BY DEF Listed
  <1>1. d \in Char
    BY DEF Here
  <1>2. CASE p \in PartyId /\ d \in Names(lists[p])
    <2>1. Told(refs, lists, p)[d] = p
      BY <1>1, <1>2 DEF Told
    <2>2. p \in parties
      BY <1>2 DEF Dead
    <2> QED BY <1>2, <2>1, <2>2
  <1>3. CASE ~(p \in PartyId /\ d \in Names(lists[p]))
    <2>1. Told(refs, lists, p)[d] = refs[d]
      BY <1>1, <1>3 DEF Told
    <2> QED BY <2>1 DEF Listed
  <1> QED BY <1>2, <1>3

(* A step that lists the same members everywhere.                          *)
LEMMA SameMembers ==
    ASSUME TypeOK, Dead, SizeLimit, parties' = parties,
           \A q \in PartyId : /\ Names(members'[q]) = Names(members[q])
                              /\ Len(members'[q]) = Len(members[q])
    PROVE  Dead' /\ SizeLimit'
  BY DEF Dead, SizeLimit, TypeOK

LEMMA RequestListing ==
    ASSUME ListingInv, NEW c \in Char, Request(c)
    PROVE  Dead' /\ PartyListsIt' /\ SizeLimit'
  <1> USE DEF placeVars
  <1>0. /\ members \in [PartyId -> Roster] /\ parties \subseteq PartyId
        /\ Listed(party) /\ TypeOK /\ Dead /\ SizeLimit
        /\ \A d \in Here : d \in Char
        /\ \A d \in Char : party[d] \in PartyId \cup {NoParty}
    BY MembersType DEF ListingInv, TypeOK, PartyListsIt, Listed, Here
  <1>1. CASE createParty(c)
    <2> DEFINE new == runningPartyId
    <2>1. /\ members' = [members EXCEPT ![new] = <<Entry(c, TRUE)>>]
          /\ parties' = parties \cup {new} /\ new \in PartyId
          /\ party' = [party EXCEPT ![c] = new] /\ Here' = Here
      BY <1>1 DEF createParty, Here
    <2>2. Names(<<Entry(c, TRUE)>>) = {c} /\ Len(<<Entry(c, TRUE)>>) = 1
      BY OneEntry, NewEntry
    <2>3. new \notin parties
      BY DEF ListingInv, IdsBelow, TypeOK
    <2>4. Dead'
      BY <1>0, <2>1 DEF Dead
    <2>5. SizeLimit'
      BY <1>0, <2>1, <2>2, PartyAssumption DEF SizeLimit
    <2>6. PartyListsIt'
      <3> SUFFICES ASSUME NEW d \in Here, party'[d] # NoParty
                   PROVE  party'[d] \in parties' /\ d \in Names(members'[party'[d]])
        BY <2>1 DEF PartyListsIt
      <3>1. CASE d = c
        BY <1>0, <2>1, <2>2, <3>1 DEF TypeOK
      <3>2. CASE d # c
        BY <1>0, <2>1, <2>3, <3>2 DEF Listed
      <3> QED BY <3>1, <3>2
    <2> QED BY <2>4, <2>5, <2>6
  <1>2. ASSUME NEW p \in PartyId, Join(c, p)
        PROVE  Dead' /\ PartyListsIt' /\ SizeLimit'
    <2> DEFINE new == Append(members[p], Entry(c, TRUE))
    <2>1. /\ p \in parties /\ Len(members[p]) < Limit
          /\ members' = [members EXCEPT ![p] = new]
          /\ party' = Told(party, members', p)
          /\ parties' = parties /\ Here' = Here
      BY <1>2 DEF Join, MayJoin, Here
    <2>2. Names(new) = Names(members[p]) \cup {c} /\ Len(new) = Len(members[p]) + 1
      <3>1. PICK e \in EntrySet : e = Entry(c, TRUE) /\ e.chr = c
        BY NewEntry
      <3>2. new = Append(members[p], e) /\ members[p] \in Roster
        BY <1>0, <3>1
      <3>3. /\ Names(Append(members[p], e)) = Names(members[p]) \cup {e.chr}
            /\ Len(Append(members[p], e)) = Len(members[p]) + 1
        <4> DEFINE list == members[p]
        <4>1. list \in Roster
          BY <3>2
        <4> HIDE DEF list
        <4>2. /\ Names(Append(list, e)) = Names(list) \cup {e.chr}
              /\ Len(Append(list, e)) = Len(list) + 1
          BY <4>1, AppendKeeps
        <4> QED BY <4>2 DEF list
      <3> HIDE DEF new
      <3> QED BY <3>1, <3>2, <3>3
    <2> HIDE DEF new
    <2>3. Dead'
      BY <1>0, <2>1 DEF Dead
    <2>4. SizeLimit'
      <3>1. Len(members[p]) \in Nat
        BY <1>0, LenProperties DEF Roster
      <3> QED BY <1>0, <2>1, <2>2, <3>1, PartyAssumption DEF SizeLimit
    <2>5. PartyListsIt'
      <3> SUFFICES ASSUME NEW d \in Here, party'[d] # NoParty
                   PROVE  party'[d] \in parties /\ d \in Names(members'[party'[d]])
        BY <2>1 DEF PartyListsIt
      <3>1. CASE d \in Names(members'[p])
        BY <1>0, <2>1, <3>1 DEF Told
      <3>2. CASE d \notin Names(members'[p])
        <4>1. party'[d] = party[d]
          BY <1>0, <2>1, <3>2 DEF Told
        <4>2. party[d] \in parties /\ d \in Names(members[party[d]])
          BY <1>0, <4>1 DEF Listed
        <4> QED BY <1>0, <2>1, <2>2, <4>1, <4>2
      <3> QED BY <3>1, <3>2
    <2> QED BY <2>3, <2>4, <2>5
  <1>3. ASSUME NEW p \in parties, NEW e \in Char, TakeOut(p, e)
        PROVE  Dead' /\ PartyListsIt' /\ SizeLimit'
    <2>1. PICK new \in removeMember(members[p], e) : members' = [members EXCEPT ![p] = new]
      BY <1>3 DEF TakeOut
    <2>2. /\ parties' = parties /\ Here' = Here
          /\ party' = [d \in Char |-> IF d = e /\ e \in Here THEN NoParty
                                      ELSE Told(party, members', p)[d]]
      BY <1>3 DEF TakeOut, Here
    <2>3. /\ Len(new) <= Len(members[p]) /\ new \in Roster
          /\ \A d \in Names(members[p]) : d # e => d \in Names(new)
      BY <1>0, <2>1, RemoveMember
    <2>4. Dead'
      BY <1>0, <2>1, <2>2 DEF Dead
    <2>5. SizeLimit'
      <3>1. Len(members[p]) \in Nat /\ Len(new) \in Nat
        BY <1>0, <2>3, LenProperties DEF Roster
      <3> QED BY <1>0, <2>1, <2>2, <2>3, <3>1, PartyAssumption DEF SizeLimit
    <2>6. PartyListsIt'
      <3> SUFFICES ASSUME NEW d \in Here, party'[d] # NoParty
                   PROVE  party'[d] \in parties /\ d \in Names(members'[party'[d]])
        BY <2>2 DEF PartyListsIt
      <3>1. d \in Char /\ d # e /\ party'[d] = Told(party, members', p)[d]
        BY <1>0, <2>2
      <3>2. CASE d \in Names(members'[p])
        BY <1>0, <3>1, <3>2 DEF Told
      <3>3. CASE d \notin Names(members'[p])
        <4>1. party'[d] = party[d]
          BY <3>1, <3>3 DEF Told
        <4>2. party[d] \in parties /\ d \in Names(members[party[d]])
          BY <1>0, <4>1 DEF Listed
        <4> QED BY <1>0, <2>1, <2>3, <3>1, <4>1, <4>2
      <3> QED BY <3>2, <3>3
    <2> QED BY <2>4, <2>5, <2>6
  <1>4. \A d \in Here : party[d] # NoParty => party[d] \in parties
    BY <1>0 DEF Listed
  <1>5. CASE Leave(c)
    BY <1>3, <1>4, <1>5 DEF Leave
  <1>6. CASE Disband(c)
    <2> DEFINE p == party[c]
    <2>1. /\ members' = [members EXCEPT ![p] = <<>>] /\ parties' = parties \ {p}
          /\ party' = [d \in Char |-> IF d \in Here /\ d \in Names(members[p]) \cup {c}
                                      THEN NoParty ELSE party[d]]
          /\ Here' = Here
      BY <1>6 DEF Disband, Here
    <2>2. Dead'
      BY <1>0, <2>1, NoEntry DEF Dead
    <2>3. SizeLimit'
      BY <1>0, <2>1 DEF SizeLimit
    <2>4. PartyListsIt'
      <3> SUFFICES ASSUME NEW d \in Here, party'[d] # NoParty
                   PROVE  party'[d] \in parties' /\ d \in Names(members'[party'[d]])
        BY <2>1 DEF PartyListsIt
      <3>1. party'[d] = party[d] /\ d \notin Names(members[p])
        BY <1>0, <2>1
      <3> QED BY <1>0, <2>1, <3>1 DEF Listed
    <2> QED BY <2>2, <2>3, <2>4
  <1>7. ASSUME NEW d \in Char, Expel(c, d)
        PROVE  Dead' /\ PartyListsIt' /\ SizeLimit'
    BY <1>3, <1>4, <1>7 DEF Expel
  <1>8. ASSUME NEW p, NEW e \in EntrySet, members' = Update(members, p, e),
               party' = Told(party, members', p), UNCHANGED <<parties, at>>
        PROVE  Dead' /\ PartyListsIt' /\ SizeLimit'
    <2>1. \A q \in PartyId : /\ Names(members'[q]) = Names(members[q])
                             /\ Len(members'[q]) = Len(members[q])
      BY <1>0, <1>8, UpdateKeeps
    <2>2. Listed(party')
      BY <1>0, <1>8, <2>1, ToldLists
    <2>3. PartyListsIt'
      BY <1>0, <1>8, <2>1, <2>2 DEF PartyListsIt, Listed, Here
    <2> QED BY <1>0, <1>8, <2>1, <2>3, SameMembers
  <1>9. ASSUME NEW d \in Char, ChangeLeader(c, d)
        PROVE  Dead' /\ PartyListsIt' /\ SizeLimit'
    <2>1. PICK i \in First(members[party[c]], d) :
             members' = Update(members, party[c], members[party[c]][i])
      BY <1>9 DEF ChangeLeader
    <2>2. party[c] \in PartyId
      BY <1>0, <1>9 DEF ChangeLeader
    <2>3. members[party[c]][i] \in EntrySet
      BY <2>1, <2>2, <1>0, LenProperties, ElementOfSeq DEF First, Roster
    <2> QED BY <1>8, <1>9, <2>1, <2>3 DEF ChangeLeader
  <1>10. CASE silentPartyUpdate(c)
    BY <1>8, <1>10, NewEntry DEF silentPartyUpdate
  <1> QED BY <1>1, <1>2, <1>5, <1>6, <1>7, <1>9, <1>10 DEF Request

LEMMA MoveListing ==
    ASSUME ListingInv, NEW c \in Char, Move(c)
    PROVE  Dead' /\ PartyListsIt' /\ SizeLimit'
  <1> USE DEF partyVars
  <1>0. /\ members \in [PartyId -> Roster] /\ parties \subseteq PartyId
        /\ Listed(party) /\ TypeOK /\ Dead /\ SizeLimit /\ PartyListsIt
        /\ \A d \in Here : d \in Char
    BY MembersType DEF ListingInv, TypeOK, PartyListsIt, Listed, Here
  <1>1. ASSUME UNCHANGED <<parties, members>>,
               \A d \in Here' : d \in Here /\ party'[d] = party[d]
        PROVE  Dead' /\ PartyListsIt' /\ SizeLimit'
    BY <1>0, <1>1 DEF Dead, SizeLimit, PartyListsIt
  <1>2. CASE saveToDB(c)
    BY <1>1, <1>2 DEF saveToDB, Here
  <1>3. ASSUME NEW s \in Server, Depart(c, s)
        PROVE  Dead' /\ PartyListsIt' /\ SizeLimit'
    <2>1. \A d \in Here' : d \in Here /\ party'[d] = party[d]
      BY <1>3, PartyAssumption DEF Depart, Here, TypeOK, ListingInv, Server
    <2> QED BY <1>1, <1>3, <2>1 DEF Depart
  <1>4. ASSUME NEW s \in Server, Loggedin(c, s)
        PROVE  Dead' /\ PartyListsIt' /\ SizeLimit'
    <2> DEFINE old  == party[c]
               p    == Found(Carried(c, s), c)
               left == Update(members, old, Entry(c, FALSE))
               refs == Told(party, left, old)
               all  == Told(refs, left, p)
    <2>0. PICK off \in EntrySet, on \in EntrySet : off = Entry(c, FALSE) /\ on = Entry(c, TRUE)
      BY NewEntry
    <2>1. left \in [PartyId -> Roster]
      BY <1>0, <2>0, UpdateKeeps
    <2>2. \A q \in PartyId : Names(left[q]) = Names(members[q]) /\ Len(left[q]) = Len(members[q])
      <3>1. left = Update(members, old, off)
        BY <2>0
      <3> HIDE DEF left, old
      <3> QED BY <1>0, <3>1, UpdateKeeps
    <2>3. Listed(refs)
      BY <1>0, <2>2, ToldLists
    <2> HIDE DEF refs
    <2>4. Listed(all)
      BY <1>0, <2>2, <2>3, ToldLists
    <2>5. p # NoParty => p \in parties /\ c \in Names(members[p])
      BY DEF Found
    <2>6. DOMAIN all = Char
      BY DEF Told
    <2>7. /\ members' = Update(left, p, Entry(c, TRUE)) /\ parties' = parties
          /\ party' = [all EXCEPT ![c] = p] /\ at' = [at EXCEPT ![c] = s]
      BY <1>4 DEF Loggedin, LogOn, refs
    <2> HIDE DEF left, all, p
    <2>8. \A q \in PartyId : /\ Names(members'[q]) = Names(members[q])
                             /\ Len(members'[q]) = Len(members[q])
      <3>1. \A q \in PartyId : /\ Names(members'[q]) = Names(left[q])
                               /\ Len(members'[q]) = Len(left[q])
        <4>1. members' = Update(left, p, on)
          BY <2>0, <2>7
        <4> QED BY <2>1, <4>1, UpdateKeeps
      <3> QED BY <2>2, <3>1
    <2>9. PartyListsIt'
      <3> SUFFICES ASSUME NEW d \in Here', party'[d] # NoParty
                   PROVE  party'[d] \in parties /\ d \in Names(members'[party'[d]])
        BY <2>7 DEF PartyListsIt
      <3>1. d \in Char
        BY DEF Here
      <3>2. CASE d = c
        BY <1>0, <2>5, <2>6, <2>7, <2>8, <3>1, <3>2
      <3>3. CASE d # c
        <4>1. d \in Here /\ party'[d] = all[d]
          BY <2>6, <2>7, <3>1, <3>3 DEF Here, ListingInv, TypeOK
        <4> QED BY <1>0, <2>4, <2>8, <4>1 DEF Listed
      <3> QED BY <3>2, <3>3
    <2> QED BY <1>0, <2>7, <2>8, <2>9, SameMembers
  <1>5. ASSUME NEW s \in Server, PersistingTask(c, s)
        PROVE  Dead' /\ PartyListsIt' /\ SizeLimit'
    BY <1>1, <1>5 DEF PersistingTask, Here
  <1>6. CASE EnterCS(c)
    <2>1. \A d \in Here' : d \in Here /\ party'[d] = party[d]
      BY <1>6, PartyAssumption DEF EnterCS, Here, TypeOK, ListingInv
    <2> QED BY <1>1, <1>6, <2>1 DEF EnterCS
  <1>7. CASE disconnect(c)
    <2> DEFINE all == Told(party, members', party[c])
    <2>1. \A q \in PartyId : /\ Names(members'[q]) = Names(members[q])
                             /\ Len(members'[q]) = Len(members[q])
      <3>1. PICK off \in EntrySet : off = Entry(c, FALSE)
        BY NewEntry
      <3>2. members' = Update(members, party[c], off)
        BY <1>7, <3>1 DEF disconnect
      <3> QED BY <1>0, <3>2, UpdateKeeps
    <2>2. Listed(all)
      BY <1>0, <2>1, ToldLists
    <2>3. DOMAIN all = Char
      BY DEF Told
    <2>4. /\ party' = [all EXCEPT ![c] = NoParty] /\ parties' = parties
          /\ at' = [at EXCEPT ![c] = None]
      BY <1>7 DEF disconnect
    <2> HIDE DEF all
    <2>5. PartyListsIt'
      <3> SUFFICES ASSUME NEW d \in Here', party'[d] # NoParty
                   PROVE  party'[d] \in parties /\ d \in Names(members'[party'[d]])
        BY <2>4 DEF PartyListsIt
      <3>1. d \in Char /\ d # c
        BY <2>3, <2>4 DEF Here
      <3>2. d \in Here /\ party'[d] = all[d]
        BY <2>3, <2>4, <3>1 DEF Here, ListingInv, TypeOK
      <3> QED BY <1>0, <2>1, <2>2, <3>2 DEF Listed
    <2> QED BY <1>0, <2>1, <2>4, <2>5, SameMembers
  <1> QED BY <1>2, <1>3, <1>4, <1>5, <1>6, <1>7 DEF Move

LEMMA RestartListing ==
    ASSUME Restart
    PROVE  Dead' /\ PartyListsIt' /\ SizeLimit'
  <1>1. Dead'
    BY NoEntry DEF Restart, Dead
  <1>2. PartyListsIt'
    BY PartyAssumption DEF Restart, PartyListsIt, Here, Server
  <1>3. SizeLimit'
    BY DEF Restart, SizeLimit
  <1> QED BY <1>1, <1>2, <1>3

LEMMA ListingInvariant == Spec => []ListingInv
  <1>1. Init => ListingInv
    <2> SUFFICES ASSUME Init PROVE ListingInv
      OBVIOUS
    <2>1. TypeOK /\ IdsBelow
      BY InitTypes, InitIds
    <2>2. Dead /\ PartyListsIt /\ SizeLimit
      BY NoEntry, PartyAssumption DEF Init, Dead, PartyListsIt, Here, SizeLimit, Server
    <2> QED BY <2>1, <2>2 DEF ListingInv
  <1>2. ListingInv /\ TypeOK' /\ [Next]_vars => ListingInv'
    <2> SUFFICES ASSUME ListingInv, TypeOK', [Next]_vars PROVE ListingInv'
      OBVIOUS
    <2>1. IdsBelow'
      BY IdsStep DEF ListingInv
    <2>2. Dead' /\ PartyListsIt' /\ SizeLimit'
      <3>1. CASE UNCHANGED vars
        BY <3>1 DEF ListingInv, Dead, PartyListsIt, SizeLimit, Here, vars, partyVars, placeVars
      <3> QED BY <3>1, RequestListing, MoveListing, RestartListing DEF Next
    <2> QED BY <2>1, <2>2 DEF ListingInv
  <1> QED BY <1>1, <1>2, PartyTypes, PTL DEF Spec

(***************************************************************************)
(* A character on a channel only ever refers to a party that exists and    *)
(* lists it, late clients, crashes and visits to the shop included.        *)
(***************************************************************************)
THEOREM ReferencesAreListed == Spec => []PartyListsIt
  BY ListingInvariant, PTL DEF ListingInv

(***************************************************************************)
(* No party outgrows the limit, whatever the limit is and however often    *)
(* the same character is listed.                                           *)
(***************************************************************************)
THEOREM PartiesKeepTheLimit == Spec => []SizeLimit
  BY ListingInvariant, PTL DEF ListingInv

-----------------------------------------------------------------------------
(***************************************************************************)
(* With clients that come promptly or not at all.  Known: every copy of a  *)
(* member's reference, in the game, in the transfer it is moving with or   *)
(* in the database, names the party that lists it.  Settled: no transfer   *)
(* waits for a character that is in the game, and one at most otherwise.   *)
(***************************************************************************)
Known ==
    \A p \in parties : \A c \in Names(members[p]) :
        /\ at[c] # None => party[c] = p
        /\ at[c] = None => saved[c] = p /\ \A s \in Server : transfer[s][c] \in {None, p}

Settled ==
    \A c \in Char : \A s \in Server :
        /\ at[c] # None => transfer[s][c] = None
        /\ \A t \in Server \ {s} : transfer[s][c] = None \/ transfer[t][c] = None

Distinct(list) == \A i, j \in DOMAIN list : list[i].chr = list[j].chr => i = j

Single == \A p \in PartyId : Distinct(members[p])

OnceInv == ListingInv /\ Known /\ Settled /\ Single /\ OnlineIsShown

LEMMA RemoveDistinct ==
    ASSUME NEW list \in Roster, Distinct(list), NEW c \in Names(list),
           NEW new \in removeMember(list, c)
    PROVE  Distinct(new) /\ c \notin Names(new)
  <1>1. Len(list) \in Nat /\ DOMAIN list = 1..Len(list)
    BY LenProperties DEF Roster
  <1>2. PICK i \in First(list, c) : new = RemoveAt(list, i)
    BY DEF removeMember
  <1>3. i \in 1..Len(list) /\ list[i].chr = c
    BY <1>1, <1>2 DEF First
  <1>4. /\ new \in Roster /\ Len(new) = Len(list) - 1
        /\ \A k \in 1..(Len(list) - 1) : new[k] = IF k < i THEN list[k] ELSE list[k + 1]
    BY <1>2, <1>3, RemoveAtEntries DEF Roster
  <1>5. DOMAIN new = 1..(Len(list) - 1)
    BY <1>4, LenProperties DEF Roster
  <1> DEFINE was(k) == IF k < i THEN k ELSE k + 1
  <1>6. \A k \in DOMAIN new : was(k) \in DOMAIN list /\ was(k) # i /\ new[k] = list[was(k)]
    BY <1>1, <1>3, <1>4, <1>5
  <1>7. Distinct(new)
    <2> SUFFICES ASSUME NEW j \in DOMAIN new, NEW k \in DOMAIN new, new[j].chr = new[k].chr
                 PROVE  j = k
      BY DEF Distinct
    <2>1. was(j) = was(k)
      BY <1>6 DEF Distinct
    <2> QED BY <2>1, <1>1, <1>3, <1>5
  <1>8. c \notin Names(new)
    <2> SUFFICES ASSUME NEW k \in DOMAIN new, new[k].chr = c PROVE FALSE
      BY DEF Names
    <2>1. was(k) = i
      BY <1>1, <1>3, <1>6 DEF Distinct
    <2> QED BY <2>1, <1>6
  <1> QED BY <1>7, <1>8

(* Members are characters.                                                 *)
LEMMA NamesAreChars ==
    ASSUME TypeOK, NEW p \in PartyId
    PROVE  Names(members[p]) \subseteq Char
  <1>1. members[p] \in Roster
    BY MembersType
  <1>2. \A i \in DOMAIN members[p] : members[p][i] \in EntrySet
    BY <1>1, LenProperties, ElementOfSeq DEF Roster
  <1> QED BY <1>2 DEF Names, EntrySet

(* The members of a list refer to its party already.                       *)
LEMMA ToldNothing ==
    ASSUME TypeOK, Dead, Known, NEW lists, NEW p,
           \A q \in PartyId : Names(lists[q]) \subseteq Names(members[q])
    PROVE  Told(party, lists, p) = party
  <1>1. \A d \in Char : d \in Here => at[d] # None
    BY PartyAssumption DEF Here, Server
  <1>2. ASSUME NEW d \in Char, p \in PartyId, d \in Here, d \in Names(lists[p])
        PROVE  party[d] = p
    <2>1. d \in Names(members[p]) /\ p \in parties
      BY <1>2 DEF Dead
    <2> QED BY <1>1, <1>2, <2>1 DEF Known
  <1> QED BY <1>2 DEF Told, TypeOK

LEMMA RequestOnce ==
    ASSUME OnceInv, NEW c \in Char, Request(c)
    PROVE  Known' /\ Settled' /\ Single' /\ OnlineIsShown'
  <1> USE DEF placeVars
  <1>0. /\ members \in [PartyId -> Roster] /\ parties \subseteq PartyId
        /\ TypeOK /\ Dead /\ Known /\ Settled /\ Single /\ OnlineIsShown
        /\ \A d \in Here : d \in Char /\ at[d] # None
        /\ party \in [Char -> PartyId \cup {NoParty}]
        /\ \A d \in Here : party[d] # NoParty =>
              party[d] \in parties /\ d \in Names(members[party[d]])
    BY MembersType, PartyAssumption
    DEF OnceInv, ListingInv, TypeOK, PartyListsIt, Here, Server
  <1>1. \A p \in PartyId : /\ members[p] \in Roster /\ Len(members[p]) \in Nat
                           /\ DOMAIN members[p] = 1..Len(members[p])
    BY <1>0, LenProperties DEF Roster
  <1>2. Settled' /\ Here' = Here
    BY <1>0 DEF Settled, Here, Request, createParty, Join, Leave, Expel, TakeOut, Disband,
                ChangeLeader, silentPartyUpdate
  <1>3. CASE createParty(c)
    <2> DEFINE new == runningPartyId
    <2>1. PICK e \in EntrySet : e = Entry(c, TRUE) /\ e.chr = c /\ e.online = TRUE
      BY NewEntry
    <2>2. /\ members' = [members EXCEPT ![new] = <<e>>]
          /\ parties' = parties \cup {new} /\ new \in PartyId /\ party[c] = NoParty
          /\ party' = [party EXCEPT ![c] = new] /\ c \in Here /\ UNCHANGED <<at, transfer, saved>>
      BY <1>3, <2>1 DEF createParty
    <2>3. Names(<<e>>) = {c} /\ <<e>> \in Roster /\ Len(<<e>>) = 1 /\ <<e>>[1] = e
      BY <2>1, OneEntry
    <2>4. DOMAIN <<e>> = {1}
      BY <2>3, LenProperties DEF Roster
    <2>5. new \notin parties
      BY DEF OnceInv, ListingInv, IdsBelow, TypeOK
    <2>6. Known'
      <3> SUFFICES ASSUME NEW p \in parties', NEW d \in Names(members'[p])
                   PROVE  /\ at[d] # None => party'[d] = p
                          /\ at[d] = None => saved[d] = p /\ \A s \in Server :
                                                transfer[s][d] \in {None, p}
        BY <2>2 DEF Known
      <3>1. CASE p = new
        BY <1>0, <2>2, <2>3, <3>1
      <3>2. CASE p # new
        <4>1. p \in parties /\ d \in Names(members[p])
          BY <1>0, <2>2, <3>2
        <4>2. d # c
          BY <1>0, <2>2, <4>1, NoPartyIsNone DEF Known
        <4> QED BY <1>0, <2>2, <4>1, <4>2 DEF Known
      <3> QED BY <3>1, <3>2
    <2>7. Single'
      BY <1>0, <2>2, <2>4 DEF Single, Distinct
    <2>8. OnlineIsShown'
      <3> SUFFICES ASSUME NEW p \in parties', NEW i \in DOMAIN members'[p],
                          members'[p][i].chr \in Here
                   PROVE  members'[p][i].online
        BY <1>2 DEF OnlineIsShown
      <3>1. CASE p = new
        BY <1>0, <2>1, <2>2, <2>3, <2>4, <3>1
      <3>2. CASE p # new
        BY <1>0, <2>2, <3>2 DEF OnlineIsShown
      <3> QED BY <3>1, <3>2
    <2> QED BY <1>2, <2>6, <2>7, <2>8
  <1>4. ASSUME NEW q \in PartyId, Join(c, q)
        PROVE  Known' /\ Single' /\ OnlineIsShown'
    <2>1. PICK e \in EntrySet : e = Entry(c, TRUE) /\ e.chr = c /\ e.online = TRUE
      BY NewEntry
    <2> DEFINE new == Append(members[q], e)
    <2>2. /\ members' = [members EXCEPT ![q] = new] /\ q \in parties
          /\ party' = Told(party, members', q) /\ party[c] = NoParty /\ c \in Here
          /\ parties' = parties /\ UNCHANGED <<at, transfer, saved>>
      BY <1>4, <2>1 DEF Join, MayJoin
    <2>3. /\ new \in Roster /\ Len(new) = Len(members[q]) + 1
          /\ Names(new) = Names(members[q]) \cup {c}
          /\ \A i \in 1..Len(members[q]) : new[i] = members[q][i]
          /\ new[Len(members[q]) + 1] = e
      <3> DEFINE list == members[q]
      <3>1. list \in Roster
        BY <1>1
      <3> HIDE DEF list
      <3>2. /\ Append(list, e) \in Roster /\ Len(Append(list, e)) = Len(list) + 1
            /\ Names(Append(list, e)) = Names(list) \cup {e.chr}
            /\ \A i \in 1..Len(list) : Append(list, e)[i] = list[i]
            /\ Append(list, e)[Len(list) + 1] = e
        BY <3>1, AppendKeeps
      <3> QED BY <3>2, <2>1 DEF list
    <2>4. DOMAIN new = 1..(Len(members[q]) + 1)
      BY <2>3, LenProperties DEF Roster
    <2> HIDE DEF new
    <2>5. \A p \in parties : c \notin Names(members[p])
      BY <1>0, <2>2, NoPartyIsNone DEF Known
    <2>6. Known'
      <3> SUFFICES ASSUME NEW p \in parties, NEW d \in Names(members'[p])
                   PROVE  /\ at[d] # None => party'[d] = p
                          /\ at[d] = None => saved[d] = p /\ \A s \in Server :
                                                transfer[s][d] \in {None, p}
        BY <2>2 DEF Known
      <3>1. CASE d = c
        <4>1. p = q
          BY <1>0, <2>2, <2>5, <3>1
        <4> QED BY <1>0, <2>2, <2>3, <3>1, <4>1 DEF Told
      <3>2. CASE d # c
        <4>1. d \in Names(members[p])
          BY <1>0, <2>2, <2>3, <3>2
        <4>2. at[d] # None => party[d] = p
          BY <1>0, <4>1 DEF Known
        <4>3. at[d] # None => party'[d] = p
          <5> SUFFICES ASSUME at[d] # None PROVE party'[d] = p
            OBVIOUS
          <5>0. d \in Char
            BY <1>0, <4>1, NamesAreChars
          <5>1. CASE d \in Here /\ d \in Names(members'[q])
            <6>1. d \in Names(members[q])
              BY <1>0, <2>2, <2>3, <3>2, <5>1
            <6>2. p = q
              BY <1>0, <2>2, <4>2, <6>1 DEF Known
            <6> QED BY <2>2, <5>0, <5>1, <6>2 DEF Told
          <5>2. CASE ~(d \in Here /\ d \in Names(members'[q]))
            BY <2>2, <4>2, <5>0, <5>2 DEF Told
          <5> QED BY <5>1, <5>2
        <4> QED BY <1>0, <4>1, <4>3 DEF Known
      <3> QED BY <3>1, <3>2
    <2>7. Single'
      <3> SUFFICES ASSUME NEW i \in DOMAIN new, NEW j \in DOMAIN new, new[i].chr = new[j].chr
                   PROVE  i = j
        BY <1>0, <2>2 DEF Single, Distinct
      <3>1. \A k \in 1..Len(members[q]) : new[k].chr # c
        BY <1>1, <2>2, <2>3, <2>5 DEF Names
      <3>2. CASE i \in 1..Len(members[q]) /\ j \in 1..Len(members[q])
        BY <1>0, <1>1, <2>3, <3>2 DEF Single, Distinct
      <3>3. new[Len(members[q]) + 1].chr = c
        BY <2>1, <2>3
      <3>4. CASE i = Len(members[q]) + 1 /\ j \in 1..Len(members[q])
        BY <3>1, <3>3, <3>4
      <3>5. CASE j = Len(members[q]) + 1 /\ i \in 1..Len(members[q])
        BY <3>1, <3>3, <3>5
      <3> QED BY <1>1, <2>4, <3>2, <3>4, <3>5
    <2>8. OnlineIsShown'
      <3> SUFFICES ASSUME NEW p \in parties, NEW i \in DOMAIN members'[p],
                          members'[p][i].chr \in Here
                   PROVE  members'[p][i].online
        BY <1>2, <2>2 DEF OnlineIsShown
      <3>1. CASE p = q /\ i = Len(members[q]) + 1
        BY <1>0, <2>1, <2>2, <2>3, <3>1
      <3>2. CASE p = q /\ i # Len(members[q]) + 1
        <4>1. i \in 1..Len(members[q]) /\ members'[p][i] = members[q][i]
          BY <1>0, <1>1, <2>2, <2>3, <2>4, <3>2
        <4> QED BY <1>0, <1>1, <3>2, <4>1 DEF OnlineIsShown
      <3>3. CASE p # q
        BY <1>0, <2>2, <3>3 DEF OnlineIsShown
      <3> QED BY <3>1, <3>2, <3>3
    <2> QED BY <2>6, <2>7, <2>8
  <1>5. ASSUME NEW q \in parties, NEW e \in Names(members[q]), TakeOut(q, e)
        PROVE  Known' /\ Single' /\ OnlineIsShown'
    <2>1. PICK new \in removeMember(members[q], e) : members' = [members EXCEPT ![q] = new]
      BY <1>5 DEF TakeOut
    <2>2. /\ parties' = parties /\ UNCHANGED <<at, transfer, saved>>
          /\ party' = [d \in Char |-> IF d = e /\ e \in Here THEN NoParty
                                      ELSE Told(party, members', q)[d]]
      BY <1>5 DEF TakeOut
    <2>3. e \in Char
      BY <1>0, <1>5, NamesAreChars
    <2>4. /\ Names(new) \subseteq Names(members[q])
          /\ \A k \in DOMAIN new : \E j \in DOMAIN members[q] : new[k] = members[q][j]
      BY <1>0, <1>1, <2>1, <2>3, RemoveMember
    <2>5. Distinct(new) /\ e \notin Names(new)
      BY <1>0, <1>1, <1>5, <2>1, RemoveDistinct DEF Single
    <2>6. Told(party, members', q) = party
      BY <1>0, <2>1, <2>4, ToldNothing
    <2>7. Known'
      <3> SUFFICES ASSUME NEW p \in parties, NEW d \in Names(members'[p])
                   PROVE  /\ at[d] # None => party'[d] = p
                          /\ at[d] = None => saved[d] = p /\ \A s \in Server :
                                                transfer[s][d] \in {None, p}
        BY <2>2 DEF Known
      <3>1. d \in Names(members[p])
        BY <1>0, <2>1, <2>4
      <3>2. d \in Char
        BY <1>0, <3>1, NamesAreChars
      <3>3. CASE d = e /\ e \in Here
        <4>1. p = q
          BY <1>0, <1>5, <3>1, <3>3 DEF Known
        <4> QED BY <1>0, <2>1, <2>5, <3>3, <4>1
      <3>4. CASE ~(d = e /\ e \in Here)
        <4>1. party'[d] = party[d]
          BY <2>2, <2>6, <3>2, <3>4
        <4> QED BY <1>0, <3>1, <4>1 DEF Known
      <3> QED BY <3>3, <3>4
    <2>8. Single'
      BY <1>0, <2>1, <2>5 DEF Single
    <2>9. OnlineIsShown'
      <3> SUFFICES ASSUME NEW p \in parties, NEW i \in DOMAIN members'[p],
                          members'[p][i].chr \in Here
                   PROVE  members'[p][i].online
        BY <1>2, <2>2 DEF OnlineIsShown
      <3>1. \E j \in DOMAIN members[p] : members'[p][i] = members[p][j]
        BY <1>0, <2>1, <2>4
      <3> QED BY <1>0, <3>1 DEF OnlineIsShown
    <2> QED BY <2>7, <2>8, <2>9
  <1>6. CASE Leave(c)
    <2>1. party[c] \in parties /\ c \in Names(members[party[c]]) /\ TakeOut(party[c], c)
      BY <1>0, <1>6 DEF Leave
    <2> QED BY <1>2, <1>5, <2>1
  <1>7. CASE Disband(c)
    <2> DEFINE q == party[c]
    <2>1. /\ members' = [members EXCEPT ![q] = <<>>] /\ parties' = parties \ {q}
          /\ party' = [d \in Char |-> IF d \in Here /\ d \in Names(members[q]) \cup {c}
                                      THEN NoParty ELSE party[d]]
          /\ c \in Here /\ q # NoParty /\ UNCHANGED <<at, transfer, saved>>
      BY <1>7 DEF Disband
    <2>2. q \in parties
      BY <1>0, <2>1
    <2> HIDE DEF q
    <2>3. \A p \in parties : \A d \in Names(members[p]) : d \in Here /\
             (d \in Names(members[q]) \/ d = c) => p = q
      BY <1>0, <2>2 DEF Known, q
    <2>4. Known'
      <3> SUFFICES ASSUME NEW p \in parties', NEW d \in Names(members'[p])
                   PROVE  /\ at[d] # None => party'[d] = p
                          /\ at[d] = None => saved[d] = p /\ \A s \in Server :
                                                transfer[s][d] \in {None, p}
        BY <2>1 DEF Known
      <3>1. p \in parties /\ p # q /\ d \in Names(members[p])
        BY <1>0, <2>1
      <3>2. d \in Char
        BY <1>0, <3>1, NamesAreChars
      <3>3. party'[d] = party[d]
        BY <2>1, <2>3, <3>1, <3>2
      <3> QED BY <1>0, <3>1, <3>3 DEF Known
    <2>5. Single'
      <3>1. DOMAIN <<>> = {}
        OBVIOUS
      <3> QED BY <1>0, <2>1, <3>1 DEF Single, Distinct
    <2>6. OnlineIsShown'
      BY <1>0, <1>2, <2>1 DEF OnlineIsShown
    <2> QED BY <1>2, <2>4, <2>5, <2>6
  <1>8. ASSUME NEW d \in Char, Expel(c, d)
        PROVE  Known' /\ Single' /\ OnlineIsShown'
    <2>1. party[c] \in parties /\ d \in Names(members[party[c]]) /\ TakeOut(party[c], d)
      BY <1>0, <1>8 DEF Expel
    <2> QED BY <1>5, <2>1
  <1>9. ASSUME NEW q \in parties, NEW e \in EntrySet, members' = Update(members, q, e),
               e.chr \in Here => e.online,
               party' = Told(party, members', q), UNCHANGED <<parties, at, transfer, saved>>
        PROVE  Known' /\ Single' /\ OnlineIsShown'
    <2>1. \A p \in PartyId :
             /\ Names(members'[p]) = Names(members[p])
             /\ DOMAIN members'[p] = DOMAIN members[p]
             /\ \A i \in DOMAIN members[p] :
                   members'[p][i] = IF p = q /\ members[p][i].chr = e.chr THEN e ELSE members[p][i]
      BY <1>0, <1>9, UpdateKeeps
    <2>2. party' = party
      BY <1>0, <1>9, <2>1, ToldNothing
    <2>3. Known'
      BY <1>0, <1>9, <2>1, <2>2 DEF Known
    <2>4. Single'
      BY <1>0, <2>1 DEF Single, Distinct
    <2>5. OnlineIsShown'
      BY <1>0, <1>2, <1>9, <2>1 DEF OnlineIsShown
    <2> QED BY <2>3, <2>4, <2>5
  <1>10. ASSUME NEW d \in Char, ChangeLeader(c, d)
        PROVE  Known' /\ Single' /\ OnlineIsShown'
    <2>1. PICK i \in First(members[party[c]], d) :
             members' = Update(members, party[c], members[party[c]][i])
      BY <1>10 DEF ChangeLeader
    <2>2. party[c] \in parties /\ i \in DOMAIN members[party[c]]
      BY <1>0, <1>10, <2>1 DEF ChangeLeader, First
    <2>3. members[party[c]][i] \in EntrySet
      BY <1>0, <1>1, <2>2, ElementOfSeq DEF Roster
    <2>4. members[party[c]][i].chr \in Here => members[party[c]][i].online
      BY <1>0, <2>2 DEF OnlineIsShown
    <2> QED BY <1>9, <1>10, <2>1, <2>2, <2>3, <2>4 DEF ChangeLeader
  <1>11. CASE silentPartyUpdate(c)
    <2>1. PICK e \in EntrySet : e = Entry(c, TRUE) /\ e.chr = c /\ e.online = TRUE
      BY NewEntry
    <2>2. party[c] \in parties
      BY <1>0, <1>11 DEF silentPartyUpdate
    <2>3. /\ members' = Update(members, party[c], e)
          /\ party' = Told(party, members', party[c])
          /\ UNCHANGED <<parties, at, transfer, saved>>
      BY <1>11, <2>1 DEF silentPartyUpdate
    <2> QED BY <1>2, <1>9, <2>1, <2>2, <2>3
  <1> QED BY <1>2, <1>3, <1>4, <1>6, <1>7, <1>8, <1>10, <1>11 DEF Request

LEMMA MoveOnce ==
    ASSUME ~Late, OnceInv, NEW c \in Char, Move(c)
    PROVE  Known' /\ Settled' /\ Single' /\ OnlineIsShown'
  <1> USE DEF partyVars
  <1>0. /\ members \in [PartyId -> Roster] /\ parties \subseteq PartyId
        /\ TypeOK /\ Dead /\ Known /\ Settled /\ Single /\ OnlineIsShown
        /\ \A d \in Here : d \in Char /\ at[d] # None
        /\ party \in [Char -> PartyId \cup {NoParty}]
        /\ at \in [Char -> Server \cup {None}]
        /\ transfer \in [Server -> [Char -> PartyId \cup {NoParty, None}]]
        /\ saved \in [Char -> PartyId \cup {NoParty}]
        /\ \A s \in Server : s # None
        /\ Shop \in Server \ Channel /\ Channel \subseteq Server
    BY MembersType, PartyAssumption DEF OnceInv, ListingInv, TypeOK, Here, Server
  <1>1. \A p \in parties : \A d \in Names(members[p]) : d \in Char
    BY <1>0, NamesAreChars
  <1>2. CASE saveToDB(c)
    <2>1. Known' /\ Settled'
      BY <1>0, <1>1, <1>2 DEF saveToDB, Known, Settled, Here
    <2>2. Single' /\ OnlineIsShown'
      BY <1>0, <1>2 DEF saveToDB, Single, OnlineIsShown, Here
    <2> QED BY <2>1, <2>2
  <1>3. ASSUME NEW s \in Server, Depart(c, s)
        PROVE  Known' /\ Settled' /\ Single' /\ OnlineIsShown'
    <2>1. /\ at[c] # None /\ UNCHANGED <<parties, members>>
          /\ at' = [at EXCEPT ![c] = None] /\ saved' = [saved EXCEPT ![c] = party[c]]
          /\ transfer' = [transfer EXCEPT ![s][c] = party[c]]
          /\ party' = [party EXCEPT ![c] = NoParty]
      BY <1>3 DEF Depart
    <2>2. \A t \in Server : transfer[t][c] = None
      BY <1>0, <2>1 DEF Settled
    <2>3. \A t \in Server : \A d \in Char :
             transfer'[t][d] = IF t = s /\ d = c THEN party[c] ELSE transfer[t][d]
      BY <1>0, <2>1
    <2>4. Known'
      <3> SUFFICES ASSUME NEW p \in parties, NEW d \in Names(members[p])
                   PROVE  /\ at'[d] # None => party'[d] = p
                          /\ at'[d] = None => saved'[d] = p /\ \A t \in Server :
                                                transfer'[t][d] \in {None, p}
        BY <2>1 DEF Known
      <3>1. CASE d = c
        <4>1. party[c] = p
          BY <1>0, <2>1, <3>1 DEF Known
        <4> QED BY <1>0, <2>1, <2>2, <2>3, <3>1, <4>1
      <3>2. CASE d # c
        BY <1>0, <1>1, <2>1, <2>3, <3>2 DEF Known
      <3> QED BY <3>1, <3>2
    <2>5. Settled'
      BY <1>0, <2>1, <2>2, <2>3 DEF Settled
    <2>6. Single' /\ OnlineIsShown'
      BY <1>0, <2>1 DEF Single, OnlineIsShown, Here
    <2> QED BY <2>4, <2>5, <2>6
  <1>4. ASSUME NEW s \in Server, Loggedin(c, s)
        PROVE  Known' /\ Settled' /\ Single' /\ OnlineIsShown'
    <2> DEFINE p    == Found(Carried(c, s), c)
               left == Update(members, party[c], Entry(c, FALSE))
               refs == Told(party, left, party[c])
    <2>1. /\ s \in Channel /\ at[c] = None /\ UNCHANGED parties
          /\ \A t \in Server \ {s} : transfer[t][c] = None
          /\ members' = Update(left, p, Entry(c, TRUE))
          /\ party' = [Told(refs, left, p) EXCEPT ![c] = p]
          /\ at' = [at EXCEPT ![c] = s]
          /\ transfer' = [transfer EXCEPT ![s][c] = None]
          /\ \A d \in Char : d # c => saved'[d] = saved[d]
      BY <1>0, <1>4 DEF Loggedin, LogOn
    <2>2. PICK off \in EntrySet, on \in EntrySet :
             /\ off = Entry(c, FALSE)
             /\ on = Entry(c, TRUE) /\ on.chr = c /\ on.online = TRUE
      BY NewEntry
    <2>3. party[c] = NoParty
      BY <1>0, <2>1 DEF TypeOK
    <2>4. left = members
      BY <1>0, <2>3, NoPartyIsNone DEF Update
    <2>5. refs = party /\ Told(party, members, p) = party
      <3>1. \A q \in PartyId : Names(members[q]) \subseteq Names(members[q])
        OBVIOUS
      <3> HIDE DEF p
      <3>2. \A q : Told(party, members, q) = party
        BY <1>0, <3>1, ToldNothing
      <3> QED BY <2>4, <3>2
    <2>6. members' = Update(members, p, on) /\ party' = [party EXCEPT ![c] = p]
      BY <2>1, <2>2, <2>4, <2>5
    <2>7. \A q \in parties : c \in Names(members[q]) => p = q
      <3> SUFFICES ASSUME NEW q \in parties, c \in Names(members[q]) PROVE p = q
        OBVIOUS
      <3>1. saved[c] = q /\ transfer[s][c] \in {None, q}
        BY <1>0, <2>1 DEF Known
      <3>2. Carried(c, s) = q
        BY <3>1 DEF Carried
      <3> QED BY <3>2 DEF Found
    <2> HIDE DEF p, left, refs
    <2>8. \A q \in PartyId :
             /\ Names(members'[q]) = Names(members[q])
             /\ DOMAIN members'[q] = DOMAIN members[q]
             /\ \A i \in DOMAIN members[q] :
                   members'[q][i] = IF q = p /\ members[q][i].chr = on.chr THEN on ELSE members[q][i]
      BY <1>0, <2>6, UpdateKeeps
    <2>9. Known'
      <3> SUFFICES ASSUME NEW q \in parties, NEW d \in Names(members[q])
                   PROVE  /\ at'[d] # None => party'[d] = q
                          /\ at'[d] = None => saved'[d] = q /\ \A t \in Server :
                                                transfer'[t][d] \in {None, q}
        <4>1. parties' = parties /\ \A q \in parties : Names(members'[q]) = Names(members[q])
          BY <1>0, <2>1, <2>8
        <4> QED BY <4>1 DEF Known
      <3>1. CASE d = c
        BY <1>0, <2>1, <2>6, <2>7, <3>1
      <3>2. CASE d # c
        BY <1>0, <1>1, <2>1, <2>6, <3>2 DEF Known
      <3> QED BY <3>1, <3>2
    <2>10. Settled'
      BY <1>0, <2>1 DEF Settled
    <2>11. Single'
      <3>1. \A q \in PartyId : \A i \in DOMAIN members[q] : members'[q][i].chr = members[q][i].chr
        BY <2>8
      <3> QED BY <1>0, <2>8, <3>1 DEF Single, Distinct
    <2>12. OnlineIsShown'
      <3> SUFFICES ASSUME NEW q \in parties, NEW i \in DOMAIN members[q],
                          members'[q][i].chr \in Here'
                   PROVE  members'[q][i].online
        BY <1>0, <2>1, <2>8 DEF OnlineIsShown
      <3>1. CASE members[q][i].chr = c
        <4>1. c \in Names(members[q])
          BY <3>1 DEF Names
        <4> QED BY <1>0, <2>2, <2>7, <2>8, <3>1, <4>1
      <3>2. CASE members[q][i].chr # c
        <4>1. members'[q][i] = members[q][i]
          BY <1>0, <2>2, <2>8, <3>2
        <4>2. members[q][i].chr \in Here
          BY <1>0, <2>1, <3>2, <4>1 DEF Here
        <4> QED BY <1>0, <4>1, <4>2 DEF OnlineIsShown
      <3> QED BY <3>1, <3>2
    <2> QED BY <2>9, <2>10, <2>11, <2>12
  <1>5. ASSUME NEW s \in Server, PersistingTask(c, s)
        PROVE  Known' /\ Settled' /\ Single' /\ OnlineIsShown'
    <2>1. \A t \in Server : \A d \in Char :
             transfer'[t][d] = IF t = s /\ d = c THEN None ELSE transfer[t][d]
      BY <1>0, <1>5 DEF PersistingTask
    <2>2. Known' /\ Settled'
      BY <1>0, <1>1, <1>5, <2>1 DEF PersistingTask, Known, Settled
    <2>3. Single' /\ OnlineIsShown'
      BY <1>0, <1>5 DEF PersistingTask, Single, OnlineIsShown, Here
    <2> QED BY <2>2, <2>3
  <1>6. CASE EnterCS(c)
    <2> DEFINE p == Found(transfer[Shop][c], c)
    <2>1. /\ at[c] = None /\ transfer[Shop][c] # None /\ UNCHANGED <<parties, members, saved>>
          /\ at' = [at EXCEPT ![c] = Shop] /\ party' = [party EXCEPT ![c] = p]
          /\ transfer' = [transfer EXCEPT ![Shop][c] = None]
      BY <1>6 DEF EnterCS
    <2>2. \A q \in parties : c \in Names(members[q]) => p = q
      <3> SUFFICES ASSUME NEW q \in parties, c \in Names(members[q]) PROVE p = q
        OBVIOUS
      <3>1. transfer[Shop][c] = q
        BY <1>0, <2>1 DEF Known
      <3> QED BY <3>1 DEF Found
    <2> HIDE DEF p
    <2>3. \A t \in Server \ {Shop} : transfer[t][c] = None
      BY <1>0, <2>1 DEF Settled
    <2>4. Known'
      <3> SUFFICES ASSUME NEW q \in parties, NEW d \in Names(members[q])
                   PROVE  /\ at'[d] # None => party'[d] = q
                          /\ at'[d] = None => saved'[d] = q /\ \A t \in Server :
                                                transfer'[t][d] \in {None, q}
        BY <2>1 DEF Known
      <3>1. CASE d = c
        BY <1>0, <2>1, <2>2, <3>1
      <3>2. CASE d # c
        BY <1>0, <1>1, <2>1, <3>2 DEF Known
      <3> QED BY <3>1, <3>2
    <2>5. Settled'
      BY <1>0, <2>1, <2>3 DEF Settled
    <2>6. Single' /\ OnlineIsShown'
      BY <1>0, <2>1 DEF Single, OnlineIsShown, Here
    <2> QED BY <2>4, <2>5, <2>6
  <1>7. CASE disconnect(c)
    <2>1. PICK off \in EntrySet : off = Entry(c, FALSE) /\ off.chr = c
      BY NewEntry
    <2>2. /\ members' = Update(members, party[c], off) /\ at[c] # None
          /\ party' = [Told(party, members', party[c]) EXCEPT ![c] = NoParty]
          /\ at' = [at EXCEPT ![c] = None] /\ saved' = [saved EXCEPT ![c] = party[c]]
          /\ UNCHANGED <<parties, transfer>>
      BY <1>7, <2>1 DEF disconnect
    <2>3. \A q \in PartyId :
             /\ Names(members'[q]) = Names(members[q])
             /\ DOMAIN members'[q] = DOMAIN members[q]
             /\ \A i \in DOMAIN members[q] :
                   members'[q][i] = IF q = party[c] /\ members[q][i].chr = off.chr
                                    THEN off ELSE members[q][i]
      <3>1. members' = Update(members, party[c], off)
        BY <2>2
      <3> QED BY <1>0, <3>1, UpdateKeeps
    <2>4. party' = [party EXCEPT ![c] = NoParty]
      BY ZenonT(60), <1>0, <2>2, <2>3, ToldNothing
    <2>5. \A t \in Server : transfer[t][c] = None
      BY <1>0, <2>2 DEF Settled
    <2>6. Known'
      <3> SUFFICES ASSUME NEW q \in parties, NEW d \in Names(members[q])
                   PROVE  /\ at'[d] # None => party'[d] = q
                          /\ at'[d] = None => saved'[d] = q /\ \A t \in Server :
                                                transfer'[t][d] \in {None, q}
        BY <1>0, <2>2, <2>3 DEF Known
      <3>1. CASE d = c
        BY <1>0, <2>2, <2>5, <3>1 DEF Known
      <3>2. CASE d # c
        BY <1>0, <1>1, <2>2, <2>4, <3>2 DEF Known
      <3> QED BY <3>1, <3>2
    <2>7. Settled'
      BY <1>0, <2>2, <2>5 DEF Settled
    <2>8. Single'
      <3>1. \A q \in PartyId : \A i \in DOMAIN members[q] : members'[q][i].chr = members[q][i].chr
        BY <2>3
      <3> QED BY <1>0, <2>3, <3>1 DEF Single, Distinct
    <2>9. OnlineIsShown'
      <3> SUFFICES ASSUME NEW q \in parties, NEW i \in DOMAIN members[q],
                          members'[q][i].chr \in Here'
                   PROVE  members'[q][i].online
        BY <1>0, <2>2, <2>3 DEF OnlineIsShown
      <3>1. members'[q][i].chr = members[q][i].chr
        BY <1>0, <2>1, <2>3
      <3>2. members[q][i].chr # c /\ members[q][i].chr \in Here
        BY <1>0, <2>2, <3>1 DEF Here, Server
      <3>3. members'[q][i] = members[q][i]
        BY <1>0, <2>1, <2>3, <3>2
      <3> QED BY <1>0, <3>2, <3>3 DEF OnlineIsShown
    <2> QED BY <2>6, <2>7, <2>8, <2>9
  <1> QED BY <1>2, <1>3, <1>4, <1>5, <1>6, <1>7 DEF Move

LEMMA RestartOnce ==
    ASSUME Restart
    PROVE  Known' /\ Settled' /\ Single' /\ OnlineIsShown'
  <1>1. parties' = {} /\ members' = [p \in PartyId |-> <<>>]
        /\ at' = [c \in Char |-> None] /\ transfer' = [s \in Server |-> [c \in Char |-> None]]
    BY DEF Restart
  <1>2. DOMAIN <<>> = {}
    OBVIOUS
  <1> QED BY <1>1, <1>2 DEF Known, Settled, Single, Distinct, OnlineIsShown

(* With prompt clients the strengthened invariant is inductive.            *)
LEMMA OnceInvariant ==
    ASSUME ~Late
    PROVE  Spec => []OnceInv
  <1>1. Init /\ ListingInv => OnceInv
    <2>1. DOMAIN <<>> = {}
      OBVIOUS
    <2> QED BY <2>1 DEF Init, OnceInv, Known, Settled, Single, Distinct, OnlineIsShown
  <1>2. OnceInv /\ ListingInv' /\ [Next]_vars => OnceInv'
    <2> SUFFICES ASSUME OnceInv, ListingInv', [Next]_vars PROVE OnceInv'
      OBVIOUS
    <2>1. CASE UNCHANGED vars
      <3>1. Known' /\ Settled' /\ Single' /\ OnlineIsShown'
        BY <2>1 DEF OnceInv, Known, Settled, Single, Distinct, OnlineIsShown, Here,
                    vars, partyVars, placeVars
      <3> QED BY <3>1 DEF OnceInv
    <2>2. CASE Next
      BY <2>2, RequestOnce, MoveOnce, RestartOnce DEF Next, OnceInv
    <2> QED BY <2>1, <2>2
  <1> QED BY <1>1, <1>2, ListingInvariant, PTL DEF Spec

LEMMA OnceSuffices == OnceInv => MemberKnowsIt /\ OneParty /\ OnlineIsShown
  <1> SUFFICES ASSUME OnceInv PROVE MemberKnowsIt /\ OneParty
    BY DEF OnceInv
  <1>1. parties \subseteq PartyId /\ Known /\ Single
    BY DEF OnceInv, ListingInv, TypeOK
  <1>2. MemberKnowsIt
    BY <1>1, PartyAssumption DEF MemberKnowsIt, Known, Here, Server
  <1>3. OneParty
    <2> SUFFICES ASSUME NEW p \in parties, NEW q \in parties, NEW i \in DOMAIN members[p],
                        NEW j \in DOMAIN members[q], members[p][i].chr = members[q][j].chr
                 PROVE  p = q /\ i = j
      BY DEF OneParty
    <2>1. members[p][i].chr \in Names(members[p]) /\ members[p][i].chr \in Names(members[q])
      BY DEF Names
    <2>2. p = q
      BY <1>1, <2>1 DEF Known
    <2> QED BY <1>1, <2>2 DEF Single, Distinct
  <1> QED BY <1>2, <1>3

(***************************************************************************)
(* With prompt clients every member on a channel knows its party.          *)
(***************************************************************************)
THEOREM MembersKnowTheirParty ==
    ASSUME ~Late
    PROVE  Spec => []MemberKnowsIt
  BY OnceInvariant, OnceSuffices, PTL

(***************************************************************************)
(* With prompt clients nobody is in two parties or twice in one, across    *)
(* moves, visits to the shop, disconnects and restarts.                    *)
(***************************************************************************)
THEOREM NobodyIsInTwoParties ==
    ASSUME ~Late
    PROVE  Spec => []OneParty
  BY OnceInvariant, OnceSuffices, PTL

(***************************************************************************)
(* With prompt clients no member on a channel is shown as offline.         *)
(***************************************************************************)
THEOREM MembersAreShownOnline ==
    ASSUME ~Late
    PROVE  Spec => []OnlineIsShown
  BY OnceInvariant, OnceSuffices, PTL


=============================================================================
