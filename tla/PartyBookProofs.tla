-------------------------- MODULE PartyBookProofs --------------------------
(***************************************************************************)
(* With prompt clients the lists, references, transfers and saved ids of   *)
(* Party are the book of parties PartyBook, for any number of characters,  *)
(* channels and parties.                                                   *)
(*                                                                         *)
(* The invariant of PartyProofs lists a character in one party at most, so *)
(* its group, a CHOOSE among the parties that list it, is determined by    *)
(* the names on the lists (Filed); each action then says what becomes of   *)
(* the names, and the book's action what becomes of the groups.            *)
(***************************************************************************)
EXTENDS PartyProofs, FiniteSetTheorems

Groups == [Char -> PartyId \cup {NoParty}]

(* A character's group is the party whose list has its name.               *)
Filed ==
    /\ Group \in Groups
    /\ \A c \in Char : \A p \in PartyId : Group[c] = p <=> c \in Names(members[p])

(* A party has a leader.                                                   *)
Led == \A p \in parties : leader[p] \in Char

BookInv == OnceInv /\ Led

LEMMA GroupIsFiled == OnceInv => Filed
  <1> SUFFICES ASSUME OnceInv PROVE Filed
    OBVIOUS
  <1>1. parties \subseteq PartyId /\ Known /\ Dead
    BY DEF OnceInv, ListingInv, TypeOK
  <1>2. ASSUME NEW c \in Char
        PROVE  /\ Group[c] \in PartyId \cup {NoParty}
               /\ \A p \in PartyId : Group[c] = p <=> c \in Names(members[p])
    <2>1. \A p, q \in Listing(c) : p = q
      BY <1>1 DEF Listing, Known
    <2>2. \A p \in PartyId : p \in Listing(c) <=> c \in Names(members[p])
      BY <1>1 DEF Listing, Dead
    <2>3. CASE Listing(c) = {}
      BY <2>2, <2>3, NoPartyIsNone DEF Group
    <2>4. CASE Listing(c) # {}
      <3>1. PICK p : p \in Listing(c)
        BY <2>4
      <3>2. p \in PartyId
        BY <1>1, <3>1 DEF Listing
      <3>3. Group[c] = CHOOSE q \in Listing(c) : TRUE
        BY <2>4 DEF Group
      <3>4. Group[c] = p
        BY <2>1, <3>1, <3>3
      <3> QED BY <2>1, <2>2, <3>1, <3>2, <3>4
    <2> QED BY <2>3, <2>4
  <1> QED BY <1>2 DEF Filed, Groups, Group

(* Groups that agree on every party are the same.                          *)
LEMMA SameGroups ==
    ASSUME NEW g \in Groups, NEW h \in Groups,
           \A c \in Char : \A p \in PartyId : g[c] = p <=> h[c] = p
    PROVE  g = h
  <1>1. ASSUME NEW c \in Char PROVE g[c] = h[c]
    BY NoPartyIsNone DEF Groups
  <1> QED BY <1>1 DEF Groups

LEMMA Refiled ==
    ASSUME Filed', NEW h \in Groups,
           \A c \in Char : \A p \in PartyId : c \in Names(members'[p]) <=> h[c] = p
    PROVE  Group' = h
  <1> DEFINE g == Group'
  <1>1. g \in Groups /\ \A c \in Char : \A p \in PartyId : g[c] = p <=> h[c] = p
    BY DEF Filed
  <1> HIDE DEF g
  <1>2. g = h
    BY <1>1, SameGroups
  <1> QED BY <1>2 DEF g

(* A party does not have more members than entries.                        *)
LEMMA EntriesCount ==
    ASSUME NEW list \in Roster
    PROVE  Cardinality(Names(list)) \in Nat /\ Cardinality(Names(list)) <= Len(list)
  <1>1. Len(list) \in Nat /\ DOMAIN list = 1..Len(list)
    BY LenProperties DEF Roster
  <1> DEFINE name == [i \in 1..Len(list) |-> list[i].chr]
  <1>2. name \in Surjection(1..Len(list), Names(list))
    <2>1. name \in [1..Len(list) -> Names(list)]
      BY <1>1 DEF Names
    <2>2. \A c \in Names(list) : \E i \in 1..Len(list) : name[i] = c
      BY <1>1 DEF Names
    <2> QED BY <2>1, <2>2 DEF Surjection
  <1>3. ExistsSurjection(1..Len(list), Names(list))
    BY <1>2 DEF ExistsSurjection
  <1>4. Cardinality(Names(list)) <= Len(list)
    BY <1>1, <1>3, FS_SurjCardinalityBound
  <1>5. IsFiniteSet(Names(list))
    BY <1>1, <1>3, FS_NatSurjection
  <1> QED BY <1>4, <1>5, FS_CardinalityType

(* Who is on a channel is in the party it refers to, and in no other.      *)
LEMMA GroupIsParty ==
    ASSUME BookInv, Filed, NEW c \in Here
    PROVE  /\ c \in Char /\ Group[c] = party[c]
           /\ party[c] # NoParty => party[c] \in parties
  <1>1. /\ c \in Char /\ at[c] # None /\ party[c] \in PartyId \cup {NoParty}
        /\ Known /\ Dead /\ PartyListsIt
    BY PartyAssumption DEF BookInv, OnceInv, ListingInv, TypeOK, Here, Server
  <1>2. Group[c] \in PartyId => party[c] = Group[c]
    BY <1>1 DEF Filed, Known, Dead
  <1>3. party[c] \in PartyId => party[c] \in parties /\ Group[c] = party[c]
    BY <1>1, NoPartyIsNone DEF Filed, PartyListsIt
  <1> QED BY <1>1, <1>2, <1>3, NoPartyIsNone DEF Filed, Groups

-----------------------------------------------------------------------------
(* Steps that leave every name on its list leave the book alone.           *)

LEMMA NothingMoves ==
    ASSUME Filed, Filed', \A p \in PartyId : Names(members'[p]) = Names(members[p]),
           UNCHANGED <<parties, leader>>
    PROVE  UNCHANGED Book!vars
  <1>1. Group' = Group
    BY SameGroups DEF Filed
  <1>2. HeadOf' = HeadOf
    BY DEF HeadOf
  <1> QED BY <1>1, <1>2 DEF Book!vars

LEMMA RewrittenNames ==
    ASSUME NEW lists \in [PartyId -> Roster], NEW p, NEW c \in Char, NEW on \in BOOLEAN
    PROVE  /\ Update(lists, p, Entry(c, on)) \in [PartyId -> Roster]
           /\ \A q \in PartyId : Names(Update(lists, p, Entry(c, on))[q]) = Names(lists[q])
  <1>1. PICK e \in EntrySet : e = Entry(c, on)
    BY NewEntry
  <1>2. /\ Update(lists, p, e) \in [PartyId -> Roster]
        /\ \A q \in PartyId : Names(Update(lists, p, e)[q]) = Names(lists[q])
    BY UpdateKeeps
  <1> QED BY <1>1, <1>2

LEMMA MovesKeepNames ==
    ASSUME TypeOK, NEW c \in Char, Move(c)
    PROVE  /\ UNCHANGED <<parties, leader>>
           /\ \A p \in PartyId : Names(members'[p]) = Names(members[p])
  <1>1. members \in [PartyId -> Roster]
    BY MembersType
  <1>3. CASE saveToDB(c)
    BY <1>3 DEF saveToDB, partyVars
  <1>4. CASE \E s \in Server : Depart(c, s) \/ PersistingTask(c, s)
    BY <1>4 DEF Depart, PersistingTask, partyVars
  <1>5. ASSUME NEW s \in Server, Loggedin(c, s)
        PROVE  /\ UNCHANGED <<parties, leader>>
               /\ \A p \in PartyId : Names(members'[p]) = Names(members[p])
    <2> DEFINE old == party[c]
               p    == Found(Carried(c, s), c)
               left == Update(members, old, Entry(c, FALSE))
    <2>1. UNCHANGED <<parties, leader>> /\ members' = Update(left, p, Entry(c, TRUE))
      BY <1>5 DEF Loggedin, LogOn
    <2> HIDE DEF old, p
    <2>2. /\ left \in [PartyId -> Roster]
          /\ \A q \in PartyId : Names(left[q]) = Names(members[q])
      BY <1>1, RewrittenNames
    <2> HIDE DEF left
    <2>3. \A q \in PartyId : Names(Update(left, p, Entry(c, TRUE))[q]) = Names(left[q])
      BY <2>2, RewrittenNames
    <2> QED BY <2>1, <2>2, <2>3
  <1>6. CASE EnterCS(c)
    BY <1>6 DEF EnterCS, partyVars
  <1>7. CASE disconnect(c)
    <2>1. /\ UNCHANGED <<parties, leader>>
          /\ members' = Update(members, party[c], Entry(c, FALSE))
      BY <1>7 DEF disconnect
    <2>2. \A q \in PartyId :
             Names(Update(members, party[c], Entry(c, FALSE))[q]) = Names(members[q])
      BY <1>1, RewrittenNames
    <2> QED BY <2>1, <2>2
  <1> QED BY <1>3, <1>4, <1>5, <1>6, <1>7 DEF Move

(* Expelled or leaving, a character is out, and nobody else.               *)
LEMMA OneGoes ==
    ASSUME BookInv, Filed, Filed', NEW p \in PartyId, NEW c \in Names(members[p]),
           TakeOut(p, c)
    PROVE  /\ c \in Char /\ Group[c] = p
           /\ Group' = [Group EXCEPT ![c] = NoParty]
           /\ HeadOf' = HeadOf
  <1>1. /\ members \in [PartyId -> Roster] /\ Single /\ TypeOK
        /\ UNCHANGED <<parties, leader>>
    BY MembersType DEF BookInv, OnceInv, ListingInv, TakeOut
  <1>2. c \in Char /\ Group[c] = p
    BY <1>1, NamesAreChars DEF Filed
  <1>3. PICK list \in removeMember(members[p], c) : members' = [members EXCEPT ![p] = list]
    BY DEF TakeOut
  <1>4. Names(list) = Names(members[p]) \ {c}
    <2>1. Names(list) \subseteq Names(members[p]) /\ \A d \in Names(members[p]) :
             d # c => d \in Names(list)
      BY <1>1, <1>2, RemoveMember
    <2>2. c \notin Names(list)
      BY <1>1, RemoveDistinct DEF Single
    <2> QED BY <2>1, <2>2
  <1> DEFINE h == [Group EXCEPT ![c] = NoParty]
  <1>5. h \in Groups
    BY DEF Filed, Groups
  <1>6. \A d \in Char : \A q \in PartyId : d \in Names(members'[q]) <=> h[d] = q
    <2> SUFFICES ASSUME NEW d \in Char, NEW q \in PartyId
                 PROVE  d \in Names(members'[q]) <=> (d # c /\ d \in Names(members[q]))
      BY NoPartyIsNone DEF Filed, Groups
    <2>1. d = c => (d \in Names(members[q]) => q = p)
      BY <1>2 DEF Filed
    <2>2. CASE q = p
      BY <1>1, <1>3, <1>4, <2>2
    <2>3. CASE q # p
      BY <1>1, <1>3, <2>1, <2>3
    <2> QED BY <2>2, <2>3
  <1> HIDE DEF h
  <1>7. Group' = h
    BY <1>5, <1>6, Refiled
  <1>8. HeadOf' = HeadOf
    BY <1>1 DEF HeadOf
  <1> QED BY <1>2, <1>7, <1>8 DEF h

-----------------------------------------------------------------------------
(* Each request is a step of the book.                                     *)

LEMMA CreateFounds ==
    ASSUME BookInv, Filed, Filed', NEW c \in Char, createParty(c)
    PROVE  \E p \in PartyId : Book!Found(c, p)
  <1> DEFINE p == runningPartyId
             h == [Group EXCEPT ![c] = p]
  <1>1. /\ members \in [PartyId -> Roster] /\ leader \in [PartyId -> Char \cup {None}]
        /\ IdsBelow /\ Dead /\ runningPartyId \in Nat
    BY MembersType DEF BookInv, OnceInv, ListingInv, TypeOK
  <1>2. PICK e \in EntrySet : e = Entry(c, TRUE) /\ e.chr = c
    BY NewEntry
  <1>3. /\ c \in Here /\ party[c] = NoParty /\ p \in PartyId
        /\ parties' = parties \cup {p} /\ leader' = [leader EXCEPT ![p] = c]
        /\ members' = [members EXCEPT ![p] = <<e>>]
    BY <1>2 DEF createParty
  <1>4. p \notin parties /\ Names(members[p]) = {} /\ Group[c] = NoParty
    BY <1>1, <1>3, GroupIsParty DEF IdsBelow, Dead
  <1>5. Names(<<e>>) = {c}
    BY <1>2, OneEntry
  <1> HIDE DEF p
  <1>6. h \in Groups
    BY <1>3 DEF Filed, Groups
  <1>7. \A d \in Char : \A q \in PartyId : d \in Names(members'[q]) <=> h[d] = q
    <2> SUFFICES ASSUME NEW d \in Char, NEW q \in PartyId
                 PROVE  d \in Names(members'[q]) <=> h[d] = q
      OBVIOUS
    <2>1. CASE q = p
      BY <1>1, <1>3, <1>4, <1>5, <2>1 DEF Filed, Groups
    <2>2. CASE q # p
      BY <1>1, <1>3, <1>4, <2>2, NoPartyIsNone DEF Filed, Groups
    <2> QED BY <2>1, <2>2
  <1> HIDE DEF h
  <1>8. Group' = h
    BY <1>6, <1>7, Refiled
  <1>9. HeadOf[p] = None /\ HeadOf' = [HeadOf EXCEPT ![p] = c]
    BY <1>1, <1>3, <1>4 DEF HeadOf
  <1> QED BY <1>3, <1>4, <1>8, <1>9 DEF Book!Found, h

LEMMA JoinEnters ==
    ASSUME BookInv, Filed, Filed', NEW c \in Char, NEW p \in PartyId, Join(c, p)
    PROVE  Book!Enter(c, p)
  <1> DEFINE h == [Group EXCEPT ![c] = p]
             list == members[p]
  <1>1. members \in [PartyId -> Roster] /\ list \in Roster /\ Led /\ Limit \in Nat
    BY MembersType, PartyAssumption DEF BookInv, OnceInv, ListingInv
  <1>2. PICK e \in EntrySet : e = Entry(c, TRUE) /\ e.chr = c
    BY NewEntry
  <1>3. /\ c \in Here /\ party[c] = NoParty /\ p \in parties /\ Len(list) < Limit
        /\ members' = [members EXCEPT ![p] = Append(list, e)]
        /\ UNCHANGED <<parties, leader>>
    BY <1>2 DEF Join, MayJoin
  <1>4. Group[c] = NoParty
    BY <1>3, GroupIsParty
  <1>5. Cardinality(Book!In(p)) < Limit
    <2>1. Book!In(p) = Names(list)
      <3>1. Names(list) \subseteq Char
        BY NamesAreChars DEF BookInv, OnceInv, ListingInv
      <3> QED BY <3>1 DEF Filed, Book!In
    <2>2. PICK old \in Roster : old = list
      BY <1>1
    <2>3. Cardinality(Names(old)) \in Nat /\ Cardinality(Names(old)) <= Len(old)
      BY EntriesCount
    <2>4. Len(old) \in Nat
      BY LenProperties DEF Roster
    <2>5. Cardinality(Names(old)) < Limit
      BY <1>1, <1>3, <2>2, <2>3, <2>4
    <2> QED BY <2>1, <2>2, <2>5
  <1>6. Names(Append(list, e)) = Names(list) \cup {c}
    <2>1. PICK old \in Roster : old = list
      BY <1>1
    <2>2. Names(Append(old, e)) = Names(old) \cup {e.chr}
      BY AppendKeeps
    <2> QED BY <1>2, <2>1, <2>2
  <1>7. h \in Groups
    BY DEF Filed, Groups
  <1>8. \A d \in Char : \A q \in PartyId : d \in Names(members'[q]) <=> h[d] = q
    <2> SUFFICES ASSUME NEW d \in Char, NEW q \in PartyId
                 PROVE  d \in Names(members'[q]) <=> h[d] = q
      OBVIOUS
    <2>1. CASE q = p
      BY <1>1, <1>3, <1>6, <2>1 DEF Filed, Groups
    <2>2. CASE q # p
      BY <1>1, <1>3, <1>4, <2>2, NoPartyIsNone DEF Filed, Groups
    <2> QED BY <2>1, <2>2
  <1> HIDE DEF h
  <1>9. Group' = h
    BY <1>7, <1>8, Refiled
  <1>10. HeadOf[p] # None /\ HeadOf' = HeadOf
    BY <1>1, <1>3, PartyAssumption DEF HeadOf, Led
  <1>11. Book!Cardinality(Book!In(p)) = Cardinality(Book!In(p))
    BY DEF Book!Cardinality, Cardinality
  <1> QED BY <1>4, <1>5, <1>9, <1>10, <1>11 DEF Book!Enter, h

(* The head of the party that c refers to, on the server and in the book.  *)
LEMMA LeaderHeads ==
    ASSUME BookInv, Filed, NEW c \in Here, party[c] # NoParty
    PROVE  /\ c \in Char /\ Group[c] = party[c] /\ party[c] \in parties
           /\ party[c] \in PartyId /\ c \in Names(members[party[c]])
           /\ HeadOf[party[c]] = leader[party[c]]
           /\ leader[party[c]] = c => Book!Heads(c)
  <1>1. /\ c \in Char /\ Group[c] = party[c] /\ party[c] \in parties
        /\ party[c] \in PartyId
    BY GroupIsParty DEF BookInv, OnceInv, ListingInv, TypeOK
  <1>2. c \in Names(members[party[c]])
    BY <1>1 DEF Filed
  <1>3. HeadOf[party[c]] = leader[party[c]]
    BY <1>1 DEF HeadOf
  <1> QED BY <1>1, <1>2, <1>3 DEF Book!Heads

LEMMA LeaveQuits ==
    ASSUME BookInv, Filed, Filed', NEW c \in Char, Leave(c)
    PROVE  Book!Quit(c)
  <1>1. c \in Here /\ party[c] # NoParty /\ leader[party[c]] # c /\ TakeOut(party[c], c)
    BY DEF Leave
  <1>2. /\ Group[c] = party[c] /\ party[c] \in PartyId /\ c \in Names(members[party[c]])
        /\ HeadOf[party[c]] = leader[party[c]]
    BY <1>1, LeaderHeads
  <1>3. PICK p \in PartyId : p = party[c]
    BY <1>2
  <1>4. Group' = [Group EXCEPT ![c] = NoParty] /\ HeadOf' = HeadOf
    BY <1>1, <1>2, <1>3, OneGoes
  <1> QED BY <1>1, <1>2, <1>4 DEF Book!Quit

LEMMA ExpelExpels ==
    ASSUME BookInv, Filed, Filed', NEW c \in Char, NEW d \in Char, Expel(c, d)
    PROVE  Book!Expel(c, d)
  <1>1. /\ c \in Here /\ party[c] # NoParty /\ leader[party[c]] = c
        /\ d \in Names(members[party[c]]) /\ TakeOut(party[c], d)
    BY DEF Expel
  <1>2. Group[c] = party[c] /\ party[c] \in PartyId /\ Book!Heads(c)
    BY <1>1, LeaderHeads
  <1>3. PICK p \in PartyId : p = party[c]
    BY <1>2
  <1>4. Group[d] = p /\ Group' = [Group EXCEPT ![d] = NoParty] /\ HeadOf' = HeadOf
    BY <1>1, <1>3, OneGoes
  <1> QED BY <1>2, <1>3, <1>4 DEF Book!Expel

LEMMA ChangeHandsOver ==
    ASSUME BookInv, Filed, Filed', NEW c \in Char, NEW d \in Char, ChangeLeader(c, d)
    PROVE  Book!HandOver(c, d)
  <1>1. /\ c \in Here /\ party[c] # NoParty /\ leader[party[c]] = c
        /\ leader' = [leader EXCEPT ![party[c]] = d] /\ parties' = parties
    BY DEF ChangeLeader
  <1>2. /\ Group[c] = party[c] /\ party[c] \in parties /\ party[c] \in PartyId
        /\ Book!Heads(c)
    BY <1>1, LeaderHeads
  <1>3. PICK i \in First(members[party[c]], d) :
           members' = Update(members, party[c], members[party[c]][i])
    BY DEF ChangeLeader
  <1>4. /\ members \in [PartyId -> Roster] /\ leader \in [PartyId -> Char \cup {None}]
    BY MembersType DEF BookInv, OnceInv, ListingInv, TypeOK
  <1>5. PICK e \in EntrySet : e = members[party[c]][i] /\ e.chr = d
    BY <1>2, <1>3, <1>4, LenProperties, ElementOfSeq DEF First, Roster
  <1>6. d \in Names(members[party[c]])
    BY <1>3 DEF First, Names
  <1>7. Group[d] = party[c]
    BY <1>2, <1>6 DEF Filed
  <1>8. \A p \in PartyId : Names(members'[p]) = Names(members[p])
    <2>1. members' = Update(members, party[c], e)
      BY <1>3, <1>5
    <2> QED BY <1>4, <2>1, UpdateKeeps
  <1>9. Group' = Group
    BY <1>8, Refiled DEF Filed
  <1>10. HeadOf' = [HeadOf EXCEPT ![party[c]] = d]
    BY <1>1, <1>2, <1>4 DEF HeadOf
  <1> QED BY <1>2, <1>7, <1>9, <1>10 DEF Book!HandOver

LEMMA DisbandDissolves ==
    ASSUME BookInv, Filed, Filed', NEW c \in Char, Disband(c)
    PROVE  Book!Dissolve(c)
  <1>1. /\ c \in Here /\ party[c] # NoParty /\ leader[party[c]] = c
        /\ parties' = parties \ {party[c]} /\ leader' = leader
        /\ members' = [members EXCEPT ![party[c]] = <<>>]
    BY DEF Disband
  <1>2. /\ Group[c] = party[c] /\ party[c] \in parties /\ party[c] \in PartyId
        /\ Book!Heads(c)
    BY <1>1, LeaderHeads
  <1> DEFINE h == [d \in Char |-> IF Group[d] = Group[c] THEN NoParty ELSE Group[d]]
  <1>3. h \in Groups
    BY DEF Filed, Groups
  <1>4. \A d \in Char : \A q \in PartyId : d \in Names(members'[q]) <=> h[d] = q
    <2> SUFFICES ASSUME NEW d \in Char, NEW q \in PartyId
                 PROVE  d \in Names(members'[q]) <=> h[d] = q
      OBVIOUS
    <2>1. members \in [PartyId -> Roster]
      BY MembersType DEF BookInv, OnceInv, ListingInv
    <2>2. CASE q = party[c]
      BY <1>1, <1>2, <2>1, <2>2, NoEntry, NoPartyIsNone DEF Filed
    <2>3. CASE q # party[c]
      BY <1>1, <1>2, <2>1, <2>3, NoPartyIsNone DEF Filed
    <2> QED BY <2>2, <2>3
  <1> HIDE DEF h
  <1>5. Group' = h
    BY <1>3, <1>4, Refiled
  <1>6. HeadOf' = [HeadOf EXCEPT ![party[c]] = None]
    BY <1>1, <1>2 DEF HeadOf
  <1> QED BY <1>2, <1>5, <1>6 DEF Book!Dissolve, h

LEMMA UpdateMovesNothing ==
    ASSUME BookInv, Filed, Filed', NEW c \in Char, silentPartyUpdate(c)
    PROVE  UNCHANGED Book!vars
  <1>1. members' = Update(members, party[c], Entry(c, TRUE)) /\ UNCHANGED <<parties, leader>>
    BY DEF silentPartyUpdate
  <1>2. \A p \in PartyId : Names(members'[p]) = Names(members[p])
    <2>1. members \in [PartyId -> Roster]
      BY MembersType DEF BookInv, OnceInv, ListingInv
    <2>2. \A p \in PartyId :
             Names(Update(members, party[c], Entry(c, TRUE))[p]) = Names(members[p])
      BY <2>1, RewrittenNames
    <2> QED BY <1>1, <2>2
  <1> QED BY <1>1, <1>2, NothingMoves

LEMMA RestartLoses ==
    ASSUME Filed', Restart
    PROVE  Book!Lose
  <1>1. parties' = {} /\ members' = [p \in PartyId |-> <<>>]
    BY DEF Restart
  <1> DEFINE h == [c \in Char |-> NoParty]
  <1>2. h \in Groups /\ \A c \in Char : \A p \in PartyId :
                         c \in Names(members'[p]) <=> h[c] = p
    BY <1>1, NoEntry, NoPartyIsNone DEF Groups
  <1> HIDE DEF h
  <1>3. Group' = h
    BY <1>2, Refiled
  <1>4. HeadOf' = [p \in PartyId |-> None]
    BY <1>1 DEF HeadOf
  <1> QED BY <1>3, <1>4 DEF Book!Lose, h

-----------------------------------------------------------------------------
(* The refinement.                                                         *)

LEMMA BookStep ==
    ASSUME BookInv, Filed, Filed', [Next]_vars
    PROVE  [Book!Next]_(Book!vars)
  <1>1. CASE UNCHANGED vars
    BY <1>1 DEF vars, partyVars, placeVars, Book!vars, Group, HeadOf, Listing
  <1>2. CASE Restart
    BY <1>2, RestartLoses DEF Book!Next
  <1>3. ASSUME NEW c \in Char, Request(c)
        PROVE  [Book!Next]_(Book!vars)
    <2>1. CASE createParty(c)
      BY <2>1, CreateFounds DEF Book!Next
    <2>2. CASE \E p \in PartyId : Join(c, p)
      BY <2>2, JoinEnters DEF Book!Next
    <2>3. CASE Leave(c)
      BY <2>3, LeaveQuits DEF Book!Next
    <2>4. CASE Disband(c)
      BY <2>4, DisbandDissolves DEF Book!Next
    <2>5. CASE \E d \in Char : Expel(c, d)
      BY <2>5, ExpelExpels DEF Book!Next
    <2>6. CASE \E d \in Char : ChangeLeader(c, d)
      BY <2>6, ChangeHandsOver DEF Book!Next
    <2>7. CASE silentPartyUpdate(c)
      BY <2>7, UpdateMovesNothing
    <2> QED BY <1>3, <2>1, <2>2, <2>3, <2>4, <2>5, <2>6, <2>7 DEF Request
  <1>4. ASSUME NEW c \in Char, Move(c)
        PROVE  [Book!Next]_(Book!vars)
    BY <1>4, MovesKeepNames, NothingMoves DEF BookInv, OnceInv, ListingInv
  <1> QED BY <1>1, <1>2, <1>3, <1>4 DEF Next

LEMMA LedStep ==
    ASSUME BookInv, [Next]_vars
    PROVE  Led'
  <1>1. /\ leader \in [PartyId -> Char \cup {None}] /\ parties \subseteq PartyId /\ Led
        /\ TypeOK
    BY DEF BookInv, OnceInv, ListingInv, TypeOK
  <1>2. CASE UNCHANGED vars
    BY <1>1, <1>2 DEF vars, partyVars, Led
  <1>3. CASE Restart
    BY <1>3 DEF Restart, Led
  <1>4. ASSUME NEW c \in Char, Request(c)
        PROVE  Led'
    <2>1. CASE createParty(c)
      BY <1>1, <2>1 DEF createParty, Led
    <2>2. CASE \E d \in Char : ChangeLeader(c, d)
      BY <1>1, <2>2 DEF ChangeLeader, Led
    <2>3. CASE Disband(c)
      BY <1>1, <2>3 DEF Disband, Led
    <2>4. CASE \/ \E p \in PartyId : Join(c, p)
               \/ Leave(c)
               \/ \E d \in Char : Expel(c, d)
               \/ silentPartyUpdate(c)
      BY <1>1, <2>4 DEF Join, Leave, Expel, TakeOut, silentPartyUpdate, Led
    <2> QED BY <1>4, <2>1, <2>2, <2>3, <2>4 DEF Request
  <1>5. ASSUME NEW c \in Char, Move(c)
        PROVE  Led'
    BY <1>1, <1>5, MovesKeepNames DEF Led
  <1> QED BY <1>2, <1>3, <1>4, <1>5 DEF Next

LEMMA BookAtFirst == Init => Book!Init
  <1> SUFFICES ASSUME Init PROVE Book!Init
    OBVIOUS
  <1>1. parties = {}
    BY DEF Init
  <1> QED BY <1>1 DEF Book!Init, Group, HeadOf, Listing

(***************************************************************************)
(* With prompt clients the server keeps a book of parties: whoever founds, *)
(* enters, quits, expels, hands over or dissolves does so on the book,     *)
(* and moving, saving, loading and disconnecting leave it alone.           *)
(***************************************************************************)
THEOREM BookIsKept ==
    ASSUME ~Late
    PROVE  Spec => KeepsTheBook
  <1>1. Init => Led
    BY DEF Init, Led
  <1>2. BookInv /\ [Next]_vars => Led'
    BY LedStep
  <1>3. BookInv /\ Filed /\ Filed' /\ [Next]_vars => [Book!Next]_(Book!vars)
    BY BookStep
  <1>4. BookInv <=> OnceInv /\ Led
    BY DEF BookInv
  <1> QED BY <1>1, <1>2, <1>3, <1>4, OnceInvariant, GroupIsFiled, BookAtFirst, PTL
          DEF Spec, KeepsTheBook, Book!Spec

=============================================================================
