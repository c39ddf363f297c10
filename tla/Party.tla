------------------------------- MODULE Party -------------------------------
(***************************************************************************)
(* Parties: World.Party keeps them in memory, MapleParty lists the members *)
(* of one, and every MapleCharacter refers to its own.  PartyHandler runs  *)
(* the requests of players; MapleCharacter, InterServerHandler,            *)
(* CashShopOperation and MapleClient take the reference along when a       *)
(* character moves, is saved, loaded or disconnected.                      *)
(*                                                                         *)
(* A handler is one step.  A member's entry keeps its name and whether it  *)
(* is shown online; levels, maps and doors are left out, and so are the    *)
(* event instance and the pyramid a departing member is taken out of, and  *)
(* requests that only send packets (invitations, refusals).                *)
(***************************************************************************)
EXTENDS Integers, SequencesExt

CONSTANTS
    Char,       \* characters, one of each account
    Channel,    \* channel servers
    Shop,       \* the cash shop
    None,       \* null
    Limit,      \* how many members a party may have: 6
    MaxParty,   \* bound: the parties created
    Late        \* whether a client may come late: for a move it gave up, or
                \* while another one plays the character

Server  == Channel \cup {Shop}
PartyId == 1..MaxParty
NoParty == -1

ASSUME PartyAssumption ==
    /\ Limit \in Nat \ {0} /\ MaxParty \in Nat /\ Late \in BOOLEAN
    /\ Shop \notin Channel
    /\ None \notin Char \cup Server \cup PartyId \cup {NoParty}

VARIABLES
    parties,         \* World.Party.parties: the ids it knows
    runningPartyId,
    leader,
    members,         \* the lists of MapleParty, empty once it is disbanded:
                     \* of those only the id is read
    at,              \* at[c]: where c's player is registered
    party,           \* party[c]: what MapleCharacter.party refers to
    transfer,        \* transfer[s][c]: partyid of the CharacterTransfer waiting at s
    saved            \* saved[c]: characters.party in the database

partyVars == <<parties, runningPartyId, leader, members>>
placeVars == <<at, transfer, saved>>
vars      == <<partyVars, party, placeVars>>

Names(list) == {list[i].chr : i \in DOMAIN list}

Entry(c, online) == [chr |-> c, online |-> online]

(* MapleParty.removeMember: the first entry of that name, if there is one. *)
First(list, c) == {i \in DOMAIN list : /\ list[i].chr = c
                                       /\ \A j \in 1..(i - 1) : list[j].chr # c}

removeMember(list, c) ==
    IF c \in Names(list) THEN {RemoveAt(list, i) : i \in First(list, c)} ELSE {list}

(* MapleParty.updateMember: every entry of that name.                      *)
updateMember(list, e) == [i \in DOMAIN list |-> IF list[i].chr = e.chr THEN e ELSE list[i]]

Update(lists, p, e) ==
    [q \in PartyId |-> IF q = p THEN updateMember(lists[q], e) ELSE lists[q]]

(* The loop of updateParty: the members it finds on a channel get p.       *)
Here == {c \in Char : at[c] \in Channel}

Told(refs, lists, p) ==
    [c \in Char |-> IF p \in PartyId /\ c \in Here /\ c \in Names(lists[p])
                    THEN p ELSE refs[c]]

-----------------------------------------------------------------------------
(***************************************************************************)
(* PartyHandler.  Only a character on a channel has its packets handled.   *)
(***************************************************************************)
createParty(c) ==
    /\ c \in Here /\ party[c] = NoParty
    /\ runningPartyId \in PartyId
    /\ parties' = parties \cup {runningPartyId}
    /\ members' = [members EXCEPT ![runningPartyId] = <<Entry(c, TRUE)>>]
    /\ leader' = [leader EXCEPT ![runningPartyId] = c]
    /\ party' = [party EXCEPT ![c] = runningPartyId]
    /\ runningPartyId' = runningPartyId + 1
    /\ UNCHANGED placeVars

(* Fault: the request of a member is not refused.                          *)
MayJoinAgain(c, p) == c \in Here /\ p \in parties /\ Len(members[p]) < Limit

(* Fault: the limit is reached, not kept.                                  *)
MayJoinFull(c, p) == /\ c \in Here /\ party[c] = NoParty /\ p \in parties
                     /\ Len(members[p]) <= Limit

(* Asked for (3) or by invitation (DenyPartyRequest, 27).                  *)
MayJoin(c, p) == /\ c \in Here /\ party[c] = NoParty /\ p \in parties
                 /\ Len(members[p]) < Limit

Join(c, p) ==
    /\ MayJoin(c, p)
    /\ members' = [members EXCEPT ![p] = Append(@, Entry(c, TRUE))]
    /\ party' = Told(party, members', p)
    /\ UNCHANGED <<parties, runningPartyId, leader, placeVars>>

(* EXPEL and LEAVE: the rest are told, then the one who is out.            *)
TakeOut(p, c) ==
    /\ \E list \in removeMember(members[p], c) : members' = [members EXCEPT ![p] = list]
    /\ party' = [d \in Char |-> IF d = c /\ c \in Here THEN NoParty
                                ELSE Told(party, members', p)[d]]
    /\ UNCHANGED <<parties, runningPartyId, leader, placeVars>>

Leave(c) ==
    /\ c \in Here /\ party[c] # NoParty /\ leader[party[c]] # c
    /\ TakeOut(party[c], c)

(* Fault: only the leader's own reference is cleared.                      *)
DisbandQuietly(c) ==
    /\ c \in Here /\ party[c] # NoParty /\ leader[party[c]] = c
    /\ parties' = parties \ {party[c]}
    /\ members' = [members EXCEPT ![party[c]] = <<>>]
    /\ party' = [party EXCEPT ![c] = NoParty]
    /\ UNCHANGED <<runningPartyId, leader, placeVars>>

Disband(c) ==
    /\ c \in Here /\ party[c] # NoParty /\ leader[party[c]] = c
    /\ parties' = parties \ {party[c]}
    /\ members' = [members EXCEPT ![party[c]] = <<>>]
    /\ party' = [d \in Char |-> IF d \in Here /\ d \in Names(members[party[c]]) \cup {c}
                                THEN NoParty ELSE party[d]]
    /\ UNCHANGED <<runningPartyId, leader, placeVars>>

(* The leader may name any member, himself too.                            *)
Expel(c, d) ==
    /\ c \in Here /\ party[c] # NoParty /\ leader[party[c]] = c
    /\ d \in Names(members[party[c]])
    /\ TakeOut(party[c], d)

ChangeLeader(c, d) ==
    /\ c \in Here /\ party[c] # NoParty /\ leader[party[c]] = c
    /\ leader' = [leader EXCEPT ![party[c]] = d]
    /\ \E i \in First(members[party[c]], d) :
          members' = Update(members, party[c], members[party[c]][i])
    /\ party' = Told(party, members', party[c])
    /\ UNCHANGED <<parties, runningPartyId, placeVars>>

(* Changing maps, levels, jobs or doors.                                   *)
silentPartyUpdate(c) ==
    /\ c \in Here /\ party[c] # NoParty
    /\ members' = Update(members, party[c], Entry(c, TRUE))
    /\ party' = Told(party, members', party[c])
    /\ UNCHANGED <<parties, runningPartyId, leader, placeVars>>

-----------------------------------------------------------------------------
(***************************************************************************)
(* The reference travels as an id and is looked up again.                  *)
(***************************************************************************)
(* Fault: whether the party still has the character is not asked.          *)
FoundById(id, c) == IF id \in parties THEN id ELSE NoParty

Found(id, c) == IF id \in parties /\ c \in Names(members[id]) THEN id ELSE NoParty

saveToDB(c) ==
    /\ c \in Here
    /\ saved' = [saved EXCEPT ![c] = party[c]]
    /\ UNCHANGED <<partyVars, party, at, transfer>>

(* changeChannel, EnterCS and EnterMTS, and LeaveCS.                       *)
Depart(c, s) ==
    /\ at[c] # None /\ s # at[c]
    /\ transfer' = [transfer EXCEPT ![s][c] = party[c]]
    /\ saved' = [saved EXCEPT ![c] = party[c]]
    /\ at' = [at EXCEPT ![c] = None]
    /\ party' = [party EXCEPT ![c] = NoParty]
    /\ UNCHANGED partyVars

(* Fault: what is not in a transfer is not looked up in the database.      *)
CarriedOver(c, s) == IF transfer[s][c] # None THEN transfer[s][c] ELSE NoParty

Carried(c, s) == IF transfer[s][c] # None THEN transfer[s][c] ELSE saved[c]

(* Fault: the party is not told of the arrival.                            *)
LogOnUntold(c, lists, p) == lists

LogOn(c, lists, p) == Update(lists, p, Entry(c, TRUE))

(***************************************************************************)
(* InterServerHandler.Loggedin: the character is loaded; if it is in the   *)
(* game, forceRemovePlayerByAccId saves and disconnects it; then the party *)
(* is told.  Unless clients may be late, a character is not in the game    *)
(* when it arrives, and transfers it gave up have been dropped.            *)
(***************************************************************************)
Loggedin(c, s) ==
    LET old  == party[c]
        p    == Found(Carried(c, s), c)
        left == Update(members, old, Entry(c, FALSE))
        refs == Told(party, left, old)
    IN  /\ s \in Channel
        /\ Late \/ (at[c] = None /\ \A t \in Server \ {s} : transfer[t][c] = None)
        /\ members' = LogOn(c, left, p)
        /\ party' = [Told(refs, left, p) EXCEPT ![c] = p]
        /\ at' = [at EXCEPT ![c] = s]
        /\ transfer' = [transfer EXCEPT ![s][c] = None]
        /\ saved' = [saved EXCEPT ![c] = IF at[c] # None THEN old ELSE @]
        /\ UNCHANGED <<parties, runningPartyId, leader>>

EnterCS(c) ==
    /\ at[c] = None /\ transfer[Shop][c] # None
    /\ at' = [at EXCEPT ![c] = Shop]
    /\ party' = [party EXCEPT ![c] = Found(transfer[Shop][c], c)]
    /\ transfer' = [transfer EXCEPT ![Shop][c] = None]
    /\ UNCHANGED <<partyVars, saved>>

disconnect(c) ==
    /\ at[c] # None
    /\ saved' = [saved EXCEPT ![c] = party[c]]
    /\ members' = Update(members, party[c], Entry(c, FALSE))
    /\ party' = [Told(party, members', party[c]) EXCEPT ![c] = NoParty]
    /\ at' = [at EXCEPT ![c] = None]
    /\ UNCHANGED <<parties, runningPartyId, leader, transfer>>

PersistingTask(c, s) ==
    /\ transfer[s][c] # None
    /\ transfer' = [transfer EXCEPT ![s][c] = None]
    /\ UNCHANGED <<partyVars, party, at, saved>>

(* Fault: the next id is the largest one saved.                            *)
NextAfterLast(last) == last

(* SELECT MAX(party)+2 FROM characters.                                    *)
NextAfter(last) == last + 2

(* The server crashes and starts anew.                                     *)
Restart ==
    /\ \E last \in {saved[c] : c \in Char} :
          /\ \A c \in Char : saved[c] <= last
          /\ runningPartyId' = NextAfter(last)
    /\ parties' = {}
    /\ members' = [p \in PartyId |-> <<>>]
    /\ at' = [c \in Char |-> None]
    /\ party' = [c \in Char |-> NoParty]
    /\ transfer' = [s \in Server |-> [c \in Char |-> None]]
    /\ UNCHANGED <<leader, saved>>

-----------------------------------------------------------------------------
Init ==
    /\ parties = {} /\ runningPartyId = 1
    /\ members = [p \in PartyId |-> <<>>]
    /\ leader = [p \in PartyId |-> None]
    /\ at = [c \in Char |-> None]
    /\ party = [c \in Char |-> NoParty]
    /\ transfer = [s \in Server |-> [c \in Char |-> None]]
    /\ saved = [c \in Char |-> NoParty]

Request(c) ==
    \/ createParty(c)
    \/ \E p \in PartyId : Join(c, p)
    \/ Leave(c)
    \/ Disband(c)
    \/ \E d \in Char : Expel(c, d) \/ ChangeLeader(c, d)
    \/ silentPartyUpdate(c)

Move(c) ==
    \/ saveToDB(c)
    \/ \E s \in Server : Depart(c, s) \/ Loggedin(c, s) \/ PersistingTask(c, s)
    \/ EnterCS(c)
    \/ disconnect(c)

Next == Restart \/ \E c \in Char : Request(c) \/ Move(c)

Spec == Init /\ [][Next]_vars

-----------------------------------------------------------------------------
(* Outside the game a character refers to no party.                        *)
TypeOK ==
    /\ parties \subseteq PartyId
    /\ runningPartyId \in Nat
    /\ members \in [PartyId -> Seq([chr : Char, online : BOOLEAN])]
    /\ leader \in [PartyId -> Char \cup {None}]
    /\ at \in [Char -> Server \cup {None}]
    /\ party \in [Char -> PartyId \cup {NoParty}]
    /\ \A c \in Char : at[c] = None => party[c] = NoParty
    /\ transfer \in [Server -> [Char -> PartyId \cup {NoParty, None}]]
    /\ saved \in [Char -> PartyId \cup {NoParty}]

(***************************************************************************)
(* The party a character on a channel refers to exists and lists it:       *)
(* whoever is expelled, or whose party is disbanded, in the cash shop, on  *)
(* the way or offline does not come back to it.                            *)
(***************************************************************************)
PartyListsIt ==
    \A c \in Here : party[c] # NoParty =>
        party[c] \in parties /\ c \in Names(members[party[c]])

(***************************************************************************)
(* No sequence of requests, moves and returns makes a party larger than    *)
(* its limit, entries of the same character counted.                       *)
(***************************************************************************)
SizeLimit == \A p \in parties : Len(members[p]) <= Limit

(***************************************************************************)
(* A member that is on a channel knows the party that lists it.            *)
(***************************************************************************)
MemberKnowsIt ==
    \A p \in parties : \A c \in Here : c \in Names(members[p]) => party[c] = p

(***************************************************************************)
(* A character, in the game or not, is a member once of at most one party, *)
(* as PartyHandler 45 and 95 tell the player: "you have a party already,   *)
(* you cannot join another".                                               *)
(***************************************************************************)
OneParty ==
    \A p, q \in parties : \A i \in DOMAIN members[p] : \A j \in DOMAIN members[q] :
        members[p][i].chr = members[q][j].chr => p = q /\ i = j

(***************************************************************************)
(* The members of a party see those on a channel online.                   *)
(***************************************************************************)
OnlineIsShown ==
    \A p \in parties : \A i \in DOMAIN members[p] :
        members[p][i].chr \in Here => members[p][i].online

(***************************************************************************)
(* A new party has an id that no character still carries from an old one,  *)
(* not even one that was saved before a crash.                             *)
(***************************************************************************)
Referred(p) ==
    \E c \in Char : party[c] = p \/ saved[c] = p \/ \E s \in Server : transfer[s][c] = p

NewPartyIsUnknown == [][\A p \in parties' \ parties : ~Referred(p)]_vars

(***************************************************************************)
(* The server's lists, references, transfers and saved ids together are a  *)
(* book of parties (PartyBook): every step of the code is a step of the    *)
(* book or leaves it alone, wherever the players are meanwhile.            *)
(***************************************************************************)
Listing(c) == {p \in parties : c \in Names(members[p])}

Group == [c \in Char |-> IF Listing(c) = {} THEN NoParty ELSE CHOOSE p \in Listing(c) : TRUE]

HeadOf == [p \in PartyId |-> IF p \in parties THEN leader[p] ELSE None]

Book == INSTANCE PartyBook WITH Id <- PartyId, group <- Group, head <- HeadOf

KeepsTheBook == Book!Spec

=============================================================================
