----------------------------- MODULE PartyBook -----------------------------
(***************************************************************************)
(* What parties promise to the players: a book in which everyone is in at  *)
(* most one party, and a party has a head that alone dissolves it, hands   *)
(* it over or expels from it.  Where players are, whether they are online, *)
(* and by which copies the server knows their parties does not show.  The  *)
(* head may expel itself; it stays the head and nobody else becomes it.    *)
(***************************************************************************)
EXTENDS Integers, FiniteSets

CONSTANTS Char, Id, NoParty, None, Limit

VARIABLES
    group,  \* group[c]: the party c is in
    head    \* head[p]: who heads p, None if there is no such party

vars == <<group, head>>

In(p) == {c \in Char : group[c] = p}

Init == /\ group = [c \in Char |-> NoParty]
        /\ head = [p \in Id |-> None]

Found(c, p) ==
    /\ group[c] = NoParty /\ head[p] = None
    /\ group' = [group EXCEPT ![c] = p]
    /\ head' = [head EXCEPT ![p] = c]

Enter(c, p) ==
    /\ group[c] = NoParty /\ head[p] # None
    /\ Cardinality(In(p)) < Limit
    /\ group' = [group EXCEPT ![c] = p]
    /\ UNCHANGED head

Quit(c) ==
    /\ group[c] # NoParty /\ head[group[c]] # c
    /\ group' = [group EXCEPT ![c] = NoParty]
    /\ UNCHANGED head

Heads(c) == group[c] # NoParty /\ head[group[c]] = c

Expel(c, d) ==
    /\ Heads(c) /\ group[d] = group[c]
    /\ group' = [group EXCEPT ![d] = NoParty]
    /\ UNCHANGED head

HandOver(c, d) ==
    /\ Heads(c) /\ group[d] = group[c]
    /\ head' = [head EXCEPT ![group[c]] = d]
    /\ UNCHANGED group

Dissolve(c) ==
    /\ Heads(c)
    /\ group' = [d \in Char |-> IF group[d] = group[c] THEN NoParty ELSE group[d]]
    /\ head' = [head EXCEPT ![group[c]] = None]

(* A crash loses the book.                                                 *)
Lose == group' = [c \in Char |-> NoParty] /\ head' = [p \in Id |-> None]

Next ==
    \/ Lose
    \/ \E c \in Char :
          \/ \E p \in Id : Found(c, p) \/ Enter(c, p)
          \/ \E d \in Char : Expel(c, d) \/ HandOver(c, d)
          \/ Quit(c) \/ Dissolve(c)

Spec == Init /\ [][Next]_vars

=============================================================================
