--------------------------- MODULE TradePairProofs ---------------------------
(***************************************************************************)
(* What Trade promises two players and a third one breaks.  With two       *)
(* characters an open trade's partner is the other open trade, so nothing  *)
(* a handler reaches outlives its window: PairInv says which trades point  *)
(* at which, and that a side will be paid with the list of a partner who   *)
(* has confirmed, and with nothing before that.  Items and mesos are as    *)
(* many as one likes.                                                      *)
(***************************************************************************)
EXTENDS TradeProofs, FiniteSetTheorems

Pair == \E a, b : a # b /\ Char = {a, b}

Linking == \A t \in Current : partner[t] # t

Confirmed == \A t \in Current : locked[t] => partner[t] # None

PaidByPartner ==
    \A t \in Current :
        IF partner[t] # None /\ locked[partner[t]]
        THEN exchangeItems[t] = partner[t] /\ exchangeMeso[t] = meso[partner[t]]
        ELSE exchangeItems[t] = None

PairInv == Linking /\ PartnersAgree /\ Confirmed /\ PaidByPartner

-----------------------------------------------------------------------------
(* An open trade is the one its owner has open, so two have two owners.    *)
LEMMA CurrentOwned ==
    ASSUME IInv, NEW t \in Current
    PROVE  t \in Object /\ chr[t] \in Char /\ trade[chr[t]] = t /\ t # None
BY TradeAssumption DEF IInv, TypeOK, OwnTrade, Current

LEMMA OwnersDiffer ==
    ASSUME IInv, NEW t \in Current, NEW u \in Current
    PROVE  chr[t] = chr[u] => t = u
BY CurrentOwned

LEMMA PartnerIsCurrent ==
    ASSUME IInv, PairInv, NEW t \in Current, partner[t] # None
    PROVE  /\ partner[t] \in Current /\ partner[t] # t
           /\ partner[partner[t]] = t
<1>1. t \in Object /\ partner[t] \in Object
  BY CurrentOwned DEF IInv, TypeOK
<1>2. trade[chr[partner[t]]] = partner[t] /\ chr[partner[t]] \in Char
  BY <1>1 DEF PairInv, PartnersAgree, IInv, TypeOK
<1> QED
  BY <1>2 DEF PairInv, PartnersAgree, Linking, Current

(* There are two trades at most, so whoever is neither of two is not open. *)
LEMMA TwoTrades ==
    ASSUME IInv, Pair, NEW t \in Current, NEW u \in Current, t # u
    PROVE  Current = {t, u} /\ Char = {chr[t], chr[u]}
<1>1. chr[t] \in Char /\ chr[u] \in Char /\ chr[t] # chr[u]
  BY CurrentOwned
<1>2. Char = {chr[t], chr[u]}
  BY <1>1 DEF Pair
<1>3. \A v \in Current : chr[v] \in Char /\ trade[chr[v]] = v
  BY CurrentOwned
<1> QED
  BY <1>2, <1>3, CurrentOwned

(* Without a partner there is no one who has it for a partner.             *)
LEMMA Unlinked ==
    ASSUME IInv, PairInv, Pair, NEW t \in Current, NEW u \in Current,
           partner[t] = None
    PROVE  partner[u] = None
<1> SUFFICES ASSUME partner[u] # None PROVE FALSE
  OBVIOUS
<1>1. u # t /\ partner[u] \in Current /\ partner[u] # u /\ partner[partner[u]] = u
  BY PartnerIsCurrent
<1>2. partner[u] = t
  BY <1>1, TwoTrades
<1> QED
  BY <1>1, <1>2, CurrentOwned

(* Nothing but open trades can be reached.                                 *)
LEMMA OnlyCurrent ==
    ASSUME IInv, PairInv
    PROVE  Linked = Current /\ Reachable = Current
<1>1. Linked = Current
  BY PartnerIsCurrent DEF Linked
<1>2. \A t \in Current : exchangeItems[t] # None => exchangeItems[t] \in Current
  BY PartnerIsCurrent DEF PairInv, PaidByPartner
<1> QED
  BY <1>1, <1>2 DEF Reachable

-----------------------------------------------------------------------------
(* What a delivery does to each owner, when no two of the trades have one. *)
LEMMA DeliverEffect ==
    ASSUME TypeOK, NEW S \in SUBSET Object, NEW from, NEW credit,
           Deliver(S, from, credit),
           \A s, t \in S : chr[s] = chr[t] => s = t
    PROVE  /\ \A s \in S :
                 /\ trade'[chr[s]] = None
                 /\ wallet'[chr[s]] = gainMeso(wallet[chr[s]], credit[s])
                 /\ \E K \in addFromDrop(bag[chr[s]], worn[chr[s]], items[from[s]]) :
                       bag'[chr[s]] = bag[chr[s]] \cup K
           /\ \A c \in Char \ Owners(S) :
                 trade'[c] = trade[c] /\ bag'[c] = bag[c]
           /\ \A c \in Char : bag[c] \subseteq bag'[c]
           /\ \A t \in Object : (\A s \in S : from[s] # t) => items'[t] = items[t]
<1>1. PICK kept \in [S -> SUBSET Item] :
          /\ \A t \in S : kept[t] \in addFromDrop(bag[chr[t]], worn[chr[t]], items[from[t]])
          /\ bag' = [c \in Char |->
                 IF c \in Owners(S) THEN bag[c] \cup kept[OwnedBy(S, c)] ELSE bag[c]]
          /\ wallet' = [c \in Char |->
                 IF c \in Owners(S) THEN gainMeso(wallet[c], credit[OwnedBy(S, c)]) ELSE wallet[c]]
          /\ items' = [t \in Object |-> IF \E s \in S : from[s] = t THEN {} ELSE items[t]]
          /\ trade' = [c \in Char |-> IF c \in Owners(S) THEN None ELSE trade[c]]
  BY DEF Deliver
<1>2. ASSUME NEW s \in S
      PROVE  chr[s] \in Char /\ chr[s] \in Owners(S) /\ OwnedBy(S, chr[s]) = s
  <2>1. chr[s] \in Char /\ chr[s] \in Owners(S)
    BY DEF TypeOK, Owners
  <2>2. OwnedBy(S, chr[s]) \in S /\ chr[OwnedBy(S, chr[s])] = chr[s]
    BY <2>1, OwnedByOwner
  <2> QED
    BY <2>1, <2>2
<1>3. \A s \in S : /\ trade'[chr[s]] = None
                   /\ wallet'[chr[s]] = gainMeso(wallet[chr[s]], credit[s])
  BY <1>1, <1>2
<1>4. \A s \in S : bag'[chr[s]] = bag[chr[s]] \cup kept[s]
  BY <1>1, <1>2
<1>5. \A c \in Char \ Owners(S) : trade'[c] = trade[c] /\ bag'[c] = bag[c]
  BY <1>1
<1>6. \A c \in Char : bag[c] \subseteq bag'[c]
  BY <1>1
<1>7. \A t \in Object : (\A s \in S : from[s] # t) => items'[t] = items[t]
  BY <1>1
<1> QED
  BY <1>1, <1>3, <1>4, <1>5, <1>6, <1>7

(***************************************************************************)
(* The two kinds of step that touch the links.  Closing takes open trades  *)
(* away, and the partner of one that stays is one that stays.              *)
(***************************************************************************)
LEMMA ClosingStep ==
    ASSUME IInv, PairInv,
           Current' \subseteq Current,
           \A t \in Current' : partner[t] # None => partner[t] \in Current',
           IInv',
           \A t \in Current' :
               /\ partner'[t] = partner[t] /\ locked'[t] = locked[t]
               /\ exchangeItems'[t] = exchangeItems[t] /\ exchangeMeso'[t] = exchangeMeso[t]
               /\ locked[t] => meso'[t] = meso[t]
    PROVE  PairInv'
<1>1. Linking' /\ Confirmed'
  BY DEF PairInv, Linking, Confirmed
<1>2. PartnersAgree'
  <2> SUFFICES ASSUME NEW t \in Current', partner'[t] # None
               PROVE  /\ partner'[partner'[t]] = t
                      /\ trade'[chr'[partner'[t]]] = partner'[t]
    BY DEF PartnersAgree
  <2>1. partner'[t] = partner[t] /\ partner[t] \in Current' /\ t \in Current
    OBVIOUS
  <2>2. \A c \in Char : trade'[c] # None => chr'[trade'[c]] = c
    BY DEF IInv, OwnTrade
  <2>3. PICK c \in Char : trade'[c] = partner[t] /\ trade'[c] # None
    BY <2>1 DEF Current
  <2>4. partner[partner[t]] = t
    BY <2>1 DEF PairInv, PartnersAgree
  <2> QED
    BY <2>1, <2>2, <2>3, <2>4
<1>3. PaidByPartner'
  <2> SUFFICES ASSUME NEW t \in Current'
               PROVE  IF partner'[t] # None /\ locked'[partner'[t]]
                      THEN exchangeItems'[t] = partner'[t] /\ exchangeMeso'[t] = meso'[partner'[t]]
                      ELSE exchangeItems'[t] = None
    BY DEF PaidByPartner
  <2>1. partner'[t] = partner[t] /\ t \in Current
    OBVIOUS
  <2>2. CASE partner[t] = None
    BY <2>1, <2>2 DEF PairInv, PaidByPartner
  <2>3. CASE partner[t] # None
    BY <2>1, <2>3 DEF PairInv, PaidByPartner
  <2> QED
    BY <2>2, <2>3
<1> QED
  BY <1>1, <1>2, <1>3 DEF PairInv

(* With no trade open there is nothing to say.                             *)
LEMMA NothingOpen ==
    ASSUME Current' = {}
    PROVE  PairInv'
BY DEF PairInv, Linking, PartnersAgree, Confirmed, PaidByPartner

(***************************************************************************)
(* A new object is blank and nothing points at it.  An invitation links it *)
(* with the inviter's trade, which cannot have a partner or have confirmed *)
(* while the invited has no trade.                                         *)
(***************************************************************************)
LEMMA Opened ==
    ASSUME IInv, PairInv, NEW c \in Char, NEW n \in Object, Open(c, n), trade[c] = None
    PROVE  /\ n \notin Current /\ n # None
           /\ Current' = Current \cup {n}
           /\ trade' = [trade EXCEPT ![c] = n] /\ chr'[n] = c
           /\ exchangeItems'[n] = None /\ ~locked'[n]
           /\ \A t \in Current :
                 /\ t \in Object /\ t # n
                 /\ chr'[t] = chr[t] /\ exchangeItems'[t] = exchangeItems[t]
                 /\ exchangeMeso'[t] = exchangeMeso[t] /\ locked'[t] = locked[t]
                 /\ meso'[t] = meso[t] /\ partner[t] # n
<1>1. n \notin Current /\ n # None /\ \A t \in Current : partner[t] # n
  BY OnlyCurrent, PartnerIsCurrent, TradeAssumption DEF Open, Unused
<1>2. trade' = [trade EXCEPT ![c] = n] /\ trade'[c] = n
  BY DEF Open, IInv, TypeOK
<1>3. Current' = Current \cup {n}
  <2>1. \A d \in Char : d # c => trade'[d] = trade[d]
    BY <1>2 DEF IInv, TypeOK
  <2>2. Current' \subseteq Current \cup {n}
    BY <1>2, <2>1 DEF Current
  <2>3. Current \cup {n} \subseteq Current'
    BY <1>1, <1>2, <2>1 DEF Current
  <2> QED
    BY <2>2, <2>3
<1>4. chr'[n] = c /\ exchangeItems'[n] = None /\ ~locked'[n]
  BY DEF Open, IInv, TypeOK
<1>5. \A t \in Current :
          /\ t \in Object /\ t # n
          /\ chr'[t] = chr[t] /\ exchangeItems'[t] = exchangeItems[t]
          /\ exchangeMeso'[t] = exchangeMeso[t] /\ locked'[t] = locked[t]
          /\ meso'[t] = meso[t]
  BY <1>1, CurrentOwned DEF Open, IInv, TypeOK
<1> QED
  BY <1>1, <1>2, <1>3, <1>4, <1>5

LEMMA StartPair ==
    ASSUME IInv, PairInv, NEW c \in Char, startTrade(c)
    PROVE  PairInv'
<1>1. PICK n \in Object : Open(c, n) /\ partner' = [partner EXCEPT ![n] = None]
  BY DEF startTrade
<1>2. trade[c] = None
  BY DEF startTrade
<1>3. /\ n \notin Current /\ n # None
      /\ Current' = Current \cup {n}
      /\ trade' = [trade EXCEPT ![c] = n] /\ chr'[n] = c
      /\ exchangeItems'[n] = None /\ ~locked'[n]
      /\ \A t \in Current :
            /\ t \in Object /\ t # n
            /\ chr'[t] = chr[t] /\ exchangeItems'[t] = exchangeItems[t]
            /\ exchangeMeso'[t] = exchangeMeso[t] /\ locked'[t] = locked[t]
            /\ meso'[t] = meso[t] /\ partner[t] # n
  BY <1>1, <1>2, Opened
<1>4. partner'[n] = None /\ \A t \in Current : partner'[t] = partner[t]
  BY <1>1, <1>3 DEF IInv, TypeOK
<1>5. \A t \in Current : partner[t] # None =>
          partner[t] \in Current /\ chr[partner[t]] # c
  BY <1>2, PartnerIsCurrent, CurrentOwned
<1>6. Linking' /\ Confirmed'
  BY <1>3, <1>4 DEF PairInv, Linking, Confirmed
<1>7. PartnersAgree'
  <2> SUFFICES ASSUME NEW t \in Current, partner[t] # None
               PROVE  /\ partner'[partner[t]] = t
                      /\ trade'[chr'[partner[t]]] = partner[t]
    BY <1>3, <1>4 DEF PartnersAgree
  <2>1. partner[t] \in Current /\ chr[partner[t]] # c /\ partner[partner[t]] = t
    BY <1>5, PartnerIsCurrent
  <2>2. trade[chr[partner[t]]] = partner[t] /\ chr[partner[t]] \in Char
    BY <2>1, CurrentOwned
  <2> QED
    BY <1>3, <1>4, <2>1, <2>2 DEF IInv, TypeOK
<1>8. PaidByPartner'
  BY <1>3, <1>4, <1>5 DEF PairInv, PaidByPartner
<1> QED
  BY <1>6, <1>7, <1>8 DEF PairInv

LEMMA InvitePair ==
    ASSUME IInv, PairInv, Pair, NEW c \in Char, NEW d \in Char, inviteTrade(c, d),
           trade[d] = None
    PROVE  PairInv'
<1> DEFINE l == trade[c]
<1>1. PICK n \in Object :
          /\ Open(d, n)
          /\ partner' = [partner EXCEPT
                 ![n] = l,
                 ![l] = IF locked[l] THEN @ ELSE n]
  BY DEF inviteTrade
<1>2. l \in Current /\ l # None
  BY DEF inviteTrade, Current
<1>3. /\ n \notin Current /\ n # None
      /\ Current' = Current \cup {n}
      /\ trade' = [trade EXCEPT ![d] = n] /\ chr'[n] = d
      /\ exchangeItems'[n] = None /\ ~locked'[n]
      /\ \A t \in Current :
            /\ t \in Object /\ t # n
            /\ chr'[t] = chr[t] /\ exchangeItems'[t] = exchangeItems[t]
            /\ exchangeMeso'[t] = exchangeMeso[t] /\ locked'[t] = locked[t]
            /\ meso'[t] = meso[t] /\ partner[t] # n
  BY <1>1, Opened
<1>4. Current = {l}
  <2>1. chr[l] \in Char /\ chr[l] # d
    BY <1>2, CurrentOwned
  <2>2. Char = {chr[l], d}
    BY <2>1 DEF Pair
  <2>3. \A t \in Current : chr[t] \in Char /\ chr[t] # d
    BY CurrentOwned
  <2> QED
    BY <1>2, <2>2, <2>3, OwnersDiffer
<1>5. partner[l] = None /\ ~locked[l] /\ exchangeItems[l] = None
  <2>1. partner[l] = None
    BY <1>2, <1>4, PartnerIsCurrent
  <2> QED
    BY <1>2, <2>1 DEF PairInv, Confirmed, PaidByPartner
<1>6. partner'[n] = l /\ partner'[l] = n
  BY <1>1, <1>2, <1>3, <1>5 DEF IInv, TypeOK
<1>7. trade'[chr'[l]] = l /\ trade'[chr'[n]] = n
  <2>1. chr[l] \in Char /\ chr[l] # d /\ trade[chr[l]] = l
    BY <1>2, CurrentOwned
  <2> QED
    BY <1>2, <1>3, <2>1 DEF IInv, TypeOK
<1>8. /\ ~locked'[l] /\ exchangeItems'[l] = None
      /\ Current' = {l, n} /\ l # n
  BY <1>2, <1>3, <1>4, <1>5
<1>9. Linking' /\ Confirmed'
  BY <1>3, <1>6, <1>8 DEF Linking, Confirmed
<1>10. PartnersAgree' /\ PaidByPartner'
  BY <1>3, <1>6, <1>7, <1>8 DEF PartnersAgree, PaidByPartner
<1> QED
  BY <1>9, <1>10 DEF PairInv

-----------------------------------------------------------------------------
(* Both sides of an open trade are open, and nobody else's partner is one. *)
LEMMA SidesOpen ==
    ASSUME IInv, PairInv, Pair, NEW t \in Current
    PROVE  /\ t \in Sides(t) /\ Sides(t) \subseteq Current /\ Sides(t) \subseteq Object
           /\ \A s, u \in Sides(t) : chr[s] = chr[u] => s = u
           /\ \A u \in Current \ Sides(t) : partner[u] = None
<1>1. t \in Sides(t) /\ Sides(t) \subseteq Current
  BY CurrentOwned, PartnerIsCurrent DEF Sides
<1>2. Sides(t) \subseteq Object
  BY <1>1, CurrentOwned
<1>3. \A s, u \in Sides(t) : chr[s] = chr[u] => s = u
  BY <1>1, OwnersDiffer
<1>4. \A u \in Current \ Sides(t) : partner[u] = None
  <2>1. CASE partner[t] = None
    BY <2>1, Unlinked
  <2>2. CASE partner[t] # None
    <3>1. partner[t] \in Current /\ t # partner[t]
      BY <2>2, PartnerIsCurrent
    <3>2. Current = {t, partner[t]}
      BY <3>1, TwoTrades
    <3> QED
      BY <2>2, <3>2, CurrentOwned DEF Sides
  <2> QED
    BY <2>1, <2>2
<1> QED
  BY <1>1, <1>2, <1>3, <1>4

(* A delivery to some open trades leaves the others open.                  *)
LEMMA DeliverCloses ==
    ASSUME IInv, NEW S \in SUBSET Current, NEW from, NEW credit, Deliver(S, from, credit),
           UNCHANGED chr
    PROVE  /\ S \subseteq Object
           /\ \A s, u \in S : chr[s] = chr[u] => s = u
           /\ Current' = Current \ S
<1>1. S \subseteq Object /\ \A s, u \in S : chr[s] = chr[u] => s = u
  BY CurrentOwned, OwnersDiffer
<1>2. /\ \A s \in S : trade'[chr[s]] = None
      /\ \A c \in Char \ Owners(S) : trade'[c] = trade[c]
  BY <1>1, DeliverEffect DEF IInv
<1>3. \A c \in Char : c \in Owners(S) => trade'[c] = None
  BY <1>2 DEF Owners
<1>4. \A s \in Current : s \in S \/ chr[s] \in Char \ Owners(S)
  BY CurrentOwned, OwnersDiffer DEF Owners
<1>5. Current \ S \subseteq Current'
  <2> SUFFICES ASSUME NEW s \in Current, s \notin S
               PROVE  s \in Current'
    OBVIOUS
  <2>1. chr[s] \in Char /\ trade'[chr[s]] = s /\ s # None
    BY <1>2, <1>4, CurrentOwned
  <2> QED
    BY <2>1 DEF Current
<1>6. Current' \subseteq Current \ S
  <2> SUFFICES ASSUME NEW c \in Char, trade'[c] # None
               PROVE  trade'[c] \in Current /\ trade'[c] \notin S
    BY DEF Current
  <2>1. c \notin Owners(S) /\ trade'[c] = trade[c]
    BY <1>2, <1>3
  <2>2. trade[c] \in Current /\ chr[trade[c]] = c
    BY <2>1 DEF Current, IInv, OwnTrade
  <2> QED
    BY <2>1, <2>2 DEF Owners
<1> QED
  BY <1>1, <1>5, <1>6

LEMMA CancelSidesPair ==
    ASSUME IInv, PairInv, Pair, NEW t \in Current, Cancel(Sides(t)),
           UNCHANGED <<worn, mapVars, chr, partner, exchangeItems, exchangeMeso, locked>>
    PROVE  PairInv'
<1>1. /\ Sides(t) \subseteq Object /\ Sides(t) \in SUBSET Current
      /\ \A u \in Current \ Sides(t) : partner[u] = None
  BY SidesOpen
<1>2. IInv'
  BY <1>1, CancelStep
<1>3. Current' = Current \ Sides(t)
  BY <1>1, DeliverCloses DEF Cancel
<1>4. \A u \in Object \ Sides(t) : meso'[u] = meso[u]
  BY DEF Cancel
<1>5. \A u \in Current' : /\ u \in Current /\ partner[u] = None /\ meso'[u] = meso[u]
  BY <1>1, <1>3, <1>4, CurrentOwned
<1>6. \A u \in Current' :
          /\ partner'[u] = partner[u] /\ locked'[u] = locked[u]
          /\ exchangeItems'[u] = exchangeItems[u] /\ exchangeMeso'[u] = exchangeMeso[u]
          /\ locked[u] => meso'[u] = meso[u]
  BY <1>5
<1>7. Current' \subseteq Current /\ \A u \in Current' : partner[u] # None => partner[u] \in Current'
  BY <1>3, <1>5
<1> QED
  BY <1>2, <1>6, <1>7, ClosingStep

LEMMA ExitPair ==
    ASSUME IInv, PairInv, Pair, NEW c \in Char, cancelTrade(c)
    PROVE  PairInv'
<1>1. trade[c] \in Current
  BY DEF cancelTrade, Current
<1> QED
  BY <1>1, CancelSidesPair DEF cancelTrade

(* The trade the decliner's counterpart loses is the partner.              *)
LEMMA DeclineIsCancel ==
    ASSUME IInv, PairInv, NEW c \in Char, declineTrade(c)
    PROVE  trade[c] \in Current /\ Cancel(Sides(trade[c]))
<1>1. trade[c] \in Current
  BY DEF declineTrade, Current
<1>2. CASE partner[trade[c]] = None
  <2>1. Sides(trade[c]) = {trade[c]}
    BY <1>1, <1>2, CurrentOwned DEF Sides
  <2> QED
    BY <1>1, <1>2, <2>1 DEF declineTrade
<1>3. CASE partner[trade[c]] # None
  <2>1. trade[chr[partner[trade[c]]]] = partner[trade[c]]
    BY <1>1, <1>3 DEF PairInv, PartnersAgree
  <2>2. Sides(trade[c]) = {trade[c], partner[trade[c]]}
    BY <1>1, <1>3, CurrentOwned DEF Sides
  <2> QED
    BY <1>1, <1>3, <2>1, <2>2 DEF declineTrade
<1> QED
  BY <1>2, <1>3

LEMMA DeclinePair ==
    ASSUME IInv, PairInv, Pair, NEW c \in Char, declineTrade(c)
    PROVE  PairInv'
BY DeclineIsCancel, CancelSidesPair DEF declineTrade

-----------------------------------------------------------------------------
(* Who confirms, and what he and his partner are in: all that is open.     *)
LEMMA BothSides ==
    ASSUME IInv, PairInv, Pair, NEW c \in Char, Confirmable(c)
    PROVE  LET l == trade[c]
               p == partner[l]
           IN  /\ l \in Current /\ p \in Current /\ l # p
               /\ l \in Object /\ p \in Object
               /\ partner[p] = l /\ chr[l] = c /\ chr[p] # c
               /\ Current = {l, p} /\ Sides(l) = {l, p}
               /\ exchangeItems[p] = None
               /\ BothLocked(l) <=> locked[p]
               /\ locked[p] => exchangeItems[l] = p /\ exchangeMeso[l] = meso[p]
<1> DEFINE l == trade[c]
           p == partner[l]
<1>1. l \in Current /\ p # None /\ ~locked[l]
  BY DEF Confirmable, Current
<1>2. p \in Current /\ l # p /\ partner[p] = l /\ l \in Object /\ p \in Object /\ l # None
  BY <1>1, PartnerIsCurrent, CurrentOwned
<1>3. Current = {l, p} /\ chr[p] # chr[l] /\ chr[l] = c
  BY <1>1, <1>2, TwoTrades, OwnersDiffer DEF IInv, OwnTrade
<1>4. Sides(l) = {l, p}
  BY <1>1, <1>2 DEF Sides
<1>5. exchangeItems[p] = None
  BY <1>1, <1>2 DEF PairInv, PaidByPartner
<1>6. /\ locked[p] => exchangeItems[l] = p /\ exchangeMeso[l] = meso[p]
      /\ ~locked[p] => exchangeItems[l] = None
  BY <1>1 DEF PairInv, PaidByPartner
<1>7. BothLocked(l) <=> locked[p]
  BY <1>1, <1>6 DEF BothLocked
<1> QED
  BY <1>1, <1>2, <1>3, <1>4, <1>5, <1>6, <1>7

LEMMA WaitPair ==
    ASSUME IInv, PairInv, Pair, NEW c \in Char, LockAndWait(c)
    PROVE  PairInv'
<1> DEFINE l == trade[c]
           p == partner[l]
<1>1. /\ Confirmable(c) /\ ~BothLocked(l)
      /\ locked' = [locked EXCEPT ![l] = TRUE]
      /\ exchangeItems' = [exchangeItems EXCEPT ![p] = l]
      /\ exchangeMeso' = [exchangeMeso EXCEPT ![p] = meso[l]]
      /\ UNCHANGED <<trade, chr, partner, meso>>
  BY DEF LockAndWait, Lock, charVars
<1>2. /\ l \in Current /\ p \in Current /\ l # p
      /\ l \in Object /\ p \in Object
      /\ partner[p] = l /\ Current = {l, p} /\ ~locked[p]
  BY <1>1, BothSides
<1>3. l # None /\ p # None /\ exchangeItems[l] = None
  BY <1>2, CurrentOwned DEF PairInv, PaidByPartner
<1>4. Current' = {l, p} /\ partner' = partner
  BY <1>1, <1>2 DEF Current
<1>5. Linking' /\ PartnersAgree'
  BY <1>1, <1>4 DEF PairInv, Linking, PartnersAgree, Current
<1>6. locked'[l] /\ ~locked'[p] /\ exchangeItems'[p] = l /\ exchangeItems'[l] = None
  BY <1>1, <1>2, <1>3 DEF IInv, TypeOK
<1>7. exchangeMeso'[p] = meso[l] /\ meso' = meso
  BY <1>1, <1>2 DEF IInv, TypeOK
<1>8. Confirmed' /\ PaidByPartner'
  BY <1>2, <1>3, <1>4, <1>6, <1>7 DEF Confirmed, PaidByPartner
<1> QED
  BY <1>5, <1>8 DEF PairInv

LEMMA PayPair ==
    ASSUME IInv, PairInv, Pair, NEW c \in Char, LockAndPay(c)
    PROVE  Current' = {} /\ PairInv'
<1> DEFINE l == trade[c]
           p == partner[l]
<1>1. Confirmable(c) /\ UNCHANGED chr /\ \E from, credit : Deliver({l, p}, from, credit)
  BY DEF LockAndPay, Lock
<1>2. Current = {l, p}
  BY <1>1, BothSides
<1>3. Current' = {}
  BY <1>1, <1>2, DeliverCloses
<1> QED
  BY <1>3, NothingOpen

LEMMA RejectPair ==
    ASSUME IInv, PairInv, Pair, NEW c \in Char, LockAndReject(c)
    PROVE  Current' = {} /\ PairInv'
<1> DEFINE l == trade[c]
           p == partner[l]
<1>1. Confirmable(c) /\ UNCHANGED chr /\ \E from, credit : Deliver(Sides(l), from, credit)
  BY DEF LockAndReject, Lock, Cancel
<1>2. Current = {l, p} /\ Sides(l) = {l, p}
  BY <1>1, BothSides
<1>3. Current' = {}
  BY <1>1, <1>2, DeliverCloses
<1> QED
  BY <1>3, NothingOpen

-----------------------------------------------------------------------------
(* Steps that leave links, locks and payments alone; an offer that has     *)
(* been confirmed is left alone too.                                       *)
LEMMA QuietPair ==
    ASSUME IInv, PairInv, IInv',
           UNCHANGED <<trade, chr, partner, exchangeItems, exchangeMeso, locked>>,
           \A t \in Current : locked[t] => meso'[t] = meso[t]
    PROVE  PairInv'
<1>1. Current' = Current
  BY DEF Current
<1>2. \A t \in Current' : partner[t] # None => partner[t] \in Current'
  BY <1>1, PartnerIsCurrent
<1> QED
  BY <1>1, <1>2, ClosingStep

LEMMA SetMesoPair ==
    ASSUME IInv, PairInv, NEW c \in Char, NEW m \in Amount, setMeso(c, m)
    PROVE  PairInv'
<1>1. \A t \in Current : locked[t] => meso'[t] = meso[t]
  BY CurrentOwned DEF setMeso, IInv, TypeOK
<1>2. IInv'
  BY SetMesoStep
<1>3. UNCHANGED <<trade, chr, partner, exchangeItems, exchangeMeso, locked>>
  BY DEF setMeso
<1> QED
  BY <1>1, <1>2, <1>3, QuietPair

LEMMA InitPair == Init => PairInv
BY DEF Init, PairInv, Linking, PartnersAgree, Confirmed, PaidByPartner, Current

LEMMA StepPair ==
    ASSUME Pair, IInv, PairInv, [Next]_vars
    PROVE  PairInv'
<1>0. IInv'
  BY StepIInv
<1>1. CASE UNCHANGED vars
  BY <1>0, <1>1, QuietPair DEF vars, charVars, tradeVars
<1>2. ASSUME NEW c \in Char, Handle(c) PROVE PairInv'
  <2>1. CASE startTrade(c)
    BY <2>1, StartPair
  <2>2. CASE \E d \in Char : inviteTrade(c, d)
    <3>1. PICK d \in Char : inviteTrade(c, d)
      BY <2>2
    <3>2. CASE trade[d] = None
      BY <3>1, <3>2, InvitePair
    <3>3. CASE trade[d] # None
      BY <3>1, <3>3, ExitPair DEF inviteTrade
    <3> QED
      BY <3>2, <3>3
  <2>3. CASE declineTrade(c)
    BY <2>3, DeclinePair
  <2>4. CASE cancelTrade(c)
    BY <2>4, ExitPair
  <2>5. CASE \E i \in Item : setItems(c, i)
    BY <1>0, <2>5, QuietPair DEF setItems
  <2>6. CASE PickupMeso(c) \/ \E i \in Item : Pickup_Pet(c, i) \/ Drop(c, i)
    BY <1>0, <2>6, QuietPair DEF PickupMeso, Pickup_Pet, Drop, tradeVars
  <2>7. CASE \E m \in Amount : setMeso(c, m)
    BY <2>7, SetMesoPair
  <2>11. CASE Dress(c)
    BY <1>0, <2>11, Dressing, QuietPair DEF tradeVars
  <2>8. CASE LockAndWait(c)
    BY <2>8, WaitPair
  <2>9. CASE LockAndPay(c)
    BY <2>9, PayPair
  <2>10. CASE LockAndReject(c)
    BY <2>10, RejectPair
  <2> QED
    BY <1>2, <2>1, <2>2, <2>3, <2>4, <2>5, <2>6, <2>7, <2>8, <2>9, <2>10, <2>11
       DEF Handle, completeTrade, Dress
<1> QED
  BY <1>1, <1>2 DEF Next

(* What holds between two players at every moment: links, locks, payments  *)
(* and whose trade is whose.                                               *)
THEOREM PairInvariant ==
    ASSUME Pair
    PROVE  Spec => [](IInv /\ PairInv)
<1>1. IInv /\ PairInv /\ [Next]_vars => PairInv'
  BY StepPair
<1> QED
  BY <1>1, InitPair, TradeInvariant, PTL DEF Spec

(***************************************************************************)
(* Between two players the partner links agree, whatever is invited,       *)
(* declined, cancelled, confirmed or picked up and in whatever order.      *)
(***************************************************************************)
THEOREM LinksAgree ==
    ASSUME Pair
    PROVE  Spec => []PartnersAgree
<1>1. IInv /\ PairInv => PartnersAgree
  BY DEF PairInv
<1> QED
  BY <1>1, PairInvariant, PTL

-----------------------------------------------------------------------------
(* What each of the two gets when a trade is cancelled.                    *)
LEMMA Refund ==
    ASSUME IInv, PairInv, Pair, NEW t \in Current, Cancel(Sides(t)), UNCHANGED chr
    PROVE  /\ Sides(t) \subseteq Current /\ Current' = Current \ Sides(t)
           /\ \A s \in Sides(t) :
                 /\ trade'[chr[s]] = None
                 /\ wallet'[chr[s]] = gainMeso(wallet[chr[s]], meso[s])
                 /\ \E K \in addFromDrop(bag[chr[s]], worn[chr[s]], items[s]) :
                       bag'[chr[s]] = bag[chr[s]] \cup K
           /\ \A u \in Current \ Sides(t) : items'[u] = items[u] /\ meso'[u] = meso[u]
           /\ \A c \in Char : bag[c] \subseteq bag'[c]
<1> DEFINE S == Sides(t)
           from == [u \in S |-> u]
           credit == [u \in S |-> meso[u]]
<1>1. S \subseteq Current /\ S \subseteq Object /\ \A s, u \in S : chr[s] = chr[u] => s = u
  BY SidesOpen
<1>2. Deliver(S, from, credit) /\ TypeOK
  BY DEF Cancel, IInv
<1>3. Current' = Current \ S
  BY <1>1, <1>2, DeliverCloses
<1>4. \A s \in S : from[s] = s /\ credit[s] = meso[s]
  OBVIOUS
<1>5. \A u \in Current \ S : u \in Object /\ meso'[u] = meso[u] /\ \A s \in S : from[s] # u
  BY CurrentOwned DEF Cancel
<1> HIDE DEF S, from, credit
<1>6. /\ \A s \in S :
             /\ trade'[chr[s]] = None
             /\ wallet'[chr[s]] = gainMeso(wallet[chr[s]], credit[s])
             /\ \E K \in addFromDrop(bag[chr[s]], worn[chr[s]], items[from[s]]) :
                   bag'[chr[s]] = bag[chr[s]] \cup K
      /\ \A c \in Char : bag[c] \subseteq bag'[c]
      /\ \A u \in Object : (\A s \in S : from[s] # u) => items'[u] = items[u]
  <2>1. S \in SUBSET Object /\ \A s, u \in S : chr[s] = chr[u] => s = u
    BY <1>1
  <2>2. /\ \A s \in S :
               /\ trade'[chr[s]] = None
               /\ wallet'[chr[s]] = gainMeso(wallet[chr[s]], credit[s])
               /\ \E K \in addFromDrop(bag[chr[s]], worn[chr[s]], items[from[s]]) :
                     bag'[chr[s]] = bag[chr[s]] \cup K
        /\ \A c \in Char : bag[c] \subseteq bag'[c]
    BY <1>2, <2>1, DeliverEffect
  <2>3. \A u \in Object : (\A s \in S : from[s] # u) => items'[u] = items[u]
    BY <1>2, <2>1, DeliverEffect
  <2> QED
    BY <2>2, <2>3
<1> QED
  BY <1>1, <1>3, <1>4, <1>5, <1>6 DEF S

(* What each of the two gets when a trade is paid.                         *)
Net(m) == m - getTaxAmount(m)

LEMMA Payment ==
    ASSUME IInv, PairInv, Pair, NEW c \in Char, LockAndPay(c)
    PROVE  LET l == trade[c]
               p == partner[l]
           IN  /\ check(chr[l], items[p], meso[p]) /\ check(chr[p], items[l], meso[l])
               /\ trade'[chr[l]] = None /\ trade'[chr[p]] = None
               /\ wallet'[chr[l]] = gainMeso(wallet[chr[l]], Net(meso[p]))
               /\ wallet'[chr[p]] = gainMeso(wallet[chr[p]], Net(meso[l]))
               /\ \E K \in addFromDrop(bag[chr[l]], worn[chr[l]], items[p]) : bag'[chr[l]] = bag[chr[l]] \cup K
               /\ \E K \in addFromDrop(bag[chr[p]], worn[chr[p]], items[l]) : bag'[chr[p]] = bag[chr[p]] \cup K
               /\ \A d \in Char : bag[d] \subseteq bag'[d]
<1> DEFINE l == trade[c]
           p == partner[l]
           S == {l, p}
           from == [t \in S |-> IF t = l THEN exchangeItems[l] ELSE l]
           credit == [t \in S |-> Net(IF t = l THEN exchangeMeso[l] ELSE meso[l])]
<1>1. Confirmable(c) /\ BothLocked(l) /\ BothChecked(l)
  BY DEF LockAndPay
<1>2. /\ l \in Current /\ p \in Current /\ l # p /\ S \subseteq Object
      /\ exchangeItems[l] = p /\ exchangeMeso[l] = meso[p]
  BY <1>1, BothSides
<1>3. \A s, u \in S : chr[s] = chr[u] => s = u
  BY <1>2, OwnersDiffer
<1>4. Deliver(S, from, credit) /\ TypeOK
  BY DEF LockAndPay, Net, IInv
<1>5. /\ from[l] = p /\ from[p] = l
      /\ credit[l] = Net(meso[p]) /\ credit[p] = Net(meso[l])
  BY <1>2
<1>6. check(chr[l], items[p], meso[p]) /\ check(chr[p], items[l], meso[l])
  BY <1>1, <1>2 DEF BothChecked
<1>7. l \in S /\ p \in S
  OBVIOUS
<1> HIDE DEF S, from, credit, l
<1>8. /\ \A s \in S :
             /\ trade'[chr[s]] = None
             /\ wallet'[chr[s]] = gainMeso(wallet[chr[s]], credit[s])
             /\ \E K \in addFromDrop(bag[chr[s]], worn[chr[s]], items[from[s]]) :
                   bag'[chr[s]] = bag[chr[s]] \cup K
      /\ \A d \in Char : bag[d] \subseteq bag'[d]
  BY <1>2, <1>3, <1>4, DeliverEffect
<1> QED
  BY <1>5, <1>6, <1>7, <1>8 DEF l

-----------------------------------------------------------------------------
(* The bodies of the three action properties.                              *)
Grows ==
    \A c \in Char :
        trade[c] # None /\ trade'[c] = trade[c] =>
            /\ items[trade[c]] \subseteq items'[trade[c]]
            /\ meso[trade[c]] <= meso'[trade[c]]

AllOrNothing ==
    \A t, u \in Current :
        partner[t] = u /\ partner[u] = t /\ Closes(t, u) =>
            \/ Paid(chr[t], u) /\ Paid(chr[u], t)
            \/ Refunded(chr[t], t) /\ Refunded(chr[u], u)

VanishesWhenRefused ==
    \A i \in Item :
        Held(i) /\ ~Held(i)' =>
            \E c \in Char :
                \/ i \in bag[c] /\ trade[c] # None /\ partner[trade[c]] = None
                \/ trade[c] # None /\ trade'[c] = None /\ Refuses(bag'[c], worn[c], i)

(* Enough for the first: what stays open loses nothing.                    *)
LEMMA GrowsIf ==
    ASSUME IInv,
           \A t \in Current \cap Current' : items[t] \subseteq items'[t] /\ meso[t] <= meso'[t]
    PROVE  Grows
BY DEF Grows, Current

LEMMA GrowsQuiet ==
    ASSUME IInv,
           \A t \in Current : items'[t] = items[t] /\ meso'[t] = meso[t]
    PROVE  Grows
<1>1. \A t \in Current : meso[t] \in Nat
  BY CurrentOwned DEF IInv, TypeOK
<1> QED
  BY <1>1, GrowsIf

LEMMA GrowsOpen ==
    ASSUME IInv, PairInv, NEW c \in Char, NEW n \in Object, Open(c, n), trade[c] = None
    PROVE  Grows
<1>1. \A t \in Current : t \in Object /\ t # n /\ meso'[t] = meso[t]
  BY Opened
<1>2. \A t \in Current : items'[t] = items[t]
  BY <1>1 DEF Open, IInv, TypeOK
<1> QED
  BY <1>1, <1>2, GrowsQuiet

LEMMA GrowsCancel ==
    ASSUME IInv, PairInv, Pair, NEW t \in Current, Cancel(Sides(t)), UNCHANGED chr
    PROVE  Grows
<1>1. /\ Current' = Current \ Sides(t)
      /\ \A u \in Current \ Sides(t) : items'[u] = items[u] /\ meso'[u] = meso[u]
  BY Refund
<1>2. \A u \in Current : meso[u] \in Nat
  BY CurrentOwned DEF IInv, TypeOK
<1> QED
  BY <1>1, <1>2, GrowsIf

LEMMA GrowsStep ==
    ASSUME Pair, IInv, PairInv, NEW c \in Char, Handle(c)
    PROVE  Grows
<1>1. CASE startTrade(c)
  BY <1>1, GrowsOpen DEF startTrade
<1>2. ASSUME cancelTrade(c) PROVE Grows
  <2>1. trade[c] \in Current
    BY <1>2 DEF cancelTrade, Current
  <2> QED
    BY <1>2, <2>1, GrowsCancel DEF cancelTrade
<1>3. CASE \E d \in Char : inviteTrade(c, d)
  BY <1>2, <1>3, GrowsOpen DEF inviteTrade
<1>4. CASE declineTrade(c)
  BY <1>4, DeclineIsCancel, GrowsCancel DEF declineTrade
<1>5. CASE \E i \in Item : setItems(c, i)
  <2>1. PICK i \in Item : setItems(c, i)
    BY <1>5
  <2>2. /\ items' = [items EXCEPT ![trade[c]] = IF partner[trade[c]] = None THEN @ ELSE @ \cup {i}]
        /\ meso' = meso
    BY <2>1 DEF setItems
  <2>3. \A t \in Current : meso[t] \in Nat /\ t \in Object
    BY CurrentOwned DEF IInv, TypeOK
  <2>4. \A t \in Current : items[t] \subseteq items'[t] /\ meso[t] <= meso'[t]
    BY <2>2, <2>3 DEF IInv, TypeOK
  <2> QED
    BY <2>4, GrowsIf
<1>6. CASE PickupMeso(c) \/ \E i \in Item : Pickup_Pet(c, i) \/ Drop(c, i)
  BY <1>6, GrowsQuiet DEF PickupMeso, Pickup_Pet, Drop, tradeVars
<1>7. CASE \E m \in Amount : setMeso(c, m)
  <2>1. PICK m \in Amount : setMeso(c, m)
    BY <1>7
  <2>2. items' = items /\ meso' = [meso EXCEPT ![trade[c]] = @ + m] /\ m \in Nat
    BY <2>1, TradeAssumption DEF setMeso
  <2>3. \A t \in Current : meso[t] \in Nat /\ t \in Object
    BY CurrentOwned DEF IInv, TypeOK
  <2>4. \A t \in Current : meso[t] <= meso'[t]
    BY <2>2, <2>3 DEF IInv, TypeOK
  <2> QED
    BY <2>2, <2>4, GrowsIf
<1>8. CASE LockAndWait(c)
  BY <1>8, GrowsQuiet DEF LockAndWait
<1>10. CASE Dress(c)
  BY <1>10, Dressing, GrowsQuiet DEF tradeVars
<1>9. CASE LockAndPay(c) \/ LockAndReject(c)
  BY <1>9, PayPair, RejectPair, GrowsIf
<1> QED
  BY <1>1, <1>2, <1>3, <1>4, <1>5, <1>6, <1>7, <1>8, <1>9, <1>10 DEF Handle, completeTrade, Dress

(***************************************************************************)
(* Between two players an open trade's offer only grows: what the other    *)
(* one saw when he confirmed is there when he is paid.                     *)
(***************************************************************************)
THEOREM OffersOnlyGrow ==
    ASSUME Pair
    PROVE  Spec => OfferOnlyGrows
<1>1. IInv /\ PairInv /\ [Next]_vars => [Grows]_vars
  BY GrowsStep DEF Next
<1>2. [Grows]_vars =>
      [\A c \in Char :
          trade[c] # None /\ trade'[c] = trade[c] =>
              /\ items[trade[c]] \subseteq items'[trade[c]]
              /\ meso[trade[c]] <= meso'[trade[c]]]_vars
  BY DEF Grows
<1> QED
  BY <1>1, <1>2, PairInvariant, PTL DEF Spec, OfferOnlyGrows

-----------------------------------------------------------------------------
(* The check before a payment leaves room for every item of the offer, so  *)
(* addFromDrop refuses only an item of a one-of-a-kind template of which   *)
(* one is worn or was stored before it.                                    *)
LEMMA CheckedFits ==
    ASSUME IInv, IsFiniteSet(Item), NEW c \in Char, NEW offer \in SUBSET Item,
           NEW m \in 0..MaxMeso, check(c, offer, m),
           NEW K \in addFromDrop(bag[c], worn[c], offer),
           NEW i \in offer, i \notin bag[c] \cup K
    PROVE  i \in OneOfAKind /\ (worn[c] \cup K) \cap OneOfAKind # {}
<1> DEFINE b == bag[c]
<1>1. b \subseteq Item /\ K \subseteq offer
  BY StoredIsOffered DEF IInv, TypeOK
<1>2. IsFiniteSet(b) /\ IsFiniteSet(offer) /\ IsFiniteSet(K)
  BY <1>1, FS_Subset
<1>3. Cardinality(b) \in Nat /\ Cardinality(offer) \in Nat /\ Cardinality(K) \in Nat
  BY <1>2, FS_CardinalityType
<1>4. Cardinality(K) < Cardinality(offer)
  <2>1. K \subseteq offer \ {i}
    BY <1>1
  <2>2. Cardinality(offer \ {i}) = Cardinality(offer) - 1 /\ IsFiniteSet(offer \ {i})
    BY <1>2, FS_RemoveElement
  <2>3. Cardinality(K) <= Cardinality(offer \ {i})
    BY <2>1, <2>2, FS_Subset
  <2> QED
    BY <1>3, <2>2, <2>3
<1>5. Cardinality(b \cup K) <= Cardinality(b) + Cardinality(K) /\ Cardinality(b \cup K) \in Nat
  <2>1. IsFiniteSet(b \cup K) /\ IsFiniteSet(b \cap K)
    BY <1>2, FS_Union, FS_Intersection
  <2>2. Cardinality(b \cup K) = Cardinality(b) + Cardinality(K) - Cardinality(b \cap K)
    BY <1>2, FS_Union
  <2>3. Cardinality(b \cup K) \in Nat /\ Cardinality(b \cap K) \in Nat
    BY <2>1, FS_CardinalityType
  <2> QED
    BY <1>3, <2>2, <2>3
<1>6. Cardinality(offer) <= SlotLimit - Cardinality(b) /\ SlotLimit \in Nat
  BY TradeAssumption DEF check
<1>7. ~(Cardinality(b \cup K) >= SlotLimit)
  BY <1>3, <1>4, <1>5, <1>6
<1>8. i \in OneOfAKind /\ (b \cup K \cup worn[c]) \cap OneOfAKind # {}
  BY <1>7 DEF addFromDrop, Refuses, HasOne
<1>9. b \cap OneOfAKind = {}
  BY <1>8 DEF check
<1> QED
  BY <1>8, <1>9

LEMMA CheckedIsPaid ==
    ASSUME IInv, IsFiniteSet(Item), NEW c \in Char, NEW u \in Object,
           check(c, items[u], meso[u]),
           wallet'[c] = gainMeso(wallet[c], Net(meso[u])),
           \E K \in addFromDrop(bag[c], worn[c], items[u]) : bag'[c] = bag[c] \cup K
    PROVE  Paid(c, u)
<1>1. PICK K \in addFromDrop(bag[c], worn[c], items[u]) : bag'[c] = bag[c] \cup K
  OBVIOUS
<1>2. /\ items[u] \in SUBSET Item /\ meso[u] \in 0..MaxMeso /\ meso[u] \in Nat
      /\ wallet[c] \in Nat /\ wallet[c] \in 0..MaxMeso
  BY TradeAssumption DEF IInv, TypeOK
<1>3. \A i \in items[u] \ bag'[c] : i \in OneOfAKind /\ (worn[c] \cup K) \cap OneOfAKind # {}
  BY <1>1, <1>2, CheckedFits
<1>4. K \subseteq items[u] /\ K \subseteq bag'[c]
  BY <1>1, StoredIsOffered
<1>5. \A i \in items[u] \ bag'[c] :
         i \in OneOfAKind /\ (worn[c] \cup (items[u] \cap bag'[c])) \cap OneOfAKind # {}
  BY <1>3, <1>4
<1>6. getTaxAmount(meso[u]) \in 0..meso[u]
  BY <1>2, TaxBound
<1>7. meso[u] <= MaxMeso - wallet[c] /\ MaxMeso \in Nat
  BY TradeAssumption DEF check
<1>8. wallet'[c] = wallet[c] + meso[u] - getTaxAmount(meso[u])
  BY <1>2, <1>6, <1>7 DEF gainMeso, Net
<1> QED
  BY <1>5, <1>8 DEF Paid

LEMMA AllPaid ==
    ASSUME Pair, IsFiniteSet(Item), IInv, PairInv, NEW c \in Char, LockAndPay(c)
    PROVE  /\ Paid(c, partner[trade[c]])
           /\ Paid(chr[partner[trade[c]]], trade[c])
<1> DEFINE l == trade[c]
           p == partner[l]
<1>1. /\ l \in Object /\ p \in Object /\ chr[l] = c /\ chr[p] \in Char
  BY BothSides, CurrentOwned DEF LockAndPay
<1>2. /\ check(chr[l], items[p], meso[p]) /\ check(chr[p], items[l], meso[l])
      /\ wallet'[chr[l]] = gainMeso(wallet[chr[l]], Net(meso[p]))
      /\ wallet'[chr[p]] = gainMeso(wallet[chr[p]], Net(meso[l]))
      /\ \E K \in addFromDrop(bag[chr[l]], worn[chr[l]], items[p]) : bag'[chr[l]] = bag[chr[l]] \cup K
      /\ \E K \in addFromDrop(bag[chr[p]], worn[chr[p]], items[l]) : bag'[chr[p]] = bag[chr[p]] \cup K
  BY Payment
<1> QED
  BY <1>1, <1>2, CheckedIsPaid

LEMMA RefundIsRefunded ==
    ASSUME IInv, PairInv, Pair, NEW t \in Current, Cancel(Sides(t)), UNCHANGED chr
    PROVE  \A s \in Sides(t) : Refunded(chr[s], s)
<1>1. \A s \in Sides(t) :
          /\ wallet'[chr[s]] = gainMeso(wallet[chr[s]], meso[s])
          /\ \E K \in addFromDrop(bag[chr[s]], worn[chr[s]], items[s]) :
                bag'[chr[s]] = bag[chr[s]] \cup K
  BY Refund
<1>2. \A s \in Sides(t) : bag'[chr[s]] \ bag[chr[s]] \subseteq items[s]
  BY <1>1, StoredIsOffered
<1> QED
  BY <1>1, <1>2 DEF Refunded

(* A lock changes in confirmations only, and then only the confirmer's.    *)
LEMMA LocksStay ==
    ASSUME IInv, PairInv, NEW c \in Char, Handle(c), ~completeTrade(c)
    PROVE  \A t \in Current : locked'[t] = locked[t]
<1>1. CASE UNCHANGED locked
  BY <1>1
<1>2. CASE \E d \in Char, n \in Object : Open(d, n) /\ trade[d] = None
  BY <1>2, Opened
<1>3. CASE \E d \in Char : inviteTrade(c, d)
  BY <1>1, <1>2, <1>3 DEF inviteTrade, cancelTrade
<1>4. CASE Dress(c)
  BY <1>1, <1>4, Dressing DEF tradeVars
<1> QED
  BY <1>1, <1>2, <1>3, <1>4
  DEF Handle, Dress, startTrade, declineTrade, cancelTrade, setItems, Pickup_Pet, Drop, setMeso,
      PickupMeso, tradeVars

LEMMA AllOrNothingStep ==
    ASSUME Pair, IsFiniteSet(Item), IInv, PairInv, NEW c \in Char, Handle(c)
    PROVE  AllOrNothing
<1> SUFFICES ASSUME NEW t \in Current, NEW u \in Current,
                    partner[t] = u, partner[u] = t, Closes(t, u)
             PROVE  \/ Paid(chr[t], u) /\ Paid(chr[u], t)
                    \/ Refunded(chr[t], t) /\ Refunded(chr[u], u)
  BY DEF AllOrNothing
<1> DEFINE l == trade[c]
<1>1. completeTrade(c)
  BY LocksStay DEF Closes
<1>2. Confirmable(c)
  BY <1>1 DEF completeTrade, LockAndWait, LockAndPay, LockAndReject
<1>3. /\ l \in Current /\ chr[l] = c
      /\ Current = {l, partner[l]} /\ Sides(l) = {l, partner[l]}
      /\ partner[partner[l]] = l /\ partner[l] # l
  BY <1>2, BothSides
<1>4. (t = l /\ u = partner[l]) \/ (t = partner[l] /\ u = l)
  BY <1>3
<1>5. ~LockAndWait(c)
  <2>1. trade[chr[t]] = t /\ t # None
    BY CurrentOwned
  <2> QED
    BY <2>1 DEF LockAndWait, charVars, Closes
<1>6. CASE LockAndPay(c)
  BY <1>3, <1>4, <1>6, AllPaid
<1>7. CASE LockAndReject(c)
  <2>1. Cancel(Sides(l)) /\ UNCHANGED chr
    BY <1>7 DEF LockAndReject, Lock
  <2>2. \A s \in Sides(l) : Refunded(chr[s], s)
    BY <1>3, <2>1, RefundIsRefunded
  <2> QED
    BY <1>3, <1>4, <2>2
<1> QED
  BY <1>1, <1>5, <1>6, <1>7 DEF completeTrade

(***************************************************************************)
(* Between two players the second confirmation pays both sides what the    *)
(* other offered (less tax, less a one-of-a-kind item of which he wears or *)
(* has just been given another), or gives both their own back; it never    *)
(* does one of each.                                                       *)
(***************************************************************************)
THEOREM AllOrNothingIsKept ==
    ASSUME Pair, IsFiniteSet(Item)
    PROVE  Spec => SecondConfirmationIsAllOrNothing
<1>1. IInv /\ PairInv /\ [Next]_vars => [AllOrNothing]_vars
  BY AllOrNothingStep DEF Next
<1>2. [AllOrNothing]_vars =>
      [\A t, u \in Current :
          partner[t] = u /\ partner[u] = t /\ Closes(t, u) =>
              \/ Paid(chr[t], u) /\ Paid(chr[u], t)
              \/ Refunded(chr[t], t) /\ Refunded(chr[u], u)]_vars
  BY DEF AllOrNothing
<1> QED
  BY <1>1, <1>2, PairInvariant, PTL DEF Spec, SecondConfirmationIsAllOrNothing

-----------------------------------------------------------------------------
(* Nothing is lost by a step that takes nothing from a character, out of a *)
(* list or from the map, and closes no trade.                              *)
LEMMA NothingLost ==
    ASSUME ground \subseteq ground',
           \A c \in Char : Has(c) \subseteq Has(c)',
           Current \subseteq Current',
           \A t \in Current : items[t] \subseteq items'[t]
    PROVE  VanishesWhenRefused
BY DEF VanishesWhenRefused, Held

(* What a receiver's bag does not take, it refuses.                        *)
LEMMA NotStored ==
    ASSUME NEW b, NEW w, NEW offer, NEW K \in addFromDrop(b, w, offer), NEW i \in offer, i \notin K
    PROVE  Refuses(b \cup K, w, i)
BY DEF addFromDrop

(* Every list of a closed trade is handed to somebody who loses his trade. *)
LEMMA HandedOut ==
    ASSUME IInv, UNCHANGED <<worn, ground>>,
           \A c \in Char : bag[c] \subseteq bag'[c],
           \A t \in Current \ Current' :
               \E c \in Char : /\ trade[c] # None /\ trade'[c] = None
                              /\ \E K \in addFromDrop(bag[c], worn[c], items[t]) : bag'[c] = bag[c] \cup K,
           \A t \in Current \cap Current' : items'[t] = items[t]
    PROVE  VanishesWhenRefused
<1> SUFFICES ASSUME NEW i \in Item, Held(i), ~Held(i)'
             PROVE  \E c \in Char : trade[c] # None /\ trade'[c] = None /\ Refuses(bag'[c], worn[c], i)
  BY DEF VanishesWhenRefused
<1>1. PICK t \in Current : i \in items[t]
  BY DEF Held, Has
<1>2. t \in Current \ Current'
  BY <1>1 DEF Held
<1>3. PICK c \in Char : /\ trade[c] # None /\ trade'[c] = None
                        /\ \E K \in addFromDrop(bag[c], worn[c], items[t]) : bag'[c] = bag[c] \cup K
  BY <1>2
<1>4. PICK K \in addFromDrop(bag[c], worn[c], items[t]) : bag'[c] = bag[c] \cup K
  BY <1>3
<1>5. i \notin K
  BY <1>4 DEF Held, Has
<1>6. Refuses(bag'[c], worn[c], i)
  BY <1>1, <1>4, <1>5, NotStored
<1> QED
  BY <1>3, <1>6

LEMMA VanishCancel ==
    ASSUME IInv, PairInv, Pair, NEW t \in Current, Cancel(Sides(t)), UNCHANGED <<chr, worn, ground>>
    PROVE  VanishesWhenRefused
<1>1. /\ Sides(t) \subseteq Current /\ Current' = Current \ Sides(t)
      /\ \A s \in Sides(t) :
            /\ trade'[chr[s]] = None
            /\ \E K \in addFromDrop(bag[chr[s]], worn[chr[s]], items[s]) :
                  bag'[chr[s]] = bag[chr[s]] \cup K
      /\ \A u \in Current \ Sides(t) : items'[u] = items[u]
      /\ \A c \in Char : bag[c] \subseteq bag'[c]
  BY Refund
<1>2. \A s \in Sides(t) : chr[s] \in Char /\ trade[chr[s]] # None
  BY <1>1, CurrentOwned
<1>3. \A s \in Current \ Current' :
          \E c \in Char : /\ trade[c] # None /\ trade'[c] = None
                         /\ \E K \in addFromDrop(bag[c], worn[c], items[s]) : bag'[c] = bag[c] \cup K
  BY <1>1, <1>2
<1> QED
  BY <1>1, <1>3, HandedOut

LEMMA VanishPay ==
    ASSUME IInv, PairInv, Pair, NEW c \in Char, LockAndPay(c)
    PROVE  VanishesWhenRefused
<1> DEFINE l == trade[c]
           p == partner[l]
<1>1. Current = {l, p} /\ Current' = {} /\ UNCHANGED <<worn, ground>>
  BY BothSides, PayPair DEF LockAndPay, Lock, mapVars
<1>2. /\ chr[l] \in Char /\ trade[chr[l]] # None
      /\ chr[p] \in Char /\ trade[chr[p]] # None
  BY <1>1, CurrentOwned
<1>3. /\ trade'[chr[l]] = None /\ trade'[chr[p]] = None
      /\ \E K \in addFromDrop(bag[chr[l]], worn[chr[l]], items[p]) : bag'[chr[l]] = bag[chr[l]] \cup K
      /\ \E K \in addFromDrop(bag[chr[p]], worn[chr[p]], items[l]) : bag'[chr[p]] = bag[chr[p]] \cup K
      /\ \A d \in Char : bag[d] \subseteq bag'[d]
  BY Payment
<1>4. \A t \in Current \ Current' :
          \E d \in Char : /\ trade[d] # None /\ trade'[d] = None
                         /\ \E K \in addFromDrop(bag[d], worn[d], items[t]) : bag'[d] = bag[d] \cup K
  <2> SUFFICES ASSUME NEW t \in {l, p}
               PROVE  \E d \in Char : /\ trade[d] # None /\ trade'[d] = None
                                     /\ \E K \in addFromDrop(bag[d], worn[d], items[t]) : bag'[d] = bag[d] \cup K
    BY <1>1
  <2>1. CASE t = l
    BY <1>2, <1>3, <2>1
  <2>2. CASE t = p
    BY <1>2, <1>3, <2>2
  <2> QED
    BY <2>1, <2>2
<1> QED
  BY <1>1, <1>3, <1>4, HandedOut

(* An item put up before there is a partner is the first of the two.       *)
LEMMA VanishSetItems ==
    ASSUME IInv, NEW c \in Char, NEW i \in Item, setItems(c, i)
    PROVE  VanishesWhenRefused
<1> DEFINE t == trade[c]
<1>1. /\ t \in Current /\ t \in Object /\ t # None /\ i \in bag[c]
      /\ bag' = [bag EXCEPT ![c] = @ \ {i}]
      /\ items' = [items EXCEPT ![t] = IF partner[t] = None THEN @ ELSE @ \cup {i}]
      /\ UNCHANGED <<trade, worn, ground>>
  BY DEF setItems, mapVars, Current, IInv, TypeOK
<1>2. Current' = Current /\ Current \subseteq Object
  BY <1>1, LinkedAreObjects DEF Current, IInv
<1>3. \A u \in Object : items[u] \subseteq items'[u]
  BY <1>1 DEF IInv, TypeOK
<1>4. \A j \in Item, d \in Char : j \in Has(d) => j \in Has(d)' \/ (j = i /\ d = c)
  BY <1>1 DEF IInv, TypeOK, Has
<1>5. partner[t] # None => i \in items'[t]
  BY <1>1 DEF IInv, TypeOK
<1>6. \A j \in Item : Held(j) /\ ~Held(j)' => j = i /\ partner[t] = None
  BY <1>1, <1>2, <1>3, <1>4, <1>5 DEF Held
<1> QED
  BY <1>1, <1>6 DEF VanishesWhenRefused

LEMMA VanishPickup ==
    ASSUME IInv, NEW c \in Char, NEW i \in Item, Pickup_Pet(c, i)
    PROVE  VanishesWhenRefused
<1>1. /\ bag' = [bag EXCEPT ![c] = @ \cup {i}] /\ ground' = ground \ {i}
      /\ UNCHANGED <<trade, worn, items>>
  BY DEF Pickup_Pet, tradeVars
<1>2. Current' = Current
  BY <1>1 DEF Current
<1>3. i \in Has(c)' /\ \A d \in Char : Has(d) \subseteq Has(d)'
  BY <1>1 DEF IInv, TypeOK, Has
<1>4. \A j \in Item : Held(j) => Held(j)'
  BY <1>1, <1>2, <1>3 DEF Held
<1> QED
  BY <1>4 DEF VanishesWhenRefused

LEMMA VanishDrop ==
    ASSUME IInv, NEW c \in Char, NEW i \in Item, Drop(c, i)
    PROVE  VanishesWhenRefused
<1>1. /\ bag' = [bag EXCEPT ![c] = @ \ {i}] /\ worn' = [worn EXCEPT ![c] = @ \ {i}]
      /\ ground' = ground \cup {i} /\ UNCHANGED <<trade, items>>
  BY DEF Drop, tradeVars
<1>2. Current' = Current
  BY <1>1 DEF Current
<1>3. \A j \in Item, d \in Char : j \in Has(d) => j \in Has(d)' \/ j = i
  BY <1>1 DEF IInv, TypeOK, Has
<1>4. \A j \in Item : Held(j) => Held(j)'
  BY <1>1, <1>2, <1>3 DEF Held
<1> QED
  BY <1>4 DEF VanishesWhenRefused

LEMMA VanishDress ==
    ASSUME IInv, NEW c \in Char, Dress(c)
    PROVE  VanishesWhenRefused
<1>1. UNCHANGED <<trade, ground, items>> /\ \A d \in Char : Has(d)' = Has(d)
  BY Dressing DEF mapVars, tradeVars
<1>2. Current' = Current
  BY <1>1 DEF Current
<1> QED
  BY <1>1, <1>2, NothingLost

LEMMA VanishOpen ==
    ASSUME IInv, PairInv, NEW c \in Char, NEW n \in Object, Open(c, n), trade[c] = None,
           UNCHANGED <<bag, worn, ground>>
    PROVE  VanishesWhenRefused
<1>1. Current \subseteq Current' /\ \A t \in Current : t \in Object /\ t # n
  BY Opened
<1>2. \A t \in Current : items[t] \subseteq items'[t]
  BY <1>1 DEF Open, IInv, TypeOK
<1> QED
  BY <1>1, <1>2, NothingLost DEF Has

LEMMA VanishStep ==
    ASSUME Pair, IInv, PairInv, NEW c \in Char, Handle(c)
    PROVE  VanishesWhenRefused
<1>1. CASE startTrade(c)
  BY <1>1, VanishOpen DEF startTrade, mapVars
<1>2. ASSUME cancelTrade(c) PROVE VanishesWhenRefused
  <2>1. trade[c] \in Current
    BY <1>2 DEF cancelTrade, Current
  <2> QED
    BY <1>2, <2>1, VanishCancel DEF cancelTrade, mapVars
<1>3. CASE \E d \in Char : inviteTrade(c, d)
  BY <1>2, <1>3, VanishOpen DEF inviteTrade, mapVars
<1>4. CASE declineTrade(c)
  BY <1>4, DeclineIsCancel, VanishCancel DEF declineTrade, mapVars
<1>5. CASE \E i \in Item : setItems(c, i) \/ Pickup_Pet(c, i) \/ Drop(c, i)
  BY <1>5, VanishSetItems, VanishPickup, VanishDrop
<1>6. CASE PickupMeso(c) \/ (\E m \in Amount : setMeso(c, m)) \/ LockAndWait(c)
  <2>1. UNCHANGED <<trade, bag, worn, ground, items>>
    BY <1>6 DEF PickupMeso, setMeso, LockAndWait, Lock, charVars, mapVars, tradeVars
  <2>2. Current' = Current
    BY <2>1 DEF Current
  <2> QED
    BY <2>1, <2>2, NothingLost DEF Has
<1>7. CASE LockAndPay(c)
  BY <1>7, VanishPay
<1>9. CASE Dress(c)
  BY <1>9, VanishDress
<1>8. CASE LockAndReject(c)
  <2>1. trade[c] \in Current
    BY <1>8, BothSides DEF LockAndReject
  <2>2. Cancel(Sides(trade[c])) /\ UNCHANGED <<chr, worn, ground>>
    BY <1>8 DEF LockAndReject, Lock, mapVars
  <2> QED
    BY <2>1, <2>2, VanishCancel
<1> QED
  BY <1>1, <1>2, <1>3, <1>4, <1>5, <1>6, <1>7, <1>8, <1>9 DEF Handle, completeTrade, Dress

(***************************************************************************)
(* Between two players an item leaves the game only when it is put up      *)
(* before there is a partner, or when a trade closes and the one it is     *)
(* handed to refuses it; a pet destroys nothing.                           *)
(***************************************************************************)
THEOREM ItemsVanishOnlyRefused ==
    ASSUME Pair
    PROVE  Spec => ItemsVanishOnlyWhenRefused
<1>1. IInv /\ PairInv /\ [Next]_vars => [VanishesWhenRefused]_vars
  BY VanishStep DEF Next
<1>2. [VanishesWhenRefused]_vars =>
      [\A i \in Item :
          Held(i) /\ ~Held(i)' =>
              \E c \in Char :
                  \/ i \in bag[c] /\ trade[c] # None /\ partner[trade[c]] = None
                  \/ trade[c] # None /\ trade'[c] = None /\ Refuses(bag'[c], worn[c], i)]_vars
  BY DEF VanishesWhenRefused
<1> QED
  BY <1>1, <1>2, PairInvariant, PTL DEF Spec, ItemsVanishOnlyWhenRefused

-----------------------------------------------------------------------------
(***************************************************************************)
(* The sums of Mesos are over two characters and over the trades they have *)
(* open.  SumFunctionOnSet is the value at S of the function IsSum names,  *)
(* and on a set of two elements a function that satisfies IsSum exists.    *)
(***************************************************************************)
IsSum(g, f, S) ==
    g = [s \in SUBSET S |->
            IF s = {} THEN 0
            ELSE f[CHOOSE x \in s : TRUE] + g[s \ {CHOOSE x \in s : TRUE}]]

LEMMA SumIs ==
    ASSUME NEW f, NEW S
    PROVE  SumFunctionOnSet(f, S) = (CHOOSE g : IsSum(g, f, S))[S]
BY DEF SumFunctionOnSet, FoldFunctionOnSet, MapThenFoldSet, IsSum

LEMMA SumNone ==
    ASSUME NEW f
    PROVE  SumFunctionOnSet(f, {}) = 0
<1> DEFINE h == [s \in SUBSET {} |-> 0]
           G == CHOOSE g : IsSum(g, f, {})
<1>1. IsSum(h, f, {})
  BY DEF IsSum
<1>2. IsSum(G, f, {})
  BY <1>1
<1> HIDE DEF G
<1>3. G[{}] = 0
  BY <1>2 DEF IsSum
<1> QED
  BY <1>3, SumIs DEF G

LEMMA SumTwo ==
    ASSUME NEW f, NEW a, NEW b, f[a] \in Int, f[b] \in Int
    PROVE  SumFunctionOnSet(f, {a, b}) = IF a = b THEN f[a] ELSE f[a] + f[b]
<1> DEFINE S == {a, b}
           h == [s \in SUBSET S |-> (IF a \in s THEN f[a] ELSE 0) + (IF b \in s /\ a # b THEN f[b] ELSE 0)]
           pick(s) == CHOOSE x \in s : TRUE
<1>1. IsSum(h, f, S)
  <2> SUFFICES ASSUME NEW s \in SUBSET S
               PROVE  h[s] = IF s = {} THEN 0 ELSE f[pick(s)] + h[s \ {pick(s)}]
    BY DEF IsSum
  <2>1. CASE s = {}
    BY <2>1
  <2>2. CASE s # {}
    <3>1. pick(s) \in s
      BY <2>2
    <3>2. ASSUME NEW x \in s PROVE h[s] = f[x] + h[s \ {x}]
      <4>1. x = a \/ x = b
        OBVIOUS
      <4>2. s \ {x} \in SUBSET S /\ x \notin s \ {x}
        OBVIOUS
      <4>3. CASE x = a
        <5>1. b \in s \ {x} <=> b \in s /\ a # b
          BY <4>3
        <5> QED
          BY <4>2, <4>3, <5>1
      <4>4. CASE x = b /\ a # b
        <5>1. a \in s \ {x} <=> a \in s
          BY <4>4
        <5> QED
          BY <4>2, <4>4, <5>1
      <4> QED
        BY <4>1, <4>3, <4>4
    <3> HIDE DEF pick, h
    <3> QED
      BY <2>2, <3>1, <3>2
  <2> QED
    BY <2>1, <2>2
<1> DEFINE G == CHOOSE g : IsSum(g, f, S)
<1>2. IsSum(G, f, S)
  BY <1>1
<1> HIDE DEF G
<1>3. /\ G[{}] = 0
      /\ \A s \in SUBSET S : s # {} => pick(s) \in s /\ G[s] = f[pick(s)] + G[s \ {pick(s)}]
  BY <1>2 DEF IsSum
<1>4. ASSUME NEW x \in S PROVE G[{x}] = f[x]
  <2>1. pick({x}) = x /\ {x} \ {pick({x})} = {}
    OBVIOUS
  <2>2. G[{x}] = f[x] + 0
    BY <1>3, <2>1
  <2> QED
    BY <2>2
<1>5. G[S] = IF a = b THEN f[a] ELSE f[a] + f[b]
  <2>1. CASE a = b
    BY <1>4, <2>1
  <2>2. CASE a # b
    <3>1. G[S] = f[pick(S)] + G[S \ {pick(S)}] /\ pick(S) \in {a, b}
      BY <1>3
    <3>2. CASE pick(S) = a
      <4>1. S \ {pick(S)} = {b}
        BY <2>2, <3>2
      <4> QED
        BY <1>4, <2>2, <3>1, <3>2, <4>1
    <3>3. CASE pick(S) = b
      <4>1. S \ {pick(S)} = {a}
        BY <2>2, <3>3
      <4> QED
        BY <1>4, <2>2, <3>1, <3>3, <4>1
    <3> QED
      BY <3>1, <3>2, <3>3
  <2> QED
    BY <2>1, <2>2
<1> QED
  BY <1>5, SumIs DEF G

(* The sum over two trades, of which either may be none.                   *)
At(f, x, N) == IF x = N THEN 0 ELSE f[x]

LEMMA SumOfTwo ==
    ASSUME NEW f, NEW x, NEW y, NEW N,
           x # N => f[x] \in Int,
           y # N => f[y] \in Int,
           x # N /\ y # N => x # y
    PROVE  SumFunctionOnSet(f, {x, y} \ {N}) = At(f, x, N) + At(f, y, N)
<1>1. CASE x = N /\ y = N
  <2>1. {x, y} \ {N} = {}
    BY <1>1
  <2>2. SumFunctionOnSet(f, {}) = 0 /\ At(f, x, N) = 0 /\ At(f, y, N) = 0
    BY <1>1, SumNone DEF At
  <2> QED
    BY <2>1, <2>2
<1>2. CASE x # N /\ y = N
  <2>1. {x, y} \ {N} = {x, x}
    BY <1>2
  <2>2. f[x] \in Int /\ At(f, x, N) = f[x] /\ At(f, y, N) = 0
    BY <1>2 DEF At
  <2>3. SumFunctionOnSet(f, {x, x}) = f[x]
    BY <2>2, SumTwo
  <2> QED
    BY <2>1, <2>2, <2>3
<1>3. CASE x = N /\ y # N
  <2>1. {x, y} \ {N} = {y, y}
    BY <1>3
  <2>2. f[y] \in Int /\ At(f, x, N) = 0 /\ At(f, y, N) = f[y]
    BY <1>3 DEF At
  <2>3. SumFunctionOnSet(f, {y, y}) = f[y]
    BY <2>2, SumTwo
  <2> QED
    BY <2>1, <2>2, <2>3
<1>4. CASE x # N /\ y # N
  <2>1. {x, y} \ {N} = {x, y}
    BY <1>4
  <2>2. f[x] \in Int /\ f[y] \in Int /\ x # y /\ At(f, x, N) = f[x] /\ At(f, y, N) = f[y]
    BY <1>4 DEF At
  <2>3. SumFunctionOnSet(f, {x, y}) = f[x] + f[y]
    BY <2>2, SumTwo
  <2> QED
    BY <2>1, <2>2, <2>3
<1> QED
  BY <1>1, <1>2, <1>3, <1>4

(* What a character is worth: his wallet and what he has put up.           *)
Worth(c) == wallet[c] + At(meso, trade[c], None)

LEMMA WorthIsNat ==
    ASSUME IInv, NEW c \in Char
    PROVE  /\ Worth(c) \in Nat /\ wallet[c] \in Nat /\ purse \in Nat
           /\ trade[c] # None => meso[trade[c]] \in Nat
BY TradeAssumption DEF IInv, TypeOK, Worth, At

LEMMA MesosAre ==
    ASSUME IInv, NEW a \in Char, NEW b \in Char, a # b, Char = {a, b}
    PROVE  Mesos = Worth(a) + Worth(b) + purse
<1> DEFINE X == SumFunctionOnSet(wallet, Char)
           Y == SumFunctionOnSet(meso, Current)
<1>1. /\ wallet[a] \in Nat /\ wallet[b] \in Nat /\ purse \in Nat
      /\ trade[a] # None => meso[trade[a]] \in Nat
      /\ trade[b] # None => meso[trade[b]] \in Nat
  BY WorthIsNat
<1>2. X = wallet[a] + wallet[b]
  BY <1>1, SumTwo
<1>3. trade[a] # None /\ trade[b] # None => trade[a] # trade[b]
  BY DEF IInv, OwnTrade
<1>4. Y = At(meso, trade[a], None) + At(meso, trade[b], None)
  <2>1. Current = {trade[a], trade[b]} \ {None}
    BY DEF Current
  <2>2. /\ trade[a] # None => meso[trade[a]] \in Int
        /\ trade[b] # None => meso[trade[b]] \in Int
    BY <1>1
  <2>3. SumFunctionOnSet(meso, {trade[a], trade[b]} \ {None})
        = At(meso, trade[a], None) + At(meso, trade[b], None)
    BY <1>3, <2>2, SumOfTwo
  <2> QED
    BY <2>1, <2>3
<1>5. Mesos = X + purse + Y
  BY DEF Mesos
<1>6. At(meso, trade[a], None) \in Nat /\ At(meso, trade[b], None) \in Nat
  BY <1>1 DEF At
<1> HIDE DEF X, Y
<1> QED
  BY <1>1, <1>2, <1>4, <1>5, <1>6 DEF Worth

LEMMA MesosNext ==
    ASSUME IInv', NEW a \in Char, NEW b \in Char, a # b, Char = {a, b}
    PROVE  Mesos' = Worth(a)' + Worth(b)' + purse'
<1> DEFINE X == SumFunctionOnSet(wallet', Char)
           Y == SumFunctionOnSet(meso', Current')
<1>1. /\ wallet'[a] \in Nat /\ wallet'[b] \in Nat /\ purse' \in Nat
      /\ trade'[a] # None => meso'[trade'[a]] \in Nat
      /\ trade'[b] # None => meso'[trade'[b]] \in Nat
  BY TradeAssumption DEF IInv, TypeOK
<1>2. X = wallet'[a] + wallet'[b]
  BY <1>1, SumTwo
<1>3. trade'[a] # None /\ trade'[b] # None => trade'[a] # trade'[b]
  BY DEF IInv, OwnTrade
<1>4. Y = At(meso', trade'[a], None) + At(meso', trade'[b], None)
  <2>1. Current' = {trade'[a], trade'[b]} \ {None}
    BY DEF Current
  <2>2. /\ trade'[a] # None => meso'[trade'[a]] \in Int
        /\ trade'[b] # None => meso'[trade'[b]] \in Int
    BY <1>1
  <2>3. SumFunctionOnSet(meso', {trade'[a], trade'[b]} \ {None})
        = At(meso', trade'[a], None) + At(meso', trade'[b], None)
    BY <1>3, <2>2, SumOfTwo
  <2> QED
    BY <2>1, <2>3
<1>5. Mesos' = X + purse' + Y
  BY DEF Mesos
<1>6. At(meso', trade'[a], None) \in Nat /\ At(meso', trade'[b], None) \in Nat
  BY <1>1 DEF At
<1>7. /\ Worth(a)' = wallet'[a] + At(meso', trade'[a], None)
      /\ Worth(b)' = wallet'[b] + At(meso', trade'[b], None)
  BY DEF Worth, At
<1> HIDE DEF X, Y
<1> QED
  BY <1>1, <1>2, <1>4, <1>5, <1>6, <1>7

(***************************************************************************)
(* A step that changes what each is worth one by one: it adds up to what   *)
(* the property says if each keeps his worth or fails to be credited.      *)
(***************************************************************************)
Overflows(c) ==
    \/ purse > MaxMeso - wallet[c]
    \/ trade[c] # None /\ meso[trade[c]] > MaxMeso - wallet[c]

MesosKept ==
    \/ Mesos' = Mesos
    \/ \E t, u \in Current :
          /\ t # u /\ Closes(t, u)
          /\ Mesos' = Mesos - getTaxAmount(meso[t]) - getTaxAmount(meso[u])
    \/ /\ Mesos' < Mesos
       /\ \E c \in Char :
             \/ purse > MaxMeso - wallet[c]
             \/ trade[c] # None /\ meso[trade[c]] > MaxMeso - wallet[c]

LEMMA MesosIf ==
    ASSUME Pair, IInv, IInv', purse' = purse,
           \A c \in Char : \/ Worth(c)' = Worth(c)
                           \/ Worth(c)' < Worth(c) /\ Overflows(c)
    PROVE  MesosKept
<1>1. PICK a \in Char, b \in Char : a # b /\ Char = {a, b}
  BY DEF Pair
<1>2. Mesos = Worth(a) + Worth(b) + purse /\ Mesos' = Worth(a)' + Worth(b)' + purse
  BY <1>1, MesosAre, MesosNext
<1>3. Worth(a) \in Nat /\ Worth(b) \in Nat /\ purse \in Nat
  BY WorthIsNat
<1>4. /\ Worth(a)' = Worth(a) \/ (Worth(a)' < Worth(a) /\ Overflows(a))
      /\ Worth(b)' = Worth(b) \/ (Worth(b)' < Worth(b) /\ Overflows(b))
  OBVIOUS
<1>5. Worth(a)' \in Nat /\ Worth(b)' \in Nat
  BY TradeAssumption DEF IInv, TypeOK, Worth, At
<1>6. Mesos' = Mesos \/ (Mesos' < Mesos /\ (Overflows(a) \/ Overflows(b)))
  BY <1>2, <1>3, <1>4, <1>5
<1> QED
  BY <1>6 DEF MesosKept, Overflows

LEMMA MesosQuiet ==
    ASSUME Pair, IInv, IInv', UNCHANGED <<purse, wallet, trade>>,
           \A t \in Current : meso'[t] = meso[t]
    PROVE  MesosKept
<1>1. \A c \in Char : trade[c] # None => trade[c] \in Current
  BY DEF Current
<1>2. \A c \in Char : Worth(c)' = Worth(c)
  BY <1>1 DEF Worth, At
<1> QED
  BY <1>2, MesosIf

LEMMA MesosOpen ==
    ASSUME Pair, IInv, PairInv, IInv', NEW c \in Char, NEW n \in Object,
           Open(c, n), trade[c] = None, UNCHANGED <<purse, wallet>>
    PROVE  MesosKept
<1>1. /\ trade' = [trade EXCEPT ![c] = n] /\ n # None
      /\ \A t \in Current : meso'[t] = meso[t]
  BY Opened
<1>2. meso'[n] = 0
  BY DEF Open, IInv, TypeOK
<1>3. \A d \in Char : d # c => trade'[d] = trade[d] /\ (trade[d] # None => trade[d] \in Current)
  BY <1>1 DEF Current, IInv, TypeOK
<1>4. \A d \in Char : d # c => Worth(d)' = Worth(d)
  BY <1>1, <1>3 DEF Worth, At
<1>5. Worth(c)' = Worth(c)
  BY <1>1, <1>2 DEF Worth, At, IInv, TypeOK
<1> QED
  BY <1>4, <1>5, MesosIf

LEMMA MesosSet ==
    ASSUME Pair, IInv, IInv', NEW c \in Char, NEW m \in Amount, setMeso(c, m)
    PROVE  MesosKept
<1> DEFINE t == trade[c]
<1>1. /\ t \in Object /\ m \in Nat /\ t # None
      /\ wallet' = [wallet EXCEPT ![c] = @ - m]
      /\ meso' = [meso EXCEPT ![t] = @ + m]
      /\ UNCHANGED <<trade, purse>>
  BY TradeAssumption DEF setMeso, mapVars, IInv, TypeOK
<1>2. wallet[c] \in Nat /\ meso[t] \in Nat
  BY <1>1, WorthIsNat
<1>3. wallet'[c] = wallet[c] - m /\ meso'[t] = meso[t] + m
  BY <1>1 DEF IInv, TypeOK
<1>4. Worth(c)' = Worth(c)
  BY <1>1, <1>2, <1>3 DEF Worth, At
<1>5. ASSUME NEW d \in Char, d # c PROVE Worth(d)' = Worth(d)
  <2>1. trade[d] # None => trade[d] # t /\ trade[d] \in Object
    BY <1>1, <1>5 DEF IInv, TypeOK, OwnTrade
  <2>2. wallet'[d] = wallet[d] /\ (trade[d] # None => meso'[trade[d]] = meso[trade[d]])
    BY <1>1, <1>5, <2>1 DEF IInv, TypeOK
  <2> QED
    BY <1>1, <2>2 DEF Worth, At
<1> QED
  BY <1>1, <1>4, <1>5, MesosIf

LEMMA MesosPickup ==
    ASSUME Pair, IInv, IInv', NEW c \in Char, PickupMeso(c)
    PROVE  MesosKept
<1>1. PICK d \in Char : d # c /\ Char = {c, d}
  BY DEF Pair
<1>2. Mesos = Worth(c) + Worth(d) + purse /\ Mesos' = Worth(c)' + Worth(d)' + purse'
  BY <1>1, MesosAre, MesosNext
<1>3. /\ purse > 0 /\ purse' = 0 /\ UNCHANGED <<trade, meso>>
      /\ wallet' = [wallet EXCEPT ![c] = gainMeso(@, purse)]
  BY DEF PickupMeso, tradeVars
<1>4. Worth(d)' = Worth(d)
  BY <1>1, <1>3 DEF Worth, IInv, TypeOK
<1>5. wallet'[c] = gainMeso(wallet[c], purse)
  BY <1>3 DEF IInv, TypeOK
<1>6. /\ Worth(c) \in Nat /\ Worth(d) \in Nat /\ purse \in Nat
      /\ wallet[c] \in Nat /\ At(meso, trade[c], None) \in Nat
  BY WorthIsNat DEF At
<1>7. CASE purse > MaxMeso - wallet[c]
  <2>1. Worth(c)' = Worth(c)
    BY <1>3, <1>5, <1>7 DEF Worth, gainMeso
  <2>2. Mesos' < Mesos
    BY <1>2, <1>3, <1>4, <1>6, <2>1
  <2> QED
    BY <1>7, <2>2 DEF MesosKept
<1>8. CASE ~(purse > MaxMeso - wallet[c])
  <2>1. Worth(c)' = Worth(c) + purse
    BY <1>3, <1>5, <1>6, <1>8 DEF Worth, gainMeso
  <2>2. Mesos' = Mesos
    BY <1>2, <1>3, <1>4, <1>6, <2>1
  <2> QED
    BY <2>2 DEF MesosKept
<1> QED
  BY <1>7, <1>8

(* A refund gives back what was put up, or drops it when it does not fit.  *)
LEMMA MesosCancel ==
    ASSUME IInv, PairInv, Pair, IInv', NEW t \in Current, Cancel(Sides(t)),
           UNCHANGED <<chr, purse>>
    PROVE  MesosKept
<1>1. /\ Sides(t) \subseteq Current
      /\ \A s \in Sides(t) :
            /\ trade'[chr[s]] = None
            /\ wallet'[chr[s]] = gainMeso(wallet[chr[s]], meso[s])
      /\ \A u \in Current \ Sides(t) : meso'[u] = meso[u]
  BY Refund
<1>2. ASSUME NEW c \in Char, NEW s \in Sides(t), chr[s] = c
      PROVE  \/ Worth(c)' = Worth(c)
             \/ Worth(c)' < Worth(c) /\ Overflows(c)
  <2>1. trade[c] = s /\ s # None
    BY <1>1, <1>2, CurrentOwned
  <2>2. wallet[c] \in Nat /\ wallet[c] <= MaxMeso /\ meso[s] \in Nat /\ MaxMeso \in Nat
    BY <1>1, <2>1, WorthIsNat, TradeAssumption DEF IInv, TypeOK
  <2>3. Worth(c) = wallet[c] + meso[s]
    BY <2>1 DEF Worth, At
  <2>4. Worth(c)' = wallet'[c]
    <3>1. At(meso', trade'[c], None) = 0
      BY <1>1, <1>2 DEF At
    <3>2. wallet'[c] \in Nat
      BY TradeAssumption DEF IInv, TypeOK
    <3>3. Worth(c)' = wallet'[c] + At(meso', trade'[c], None)
      BY DEF Worth, At
    <3> QED
      BY <3>1, <3>2, <3>3
  <2>5. wallet'[c] = gainMeso(wallet[c], meso[s])
    BY <1>1, <1>2
  <2>6. CASE meso[s] > MaxMeso - wallet[c]
    BY <2>1, <2>2, <2>3, <2>4, <2>5, <2>6 DEF gainMeso, Overflows
  <2>7. CASE ~(meso[s] > MaxMeso - wallet[c])
    BY <2>2, <2>3, <2>4, <2>5, <2>7 DEF gainMeso
  <2> QED
    BY <2>6, <2>7
<1>3. ASSUME NEW c \in Char, \A s \in Sides(t) : chr[s] # c
      PROVE  Worth(c)' = Worth(c)
  <2>1. trade'[c] = trade[c] /\ wallet'[c] = wallet[c]
    BY <1>3 DEF Cancel, Deliver, Owners
  <2>2. trade[c] # None => trade[c] \in Current \ Sides(t)
    BY <1>3 DEF Current, IInv, OwnTrade
  <2> QED
    BY <1>1, <2>1, <2>2 DEF Worth, At
<1>4. ASSUME NEW c \in Char
      PROVE  \/ Worth(c)' = Worth(c)
             \/ Worth(c)' < Worth(c) /\ Overflows(c)
  <2>1. CASE \E s \in Sides(t) : chr[s] = c
    BY <1>2, <2>1
  <2>2. CASE \A s \in Sides(t) : chr[s] # c
    BY <1>3, <2>2
  <2> QED
    BY <2>1, <2>2
<1> QED
  BY <1>4, MesosIf

(* A payment moves what both put up across, less the tax on each.          *)
LEMMA MesosPay ==
    ASSUME IInv, PairInv, Pair, IInv', NEW c \in Char, LockAndPay(c)
    PROVE  MesosKept
<1> DEFINE l == trade[c]
           p == partner[l]
           Tax(t) == getTaxAmount(meso[t])
<1>1. Confirmable(c) /\ BothLocked(l) /\ Lock(l) /\ UNCHANGED purse
  BY DEF LockAndPay, Lock, mapVars
<1>2. /\ l \in Current /\ p \in Current /\ l # p /\ l \in Object /\ p \in Object
      /\ chr[l] = c /\ chr[p] # c
  BY <1>1, BothSides
<1>3. PICK d \in Char : d = chr[p] /\ d # c
  BY <1>2, CurrentOwned
<1>4. trade[d] = p /\ l # None /\ p # None /\ trade[c] = l
  BY <1>3, <1>2, CurrentOwned
<1>5. Char = {c, d}
  BY <1>3 DEF Pair
<1>6. Mesos = Worth(c) + Worth(d) + purse /\ Mesos' = Worth(c)' + Worth(d)' + purse'
  BY <1>3, <1>5, MesosAre, MesosNext
<1>7. /\ check(c, items[p], meso[p]) /\ check(d, items[l], meso[l])
      /\ trade'[c] = None /\ trade'[d] = None
      /\ wallet'[c] = gainMeso(wallet[c], Net(meso[p]))
      /\ wallet'[d] = gainMeso(wallet[d], Net(meso[l]))
  BY <1>3, <1>2, Payment
<1>8. /\ wallet[c] \in Nat /\ wallet[d] \in Nat /\ purse \in Nat /\ MaxMeso \in Nat
      /\ meso[l] \in Nat /\ meso[p] \in Nat
  BY <1>3, <1>4, WorthIsNat, TradeAssumption
<1>9. Tax(l) \in 0..meso[l] /\ Tax(p) \in 0..meso[p]
  BY <1>8, TaxBound
<1>10. Worth(c) = wallet[c] + meso[l] /\ Worth(d) = wallet[d] + meso[p]
  BY <1>4 DEF Worth, At
<1>11. Worth(c)' = wallet'[c] /\ Worth(d)' = wallet'[d]
  <2>1. /\ Worth(c)' = wallet'[c] + At(meso', trade'[c], None)
        /\ Worth(d)' = wallet'[d] + At(meso', trade'[d], None)
    BY DEF Worth, At
  <2>2. At(meso', trade'[c], None) = 0 /\ At(meso', trade'[d], None) = 0
    BY <1>7 DEF At
  <2>3. wallet'[c] \in Nat /\ wallet'[d] \in Nat
    BY TradeAssumption DEF IInv, TypeOK
  <2> QED
    BY <2>1, <2>2, <2>3
<1>12. /\ wallet'[c] = wallet[c] + meso[p] - Tax(p)
       /\ wallet'[d] = wallet[d] + meso[l] - Tax(l)
  <2>1. meso[p] <= MaxMeso - wallet[c] /\ meso[l] <= MaxMeso - wallet[d]
    BY <1>7 DEF check
  <2> QED
    BY <1>7, <1>8, <1>9, <2>1 DEF gainMeso, Net
<1>13. Mesos' = Mesos - Tax(l) - Tax(p)
  <2> HIDE DEF Tax, l
  <2> QED
    BY <1>1, <1>6, <1>8, <1>9, <1>10, <1>11, <1>12
<1>14. Closes(l, p)
  BY <1>1, <1>2, <1>7 DEF Closes, Confirmable, BothLocked, Lock, IInv, TypeOK
<1> QED
  BY <1>2, <1>13, <1>14 DEF MesosKept

LEMMA MesosStep ==
    ASSUME Pair, IInv, PairInv, IInv', NEW c \in Char, Handle(c)
    PROVE  MesosKept
<1>1. CASE startTrade(c)
  BY <1>1, MesosOpen DEF startTrade, mapVars
<1>2. ASSUME cancelTrade(c) PROVE MesosKept
  <2>1. trade[c] \in Current
    BY <1>2 DEF cancelTrade, Current
  <2> QED
    BY <1>2, <2>1, MesosCancel DEF cancelTrade, mapVars
<1>3. CASE \E d \in Char : inviteTrade(c, d)
  BY <1>2, <1>3, MesosOpen DEF inviteTrade, mapVars
<1>4. CASE declineTrade(c)
  BY <1>4, DeclineIsCancel, MesosCancel DEF declineTrade, mapVars
<1>5. CASE (\E i \in Item : setItems(c, i) \/ Pickup_Pet(c, i) \/ Drop(c, i)) \/ LockAndWait(c)
  <2>1. UNCHANGED <<purse, wallet, trade, meso>>
    BY <1>5 DEF setItems, Pickup_Pet, Drop, LockAndWait, Lock, charVars, mapVars, tradeVars
  <2> QED
    BY <2>1, MesosQuiet
<1>10. CASE Dress(c)
  BY <1>10, Dressing, MesosQuiet DEF mapVars, tradeVars
<1>6. CASE PickupMeso(c)
  BY <1>6, MesosPickup
<1>7. CASE \E m \in Amount : setMeso(c, m)
  BY <1>7, MesosSet
<1>8. CASE LockAndPay(c)
  BY <1>8, MesosPay
<1>9. CASE LockAndReject(c)
  <2>1. trade[c] \in Current
    BY <1>9, BothSides DEF LockAndReject
  <2>2. Cancel(Sides(trade[c])) /\ UNCHANGED <<chr, purse>>
    BY <1>9 DEF LockAndReject, Lock, mapVars
  <2> QED
    BY <2>1, <2>2, MesosCancel
<1> QED
  BY <1>1, <1>2, <1>3, <1>4, <1>5, <1>6, <1>7, <1>8, <1>9, <1>10 DEF Handle, completeTrade, Dress

(***************************************************************************)
(* Between two players no step makes mesos, and one loses some only as the *)
(* tax of a paid trade or by crediting a wallet they do not fit in: what   *)
(* is put up, refunded and paid adds up for every amount an int can hold.  *)
(***************************************************************************)
THEOREM MesosAddUp ==
    ASSUME Pair
    PROVE  Spec => MesosOnlyTaxedOrOverflow
<1>1. IInv /\ PairInv /\ IInv' /\ [Next]_vars => [MesosKept]_vars
  BY MesosStep DEF Next
<1>2. IInv /\ [Next]_vars => IInv'
  BY StepIInv
<1>3. [MesosKept]_vars =>
      [\/ Mesos' = Mesos
       \/ \E t, u \in Current :
             /\ t # u /\ Closes(t, u)
             /\ Mesos' = Mesos - getTaxAmount(meso[t]) - getTaxAmount(meso[u])
       \/ /\ Mesos' < Mesos
          /\ \E c \in Char :
                \/ purse > MaxMeso - wallet[c]
                \/ trade[c] # None /\ meso[trade[c]] > MaxMeso - wallet[c]]_vars
  BY DEF MesosKept
<1> QED
  BY <1>1, <1>2, <1>3, PairInvariant, PTL DEF Spec, MesosOnlyTaxedOrOverflow
=============================================================================
