----------------------------- MODULE TradeProofs -----------------------------
(***************************************************************************)
(* Proofs about Trade, for any number of characters, items and trade       *)
(* objects.  IInv is the inductive invariant: the types, every item in one *)
(* place, every current trade owned by the character who points at it, and *)
(* payments drawn only on locked sides.                                    *)
(***************************************************************************)
EXTENDS Trade, TLAPS

OwnTrade == \A c \in Char : trade[c] # None => chr[trade[c]] = c

IInv == TypeOK /\ ItemsHaveOneHome /\ OwnTrade /\ PaidFromLockedSide

-----------------------------------------------------------------------------
(* The tax is never more than what is taxed, so a net payment is a Nat.    *)
LEMMA TaxBound ==
    ASSUME NEW m \in Nat
    PROVE  getTaxAmount(m) \in 0..m
<1> DEFINE q == m \div 1000
           r == m % 1000
<1>1. q \in Nat /\ r \in 0..999 /\ m = 1000 * q + r
  OBVIOUS
<1> HIDE DEF q, r
<1>2. ASSUME NEW k \in {8, 18, 30, 40, 50, 60}, q >= 1
      PROVE  q * k + (r * k + 500) \div 1000 \in 0..m
  <2>1. CASE k = 8
    BY <1>1, <1>2, <2>1
  <2>2. CASE k = 18
    BY <1>1, <1>2, <2>2
  <2>3. CASE k = 30
    BY <1>1, <1>2, <2>3
  <2>4. CASE k = 40
    BY <1>1, <1>2, <2>4
  <2>5. CASE k = 50
    BY <1>1, <1>2, <2>5
  <2>6. CASE k = 60
    BY <1>1, <1>2, <2>6
  <2> QED
    BY <2>1, <2>2, <2>3, <2>4, <2>5, <2>6
<1>3. ASSUME NEW k \in {8, 18, 30, 40, 50, 60}, m >= 100000
      PROVE  PerMille(m, k) \in 0..m
  <2>1. q >= 1
    BY <1>1, <1>3
  <2> QED
    BY <2>1, <1>2 DEF PerMille, q, r
<1>4. CASE m < 100000
  BY <1>4 DEF getTaxAmount
<1>5. CASE m >= 100000
  BY <1>3, <1>5 DEF getTaxAmount
<1> QED
  BY <1>4, <1>5

(* A credit leaves the wallet within an int.                               *)
LEMMA CreditBound ==
    ASSUME NEW w \in 0..MaxMeso, NEW g \in Nat
    PROVE  gainMeso(w, g) \in 0..MaxMeso
BY TradeAssumption DEF gainMeso

(* What addFromDrop stores is part of what it was offered.                 *)
LEMMA StoredIsOffered ==
    ASSUME NEW b, NEW w, NEW offer, NEW K \in addFromDrop(b, w, offer)
    PROVE  K \subseteq offer
BY DEF addFromDrop

LEMMA OwnedByOwner ==
    ASSUME NEW S, NEW c \in Owners(S)
    PROVE  OwnedBy(S, c) \in S /\ chr[OwnedBy(S, c)] = c
BY DEF Owners, OwnedBy

(***************************************************************************)
(* The one lemma behind every refund and payment: if no list is handed out *)
(* twice, the types hold, every item still has one home, and whatever is   *)
(* new in a bag comes from a list that was to go to its owner.             *)
(***************************************************************************)
Delivered(S, from) ==
    /\ trade' \in [Char -> Object \cup {None}]
    /\ bag' \in [Char -> SUBSET Item]
    /\ wallet' \in [Char -> 0..MaxMeso]
    /\ items' \in [Object -> SUBSET Item]
    /\ ItemsHaveOneHome'
    /\ \A c \in Char : trade'[c] \in {trade[c], None}
    /\ \A c \in Char, t \in Object :
           bag'[c] \cap items[t] # {} => \E s \in S : chr[s] = c /\ from[s] = t

LEMMA DeliverLemma ==
    ASSUME TypeOK, ItemsHaveOneHome,
           NEW S \in SUBSET Object,
           NEW from \in [S -> Object],
           NEW credit \in [S -> Nat],
           \A s, t \in S : s # t => from[s] # from[t],
           Deliver(S, from, credit),
           worn' = worn, ground' = ground
    PROVE  Delivered(S, from)
<1>1. PICK kept \in [S -> SUBSET Item] :
          /\ \A t \in S : kept[t] \in addFromDrop(bag[chr[t]], worn[chr[t]], items[from[t]])
          /\ bag' = [c \in Char |->
                 IF c \in Owners(S) THEN bag[c] \cup kept[OwnedBy(S, c)] ELSE bag[c]]
          /\ wallet' = [c \in Char |->
                 IF c \in Owners(S) THEN gainMeso(wallet[c], credit[OwnedBy(S, c)]) ELSE wallet[c]]
          /\ items' = [t \in Object |-> IF \E s \in S : from[s] = t THEN {} ELSE items[t]]
          /\ trade' = [c \in Char |-> IF c \in Owners(S) THEN None ELSE trade[c]]
  BY DEF Deliver
<1>2. \A t \in S : kept[t] \subseteq items[from[t]]
  BY <1>1, StoredIsOffered
<1>3. \A c \in Owners(S) : OwnedBy(S, c) \in S /\ chr[OwnedBy(S, c)] = c
  BY OwnedByOwner
<1>4. bag' \in [Char -> SUBSET Item] /\ items' \in [Object -> SUBSET Item]
  BY <1>1, <1>3 DEF TypeOK
<1>5. wallet' \in [Char -> 0..MaxMeso]
  <2> SUFFICES ASSUME NEW c \in Char
               PROVE  wallet'[c] \in 0..MaxMeso
    BY <1>1
  <2>1. CASE c \in Owners(S)
    BY <1>1, <1>3, <2>1, CreditBound DEF TypeOK
  <2>2. CASE c \notin Owners(S)
    BY <1>1, <2>2 DEF TypeOK
  <2> QED
    BY <2>1, <2>2
<1>6. trade' \in [Char -> Object \cup {None}] /\ \A c \in Char : trade'[c] \in {trade[c], None}
  BY <1>1 DEF TypeOK
<1>7. \A c \in Char : \/ bag'[c] = bag[c]
                      \/ \E s \in S : /\ chr[s] = c /\ from[s] \in Object
                                      /\ bag'[c] \subseteq bag[c] \cup items[from[s]]
  BY <1>1, <1>2, <1>3
<1>11. \A c \in Char : \/ Has(c)' = Has(c)
                       \/ \E s \in S : /\ chr[s] = c /\ from[s] \in Object
                                       /\ Has(c)' \subseteq Has(c) \cup items[from[s]]
  BY <1>7 DEF Has
<1>10. \A t \in Object : /\ items'[t] \subseteq items[t]
                         /\ \A s \in S : from[s] = t => items'[t] = {}
  BY <1>1 DEF TypeOK
<1>8. ItemsHaveOneHome'
  <2>1. ASSUME NEW c \in Char, NEW d \in Char, c # d
        PROVE  Has(c)' \cap Has(d)' = {}
    <3>1. ASSUME NEW s \in S, NEW v \in S, chr[s] = c, chr[v] = d,
                 from[s] \in Object, from[v] \in Object
          PROVE  (Has(c) \cup items[from[s]]) \cap (Has(d) \cup items[from[v]]) = {}
      BY <2>1, <3>1 DEF ItemsHaveOneHome
    <3> QED
      BY <1>11, <2>1, <3>1 DEF ItemsHaveOneHome
  <2>2. ASSUME NEW t \in Object, NEW u \in Object, t # u
        PROVE  items'[t] \cap items'[u] = {}
    BY <1>10, <2>2 DEF ItemsHaveOneHome
  <2>3. ASSUME NEW c \in Char, NEW t \in Object
        PROVE  Has(c)' \cap items'[t] = {}
    BY <1>10, <1>11 DEF ItemsHaveOneHome
  <2>4. ASSUME NEW c \in Char
        PROVE  Has(c)' \cap ground' = {}
    BY <1>11 DEF ItemsHaveOneHome
  <2>5. ASSUME NEW t \in Object
        PROVE  items'[t] \cap ground' = {}
    BY <1>10 DEF ItemsHaveOneHome
  <2>6. ASSUME NEW c \in Char
        PROVE  bag'[c] \cap worn'[c] = {}
    BY <1>7 DEF ItemsHaveOneHome, Has
  <2> QED
    BY <2>1, <2>2, <2>3, <2>4, <2>5, <2>6 DEF ItemsHaveOneHome
<1>9. ASSUME NEW c \in Char, NEW t \in Object, bag'[c] \cap items[t] # {}
      PROVE  \E s \in S : chr[s] = c /\ from[s] = t
  BY <1>7, <1>9 DEF ItemsHaveOneHome, Has
<1> QED
  BY <1>4, <1>5, <1>6, <1>8, <1>9 DEF Delivered

-----------------------------------------------------------------------------
LEMMA InitIInv == Init => IInv
<1> SUFFICES ASSUME Init PROVE IInv
  OBVIOUS
<1>1. TypeOK
  BY TradeAssumption DEF Init, TypeOK
<1>2. ItemsHaveOneHome
  BY TradeAssumption DEF Init, ItemsHaveOneHome, Has
<1>3. OwnTrade /\ PaidFromLockedSide
  BY DEF Init, OwnTrade, PaidFromLockedSide, Linked, Current
<1> QED
  BY <1>1, <1>2, <1>3 DEF IInv

(* The objects a handler can reach are objects.                            *)
LEMMA LinkedAreObjects ==
    ASSUME TypeOK
    PROVE  Current \subseteq Object /\ Linked \subseteq Object
BY DEF TypeOK, Current, Linked

(* Closing trades and leaving the partner fields alone links nothing new.  *)
LEMMA ClosingShrinksLinks ==
    ASSUME TypeOK, UNCHANGED partner,
           \A c \in Char : trade'[c] \in {trade[c], None}
    PROVE  Current' \subseteq Current /\ Linked' \subseteq Linked
<1>1. Current' \subseteq Current
  BY DEF Current
<1> QED
  BY <1>1 DEF Linked

(***************************************************************************)
(* A new object is blank and nothing refers to it, so neither the homes of *)
(* the items nor what the other trades will be paid with is disturbed.     *)
(***************************************************************************)
LEMMA OpenStep ==
    ASSUME IInv, NEW c \in Char, NEW t \in Object, Open(c, t),
           partner' \in [Object -> Object \cup {None}],
           \A u \in Object : \/ u # t /\ partner'[u] \in {partner[u], t}
                             \/ u = t /\ partner'[u] \in Current \cup {None},
           UNCHANGED <<bag, worn, wallet, mapVars>>
    PROVE  IInv'
<1>1. t \in Object \ Reachable
  BY DEF Open, Unused
<1>2. TypeOK'
  <2>1. /\ trade' \in [Char -> Object \cup {None}]
        /\ chr' \in [Object -> Char]
        /\ items' \in [Object -> SUBSET Item]
    BY DEF IInv, TypeOK, Open
  <2>2. /\ exchangeItems' \in [Object -> Object \cup {None}]
        /\ locked' \in [Object -> BOOLEAN]
    BY DEF IInv, TypeOK, Open
  <2>3. /\ meso' \in [Object -> 0..MaxMeso]
        /\ exchangeMeso' \in [Object -> 0..MaxMeso]
    BY TradeAssumption DEF IInv, TypeOK, Open
  <2> QED
    BY <2>1, <2>2, <2>3 DEF IInv, TypeOK, mapVars
<1>3. ItemsHaveOneHome'
  <2>1. \A u \in Object : items'[u] \subseteq items[u]
    BY DEF IInv, TypeOK, Open
  <2> QED
    BY <2>1 DEF IInv, ItemsHaveOneHome, Has, mapVars
<1>4. OwnTrade'
  <2>1. t \notin Current
    BY <1>1 DEF Reachable, Linked
  <2> QED
    BY <2>1 DEF IInv, TypeOK, OwnTrade, Open, Current
<1>5. PaidFromLockedSide'
  <2>1. Current' \subseteq Current \cup {t}
    BY DEF IInv, TypeOK, Open, Current
  <2>2. Linked' \subseteq Linked \cup {t}
    <3> SUFFICES ASSUME NEW v \in Current', partner'[v] # None
                 PROVE  partner'[v] \in Linked \cup {t}
      BY <2>1 DEF Linked
    <3>1. v \in Current \cup {t} /\ v \in Object
      BY <2>1, LinkedAreObjects DEF IInv
    <3> QED
      BY <3>1, <1>1 DEF Linked
  <2> SUFFICES ASSUME NEW v \in Linked', exchangeItems'[v] # None
               PROVE  locked'[exchangeItems'[v]]
    BY DEF PaidFromLockedSide
  <2>3. v # t
    BY DEF IInv, TypeOK, Open
  <2>4. v \in Linked /\ v \in Object
    BY <2>2, <2>3, LinkedAreObjects DEF IInv
  <2>5. exchangeItems'[v] = exchangeItems[v] /\ exchangeItems[v] # t
    BY <1>1, <2>3, <2>4 DEF IInv, TypeOK, Open, Reachable
  <2>6. exchangeItems[v] \in Object /\ locked[exchangeItems[v]]
    BY <2>4, <2>5 DEF IInv, TypeOK, PaidFromLockedSide
  <2> QED
    BY <2>5, <2>6 DEF IInv, TypeOK, Open
<1> QED
  BY <1>2, <1>3, <1>4, <1>5 DEF IInv

LEMMA StartStep ==
    ASSUME IInv, NEW c \in Char, startTrade(c)
    PROVE  IInv'
<1>1. PICK t \in Object : Open(c, t) /\ partner' = [partner EXCEPT ![t] = None]
  BY DEF startTrade
<1>2. partner' \in [Object -> Object \cup {None}]
  BY <1>1 DEF IInv, TypeOK
<1>3. \A u \in Object : \/ u # t /\ partner'[u] \in {partner[u], t}
                        \/ u = t /\ partner'[u] \in Current \cup {None}
  BY <1>1 DEF IInv, TypeOK
<1> QED
  BY <1>1, <1>2, <1>3, OpenStep DEF startTrade

(***************************************************************************)
(* A cancellation refunds every trade from its own list.                   *)
(***************************************************************************)
LEMMA CancelEffect ==
    ASSUME IInv, NEW S \in SUBSET Object, Cancel(S), UNCHANGED <<worn, ground>>
    PROVE  /\ trade' \in [Char -> Object \cup {None}]
           /\ bag' \in [Char -> SUBSET Item]
           /\ wallet' \in [Char -> 0..MaxMeso]
           /\ items' \in [Object -> SUBSET Item]
           /\ meso' \in [Object -> 0..MaxMeso]
           /\ ItemsHaveOneHome'
           /\ \A c \in Char : trade'[c] \in {trade[c], None}
           /\ \A c \in Char, t \in Object : bag'[c] \cap items[t] # {} => chr[t] = c
<1> DEFINE from == [t \in S |-> t]
           credit == [t \in S |-> meso[t]]
<1>1. /\ from \in [S -> Object] /\ credit \in [S -> Nat]
      /\ \A s, t \in S : s # t => from[s] # from[t]
  BY TradeAssumption DEF IInv, TypeOK
<1>2. Deliver(S, from, credit) /\ TypeOK /\ ItemsHaveOneHome /\ worn' = worn /\ ground' = ground
  BY DEF Cancel, IInv
<1>3. \A t \in S : from[t] = t
  OBVIOUS
<1>4. meso' \in [Object -> 0..MaxMeso]
  BY TradeAssumption DEF Cancel, IInv, TypeOK
<1> HIDE DEF from, credit
<1>5. Delivered(S, from)
  BY <1>1, <1>2, DeliverLemma
<1>6. \A c \in Char, t \in Object : bag'[c] \cap items[t] # {} => chr[t] = c
  BY <1>5, <1>3 DEF Delivered
<1> QED
  BY <1>4, <1>5, <1>6 DEF Delivered

LEMMA CancelStep ==
    ASSUME IInv, NEW S \in SUBSET Object, Cancel(S),
           UNCHANGED <<worn, mapVars, chr, partner, exchangeItems, exchangeMeso, locked>>
    PROVE  IInv'
<1>1. UNCHANGED ground
  BY DEF mapVars
<1>2. TypeOK'
  BY <1>1, CancelEffect DEF IInv, TypeOK, mapVars
<1>3. Current' \subseteq Current /\ Linked' \subseteq Linked
  BY <1>1, CancelEffect, ClosingShrinksLinks DEF IInv
<1>4. OwnTrade' /\ PaidFromLockedSide'
  BY <1>1, <1>3, CancelEffect DEF IInv, OwnTrade, PaidFromLockedSide
<1> QED
  BY <1>1, <1>2, <1>4, CancelEffect DEF IInv

LEMMA SidesAreObjects ==
    ASSUME TypeOK, NEW t \in Object
    PROVE  Sides(t) \in SUBSET Object
BY DEF TypeOK, Sides

LEMMA ExitStep ==
    ASSUME IInv, NEW c \in Char, cancelTrade(c)
    PROVE  IInv'
<1>1. trade[c] \in Object
  BY DEF cancelTrade, IInv, TypeOK
<1> QED
  BY <1>1, SidesAreObjects, CancelStep DEF cancelTrade, IInv

LEMMA InviteStep ==
    ASSUME IInv, NEW c \in Char, NEW d \in Char, inviteTrade(c, d)
    PROVE  IInv'
<1>1. CASE trade[d] = None
  <2>1. PICK t \in Object :
            /\ Open(d, t)
            /\ partner' = [partner EXCEPT
                   ![t] = trade[c],
                   ![trade[c]] = IF locked[trade[c]] THEN @ ELSE t]
    BY <1>1 DEF inviteTrade
  <2>2. trade[c] \in Object /\ trade[c] \in Current /\ trade[c] # t
    BY <2>1 DEF inviteTrade, IInv, TypeOK, Open, Unused, Reachable, Linked, Current
  <2>3. partner' \in [Object -> Object \cup {None}]
    BY <2>1, <2>2 DEF IInv, TypeOK
  <2>4. \A u \in Object : \/ u # t /\ partner'[u] \in {partner[u], t}
                          \/ u = t /\ partner'[u] \in Current \cup {None}
    BY <2>1, <2>2 DEF IInv, TypeOK
  <2>5. UNCHANGED <<bag, worn, wallet, mapVars>>
    BY <1>1 DEF inviteTrade
  <2> QED
    BY <2>1, <2>3, <2>4, <2>5, OpenStep
<1>2. CASE trade[d] # None
  BY <1>2, ExitStep DEF inviteTrade
<1> QED
  BY <1>1, <1>2

LEMMA DeclineStep ==
    ASSUME IInv, NEW c \in Char, declineTrade(c)
    PROVE  IInv'
<1> DEFINE t == trade[c]
<1>1. t \in Object
  BY DEF declineTrade, IInv, TypeOK
<1>2. CASE partner[t] = None
  BY <1>1, <1>2, CancelStep DEF declineTrade
<1>3. CASE partner[t] # None
  <2>1. trade[chr[partner[t]]] \in Object
    BY <1>1, <1>3 DEF declineTrade, IInv, TypeOK
  <2>2. {t, trade[chr[partner[t]]]} \in SUBSET Object
    BY <1>1, <2>1
  <2> QED
    BY <1>3, <2>2, CancelStep DEF declineTrade
<1> QED
  BY <1>2, <1>3

(* Putting an item up: out of the bag, into the list or out of the game.   *)
LEMMA SetItemsStep ==
    ASSUME IInv, NEW c \in Char, NEW i \in Item, setItems(c, i)
    PROVE  IInv'
<1> DEFINE t == trade[c]
<1>1. t \in Object /\ i \in bag[c] /\ i \notin ground
  BY DEF setItems, IInv, TypeOK, ItemsHaveOneHome, Has
<1>2. /\ bag' = [bag EXCEPT ![c] = @ \ {i}]
      /\ items' = [items EXCEPT ![t] = IF partner[t] = None THEN @ ELSE @ \cup {i}]
  BY DEF setItems
<1>3. TypeOK'
  BY <1>1, <1>2 DEF setItems, IInv, TypeOK, mapVars
<1>4. /\ \A d \in Char : bag'[d] = bag[d] \ (IF d = c THEN {i} ELSE {})
      /\ \A u \in Object : items'[u] \subseteq items[u] \cup (IF u = t THEN {i} ELSE {})
  BY <1>1, <1>2 DEF IInv, TypeOK
<1>5. /\ \A u \in Object : i \notin items[u]
      /\ \A d \in Char : i \notin bag'[d] /\ i \notin worn[d]
  BY <1>1, <1>4 DEF IInv, ItemsHaveOneHome, Has
<1>6. ItemsHaveOneHome'
  BY <1>1, <1>4, <1>5 DEF setItems, IInv, ItemsHaveOneHome, Has, mapVars
<1>7. OwnTrade' /\ PaidFromLockedSide'
  BY DEF setItems, IInv, OwnTrade, PaidFromLockedSide, Linked, Current
<1> QED
  BY <1>3, <1>6, <1>7 DEF IInv

LEMMA SetMesoStep ==
    ASSUME IInv, NEW c \in Char, NEW m \in Amount, setMeso(c, m)
    PROVE  IInv'
<1>1. trade[c] \in Object /\ m \in 1..MaxMeso
  BY TradeAssumption DEF setMeso, IInv, TypeOK
<1>2. TypeOK'
  BY <1>1, TradeAssumption DEF setMeso, IInv, TypeOK, mapVars
<1>3. ItemsHaveOneHome' /\ OwnTrade' /\ PaidFromLockedSide'
  BY DEF setMeso, IInv, ItemsHaveOneHome, Has, OwnTrade, PaidFromLockedSide, Linked, Current, mapVars
<1> QED
  BY <1>2, <1>3 DEF IInv

(***************************************************************************)
(* A confirmation: the lists to be handed out are those of two different   *)
(* trades because one of them was locked before this step and the other    *)
(* was not.                                                                *)
(***************************************************************************)
LEMMA ConfirmableObjects ==
    ASSUME IInv, NEW c \in Char, Confirmable(c)
    PROVE  /\ trade[c] \in Object /\ trade[c] \in Linked /\ chr[trade[c]] = c
           /\ partner[trade[c]] \in Object /\ partner[trade[c]] \in Linked
BY DEF IInv, TypeOK, OwnTrade, Confirmable, Linked, Current

LEMMA LockKeepsPayments ==
    ASSUME IInv, NEW c \in Char, Confirmable(c), Lock(trade[c]),
           trade' \in [Char -> Object \cup {None}],
           \A d \in Char : trade'[d] \in {trade[d], None}
    PROVE  /\ OwnTrade' /\ PaidFromLockedSide'
           /\ exchangeItems' \in [Object -> Object \cup {None}]
           /\ locked' \in [Object -> BOOLEAN]
           /\ locked'[trade[c]]
           /\ \A t \in Object : locked[t] => locked'[t]
<1> DEFINE l == trade[c]
<1>1. l \in Object /\ partner[l] \in Object
  BY ConfirmableObjects
<1>2. /\ exchangeItems' \in [Object -> Object \cup {None}]
      /\ locked' \in [Object -> BOOLEAN]
      /\ locked'[l]
      /\ \A t \in Object : locked[t] => locked'[t]
  BY <1>1 DEF Lock, IInv, TypeOK
<1>3. Linked' \subseteq Linked /\ Linked \subseteq Object
  BY ClosingShrinksLinks, LinkedAreObjects DEF Lock, IInv
<1>4. PaidFromLockedSide'
  <2> SUFFICES ASSUME NEW t \in Linked', exchangeItems'[t] # None
               PROVE  locked'[exchangeItems'[t]]
    BY DEF PaidFromLockedSide
  <2>1. t \in Linked /\ t \in Object
    BY <1>3
  <2>2. CASE t = partner[l]
    BY <1>1, <1>2, <2>2 DEF Lock, IInv, TypeOK
  <2>3. CASE t # partner[l]
    BY <1>1, <1>2, <2>1, <2>3 DEF Lock, IInv, TypeOK, PaidFromLockedSide
  <2> QED
    BY <2>2, <2>3
<1>5. OwnTrade'
  BY DEF Lock, IInv, OwnTrade
<1> QED
  BY <1>2, <1>4, <1>5

LEMMA LockAndWaitStep ==
    ASSUME IInv, NEW c \in Char, LockAndWait(c)
    PROVE  IInv'
<1>1. Confirmable(c) /\ Lock(trade[c]) /\ UNCHANGED <<charVars, items, meso, mapVars, chr, partner>>
  BY DEF LockAndWait, Lock
<1>2. trade[c] \in Object /\ partner[trade[c]] \in Object
  BY <1>1, ConfirmableObjects
<1>3. trade' \in [Char -> Object \cup {None}] /\ \A d \in Char : trade'[d] \in {trade[d], None}
  BY <1>1 DEF charVars, IInv, TypeOK
<1>4. exchangeMeso' \in [Object -> 0..MaxMeso]
  BY <1>2 DEF LockAndWait, IInv, TypeOK
<1>5. TypeOK'
  BY <1>1, <1>3, <1>4, LockKeepsPayments DEF charVars, mapVars, IInv, TypeOK
<1>6. ItemsHaveOneHome'
  BY <1>1 DEF charVars, mapVars, IInv, ItemsHaveOneHome, Has
<1> QED
  BY <1>1, <1>3, <1>5, <1>6, LockKeepsPayments DEF IInv

LEMMA LockAndRejectStep ==
    ASSUME IInv, NEW c \in Char, LockAndReject(c)
    PROVE  IInv' /\ \A d \in Char, t \in Object : bag'[d] \cap items[t] # {} => chr[t] = d
<1>1. /\ Confirmable(c) /\ Lock(trade[c]) /\ Cancel(Sides(trade[c]))
      /\ UNCHANGED <<worn, ground, mapVars, chr, partner>>
  BY DEF LockAndReject, Lock, mapVars
<1>2. /\ trade[c] \in Object /\ partner[trade[c]] \in Object
      /\ Sides(trade[c]) \in SUBSET Object
  BY <1>1, ConfirmableObjects, SidesAreObjects DEF IInv
<1>3. exchangeMeso' \in [Object -> 0..MaxMeso]
  BY <1>2 DEF LockAndReject, IInv, TypeOK
<1>4. /\ trade' \in [Char -> Object \cup {None}]
      /\ \A d \in Char : trade'[d] \in {trade[d], None}
  BY <1>1, <1>2, CancelEffect
<1>5. /\ OwnTrade' /\ PaidFromLockedSide'
      /\ exchangeItems' \in [Object -> Object \cup {None}]
      /\ locked' \in [Object -> BOOLEAN]
  BY <1>1, <1>4, LockKeepsPayments
<1>6. TypeOK'
  BY <1>1, <1>2, <1>3, <1>5, CancelEffect DEF mapVars, IInv, TypeOK
<1> QED
  BY <1>1, <1>2, <1>5, <1>6, CancelEffect DEF IInv

(***************************************************************************)
(* In a payment the two lists belong to locked sides, and each goes to the *)
(* owner of a locked trade.                                                *)
(***************************************************************************)
LEMMA LockAndPayStep ==
    ASSUME IInv, NEW c \in Char, LockAndPay(c)
    PROVE  /\ IInv'
           /\ \A d \in Char, t \in Object :
                  bag'[d] \cap items[t] # {} /\ chr[t] # d =>
                      locked'[t] /\ \E u \in Linked : chr[u] = d /\ locked'[u]
<1> DEFINE l == trade[c]
           p == partner[l]
           S == {l, p}
           net(m) == m - getTaxAmount(m)
           from == [t \in S |-> IF t = l THEN exchangeItems[l] ELSE l]
           credit == [t \in S |-> net(IF t = l THEN exchangeMeso[l] ELSE meso[l])]
<1>1. /\ Confirmable(c) /\ Lock(l) /\ BothLocked(l) /\ Deliver(S, from, credit)
      /\ exchangeMeso' = [exchangeMeso EXCEPT ![l] = 0, ![p] = 0]
      /\ UNCHANGED <<worn, ground, meso, mapVars, chr, partner>>
  BY DEF LockAndPay, Lock, mapVars
<1>2. /\ l \in Object /\ p \in Object /\ l \in Linked /\ p \in Linked
      /\ ~locked[l] /\ locked[p] /\ exchangeItems[l] # None
  BY <1>1, ConfirmableObjects DEF Confirmable, BothLocked
<1>3. exchangeItems[l] \in Object /\ locked[exchangeItems[l]] /\ exchangeItems[l] # l
  BY <1>2 DEF IInv, TypeOK, PaidFromLockedSide
<1>4. /\ S \in SUBSET Object
      /\ from \in [S -> Object]
      /\ \A s, t \in S : s # t => from[s] # from[t]
      /\ \A s \in S : from[s] \in {exchangeItems[l], l}
  BY <1>2, <1>3
<1>5. credit \in [S -> Nat]
  <2>1. meso[l] \in Nat /\ exchangeMeso[l] \in Nat
    BY <1>2, TradeAssumption DEF IInv, TypeOK
  <2>2. net(meso[l]) \in Nat /\ net(exchangeMeso[l]) \in Nat
    BY <2>1, TaxBound
  <2> HIDE DEF net
  <2> QED
    BY <2>2
<1>6. /\ trade' \in [Char -> Object \cup {None}]
      /\ bag' \in [Char -> SUBSET Item]
      /\ wallet' \in [Char -> 0..MaxMeso]
      /\ items' \in [Object -> SUBSET Item]
      /\ ItemsHaveOneHome'
      /\ \A d \in Char : trade'[d] \in {trade[d], None}
      /\ \A d \in Char, t \in Object :
             bag'[d] \cap items[t] # {} => \E s \in S : chr[s] = d /\ from[s] = t
  <2> HIDE DEF from, credit, S
  <2>1. worn' = worn /\ ground' = ground /\ TypeOK /\ ItemsHaveOneHome /\ Deliver(S, from, credit)
    BY <1>1 DEF IInv
  <2>2. S \in SUBSET Object /\ from \in [S -> Object] /\ credit \in [S -> Nat]
    BY <1>4, <1>5
  <2>3. \A s, t \in S : s # t => from[s] # from[t]
    BY <1>4
  <2>4. Delivered(S, from)
    BY <2>1, <2>2, <2>3, DeliverLemma
  <2> QED
    BY <2>4 DEF Delivered
<1>7. /\ OwnTrade' /\ PaidFromLockedSide'
      /\ exchangeItems' \in [Object -> Object \cup {None}]
      /\ locked' \in [Object -> BOOLEAN]
      /\ locked'[l]
      /\ \A t \in Object : locked[t] => locked'[t]
  BY <1>1, <1>6, LockKeepsPayments
<1>8. TypeOK'
  <2>1. 0 \in 0..MaxMeso /\ exchangeMeso \in [Object -> 0..MaxMeso]
    BY TradeAssumption DEF IInv, TypeOK
  <2>2. exchangeMeso' = [exchangeMeso EXCEPT ![l] = 0, ![p] = 0]
    BY <1>1
  <2> HIDE DEF l, p
  <2>3. exchangeMeso' \in [Object -> 0..MaxMeso]
    BY <2>1, <2>2
  <2> QED
    BY <1>1, <1>6, <1>7, <2>3 DEF mapVars, IInv, TypeOK
<1>9. ASSUME NEW d \in Char, NEW t \in Object, bag'[d] \cap items[t] # {}
      PROVE  locked'[t] /\ \E u \in Linked : chr[u] = d /\ locked'[u]
  <2>1. PICK s \in S : chr[s] = d /\ from[s] = t
    BY <1>6, <1>9
  <2>2. t \in {exchangeItems[l], l} /\ s \in {l, p}
    BY <1>4, <2>1
  <2> QED
    BY <1>2, <1>3, <1>7, <2>1, <2>2
<1> QED
  BY <1>6, <1>7, <1>8, <1>9 DEF IInv

(* Items and mesos that move between the map, a bag and a body.            *)
LEMMA PickupStep ==
    ASSUME IInv, NEW c \in Char, NEW i \in Item, Pickup_Pet(c, i)
    PROVE  IInv' /\ \A d \in Char : bag'[d] \subseteq bag[d] \cup ground
<1>1. /\ i \in ground /\ ground' = ground \ {i} /\ items' = items /\ worn' = worn
      /\ bag' = [bag EXCEPT ![c] = @ \cup {i}]
  BY DEF Pickup_Pet, tradeVars
<1>2. \A d \in Char : bag'[d] = IF d = c THEN bag[d] \cup {i} ELSE bag[d]
  BY <1>1 DEF IInv, TypeOK
<1>3. TypeOK'
  BY <1>1 DEF Pickup_Pet, IInv, TypeOK, tradeVars
<1>4. ItemsHaveOneHome'
  BY <1>1, <1>2 DEF IInv, ItemsHaveOneHome, Has
<1>5. OwnTrade' /\ PaidFromLockedSide'
  BY DEF Pickup_Pet, IInv, OwnTrade, PaidFromLockedSide, Linked, Current, tradeVars
<1>6. \A d \in Char : bag'[d] \subseteq bag[d] \cup ground
  BY <1>1, <1>2
<1> QED
  BY <1>3, <1>4, <1>5, <1>6 DEF IInv

LEMMA DropStep ==
    ASSUME IInv, NEW c \in Char, NEW i \in Item, Drop(c, i)
    PROVE  IInv' /\ \A d \in Char : bag'[d] \subseteq bag[d]
<1>1. /\ i \in Has(c) /\ ground' = ground \cup {i} /\ items' = items
      /\ bag' = [bag EXCEPT ![c] = @ \ {i}] /\ worn' = [worn EXCEPT ![c] = @ \ {i}]
  BY DEF Drop, Has, tradeVars
<1>2. \A d \in Char : /\ bag'[d] = IF d = c THEN bag[d] \ {i} ELSE bag[d]
                      /\ worn'[d] = IF d = c THEN worn[d] \ {i} ELSE worn[d]
  BY <1>1 DEF IInv, TypeOK
<1>3. TypeOK'
  BY <1>1 DEF Drop, IInv, TypeOK, tradeVars
<1>4. \A d \in Char : Has(d)' \subseteq Has(d) /\ i \notin Has(d)'
  BY <1>1, <1>2 DEF IInv, ItemsHaveOneHome, Has
<1>5. \A t \in Object : i \notin items[t]
  BY <1>1 DEF IInv, ItemsHaveOneHome
<1>6. ItemsHaveOneHome'
  <2>1. \A d \in Char : bag'[d] \cap worn'[d] = {}
    BY <1>2 DEF IInv, ItemsHaveOneHome
  <2> QED
    BY <1>1, <1>4, <1>5, <2>1 DEF IInv, ItemsHaveOneHome
<1>7. OwnTrade' /\ PaidFromLockedSide'
  BY DEF Drop, IInv, OwnTrade, PaidFromLockedSide, Linked, Current, tradeVars
<1> QED
  BY <1>2, <1>3, <1>6, <1>7 DEF IInv

(* Between bag and body everything stays with its owner.                   *)
LEMMA DressStep ==
    ASSUME IInv, NEW c \in Char, NEW B \in SUBSET Item, NEW W \in SUBSET Item,
           bag' = [bag EXCEPT ![c] = B], worn' = [worn EXCEPT ![c] = W],
           B \cap W = {}, B \cup W = Has(c),
           UNCHANGED <<trade, wallet, mapVars, tradeVars>>
    PROVE  IInv' /\ \A d \in Char : Has(d)' = Has(d) /\ bag'[d] \subseteq Has(d)
<1>1. \A d \in Char : /\ bag'[d] = IF d = c THEN B ELSE bag[d]
                      /\ worn'[d] = IF d = c THEN W ELSE worn[d]
  BY DEF IInv, TypeOK
<1>2. TypeOK'
  BY DEF IInv, TypeOK, mapVars, tradeVars
<1>3. \A d \in Char : Has(d)' = Has(d) /\ bag'[d] \cap worn'[d] = {}
  BY <1>1 DEF IInv, ItemsHaveOneHome, Has
<1>4. ItemsHaveOneHome'
  BY <1>3 DEF IInv, ItemsHaveOneHome, mapVars, tradeVars
<1>5. OwnTrade' /\ PaidFromLockedSide'
  BY DEF IInv, OwnTrade, PaidFromLockedSide, Linked, Current, tradeVars
<1>6. \A d \in Char : bag'[d] \subseteq Has(d)
  BY <1>1 DEF Has
<1> QED
  BY <1>2, <1>3, <1>4, <1>5, <1>6 DEF IInv

LEMMA EquipStep ==
    ASSUME IInv, NEW c \in Char, NEW i \in bag[c], NEW R \in SUBSET worn[c], equip(c, i, R)
    PROVE  IInv' /\ \A d \in Char : Has(d)' = Has(d) /\ bag'[d] \subseteq Has(d)
<1> DEFINE B == (bag[c] \ {i}) \cup R
           W == (worn[c] \ R) \cup {i}
<1>1. /\ bag' = [bag EXCEPT ![c] = B] /\ worn' = [worn EXCEPT ![c] = W]
      /\ UNCHANGED <<trade, wallet, mapVars, tradeVars>>
  BY DEF equip
<1>2. B \in SUBSET Item /\ W \in SUBSET Item /\ bag[c] \cap worn[c] = {}
  BY DEF IInv, TypeOK, ItemsHaveOneHome
<1>3. B \cap W = {} /\ B \cup W = Has(c)
  BY <1>2 DEF Has
<1> HIDE DEF B, W
<1> QED
  BY <1>1, <1>2, <1>3, DressStep

LEMMA UnequipStep ==
    ASSUME IInv, NEW c \in Char, NEW i \in Item, unequip(c, i)
    PROVE  IInv' /\ \A d \in Char : Has(d)' = Has(d) /\ bag'[d] \subseteq Has(d)
<1> DEFINE B == bag[c] \cup {i}
           W == worn[c] \ {i}
<1>1. /\ bag' = [bag EXCEPT ![c] = B] /\ worn' = [worn EXCEPT ![c] = W]
      /\ UNCHANGED <<trade, wallet, mapVars, tradeVars>> /\ i \in worn[c]
  BY DEF unequip
<1>2. B \in SUBSET Item /\ W \in SUBSET Item /\ bag[c] \cap worn[c] = {}
  BY DEF IInv, TypeOK, ItemsHaveOneHome
<1>3. B \cap W = {} /\ B \cup W = Has(c)
  BY <1>1, <1>2 DEF Has
<1> HIDE DEF B, W
<1> QED
  BY <1>1, <1>2, <1>3, DressStep

(* Putting on and taking off.                                              *)
Dress(c) ==
    \/ \E i \in Item : unequip(c, i)
    \/ \E i \in bag[c], R \in SUBSET worn[c] : equip(c, i, R)

LEMMA Dressing ==
    ASSUME IInv, NEW c \in Char, Dress(c)
    PROVE  /\ IInv'
           /\ \A d \in Char : Has(d)' = Has(d) /\ bag'[d] \subseteq Has(d)
           /\ UNCHANGED <<trade, wallet, mapVars, tradeVars>>
<1>1. UNCHANGED <<trade, wallet, mapVars, tradeVars>>
  BY DEF Dress, unequip, equip
<1> QED
  BY <1>1, EquipStep, UnequipStep DEF Dress

LEMMA PickupMesoStep ==
    ASSUME IInv, NEW c \in Char, PickupMeso(c)
    PROVE  IInv'
<1>1. wallet[c] \in 0..MaxMeso /\ purse \in Nat
  BY TradeAssumption DEF IInv, TypeOK
<1>2. gainMeso(wallet[c], purse) \in 0..MaxMeso
  BY <1>1, CreditBound
<1>3. TypeOK'
  BY <1>2, TradeAssumption DEF PickupMeso, IInv, TypeOK, tradeVars
<1>4. ItemsHaveOneHome' /\ OwnTrade' /\ PaidFromLockedSide'
  BY DEF PickupMeso, IInv, ItemsHaveOneHome, Has, OwnTrade, PaidFromLockedSide, Linked, Current, tradeVars
<1> QED
  BY <1>3, <1>4 DEF IInv

-----------------------------------------------------------------------------
(***************************************************************************)
(* Every step of every handler keeps IInv.                                 *)
(***************************************************************************)
LEMMA StepIInv == IInv /\ [Next]_vars => IInv'
<1> SUFFICES ASSUME IInv, [Next]_vars PROVE IInv'
  OBVIOUS
<1>1. CASE UNCHANGED vars
  BY <1>1 DEF vars, charVars, mapVars, tradeVars, IInv, TypeOK, ItemsHaveOneHome,
              Has, OwnTrade, PaidFromLockedSide, Linked, Current
<1>2. ASSUME NEW c \in Char, Handle(c) PROVE IInv'
  <2>1. CASE startTrade(c)
    BY <2>1, StartStep
  <2>2. CASE \E d \in Char : inviteTrade(c, d)
    BY <2>2, InviteStep
  <2>3. CASE declineTrade(c)
    BY <2>3, DeclineStep
  <2>4. CASE cancelTrade(c)
    BY <2>4, ExitStep
  <2>5. CASE \E i \in Item : setItems(c, i)
    BY <2>5, SetItemsStep
  <2>6. CASE \E i \in Item : Pickup_Pet(c, i)
    BY <2>6, PickupStep
  <2>7. CASE \E i \in Item : Drop(c, i)
    BY <2>7, DropStep
  <2>8. CASE \E m \in Amount : setMeso(c, m)
    BY <2>8, SetMesoStep
  <2>9. CASE LockAndWait(c)
    BY <2>9, LockAndWaitStep
  <2>10. CASE LockAndPay(c)
    BY <2>10, LockAndPayStep
  <2>11. CASE LockAndReject(c)
    BY <2>11, LockAndRejectStep
  <2>12. CASE PickupMeso(c)
    BY <2>12, PickupMesoStep
  <2>13. CASE Dress(c)
    BY <2>13, Dressing
  <2> QED
    BY <1>2, <2>1, <2>2, <2>3, <2>4, <2>5, <2>6, <2>7, <2>8, <2>9, <2>10, <2>11, <2>12,
       <2>13
       DEF Handle, completeTrade, Dress
<1> QED
  BY <1>1, <1>2 DEF Next

(* IInv holds throughout: what the three theorems below are drawn from.    *)
THEOREM TradeInvariant == Spec => []IInv
BY InitIInv, StepIInv, PTL DEF Spec

(* The state keeps its types; in particular no wallet and no trade ever    *)
(* holds a negative amount or more than an int does.                       *)
THEOREM TradeTypes == Spec => []TypeOK
<1>1. IInv => TypeOK
  BY DEF IInv
<1> QED
  BY <1>1, TradeInvariant, PTL

(* No item is ever in two places, for any number of traders, bags and      *)
(* trades left half-linked by a third player's invitation.                 *)
THEOREM NoItemDuplicated == Spec => []ItemsHaveOneHome
<1>1. IInv => ItemsHaveOneHome
  BY DEF IInv
<1> QED
  BY <1>1, TradeInvariant, PTL

(* Payments are only ever drawn on a side that has confirmed.              *)
THEOREM PaymentsAreLocked == Spec => []PaidFromLockedSide
<1>1. IInv => PaidFromLockedSide
  BY DEF IInv
<1> QED
  BY <1>1, TradeInvariant, PTL

(***************************************************************************)
(* No step moves an offered item to another character's bag unless both    *)
(* sides have confirmed.                                                   *)
(***************************************************************************)
BothConfirmed ==
    \A c \in Char, t \in Object :
        chr[t] # c /\ bag'[c] \cap items[t] # {} =>
            locked'[t] /\ \E u \in Linked : chr[u] = c /\ locked'[u]

LEMMA QuietBagsKeepOffers ==
    ASSUME IInv, \A c \in Char : bag'[c] \subseteq Has(c) \cup ground
    PROVE  BothConfirmed
BY DEF IInv, ItemsHaveOneHome, BothConfirmed

LEMMA RefundsStayWithOwners ==
    ASSUME IInv, NEW S \in SUBSET Object, Cancel(S), UNCHANGED <<worn, ground>>
    PROVE  BothConfirmed
BY CancelEffect DEF BothConfirmed

THEOREM TransfersAreConfirmed == Spec => TransferNeedsBothConfirmations
<1>1. ASSUME IInv, NEW c \in Char, Handle(c) PROVE BothConfirmed
  <2>1. CASE startTrade(c) \/ PickupMeso(c) \/ \E m \in Amount : setMeso(c, m)
    <3>1. bag' = bag
      BY <2>1 DEF startTrade, PickupMeso, setMeso
    <3> QED
      BY <1>1, <3>1, QuietBagsKeepOffers DEF Has
  <2>2. CASE \/ \E i \in Item : setItems(c, i) \/ Drop(c, i) \/ Pickup_Pet(c, i)
             \/ Dress(c)
    <3>1. \A d \in Char : bag'[d] \subseteq Has(d) \cup ground
      <4>1. CASE \E i \in Item : Pickup_Pet(c, i)
        BY <1>1, <4>1, PickupStep DEF Has
      <4>2. CASE \E i \in Item : setItems(c, i)
        BY <1>1, <4>2 DEF setItems, IInv, TypeOK, Has
      <4>3. CASE \E i \in Item : Drop(c, i)
        BY <1>1, <4>3, DropStep DEF Has
      <4>4. CASE Dress(c)
        BY <1>1, <4>4, Dressing
      <4> QED
        BY <2>2, <4>1, <4>2, <4>3, <4>4
    <3> QED
      BY <1>1, <3>1, QuietBagsKeepOffers
  <2>3. ASSUME cancelTrade(c) PROVE BothConfirmed
    <3>1. Sides(trade[c]) \in SUBSET Object
      BY <1>1, <2>3, SidesAreObjects DEF cancelTrade, IInv, TypeOK
    <3> QED
      BY <1>1, <2>3, <3>1, RefundsStayWithOwners DEF cancelTrade, mapVars
  <2>4. CASE \E d \in Char : inviteTrade(c, d)
    <3>1. PICK d \in Char : inviteTrade(c, d)
      BY <2>4
    <3>2. CASE trade[d] = None
      <4>1. bag' = bag
        BY <3>1, <3>2 DEF inviteTrade
      <4> QED
        BY <1>1, <4>1, QuietBagsKeepOffers DEF Has
    <3>3. CASE trade[d] # None
      BY <2>3, <3>1, <3>3 DEF inviteTrade
    <3> QED
      BY <3>2, <3>3
  <2>5. CASE declineTrade(c)
    <3>1. PICK S \in SUBSET Object : Cancel(S)
      <4>1. trade[c] \in Object
        BY <1>1, <2>5 DEF declineTrade, IInv, TypeOK
      <4>2. CASE partner[trade[c]] = None
        BY <2>5, <4>1, <4>2 DEF declineTrade
      <4>3. CASE partner[trade[c]] # None
        <5>1. trade[chr[partner[trade[c]]]] \in Object
          BY <1>1, <2>5, <4>1, <4>3 DEF declineTrade, IInv, TypeOK
        <5>2. {trade[c], trade[chr[partner[trade[c]]]]} \in SUBSET Object
          BY <4>1, <5>1
        <5> QED
          BY <2>5, <4>3, <5>2 DEF declineTrade
      <4> QED
        BY <4>2, <4>3
    <3> QED
      BY <1>1, <2>5, <3>1, RefundsStayWithOwners DEF declineTrade, mapVars
  <2>6. CASE LockAndWait(c)
    <3>1. bag' = bag
      BY <2>6 DEF LockAndWait, charVars
    <3> QED
      BY <1>1, <3>1, QuietBagsKeepOffers DEF Has
  <2>7. CASE LockAndPay(c)
    BY <1>1, <2>7, LockAndPayStep DEF BothConfirmed
  <2>8. CASE LockAndReject(c)
    BY <1>1, <2>8, LockAndRejectStep DEF BothConfirmed
  <2> QED
    BY <1>1, <2>1, <2>2, <2>3, <2>4, <2>5, <2>6, <2>7, <2>8 DEF Handle, completeTrade, Dress
<1>2. IInv /\ [Next]_vars => [BothConfirmed]_vars
  BY <1>1 DEF Next
<1>3. [BothConfirmed]_vars =>
      [\A c \in Char, t \in Object :
          chr[t] # c /\ bag'[c] \cap items[t] # {} =>
              locked'[t] /\ \E u \in Linked : chr[u] = c /\ locked'[u]]_vars
  BY DEF BothConfirmed
<1> QED
  BY <1>2, <1>3, TradeInvariant, PTL DEF Spec, TransferNeedsBothConfirmations

=============================================================================
