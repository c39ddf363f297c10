------------------------------- MODULE Trade -------------------------------
(***************************************************************************)
(* The two-sided trade window of server/MapleTrade.java, with the packet   *)
(* cases of PlayerInteractionHandler that drive it and the ways a bag or a *)
(* wallet can change while a window is open.                               *)
(*                                                                         *)
(* A trade is an object: a character points at its current one, two       *)
(* trades point at each other, and what a side offers lives in the object  *)
(* and in nobody's bag.  exchangeItems aliases the list of the other side  *)
(* (line 33 stores the reference), so it is modelled as the trade whose    *)
(* list it is.  Objects outlive the window they were opened for when       *)
(* another trade still refers to them; they are reused once nothing does.  *)
(*                                                                         *)
(* Data: an item is one equip (quantity 1, one slot of the EQUIP bag), and *)
(* on which part of the body it is worn is left out.  A handler is one     *)
(* step; README.md says what that leaves out.                              *)
(***************************************************************************)
EXTENDS Integers, FiniteSets, Functions

CONSTANTS
    Char,       \* characters standing on one map
    Item,       \* equips that may be traded
    OneOfAKind, \* the items of one template whose info is "only" (isPickupRestricted)
    Object,     \* MapleTrade objects
    None,       \* Java's null
    SlotLimit,  \* MapleInventory.slotLimit of the EQUIP bag
    MaxOffer,   \* the 9 of getNextTargetSlot
    MaxMeso,    \* Integer.MAX_VALUE
    Amount,     \* what a player may type into the meso box
    InitBag,    \* what each character starts with, in the bag
    InitWorn,   \*   and on the body
    InitWallet,
    InitPurse   \* mesos lying on the map

ASSUME TradeAssumption ==
    /\ Char # {} /\ None \notin Object
    /\ OneOfAKind \subseteq Item
    /\ SlotLimit \in Nat /\ MaxOffer \in Nat /\ MaxMeso \in Nat
    /\ Amount \subseteq 1..MaxMeso
    /\ InitBag \in [Char -> SUBSET Item] /\ InitWorn \in [Char -> SUBSET Item]
    /\ \A c \in Char : InitBag[c] \cap InitWorn[c] = {}
    /\ \A c, d \in Char :
          c # d => (InitBag[c] \cup InitWorn[c]) \cap (InitBag[d] \cup InitWorn[d]) = {}
    /\ InitWallet \in [Char -> 0..MaxMeso]
    /\ InitPurse \in 0..MaxMeso

VARIABLES
    trade,         \* trade[c]: MapleCharacter.trade
    bag,           \* bag[c]: the EQUIP inventory of c
    worn,          \* worn[c]: the EQUIPPED inventory of c
    wallet,        \* wallet[c]: MapleCharacter.meso
    ground,        \* items lying on the map
    purse,         \* mesos lying on the map
    chr,           \* from here on, the fields of a MapleTrade object
    partner,
    items,
    exchangeItems,
    meso,
    exchangeMeso,
    locked

charVars  == <<trade, bag, worn, wallet>>
mapVars   == <<ground, purse>>
tradeVars == <<chr, partner, items, exchangeItems, meso, exchangeMeso, locked>>
vars      == <<charVars, mapVars, tradeVars>>

-----------------------------------------------------------------------------
(***************************************************************************)
(* Which objects a handler can still reach: the current trade of some      *)
(* character, its partner, and the lists either will be paid with.         *)
(***************************************************************************)
Current   == {trade[c] : c \in Char} \ {None}
Linked    == Current \cup ({partner[t] : t \in Current} \ {None})
Reachable == Linked \cup ({exchangeItems[t] : t \in Linked} \ {None})

(* haveItem(id, 1, true, false): of what c has in the bag and wears exactly *)
(* one is of the one-of-a-kind template.  Two do not count.                *)
HasOne(h) == \E i \in h : h \cap OneOfAKind = {i}

(* checkSpace, and addFromDrop of one item, with bag b and w worn.         *)
Refuses(b, w, i) ==
    \/ Cardinality(b) >= SlotLimit
    \/ i \in OneOfAKind /\ HasOne(b \cup w)

(***************************************************************************)
(* addFromDrop over a whole list: what of it is stored.  Every caller in   *)
(* MapleTrade ignores a refusal.  The list's order decides which items get *)
(* the last slots and which is the one of its kind, so any such choice is  *)
(* possible.                                                               *)
(***************************************************************************)
AtMostOne(h) == h \cap OneOfAKind = {} \/ HasOne(h)

addFromDrop(b, w, offer) ==
    {K \in SUBSET offer :
        /\ K # {} => Cardinality(b \cup K) <= SlotLimit
        /\ AtMostOne(b \cup w) => AtMostOne(b \cup w \cup K)
        /\ \A i \in offer \ K : Refuses(b \cup K, w, i)}

(* A credit that would not fit in an int is dropped without an error.      *)
gainMeso(w, gain) == IF gain > MaxMeso - w THEN w ELSE w + gain

(* Percent steps of GameConstants.getTaxAmount; Math.round is half up.     *)
PerMille(m, k) == (m \div 1000) * k + ((m % 1000) * k + 500) \div 1000

getTaxAmount(m) ==
    CASE m >= 100000000 -> PerMille(m, 60)
      [] m >= 25000000 /\ m < 100000000 -> PerMille(m, 50)
      [] m >= 10000000 /\ m < 25000000 -> PerMille(m, 40)
      [] m >= 5000000 /\ m < 10000000 -> PerMille(m, 30)
      [] m >= 1000000 /\ m < 5000000 -> PerMille(m, 18)
      [] m >= 100000 /\ m < 1000000 -> PerMille(m, 8)
      [] OTHER -> 0

(* check() of a trade whose owner c is to be paid the list offer and m.    *)
(* Here one in the bag is enough, and what is worn is not looked at.       *)
check(c, offer, m) ==
    /\ m <= MaxMeso - wallet[c]
    /\ Cardinality(offer) <= SlotLimit - Cardinality(bag[c])
    /\ offer \cap OneOfAKind # {} => bag[c] \cap OneOfAKind = {}

-----------------------------------------------------------------------------
(* new MapleTrade(slot, c), installed as c's trade.  Which unused object it *)
(* is does not matter.                                                     *)
Unused == Object \ Reachable

Open(c, t) ==
    /\ Unused # {}
    /\ t = CHOOSE u \in Unused : TRUE
    /\ trade' = [trade EXCEPT ![c] = t]
    /\ chr' = [chr EXCEPT ![t] = c]
    /\ items' = [items EXCEPT ![t] = {}]
    /\ exchangeItems' = [exchangeItems EXCEPT ![t] = None]
    /\ meso' = [meso EXCEPT ![t] = 0]
    /\ exchangeMeso' = [exchangeMeso EXCEPT ![t] = 0]
    /\ locked' = [locked EXCEPT ![t] = FALSE]

startTrade(c) ==
    /\ trade[c] = None
    /\ \E t \in Object : Open(c, t) /\ partner' = [partner EXCEPT ![t] = None]
    /\ UNCHANGED <<bag, worn, wallet, mapVars>>

(***************************************************************************)
(* Hand the list of from[t] and credit[t] mesos to the owner of t, for     *)
(* every t of S, and take those owners out of their trades.                *)
(***************************************************************************)
Owners(S) == {chr[t] : t \in S}

OwnedBy(S, c) == CHOOSE t \in S : chr[t] = c

(* Fault: the list is paid out and not cleared.                            *)
DeliverKeepsList(S, from, credit) ==
    \E kept \in [S -> SUBSET Item] :
        /\ \A t \in S : kept[t] \in addFromDrop(bag[chr[t]], worn[chr[t]], items[from[t]])
        /\ bag' = [c \in Char |->
               IF c \in Owners(S) THEN bag[c] \cup kept[OwnedBy(S, c)] ELSE bag[c]]
        /\ wallet' = [c \in Char |->
               IF c \in Owners(S) THEN gainMeso(wallet[c], credit[OwnedBy(S, c)]) ELSE wallet[c]]
        /\ trade' = [c \in Char |-> IF c \in Owners(S) THEN None ELSE trade[c]]
        /\ UNCHANGED items

Deliver(S, from, credit) ==
    \E kept \in [S -> SUBSET Item] :
        /\ \A t \in S : kept[t] \in addFromDrop(bag[chr[t]], worn[chr[t]], items[from[t]])
        /\ bag' = [c \in Char |->
               IF c \in Owners(S) THEN bag[c] \cup kept[OwnedBy(S, c)] ELSE bag[c]]
        /\ wallet' = [c \in Char |->
               IF c \in Owners(S) THEN gainMeso(wallet[c], credit[OwnedBy(S, c)]) ELSE wallet[c]]
        /\ items' = [t \in Object |-> IF \E s \in S : from[s] = t THEN {} ELSE items[t]]
        /\ trade' = [c \in Char |-> IF c \in Owners(S) THEN None ELSE trade[c]]

(* cancel() of each trade in S: everybody gets back what he put in.        *)
Cancel(S) ==
    /\ Deliver(S, [t \in S |-> t], [t \in S |-> meso[t]])
    /\ meso' = [t \in Object |-> IF t \in S THEN 0 ELSE meso[t]]

Sides(t) == {t, partner[t]} \ {None}

(* Exit, leaveMap and changeRemoval.                                       *)
cancelTrade(c) ==
    /\ trade[c] # None
    /\ Cancel(Sides(trade[c]))
    /\ UNCHANGED <<worn, mapVars, chr, partner, exchangeItems, exchangeMeso, locked>>

(* Fault: the inviter's own trade is not told about its new partner.       *)
inviteTradeOneWay(c1, c2) ==
    /\ trade[c1] # None /\ trade[c2] = None
    /\ \E t \in Object : Open(c2, t) /\ partner' = [partner EXCEPT ![t] = trade[c1]]
    /\ UNCHANGED <<bag, worn, wallet, mapVars>>

(* An invitation to somebody who is busy cancels the inviter's own trade.  *)
inviteTrade(c1, c2) ==
    /\ trade[c1] # None
    /\ IF trade[c2] = None
       THEN /\ \E t \in Object :
                 /\ Open(c2, t)
                 /\ partner' = [partner EXCEPT
                        ![t] = trade[c1],
                        ![trade[c1]] = IF locked[trade[c1]] THEN @ ELSE t]
            /\ UNCHANGED <<bag, worn, wallet, mapVars>>
       ELSE cancelTrade(c1)

(* The other player loses the trade he is in now, which need not be the    *)
(* partner; if he is in none the handler fails before it changes anything. *)
declineTrade(c) ==
    /\ trade[c] # None
    /\ LET t == trade[c]
       IN  IF partner[t] = None
           THEN Cancel({t})
           ELSE /\ trade[chr[partner[t]]] # None
                /\ Cancel({t, trade[chr[partner[t]]]})
    /\ UNCHANGED <<worn, mapVars, chr, partner, exchangeItems, exchangeMeso, locked>>

(* Fault: only addItem looks at locked, after the item has left the bag.   *)
setItemsLateCheck(c, i) ==
    LET t == trade[c]
    IN  /\ t # None
        /\ i \in bag[c]
        /\ Cardinality(items[t]) < MaxOffer
        /\ bag' = [bag EXCEPT ![c] = @ \ {i}]
        /\ items' = [items EXCEPT ![t] = IF partner[t] = None \/ locked[t] THEN @ ELSE @ \cup {i}]
        /\ UNCHANGED <<trade, worn, wallet, mapVars, chr, partner, exchangeItems, meso, exchangeMeso, locked>>

(***************************************************************************)
(* setItems takes the item out of the bag, then addItem drops it silently  *)
(* when there is no partner yet.                                           *)
(***************************************************************************)
setItems(c, i) ==
    LET t == trade[c]
    IN  /\ t # None
        /\ i \in bag[c]
        /\ Cardinality(items[t]) < MaxOffer
        /\ ~locked[t]
        /\ bag' = [bag EXCEPT ![c] = @ \ {i}]
        /\ items' = [items EXCEPT ![t] = IF partner[t] = None THEN @ ELSE @ \cup {i}]
        /\ UNCHANGED <<trade, worn, wallet, mapVars, chr, partner, exchangeItems, meso, exchangeMeso, locked>>

(* Fault: the mesos are listed and stay in the wallet.                     *)
setMesoNotTaken(c, m) ==
    LET t == trade[c]
    IN  /\ t # None /\ partner[t] # None /\ ~locked[t]
        /\ m <= MaxMeso - meso[t] /\ wallet[c] >= m
        /\ meso' = [meso EXCEPT ![t] = @ + m]
        /\ UNCHANGED <<charVars, mapVars, chr, partner, items, exchangeItems, exchangeMeso, locked>>

(* Fault: the wallet is not asked whether it holds that much.              *)
setMesoOnCredit(c, m) ==
    LET t == trade[c]
    IN  /\ t # None /\ partner[t] # None /\ ~locked[t]
        /\ m <= MaxMeso - meso[t]
        /\ wallet' = [wallet EXCEPT ![c] = @ - m]
        /\ meso' = [meso EXCEPT ![t] = @ + m]
        /\ UNCHANGED <<trade, bag, worn, mapVars, chr, partner, items, exchangeItems, exchangeMeso, locked>>

setMeso(c, m) ==
    LET t == trade[c]
    IN  /\ t # None
        /\ ~locked[t] /\ partner[t] # None
        /\ m <= MaxMeso - meso[t]
        /\ wallet[c] >= m
        /\ wallet' = [wallet EXCEPT ![c] = @ - m]
        /\ meso' = [meso EXCEPT ![t] = @ + m]
        /\ UNCHANGED <<trade, bag, worn, mapVars, chr, partner, items, exchangeItems, exchangeMeso, locked>>

(***************************************************************************)
(* completeTrade of c's trade l: lock it and show the partner p what he    *)
(* will be paid; when p is locked too, pay both or cancel both.  If nobody *)
(* has set l's own exchangeItems, check() fails on null after the lock.    *)
(***************************************************************************)
Confirmable(c) ==
    /\ trade[c] # None
    /\ partner[trade[c]] # None
    /\ ~locked[trade[c]]

(* Fault: the first of the two confirmations does not lock its side.       *)
LockSecondOnly(l) ==
    /\ locked' = [locked EXCEPT ![l] = locked[partner[l]]]
    /\ exchangeItems' = [exchangeItems EXCEPT ![partner[l]] = l]
    /\ UNCHANGED <<mapVars, chr, partner>>

Lock(l) ==
    /\ locked' = [locked EXCEPT ![l] = TRUE]
    /\ exchangeItems' = [exchangeItems EXCEPT ![partner[l]] = l]
    /\ UNCHANGED <<mapVars, chr, partner>>

(* Fault: having been paid for is taken for the partner's confirmation.    *)
BothOffered(l) == exchangeItems[l] # None

BothLocked(l) == locked[partner[l]] /\ exchangeItems[l] # None

(* Fault: only the side that confirms last is checked.                     *)
LocalChecked(l) == check(chr[l], items[exchangeItems[l]], exchangeMeso[l])

BothChecked(l) ==
    LET p == partner[l]
    IN  /\ check(chr[l], items[exchangeItems[l]], exchangeMeso[l])
        /\ check(chr[p], items[l], meso[l])

(* Fault: the escrow is emptied when it is shown to the partner.           *)
LockAndWaitEmptied(c) ==
    LET l == trade[c]
    IN  /\ Confirmable(c) /\ ~BothLocked(l)
        /\ Lock(l)
        /\ exchangeMeso' = [exchangeMeso EXCEPT ![partner[l]] = meso[l]]
        /\ meso' = [meso EXCEPT ![l] = 0]
        /\ UNCHANGED <<charVars, items>>

LockAndWait(c) ==
    LET l == trade[c]
    IN  /\ Confirmable(c) /\ ~BothLocked(l)
        /\ Lock(l)
        /\ exchangeMeso' = [exchangeMeso EXCEPT ![partner[l]] = meso[l]]
        /\ UNCHANGED <<charVars, items, meso>>

LockAndPay(c) ==
    LET l == trade[c]
        p == partner[l]
        net(m) == m - getTaxAmount(m)
    IN  /\ Confirmable(c) /\ BothLocked(l) /\ BothChecked(l)
        /\ Lock(l)
        /\ Deliver({l, p},
                   [t \in {l, p} |-> IF t = l THEN exchangeItems[l] ELSE l],
                   [t \in {l, p} |-> net(IF t = l THEN exchangeMeso[l] ELSE meso[l])])
        /\ exchangeMeso' = [exchangeMeso EXCEPT ![l] = 0, ![p] = 0]
        /\ UNCHANGED <<worn, meso>>

LockAndReject(c) ==
    LET l == trade[c]
    IN  /\ Confirmable(c) /\ BothLocked(l) /\ ~BothChecked(l)
        /\ Lock(l)
        /\ Cancel(Sides(l))
        /\ exchangeMeso' = [exchangeMeso EXCEPT ![partner[l]] = meso[l]]
        /\ UNCHANGED worn

completeTrade(c) == LockAndWait(c) \/ LockAndPay(c) \/ LockAndReject(c)

(***************************************************************************)
(* What else fills a bag or a wallet.  Pickup_Player refuses while a trade *)
(* is open, Pickup_Pet does not, and a party member's pickup credits every *)
(* member on the map, so neither step asks whether c is trading.  The ways *)
(* out of a bag and onto the body do (ItemMove).                           *)
(***************************************************************************)
Pickup_Pet(c, i) ==
    /\ i \in ground
    /\ ~Refuses(bag[c], worn[c], i)             \* checkSpace
    /\ bag' = [bag EXCEPT ![c] = @ \cup {i}]
    /\ ground' = ground \ {i}
    /\ UNCHANGED <<trade, worn, wallet, purse, tradeVars>>

PickupMeso(c) ==
    /\ purse > 0
    /\ wallet' = [wallet EXCEPT ![c] = gainMeso(@, purse)]
    /\ purse' = 0
    /\ UNCHANGED <<trade, bag, worn, ground, tradeVars>>

(* ItemMove to the ground, from the bag or straight from the body.         *)
Drop(c, i) ==
    /\ trade[c] = None
    /\ i \in bag[c] \cup worn[c]
    /\ bag' = [bag EXCEPT ![c] = @ \ {i}]
    /\ worn' = [worn EXCEPT ![c] = @ \ {i}]
    /\ ground' = ground \cup {i}
    /\ UNCHANGED <<trade, wallet, purse, tradeVars>>

(***************************************************************************)
(* equip: i takes the place of R, which goes to the bag: what was worn     *)
(* there takes i's slot, and for what else must come off (the shield of a  *)
(* two-handed weapon, the trousers of an overall) a slot must be free.     *)
(***************************************************************************)
equip(c, i, R) ==
    /\ trade[c] = None
    /\ i \in bag[c] /\ R \subseteq worn[c] /\ Cardinality(R) <= 2
    /\ Cardinality((bag[c] \ {i}) \cup R) <= SlotLimit
    /\ bag' = [bag EXCEPT ![c] = (@ \ {i}) \cup R]
    /\ worn' = [worn EXCEPT ![c] = (@ \ R) \cup {i}]
    /\ UNCHANGED <<trade, wallet, mapVars, tradeVars>>

(* unequip takes a free slot; nobody asks how many of a kind that makes.   *)
unequip(c, i) ==
    /\ trade[c] = None
    /\ i \in worn[c] /\ Cardinality(bag[c]) < SlotLimit
    /\ bag' = [bag EXCEPT ![c] = @ \cup {i}]
    /\ worn' = [worn EXCEPT ![c] = @ \ {i}]
    /\ UNCHANGED <<trade, wallet, mapVars, tradeVars>>

-----------------------------------------------------------------------------
Init ==
    /\ trade = [c \in Char |-> None]
    /\ bag = InitBag /\ worn = InitWorn
    /\ wallet = InitWallet
    /\ ground = Item \ UNION {InitBag[c] \cup InitWorn[c] : c \in Char}
    /\ purse = InitPurse
    /\ chr = [t \in Object |-> CHOOSE c \in Char : TRUE]
    /\ partner = [t \in Object |-> None]
    /\ items = [t \in Object |-> {}]
    /\ exchangeItems = [t \in Object |-> None]
    /\ meso = [t \in Object |-> 0]
    /\ exchangeMeso = [t \in Object |-> 0]
    /\ locked = [t \in Object |-> FALSE]

Handle(c) ==
    \/ startTrade(c)
    \/ \E d \in Char : inviteTrade(c, d)
    \/ declineTrade(c)
    \/ cancelTrade(c)
    \/ \E i \in Item : setItems(c, i) \/ Pickup_Pet(c, i) \/ Drop(c, i) \/ unequip(c, i)
    \/ \E i \in bag[c], R \in SUBSET worn[c] : equip(c, i, R)
    \/ \E m \in Amount : setMeso(c, m)
    \/ completeTrade(c)
    \/ PickupMeso(c)

Next == \E c \in Char : Handle(c)

Spec == Init /\ [][Next]_vars

-----------------------------------------------------------------------------
TypeOK ==
    /\ trade \in [Char -> Object \cup {None}]
    /\ bag \in [Char -> SUBSET Item]
    /\ worn \in [Char -> SUBSET Item]
    /\ wallet \in [Char -> 0..MaxMeso]
    /\ ground \in SUBSET Item
    /\ purse \in 0..MaxMeso
    /\ chr \in [Object -> Char]
    /\ partner \in [Object -> Object \cup {None}]
    /\ items \in [Object -> SUBSET Item]
    /\ exchangeItems \in [Object -> Object \cup {None}]
    /\ meso \in [Object -> 0..MaxMeso]
    /\ exchangeMeso \in [Object -> 0..MaxMeso]
    /\ locked \in [Object -> BOOLEAN]

(***************************************************************************)
(* An item is in one bag, or on one body, or in one trade's list, or on    *)
(* the ground, never in two of them: setItems takes it out before addItem  *)
(* lists it, and a list that is paid out or refunded is cleared, aliased   *)
(* or not.  Holds for any number of characters, stale partners included.   *)
(***************************************************************************)
Has(c) == bag[c] \cup worn[c]

ItemsHaveOneHome ==
    /\ \A c \in Char : bag[c] \cap worn[c] = {}
    /\ \A c, d \in Char : c # d => Has(c) \cap Has(d) = {}
    /\ \A t, u \in Object : t # u => items[t] \cap items[u] = {}
    /\ \A c \in Char, t \in Object : Has(c) \cap items[t] = {}
    /\ \A c \in Char : Has(c) \cap ground = {}
    /\ \A t \in Object : items[t] \cap ground = {}

(***************************************************************************)
(* Whatever a trade is going to be paid with was put up by a side that has *)
(* confirmed, so nothing can be added to it or taken from it any more.     *)
(***************************************************************************)
PaidFromLockedSide ==
    \A t \in Linked : exchangeItems[t] # None => locked[exchangeItems[t]]

(***************************************************************************)
(* Nobody gets an item somebody else offered unless the one who offered it *)
(* has confirmed, and so has a trade of the one who gets it that was still *)
(* linked (his own current one, or one he left that a partner still holds).*)
(***************************************************************************)
TransferNeedsBothConfirmations ==
    [][\A c \in Char, t \in Object :
          chr[t] # c /\ bag'[c] \cap items[t] # {} =>
              locked'[t] /\ \E u \in Linked : chr[u] = c /\ locked'[u]]_vars

(***************************************************************************)
(* Between two players the partner links agree: my partner's partner is my *)
(* trade, and it is the trade its owner has open.  (inviteTrade does not   *)
(* ask whether the inviter has a partner, so a third player breaks this.)  *)
(***************************************************************************)
PartnersAgree ==
    \A t \in Current :
        partner[t] # None =>
            /\ partner[partner[t]] = t
            /\ trade[chr[partner[t]]] = partner[t]

(***************************************************************************)
(* While a trade stays open its offer only grows: what the other side saw  *)
(* when he confirmed is still there when he is paid.                       *)
(***************************************************************************)
OfferOnlyGrows ==
    [][\A c \in Char :
          trade[c] # None /\ trade'[c] = trade[c] =>
              /\ items[trade[c]] \subseteq items'[trade[c]]
              /\ meso[trade[c]] <= meso'[trade[c]]]_vars

(***************************************************************************)
(* The second confirmation closes the trade all or nothing: each side is   *)
(* paid the other's whole offer, less tax, or each gets his own back.  One *)
(* thing can still be missing from a paid offer: check() looks for a       *)
(* one-of-a-kind template in the bag, addFromDrop on the body and in what  *)
(* it has just stored as well, so an item of it is lost to somebody who    *)
(* wears one or who is given another of them in the same offer.            *)
(***************************************************************************)
Paid(c, u) ==
    /\ \A i \in items[u] \ bag'[c] :
          /\ i \in OneOfAKind
          /\ (worn[c] \cup (items[u] \cap bag'[c])) \cap OneOfAKind # {}
    /\ wallet'[c] = wallet[c] + meso[u] - getTaxAmount(meso[u])

Refunded(c, t) ==
    /\ bag'[c] \ bag[c] \subseteq items[t]
    /\ wallet'[c] = gainMeso(wallet[c], meso[t])

Closes(t, u) ==
    /\ locked'[t] /\ locked'[u] /\ ~(locked[t] /\ locked[u])
    /\ trade'[chr[t]] = None

SecondConfirmationIsAllOrNothing ==
    [][\A t, u \in Current :
          partner[t] = u /\ partner[u] = t /\ Closes(t, u) =>
              \/ Paid(chr[t], u) /\ Paid(chr[u], t)
              \/ Refunded(chr[t], t) /\ Refunded(chr[u], u)]_vars

(***************************************************************************)
(* An item is destroyed in two ways only: it is offered before there is a  *)
(* partner, or a trade is closed and the one it is handed to, in payment   *)
(* or back, refuses it: his bag is full, or exactly one of that one-of-a-  *)
(* kind template is in it or worn.  A pet destroys nothing.                *)
(***************************************************************************)
Held(i) ==
    \/ i \in ground
    \/ \E c \in Char : i \in Has(c)
    \/ \E t \in Current : i \in items[t]

ItemsVanishOnlyWhenRefused ==
    [][\A i \in Item :
          Held(i) /\ ~Held(i)' =>
              \E c \in Char :
                  \/ i \in bag[c] /\ trade[c] # None /\ partner[trade[c]] = None
                  \/ trade[c] # None /\ trade'[c] = None /\ Refuses(bag'[c], worn[c], i)]_vars

(***************************************************************************)
(* Between two players no step creates mesos, and a step loses some only   *)
(* as tax on a paid trade or by crediting a wallet they do not fit in.     *)
(***************************************************************************)
Mesos == SumFunctionOnSet(wallet, Char) + purse + SumFunctionOnSet(meso, Current)

MesosOnlyTaxedOrOverflow ==
    [][\/ Mesos' = Mesos
       \/ \E t, u \in Current :
             /\ t # u /\ Closes(t, u)
             /\ Mesos' = Mesos - getTaxAmount(meso[t]) - getTaxAmount(meso[u])
       \/ /\ Mesos' < Mesos
          /\ \E c \in Char :
                \/ purse > MaxMeso - wallet[c]
                \/ trade[c] # None /\ meso[trade[c]] > MaxMeso - wallet[c]]_vars

=============================================================================
