------------------------------ MODULE Merchant ------------------------------
(***************************************************************************)
(* Hired merchants on one channel: a shop that goes on selling while its   *)
(* owner is away. HiredMerchant and AbstractPlayerStore are the shop,      *)
(* ChannelServer.merchants the table of open ones, PlayerInteraction has   *)
(* the requests of owner and buyers, HiredMerchantHandler those at         *)
(* Fredrick, who keeps in the database what a closed shop had left.        *)
(*                                                                         *)
(* A bundle is one unit and all have one price, whose products fit an int. *)
(* Names, blacklist, the list of buyers, items that may not be sold, and   *)
(* what players do to their bags elsewhere are left out; of a bag's slots  *)
(* their number is kept, and the units lie in them in any way. A request   *)
(* runs to its end; the server is stopped in order, never lost.            *)
(***************************************************************************)
EXTENDS Integers, Sequences, FiniteSets, SequencesExt

CONSTANTS Char, Account, AccountOf,   \* AccountOf[c]: the account of c
          Inst,         \* objects a HiredMerchant may occupy
          Stack,        \* kinds of goods
          SlotMax,      \* SlotMax[s]: units a slot holds
          Only, Worn,   \* kinds one may have one of; Worn[c]: those c is wearing
          None,
          InitBag, InitPurse,
          Price,        \* of a bundle
          MaxMeso,      \* what an int holds, 2147483647
          Seats,        \* visitors a shop has room for, 3
          MaxList,      \* bound: entries of a shop's list
          MaxStore      \* bound: shops opened between two starts

Store == 0 .. (MaxStore - 1)

\* MapleInventory: the units of each kind, the slots they take, and free slots.
Bag == [units : [Stack -> Nat], slots : [Stack -> Nat], free : Nat]

ASSUME MerchantAssumption ==
  /\ AccountOf \in [Char -> Account]
  /\ None \notin Char \cup Inst
  /\ SlotMax \in [Stack -> Nat \ {0}] /\ Only \subseteq Stack
  /\ Worn \in [Char -> SUBSET Only]
  /\ InitBag \in [Char -> Bag] /\ InitPurse \in [Char -> Nat]
  /\ Price \in Nat \ {0} /\ MaxMeso \in Nat /\ Seats \in Nat
  /\ MaxList \in Nat /\ MaxStore \in Nat \ {0}
  /\ \A c \in Char : InitPurse[c] <= MaxMeso

VARIABLES
  online, purse, bag,   \* of a character
  shop,                 \* MapleCharacter.playerShop: the shop it is in
  owner, items, till,   \* of a shop: ownerId, items, meso
  open, available,      \*   open; opened at all
  placed,               \*   on the map
  storeid,
  merchants, running,   \* ChannelServer.merchants, running_MerchantID
  phase,                \* "up", then ShutdownServer: "closing", "closed"
  row,                  \* row[c]: Mesos of c's row in hiredmerch, or NoRow
  goods,                \* goods[a]: the rows of account a in hiredmerchitems
  kept,                 \* kept[c]: bag and purse of c as they were saved last
  astray                \* history: what has happened that loses or doubles goods

chars   == <<online, purse, bag, shop>>
shops   == <<owner, items, till, open, available, placed, storeid>>
channel == <<merchants, running, phase>>
saved   == <<row, goods, kept>>
vars    == <<chars, shops, channel, saved, astray>>

NoRow   == -1
Entry   == [stack : Stack, left : Nat]       \* MaplePlayerShopItem; a row
Copy    == [bag : Bag, purse : 0 .. MaxMeso] \* a saved character

Mishap == {"split",     \* a list got two entries of one kind
           "inside",    \* a shop was closed while its owner was in it
           "evicted",   \* a shop that was never opened took out another's entry
           "stopped",   \* the server stopped while a shop was on the map
           "other",     \* another character of the account asked for the mesos
           "forsale",   \* Fredrick handed out what was for sale
           "topped",    \* more was added to a stack than its slot holds
           "unsaved"}   \* the server stopped after a saved character had changed

ShopsOK ==
  /\ online \in [Char -> BOOLEAN]
  /\ shop \in [Char -> Inst \cup {None}]
  /\ owner \in [Inst -> Char \cup {None}]
  /\ open \in [Inst -> BOOLEAN] /\ available \in [Inst -> BOOLEAN]
  /\ placed \in [Inst -> BOOLEAN]
  /\ storeid \in [Inst -> Store]
  /\ merchants \in [Store -> Inst \cup {None}]
  /\ running \in 0 .. MaxStore
  /\ phase \in {"up", "closing", "closed"}
  /\ astray \subseteq Mishap

TypeOK ==
  /\ ShopsOK
  /\ purse \in [Char -> 0 .. MaxMeso]
  /\ bag \in [Char -> Bag]
  /\ items \in [Inst -> Seq(Entry)]
  /\ till \in [Inst -> 0 .. MaxMeso]
  /\ row \in [Char -> NoRow .. MaxMeso]
  /\ goods \in [Account -> Seq(Entry)]
  /\ kept \in [Char -> Copy]

----
(* Helpers                                                                 *)

Mates(c) == {d \in Char : AccountOf[d] = AccountOf[c]}

\* World.hasMerchant: the channel's table has a shop of the account.
hasMerchant(a) ==
  \E k \in Store : merchants[k] # None /\ AccountOf[owner[merchants[k]]] = a

HasRow(c) == \E d \in Mates(c) : row[d] # NoRow

Owning(c)   == online[c] /\ shop[c] # None /\ owner[shop[c]] = c
Visitors(n) == {c \in Char : shop[c] = n /\ owner[n] # c}
Unused(n)   == /\ ~placed[n] /\ \A c \in Char : shop[c] # n
               /\ \A k \in Store : merchants[k] # n
Fresh(n)    == Unused(n) /\ n = CHOOSE x \in Inst : Unused(x)

CopyOf(c) == [bag |-> bag[c], purse |-> purse[c]]

\* What a stack of s in bag b may hold, and what the stacks still have room for.
Sizes(b, s) == {p \in 1 .. SlotMax[s] :
                  /\ b.slots[s] > 0
                  /\ b.slots[s] - 1 <= b.units[s] - p
                  /\ b.units[s] - p <= (b.slots[s] - 1) * SlotMax[s]}
Room(b, s)  == SlotMax[s] * b.slots[s] - b.units[s]

\* MapleCharacter.haveItem(id, 1, true, false) asks for one, not for one at least.
Possessed(c, b, s) == b.units[s] + (IF s \in Worn[c] THEN 1 ELSE 0)
HasOne(c, b, s)    == s \in Only /\ Possessed(c, b, s) = 1

\* MapleInventoryManipulator.checkSpace
checkSpace(c, s, q) ==
  /\ q > 0 /\ ~HasOne(c, bag[c], s)
  /\ q <= Room(bag[c], s) + bag[c].free * SlotMax[s]

Filled(b, s, u, k) == [units |-> [b.units EXCEPT ![s] = @ + u],
                       slots |-> [b.slots EXCEPT ![s] = @ + k],
                       free  |-> b.free - k]

\* MapleInventoryManipulator.addFromDrop of q units, which a slot holds: the bags
\* it may leave, and whether units are lost. A stack that is not full is topped up,
\* and what it has no room for is gone (quantity - newQ - oldQ), free slot or not.
addFromDrop(c, b, s, q) ==
  IF q = 0 \/ HasOne(c, b, s) THEN {[bag |-> b, lost |-> FALSE]}
  ELSE IF Room(b, s) > 0
  THEN {[bag  |-> Filled(b, s, IF p + q <= SlotMax[s] THEN q ELSE SlotMax[s] - p, 0),
         lost |-> p + q > SlotMax[s]] : p \in Sizes(b, s) \ {SlotMax[s]}}
  ELSE IF b.free > 0 THEN {[bag |-> Filled(b, s, q, 1), lost |-> FALSE]}
  ELSE {[bag |-> b, lost |-> FALSE]}

Topped(o) == IF o.lost THEN {"topped"} ELSE {}

\* GameConstants.EntrustedStoreTax, rounded as Math.round does.
Bracket == {<<100000, 4>>, <<1000000, 9>>, <<5000000, 15>>, <<10000000, 20>>,
            <<25000000, 25>>, <<100000000, 30>>}
PerMille(m) == LET r == {b[2] : b \in {x \in Bracket : m >= x[1]}}
               IN  IF r = {} THEN 0 ELSE CHOOSE x \in r : \A y \in r : y <= x
EntrustedStoreTax(m) == (PerMille(m) * m + 500) \div 1000

\* The units of s in a list, and whether a list has an entry of s.
Units(l, s) ==
  LET u[i \in 0 .. Len(l)] ==
        IF i = 0 THEN 0 ELSE u[i - 1] + (IF l[i].stack = s THEN l[i].left ELSE 0)
  IN  u[Len(l)]
Lists(l, s) == \E j \in DOMAIN l : l[j].stack = s

\* ItemLoader.saveItems: the rows a list is saved as. A row is found by the
\* stack's number: of two entries cut from a stack that has one the later
\* overwrites the row of the earlier (one); without one each has its row.
Put(rows, e, one) ==
  IF one /\ Lists(rows, e.stack)
  THEN [i \in DOMAIN rows |-> IF rows[i].stack = e.stack THEN e ELSE rows[i]]
  ELSE Append(rows, e)

Rows(l, one) ==
  LET r[i \in 0 .. Len(l)] ==
        IF i = 0 THEN <<>>
        ELSE IF l[i].left > 0 THEN Put(r[i - 1], l[i], one) ELSE r[i - 1]
  IN  r[Len(l)]

\* AbstractPlayerStore.saveItems of shop n, with list l and m in the till.
saveItems(n, l, m) ==
  /\ row' = [row EXCEPT ![owner[n]] = m]
  /\ \E one \in BOOLEAN : goods' = [goods EXCEPT ![AccountOf[owner[n]]] = Rows(l, one)]

\* Fault: the shop that closes does not leave the table.
removeMerchantNot(n) == merchants

\* ChannelServer.removeMerchant; a shop that was never opened has number 0.
removeMerchant(n) == [merchants EXCEPT ![storeid[n]] = None]

\* HiredMerchant.closeShop(true, remove); the till keeps its mesos.
closeShop(n, remove, mishap) ==
  /\ saveItems(n, items[n], till[n])
  /\ items' = [items EXCEPT ![n] = <<>>]
  /\ placed' = [placed EXCEPT ![n] = FALSE]
  /\ merchants' = IF remove THEN removeMerchant(n) ELSE merchants
  /\ astray' = astray \cup mishap
       \cup (IF remove /\ merchants[storeid[n]] \notin {None, n} THEN {"evicted"} ELSE {})
  /\ UNCHANGED <<owner, till, open, available, storeid, running>>

OwnerInside(n) == owner[n] # None /\ shop[owner[n]] = n

----
(***************************************************************************)
(* The owner                                                               *)
(***************************************************************************)

\* One character of an account is in the game at a time.
Login(c) ==
  /\ phase = "up" /\ \A d \in Mates(c) : ~online[d]
  /\ online' = [online EXCEPT ![c] = TRUE]
  /\ UNCHANGED <<purse, bag, shop, shops, channel, saved, astray>>

\* Fault: the way to a new shop asks the database and not the channels.
CreateAgain(c, n) ==
  /\ phase = "up" /\ online[c] /\ shop[c] = None /\ Fresh(n)
  /\ ~HasRow(c)
  /\ shop' = [shop EXCEPT ![c] = n]
  /\ owner' = [owner EXCEPT ![n] = c]
  /\ items' = [items EXCEPT ![n] = <<>>]
  /\ till' = [till EXCEPT ![n] = 0]
  /\ open' = [open EXCEPT ![n] = FALSE]
  /\ available' = [available EXCEPT ![n] = FALSE]
  /\ placed' = [placed EXCEPT ![n] = TRUE]
  /\ storeid' = [storeid EXCEPT ![n] = 0]
  /\ UNCHANGED <<online, purse, bag, channel, saved, astray>>

\* UseHiredMerchant and the creation that follows it. Once the timers are
\* stopped the constructor fails.
Create(c, n) ==
  /\ phase = "up" /\ online[c] /\ shop[c] = None /\ Fresh(n)
  /\ ~HasRow(c) /\ ~hasMerchant(AccountOf[c])
  /\ shop' = [shop EXCEPT ![c] = n]
  /\ owner' = [owner EXCEPT ![n] = c]
  /\ items' = [items EXCEPT ![n] = <<>>]
  /\ till' = [till EXCEPT ![n] = 0]
  /\ open' = [open EXCEPT ![n] = FALSE]
  /\ available' = [available EXCEPT ![n] = FALSE]
  /\ placed' = [placed EXCEPT ![n] = TRUE]
  /\ storeid' = [storeid EXCEPT ![n] = 0]
  /\ UNCHANGED <<online, purse, bag, channel, saved, astray>>

\* k units of a stack of p go to the end of the list.
AddItem(c, s, p, k) ==
  LET n == shop[c]
  IN  /\ Owning(c) /\ p \in Sizes(bag[c], s) /\ k \in 1 .. p /\ Len(items[n]) < MaxList
      /\ items' = [items EXCEPT ![n] = Append(@, [stack |-> s, left |-> k])]
      /\ bag' = [bag EXCEPT ![c] = Filled(@, s, -k, IF k = p THEN -1 ELSE 0)]
      /\ astray' = astray \cup (IF Lists(items[n], s) THEN {"split"} ELSE {})
      /\ UNCHANGED <<online, purse, shop, owner, till, open, available, placed, storeid, channel, saved>>

\* An entry goes back into the bag, if it has room.
TakeBack(c, j) ==
  LET n == shop[c]  e == items[n][j]
  IN  /\ Owning(c) /\ e.left > 0 /\ checkSpace(c, e.stack, e.left)
      /\ \E o \in addFromDrop(c, bag[c], e.stack, e.left) :
           /\ bag' = [bag EXCEPT ![c] = o.bag]
           /\ astray' = astray \cup Topped(o)
      /\ items' = [items EXCEPT ![n] = RemoveAt(@, j)]
      /\ UNCHANGED <<online, purse, shop, owner, till, open, available, placed, storeid, channel, saved>>

\* Fault: the next shop is given the same number.
OpenSame(c) ==
  LET n == shop[c]
  IN  /\ Owning(c) /\ ~available[n]
      /\ phase # "closing" /\ running < MaxStore
      /\ merchants' = [merchants EXCEPT ![running] = n]
      /\ storeid' = [storeid EXCEPT ![n] = running]
      /\ UNCHANGED running
      /\ open' = [open EXCEPT ![n] = TRUE]
      /\ available' = [available EXCEPT ![n] = TRUE]
      /\ shop' = [shop EXCEPT ![c] = None]
      /\ UNCHANGED <<online, purse, bag, owner, items, till, placed, phase, saved,
                     astray>>

\* The client offers it to an owner who sets up. The table is locked while the
\* shops are closed.
Open(c) ==
  LET n == shop[c]
  IN  /\ Owning(c) /\ ~available[n]
      /\ phase # "closing" /\ running < MaxStore
      /\ merchants' = [merchants EXCEPT ![running] = n]
      /\ storeid' = [storeid EXCEPT ![n] = running]
      /\ running' = running + 1
      /\ open' = [open EXCEPT ![n] = TRUE]
      /\ available' = [available EXCEPT ![n] = TRUE]
      /\ shop' = [shop EXCEPT ![c] = None]
      /\ UNCHANGED <<online, purse, bag, owner, items, till, placed, phase, saved,
                     astray>>

\* The owner leaves the shop to its visitors.
MaintenanceOff(c) ==
  /\ Owning(c) /\ available[shop[c]]
  /\ open' = [open EXCEPT ![shop[c]] = TRUE]
  /\ shop' = [shop EXCEPT ![c] = None]
  /\ UNCHANGED <<online, purse, bag, owner, items, till, available, placed, storeid,
                 channel, saved, astray>>

\* Organise: sold-out entries are dropped, but the loop passes over the entry
\* after each that it drops; then the till is emptied, if the purse holds it.
Tidied(l) ==
  LET at[i \in 0 .. Len(l)] ==
        IF i = 0 THEN [kept |-> <<>>, pass |-> FALSE]
        ELSE IF l[i].left = 0 /\ ~at[i - 1].pass
             THEN [kept |-> at[i - 1].kept, pass |-> TRUE]
             ELSE [kept |-> Append(at[i - 1].kept, l[i]), pass |-> FALSE]
  IN  at[Len(l)].kept

\* Fault: the till is paid out whatever the purse holds.
OrganiseBlind(c) ==
  LET n == shop[c]  fits == TRUE
  IN  /\ Owning(c)
      /\ items' = [items EXCEPT ![n] = Tidied(@)]
      /\ purse' = [purse EXCEPT ![c] = IF fits THEN @ + till[n] ELSE @]
      /\ till' = [till EXCEPT ![n] = IF fits THEN 0 ELSE @]
      /\ UNCHANGED <<online, bag, shop, owner, open, available, placed, storeid,
                     channel, saved, astray>>

Organise(c) ==
  LET n == shop[c]  fits == purse[c] + till[n] <= MaxMeso
  IN  /\ Owning(c)
      /\ items' = [items EXCEPT ![n] = Tidied(@)]
      /\ purse' = [purse EXCEPT ![c] = IF fits THEN @ + till[n] ELSE @]
      /\ till' = [till EXCEPT ![n] = IF fits THEN 0 ELSE @]
      /\ UNCHANGED <<online, bag, shop, owner, open, available, placed, storeid,
                     channel, saved, astray>>

\* The owner closes the shop; everyone is sent out.
Close(c) ==
  LET n == shop[c]
  IN  /\ Owning(c) /\ available[n] /\ phase # "closing"
      /\ closeShop(n, TRUE, {})
      /\ shop' = [d \in Char |-> IF shop[d] = n THEN None ELSE shop[d]]
      /\ UNCHANGED <<online, purse, bag, phase, kept>>

\* Anyone leaves. An owner who has not opened the shop, or has sold out, closes it.
Exit(c) ==
  LET n == shop[c]
  IN  /\ online[c] /\ n # None
      /\ shop' = [shop EXCEPT ![c] = None]
      /\ IF ~available[n] \/ (owner[n] = c /\ items[n] = <<>>)
         THEN /\ phase # "closing" \/ ~available[n]
              /\ closeShop(n, available[n], {})
         ELSE UNCHANGED <<shops, saved, merchants, running, astray>>
      /\ UNCHANGED <<online, purse, bag, phase, kept>>

\* Fault: the owner comes in and the others stay.
VisitTogether(c, n) ==
  /\ online[c] /\ shop[c] = None /\ placed[n]
  /\ IF owner[n] = c
     THEN open' = [open EXCEPT ![n] = FALSE]
     ELSE /\ open[n] /\ available[n] /\ Cardinality(Visitors(n)) < Seats
          /\ UNCHANGED open
  /\ shop' = [shop EXCEPT ![c] = n]
  /\ UNCHANGED <<online, purse, bag, owner, items, till, available, placed, storeid,
                 channel, saved, astray>>

\* The owner comes in to manage, and all visitors are sent out; or a visitor.
Visit(c, n) ==
  /\ online[c] /\ shop[c] = None /\ placed[n]
  /\ IF owner[n] = c
     THEN /\ open' = [open EXCEPT ![n] = FALSE]
          /\ shop' = [d \in Char |-> IF d = c THEN n
                                     ELSE IF shop[d] = n THEN None ELSE shop[d]]
     ELSE /\ open[n] /\ available[n] /\ Cardinality(Visitors(n)) < Seats
          /\ shop' = [shop EXCEPT ![c] = n]
          /\ UNCHANGED open
  /\ UNCHANGED <<online, purse, bag, owner, items, till, available, placed, storeid,
                 channel, saved, astray>>

----
(***************************************************************************)
(* Buyers, Fredrick, losses and the shutdown                               *)
(***************************************************************************)

\* The handler's checks and HiredMerchant.buy, which saves the shop.
Buy(c, j, q) ==
  LET n == shop[c]  e == items[n][j]  cost == Price * q
      gain == till[n] + cost - EntrustedStoreTax(cost)
      list == [items[n] EXCEPT ![j].left = @ - q]
  IN  /\ online[c] /\ n # None /\ owner[n] # c
      /\ q \in 1 .. e.left
      /\ purse[c] >= cost /\ till[n] + cost <= MaxMeso
      /\ bag[c].free > 0 /\ checkSpace(c, e.stack, q)
      /\ gain > 0
      /\ till' = [till EXCEPT ![n] = gain]
      /\ items' = [items EXCEPT ![n] = list]
      /\ \E o \in addFromDrop(c, bag[c], e.stack, q) :
           /\ bag' = [bag EXCEPT ![c] = o.bag]
           /\ astray' = astray \cup Topped(o)
      /\ purse' = [purse EXCEPT ![c] = @ - cost]
      /\ saveItems(n, list, gain)
      /\ UNCHANGED <<online, shop, owner, open, available, placed, storeid, channel,
                     kept>>

Mesos(c) == IF row[c] = NoRow THEN 0 ELSE row[c]       \* getMerchantMeso

\* Fault: what one may have one of is not asked for.
checkRoomOnly(c, l) ==
  /\ purse[c] + Mesos(c) <= MaxMeso
  /\ Len(l) <= bag[c].free

\* HiredMerchantHandler.check: mesos, a slot for each entry, nothing held already
\* that one may have one of.
check(c, l) ==
  /\ purse[c] + Mesos(c) <= MaxMeso
  /\ Len(l) <= bag[c].free
  /\ \A j \in DOMAIN l : l[j].stack \in Only => Possessed(c, bag[c], l[j].stack) = 0

\* The entries of l are added one after the other, whatever addFromDrop answers.
Handed(c, l) ==
  LET after[i \in 0 .. Len(l)] ==
        IF i = 0 THEN {[bag |-> bag[c], lost |-> FALSE]}
        ELSE UNION {{[bag |-> r.bag, lost |-> o.lost \/ r.lost] :
                       r \in addFromDrop(c, o.bag, l[i].stack, l[i].left)} : o \in after[i - 1]}
  IN  after[Len(l)]

\* Fredrick: the row is found by character or account, the goods by account, the
\* mesos by character; the rows of the goods stay behind.
deletePackage(c) ==
  /\ HasRow(c)
  /\ row' = [d \in Char |-> IF d \in Mates(c) THEN NoRow ELSE row[d]]
  /\ purse' = [purse EXCEPT ![c] = @ + Mesos(c)]
Unpaid(c) == IF \E d \in Mates(c) \ {c} : Mesos(d) > 0 THEN {"other"} ELSE {}

\* Request 20: mesos are paid at once, and whoever has nothing to fetch loses the
\* row as well.
CollectMesos(c) ==
  /\ online[c] /\ phase # "closing" /\ ~hasMerchant(AccountOf[c])
  /\ goods[AccountOf[c]] = <<>> /\ check(c, <<>>)
  /\ deletePackage(c)
  /\ astray' = astray \cup Unpaid(c)
  /\ UNCHANGED <<online, bag, shop, shops, channel, goods, kept>>

\* Request 26 hands out the goods as well, and does not ask for open shops.
Collect(c) ==
  LET l == goods[AccountOf[c]]
  IN  /\ online[c] /\ (Mesos(c) > 0 \/ l # <<>>) /\ check(c, l)
      /\ deletePackage(c)
      /\ \E o \in Handed(c, l) :
           /\ bag' = [bag EXCEPT ![c] = o.bag]
           /\ astray' = astray \cup Unpaid(c) \cup Topped(o)
                \cup (IF hasMerchant(AccountOf[c]) THEN {"forsale"} ELSE {})
      /\ UNCHANGED <<online, shop, shops, channel, goods, kept>>

\* MapleClient.removalTask: an open shop stays, one that was set up is closed; the
\* character is saved.
Disconnect(c) ==
  LET n == shop[c]
  IN  /\ online[c]
      /\ online' = [online EXCEPT ![c] = FALSE]
      /\ shop' = [shop EXCEPT ![c] = None]
      /\ IF Owning(c) /\ ~available[n]
         THEN phase # "closing" /\ closeShop(n, TRUE, {})
         ELSE /\ open' = IF Owning(c) THEN [open EXCEPT ![n] = TRUE] ELSE open
              /\ UNCHANGED <<owner, items, till, available, placed, storeid, row, goods,
                             merchants, running, astray>>
      /\ kept' = [kept EXCEPT ![c] = CopyOf(c)]
      /\ UNCHANGED <<purse, bag, phase>>

\* A character is saved in the middle of the game: on its player's command, or as it
\* changes channels.
Save(c) ==
  /\ online[c]
  /\ kept' = [kept EXCEPT ![c] = CopyOf(c)]
  /\ UNCHANGED <<chars, shops, channel, row, goods, astray>>

\* The 24 hours are over. Whoever is in the shop stays there.
Expire(n) ==
  /\ placed[n] /\ phase = "up"
  /\ closeShop(n, TRUE, IF OwnerInside(n) THEN {"inside"} ELSE {})
  /\ UNCHANGED <<chars, phase, kept>>

\* ShutdownServer.run: the timers stop, ChannelServer.closeAllMerchant closes one
\* after the other, ChannelServer.saveAll saves the players. They play on (shutdown()
\* has nothing to do after setFinishShutdown) until the process ends.
Shutdown == /\ phase = "up" /\ phase' = "closing"
            /\ UNCHANGED <<chars, shops, merchants, running, saved, astray>>

closeAllMerchant(k) ==
  LET n == merchants[k]
  IN  /\ phase = "closing" /\ n # None
      /\ saveItems(n, items[n], till[n])
      /\ items' = [items EXCEPT ![n] = <<>>]
      /\ placed' = [placed EXCEPT ![n] = FALSE]
      /\ merchants' = [merchants EXCEPT ![k] = None]
      /\ astray' = astray \cup (IF OwnerInside(n) THEN {"inside"} ELSE {})
      /\ UNCHANGED <<chars, owner, till, open, available, storeid, running, phase, kept>>

AllClosed == /\ phase = "closing" /\ \A k \in Store : merchants[k] = None
             /\ phase' = "closed"
             /\ kept' = [c \in Char |-> IF online[c] THEN CopyOf(c) ELSE kept[c]]
             /\ UNCHANGED <<chars, shops, merchants, running, row, goods, astray>>

Restart ==
  /\ phase = "closed" /\ phase' = "up"
  /\ online' = [c \in Char |-> FALSE]
  /\ shop' = [c \in Char |-> None]
  /\ placed' = [n \in Inst |-> FALSE]
  /\ merchants' = [k \in Store |-> None]
  /\ running' = 0
  /\ bag' = [c \in Char |-> kept[c].bag] /\ purse' = [c \in Char |-> kept[c].purse]
  /\ astray' = astray \cup (IF \E n \in Inst : placed[n] THEN {"stopped"} ELSE {})
       \cup (IF \E c \in Char : kept[c] # CopyOf(c) THEN {"unsaved"} ELSE {})
  /\ UNCHANGED <<owner, items, till, open, available, storeid, saved>>

----
Init ==
  /\ online = [c \in Char |-> FALSE] /\ shop = [c \in Char |-> None]
  /\ purse = InitPurse /\ bag = InitBag
  /\ owner = [n \in Inst |-> None] /\ items = [n \in Inst |-> <<>>]
  /\ till = [n \in Inst |-> 0]
  /\ open = [n \in Inst |-> FALSE] /\ available = [n \in Inst |-> FALSE]
  /\ placed = [n \in Inst |-> FALSE]
  /\ storeid = [n \in Inst |-> 0]
  /\ merchants = [k \in Store |-> None] /\ running = 0 /\ phase = "up"
  /\ row = [c \in Char |-> NoRow]
  /\ goods = [a \in Account |-> <<>>]
  /\ kept = [c \in Char |-> CopyOf(c)]
  /\ astray = {}

OwnerActs(c) ==
  \/ Login(c) \/ Open(c) \/ MaintenanceOff(c) \/ Organise(c) \/ Close(c)
  \/ \E n \in Inst : Create(c, n)
  \/ \E s \in Stack : \E p \in Sizes(bag[c], s) : \E k \in 1 .. p : AddItem(c, s, p, k)
  \/ shop[c] # None /\ \E j \in DOMAIN items[shop[c]] : TakeBack(c, j)

Anyone(c) ==
  \/ Exit(c) \/ CollectMesos(c) \/ Collect(c) \/ Disconnect(c) \/ Save(c)
  \/ \E n \in Inst : Visit(c, n)
  \/ shop[c] # None /\ \E j \in DOMAIN items[shop[c]] :
                         \E q \in 1 .. items[shop[c]][j].left : Buy(c, j, q)

Server == \/ \E n \in Inst : Expire(n)
          \/ Shutdown \/ AllClosed \/ Restart
          \/ \E k \in Store : closeAllMerchant(k)

Next == \/ \E c \in Char : OwnerActs(c) \/ Anyone(c)
        \/ Server

Spec == Init /\ [][Next]_vars

----
(***************************************************************************)
(* Properties                                                              *)
(***************************************************************************)

Placed(a) == {n \in Inst : placed[n] /\ AccountOf[owner[n]] = a}

\* An account has one shop on the maps at most: the request asks the channels and
\* the database, which know of a shop only once it is opened or closed, so those
\* being set up must not be forgotten. (One that was evicted is, see Open.)
OneMerchant ==
  "evicted" \in astray
    \/ \A n, o \in Inst : placed[n] /\ placed[o] /\ n # o
                           => AccountOf[owner[n]] # AccountOf[owner[o]]

\* An open shop that is on the map is in the channel's table: the way to a second
\* shop and Fredrick's first request look there, and the shutdown, which closes what
\* is there, saves its goods.
Registered ==
  "evicted" \in astray
    \/ \A n \in Inst : placed[n] /\ available[n] => merchants[storeid[n]] = n

\* The table has no shop that has left the map, whose account could neither open
\* another one nor fetch its goods. (An owner who is inside a shop when its day is
\* over may open what is left of it.)
NoGhost ==
  "inside" \in astray
    \/ \A k \in Store : merchants[k] # None
                         => placed[merchants[k]] /\ storeid[merchants[k]] = k

\* Nobody buys while the owner rearranges the list, whose entries are bought and
\* taken back by their position.
OwnerAlone == \A n \in Inst : OwnerInside(n) => Visitors(n) = {}

\* What account a has in consignment: in its shop, or with Fredrick.
left == [a \in Account |-> [s \in Stack |->
          IF Placed(a) # {} THEN Units(items[CHOOSE n \in Placed(a) : TRUE], s)
          ELSE IF \E c \in Char : AccountOf[c] = a /\ row[c] # NoRow THEN Units(goods[a], s)
          ELSE 0]]
due  == [a \in Account |->
          IF Placed(a) # {} THEN till[CHOOSE n \in Placed(a) : TRUE]
          ELSE IF \E c \in Char : AccountOf[c] = a /\ row[c] # NoRow
          THEN row[CHOOSE c \in Char : AccountOf[c] = a /\ row[c] # NoRow]
          ELSE 0]

units == [c \in Char |-> bag[c].units]

\* Nothing is lost or doubled on the way from bag to shop, to the buyer, to the
\* database and back, across full bags, closings, disconnects, the shutdown and the
\* next start, except by the eight mishaps that astray records.
Promise == INSTANCE Consignment WITH KeptBack <- EntrustedStoreTax,
                                     bag <- units, astray <- astray # {},
                                     InitBag <- [c \in Char |-> InitBag[c].units]
KeepsConsignment == Promise!Spec
=============================================================================
