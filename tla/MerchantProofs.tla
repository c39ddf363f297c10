--------------------------- MODULE MerchantProofs ---------------------------
(***************************************************************************)
(* The table of shops, the maps and the owners agree, for any characters,  *)
(* accounts, shops and bounds. OneMerchant is not inductive by itself: the *)
(* request that creates a shop asks the table, which knows open shops, and *)
(* a shop that is being set up is known by its owner only. Book says who   *)
(* answers for which shop. On it rest the types, what is so while nothing  *)
(* went astray, and that the shops keep the promise of Consignment.        *)
(***************************************************************************)
EXTENDS Merchant, FiniteSetTheorems, SequenceTheorems, TLAPS

\* Whoever is in a shop is in the game, with no other character of the account.
InTheGame ==
  /\ \A c \in Char : shop[c] # None => online[c]
  /\ \A c, d \in Char : online[c] /\ online[d] /\ AccountOf[c] = AccountOf[d] => c = d

\* A shop on the map has an owner, who is in it while it is set up.
SetUpIsTended ==
  \A n \in Inst : placed[n] =>
    /\ owner[n] \in Char
    /\ ~available[n] => shop[owner[n]] = n

\* Open shops have numbers given out, the table has opened shops.
Numbered ==
  /\ \A n \in Inst : placed[n] /\ available[n] => storeid[n] < running
  /\ \A k \in Store : merchants[k] # None => available[merchants[k]]

\* The owner is only inside a shop that is on the map and closed to visitors.
InsideIsPlaced ==
  "inside" \in astray \/ \A n \in Inst : OwnerInside(n) => placed[n]
InsideIsShut == \A n \in Inst : OwnerInside(n) => ~open[n]

Book ==
  /\ ShopsOK /\ InTheGame /\ SetUpIsTended /\ Numbered
  /\ InsideIsPlaced /\ InsideIsShut
  /\ OneMerchant /\ Registered /\ NoGhost /\ OwnerAlone

\* What closing a shop changes besides its goods.
LEMMA CloseShopDoes ==
  ASSUME ShopsOK, NEW n \in Inst, NEW remove \in BOOLEAN, NEW mishap,
         closeShop(n, remove, mishap)
  PROVE  /\ ~placed'[n]
         /\ \A m \in Inst \ {n} : placed'[m] = placed[m]
         /\ \A k \in Store : IF remove /\ k = storeid[n] THEN merchants'[k] = None
                                               ELSE merchants'[k] = merchants[k]
         /\ astray \subseteq astray' /\ mishap \subseteq astray'
         /\ remove /\ merchants[storeid[n]] \notin {None, n} => "evicted" \in astray'
         /\ UNCHANGED <<owner, open, available, storeid, running>>
<1>1. ~placed'[n] /\ \A m \in Inst \ {n} : placed'[m] = placed[m]
  BY DEF closeShop, ShopsOK
<1>2. \A k \in Store : IF remove /\ k = storeid[n] THEN merchants'[k] = None
                                         ELSE merchants'[k] = merchants[k]
  BY DEF closeShop, removeMerchant, ShopsOK
<1>3. /\ astray \subseteq astray' /\ mishap \subseteq astray'
      /\ remove /\ merchants[storeid[n]] \notin {None, n} => "evicted" \in astray'
  BY DEF closeShop
<1>4. UNCHANGED <<owner, open, available, storeid, running>>
  BY DEF closeShop
<1> QED
  BY <1>1, <1>2, <1>3, <1>4

\* An open shop leaves the table as it closes; one that was not is not there.
LEMMA CloseShopKeeps ==
  ASSUME Book, NEW n \in Inst, NEW remove \in BOOLEAN, NEW mishap,
         closeShop(n, remove, mishap), remove \/ ~available[n]
  PROVE  Numbered' /\ OneMerchant' /\ Registered' /\ NoGhost'
<1>1. Numbered'
  <2>1. ASSUME NEW m \in Inst, placed'[m], available'[m]
        PROVE  storeid'[m] < running'
    BY <2>1, CloseShopDoes DEF Book, ShopsOK, Numbered
  <2>2. ASSUME NEW k \in Store, merchants'[k] # None
        PROVE  available'[merchants'[k]]
    <3>1. merchants'[k] = merchants[k] /\ available' = available
      BY <2>2, CloseShopDoes DEF Book
    <3> QED
      BY <2>2, <3>1 DEF Book, Numbered
  <2> QED
    BY <2>1, <2>2 DEF Numbered
<1>2. OneMerchant'
  BY CloseShopDoes DEF Book, ShopsOK, OneMerchant
<1>3. Registered'
  BY CloseShopDoes, MerchantAssumption DEF Book, ShopsOK, Registered
<1>4. NoGhost'
  <2>1. SUFFICES ASSUME "inside" \notin astray', NEW k \in Store, merchants'[k] # None
                 PROVE  placed'[merchants'[k]] /\ storeid'[merchants'[k]] = k
    BY DEF NoGhost
  <2>2. /\ merchants'[k] = merchants[k] /\ "inside" \notin astray /\ storeid' = storeid
        /\ \A m \in Inst \ {n} : placed'[m] = placed[m]
    BY <2>1, CloseShopDoes DEF Book
  <2>3. /\ placed[merchants[k]] /\ storeid[merchants[k]] = k /\ available[merchants[k]]
        /\ merchants[k] \in Inst
    BY <2>1, <2>2 DEF Book, ShopsOK, NoGhost, Numbered
  <2>4. merchants[k] # n
    BY <2>1, <2>2, <2>3, CloseShopDoes DEF Book
  <2> QED
    BY <2>2, <2>3, <2>4
<1> QED
  BY <1>1, <1>2, <1>3, <1>4

LEMMA LoginKeeps ==
  ASSUME NEW c \in Char, Book, Login(c)
  PROVE  Book'
<1>1. ShopsOK'
  BY DEF Book, ShopsOK, Login, Mates, Mishap, Store, shops, channel, saved
<1>2. InTheGame'
  BY DEF Book, ShopsOK, Login, Mates, InTheGame, shops, channel, saved
<1>3. SetUpIsTended' /\ Numbered' /\ InsideIsPlaced' /\ InsideIsShut' /\ OneMerchant' /\
    Registered' /\ NoGhost' /\ OwnerAlone'
  BY DEF Book, Login, SetUpIsTended, Numbered, InsideIsPlaced, OwnerInside, InsideIsShut,
      OneMerchant, Registered, NoGhost, OwnerAlone, Visitors, shops, channel, saved
<1> QED
  BY <1>1, <1>2, <1>3 DEF Book

LEMMA CreateKeeps ==
  ASSUME NEW c \in Char, NEW n \in Inst, Book, Create(c, n)
  PROVE  Book'
<1>1. ShopsOK'
  BY MerchantAssumption DEF Book, ShopsOK, Create, Fresh, Unused, Mishap, Store, channel,
      saved
<1>2. InTheGame'
  BY DEF Book, ShopsOK, Create, Fresh, Unused, InTheGame, channel, saved
<1>3. SetUpIsTended'
  <2>1. SUFFICES ASSUME NEW m \in Inst, placed'[m]
                 PROVE  owner'[m] \in Char /\ (~available'[m] => shop'[owner'[m]] = m)
    BY DEF SetUpIsTended
  <2>2. CASE m = n
    BY <2>2 DEF Book, ShopsOK, Create
  <2>3. CASE m # n
    <3>1. placed[m] /\ owner'[m] = owner[m] /\ available'[m] = available[m]
      BY <2>1, <2>3 DEF Book, ShopsOK, Create
    <3>2. ~available[m] => owner[m] # c
      BY <3>1, MerchantAssumption DEF Book, SetUpIsTended, Create
    <3> QED
      BY <3>1, <3>2 DEF Book, ShopsOK, SetUpIsTended, Create
  <2> QED
    BY <2>2, <2>3
<1>4. Numbered'
  BY DEF Book, ShopsOK, Create, Fresh, Unused, Numbered, channel, saved
<1>5. InsideIsPlaced'
  BY DEF Book, ShopsOK, Create, Fresh, Unused, InsideIsPlaced, OwnerInside, channel, saved
<1>6. InsideIsShut'
  BY DEF Book, ShopsOK, Create, Fresh, Unused, InsideIsShut, OwnerInside, channel, saved
<1>7. OneMerchant'
  <2>1. ASSUME NEW o \in Inst, placed[o], "evicted" \notin astray
        PROVE  AccountOf[owner[o]] # AccountOf[c]
    <3>1. CASE available[o]
      <4>1. storeid[o] \in Store /\ merchants[storeid[o]] = o /\ o # None
        BY <2>1, <3>1, MerchantAssumption DEF Book, ShopsOK, Registered
      <4> QED
        BY <4>1 DEF Create, hasMerchant
    <3>2. CASE ~available[o]
      <4>1. owner[o] \in Char /\ shop[owner[o]] = o /\ o # None
        BY <2>1, <3>2, MerchantAssumption DEF Book, SetUpIsTended
      <4>2. online[owner[o]] /\ owner[o] # c
        BY <4>1 DEF Book, InTheGame, Create
      <4> QED
        BY <4>1, <4>2 DEF Book, InTheGame, Create
    <3> QED
      BY <3>1, <3>2
  <2>2. astray' = astray /\ owner'[n] = c
        /\ \A o \in Inst \ {n} : owner'[o] = owner[o] /\ placed'[o] = placed[o]
    BY DEF Book, ShopsOK, Create
  <2> QED
    BY <2>1, <2>2 DEF Book, OneMerchant
<1>8. Registered'
  BY DEF Book, ShopsOK, Create, Fresh, Unused, Registered, channel, saved
<1>9. NoGhost'
  BY DEF Book, ShopsOK, Create, Fresh, Unused, NoGhost, channel, saved
<1>10. OwnerAlone'
  <2>1. \A d \in Char : shop[d] # n
    BY DEF Create, Fresh, Unused
  <2>2. owner'[n] = c /\ \A o \in Inst \ {n} : owner'[o] = owner[o]
    BY DEF Book, ShopsOK, Create
  <2>3. shop'[c] = n /\ shop[c] = None /\ \A d \in Char \ {c} : shop'[d] = shop[d]
    BY DEF Book, ShopsOK, Create
  <2> QED
    BY <2>1, <2>2, <2>3 DEF Book, ShopsOK, OwnerAlone, OwnerInside, Visitors
<1> QED
  BY <1>1, <1>2, <1>3, <1>4, <1>5, <1>6, <1>7, <1>8, <1>9, <1>10 DEF Book

LEMMA AddItemKeeps ==
  ASSUME NEW c \in Char, NEW s \in Stack, NEW p, NEW k, Book, AddItem(c, s, p, k)
  PROVE  Book'
<1>1. ShopsOK'
  BY DEF Book, ShopsOK, AddItem, Mishap, Store, channel, saved
<1>2. InsideIsPlaced'
  BY DEF Book, ShopsOK, AddItem, InsideIsPlaced, OwnerInside, channel, saved
<1>3. OneMerchant'
  BY DEF Book, ShopsOK, AddItem, OneMerchant, channel, saved
<1>4. Registered'
  BY DEF Book, ShopsOK, AddItem, Registered, channel, saved
<1>5. NoGhost'
  BY DEF Book, ShopsOK, AddItem, NoGhost, channel, saved
<1>6. InTheGame' /\ SetUpIsTended' /\ Numbered' /\ InsideIsShut' /\ OwnerAlone'
  BY DEF Book, AddItem, InTheGame, SetUpIsTended, Numbered, InsideIsShut, OwnerInside,
      OwnerAlone, Visitors, channel, saved
<1> QED
  BY <1>1, <1>2, <1>3, <1>4, <1>5, <1>6 DEF Book

LEMMA TakeBackKeeps ==
  ASSUME NEW c \in Char, NEW j, Book, TakeBack(c, j)
  PROVE  Book'
<1>0. /\ astray \subseteq astray' /\ astray' \subseteq astray \cup Mishap
      /\ UNCHANGED <<online, shop, owner, open, available, placed, storeid, channel>>
  BY DEF TakeBack, Topped, Mishap
<1>1. ShopsOK' /\ InTheGame' /\ SetUpIsTended' /\ Numbered' /\ InsideIsPlaced' /\
    InsideIsShut' /\ OneMerchant' /\ Registered' /\ NoGhost' /\ OwnerAlone'
  BY <1>0 DEF Book, ShopsOK, Mishap, Store, InTheGame, SetUpIsTended, Numbered,
      InsideIsPlaced, OwnerInside, InsideIsShut, OneMerchant, Registered, NoGhost,
      OwnerAlone, Visitors, channel
<1> QED
  BY <1>1 DEF Book

LEMMA OpenKeeps ==
  ASSUME NEW c \in Char, Book, Open(c)
  PROVE  Book'
<1>1. ShopsOK'
  BY MerchantAssumption DEF Book, ShopsOK, Open, Owning, Mishap, Store, saved
<1>2. InTheGame'
  BY DEF Book, ShopsOK, Open, Owning, InTheGame, saved
<1>3. SetUpIsTended'
  BY DEF Book, ShopsOK, Open, Owning, SetUpIsTended, saved
<1>4. Numbered'
  <2>1. shop[c] \in Inst /\ owner[shop[c]] = c /\ ~available[shop[c]] /\ running \in Store
        /\ running' = running + 1
    BY MerchantAssumption DEF Book, ShopsOK, Open, Owning, Store
  <2>2. merchants'[running] = shop[c] /\ storeid'[shop[c]] = running /\
      available'[shop[c]] = TRUE
        /\ \A k \in Store \ {running} : merchants'[k] = merchants[k]
        /\ \A m \in Inst \ {shop[c]} : storeid'[m] = storeid[m]
        /\ \A o \in Inst \ {shop[c]} : available'[o] = available[o]
    BY <2>1 DEF Book, ShopsOK, Open
  <2>3. placed' = placed /\ astray' = astray
    BY DEF Open
  <2>4. ASSUME NEW p \in Inst, placed'[p], available'[p]
        PROVE  storeid'[p] < running'
    <3>1. CASE p = shop[c]
      BY <2>1, <2>2, <3>1, MerchantAssumption DEF Store
    <3>2. CASE p # shop[c]
      <4>1. placed[p] /\ available[p] /\ storeid'[p] = storeid[p]
        <5>1. UNCHANGED placed /\ available' = [available EXCEPT ![shop[c]] = TRUE]
              /\ storeid' = [storeid EXCEPT ![shop[c]] = running]
          BY DEF Open
        <5> QED
          BY <2>1, <2>4, <3>2, <5>1 DEF Book, ShopsOK
      <4>2. storeid[p] \in Store /\ storeid[p] < running
        BY <4>1 DEF Book, ShopsOK, Numbered
      <4> QED
        BY <2>1, <4>1, <4>2, MerchantAssumption DEF Store
    <3> QED
      BY <3>1, <3>2
  <2>5. ASSUME NEW k \in Store, merchants'[k] # None
        PROVE  available'[merchants'[k]]
    <3>1. CASE merchants'[k] = shop[c]
      BY <2>2, <3>1
    <3>2. CASE merchants'[k] # shop[c]
      <4>1. merchants[k] = merchants'[k] /\ merchants[k] \in Inst
        BY <2>2, <2>5, <3>2 DEF Book, ShopsOK
      <4> QED
        BY <2>2, <2>5, <3>2, <4>1 DEF Book, Numbered
    <3> QED
      BY <3>1, <3>2
  <2> QED
    BY <2>4, <2>5 DEF Numbered
<1>5. InsideIsPlaced'
  BY MerchantAssumption DEF Book, ShopsOK, Open, Owning, InsideIsPlaced, OwnerInside, saved
<1>6. InsideIsShut'
  BY MerchantAssumption DEF Book, ShopsOK, Open, Owning, InsideIsShut, OwnerInside, saved
<1>7. Registered'
  <2>1. shop[c] \in Inst /\ owner[shop[c]] = c /\ ~available[shop[c]] /\ running \in Store
        /\ running' = running + 1
    BY MerchantAssumption DEF Book, ShopsOK, Open, Owning, Store
  <2>2. merchants'[running] = shop[c] /\ storeid'[shop[c]] = running /\
      available'[shop[c]] = TRUE
        /\ \A k \in Store \ {running} : merchants'[k] = merchants[k]
        /\ \A m \in Inst \ {shop[c]} : storeid'[m] = storeid[m]
        /\ \A o \in Inst \ {shop[c]} : available'[o] = available[o]
    BY <2>1 DEF Book, ShopsOK, Open
  <2>3. placed' = placed /\ astray' = astray
    BY DEF Open
  <2>4. ASSUME NEW p \in Inst, placed'[p], available'[p], "evicted" \notin astray
        PROVE  merchants'[storeid'[p]] = p
    <3>1. CASE p = shop[c]
      BY <2>2, <3>1
    <3>2. CASE p # shop[c]
      <4>1. placed[p] /\ available[p] /\ storeid'[p] = storeid[p]
        <5>1. UNCHANGED placed /\ available' = [available EXCEPT ![shop[c]] = TRUE]
              /\ storeid' = [storeid EXCEPT ![shop[c]] = running]
          BY DEF Open
        <5> QED
          BY <2>1, <2>4, <3>2, <5>1 DEF Book, ShopsOK
      <4>2. storeid[p] \in Store /\ storeid[p] < running
        BY <4>1 DEF Book, ShopsOK, Numbered
      <4>3. storeid[p] # running
        BY <4>2, MerchantAssumption DEF Store
      <4> QED
        BY <2>2, <2>4, <4>1, <4>2, <4>3 DEF Book, Registered
    <3> QED
      BY <3>1, <3>2
  <2> QED
    BY <2>3, <2>4 DEF Registered
<1>8. NoGhost'
  <2>1. shop[c] \in Inst /\ owner[shop[c]] = c /\ ~available[shop[c]] /\ running \in Store
        /\ running' = running + 1
    BY MerchantAssumption DEF Book, ShopsOK, Open, Owning, Store
  <2>2. merchants'[running] = shop[c] /\ storeid'[shop[c]] = running /\
      available'[shop[c]] = TRUE
        /\ \A k \in Store \ {running} : merchants'[k] = merchants[k]
        /\ \A m \in Inst \ {shop[c]} : storeid'[m] = storeid[m]
        /\ \A o \in Inst \ {shop[c]} : available'[o] = available[o]
    BY <2>1 DEF Book, ShopsOK, Open
  <2>3. placed' = placed /\ astray' = astray
    BY DEF Open
  <2>4. "inside" \in astray \/ placed[shop[c]]
    BY <2>1, MerchantAssumption DEF Book, ShopsOK, InsideIsPlaced, OwnerInside
  <2> QED
    BY <2>1, <2>2, <2>3, <2>4 DEF Book, ShopsOK, NoGhost, Numbered
<1>9. OwnerAlone'
  BY MerchantAssumption DEF Book, ShopsOK, Open, Owning, OwnerAlone, OwnerInside,
      Visitors, saved
<1>10. OneMerchant'
  BY DEF Book, Open, OneMerchant, saved
<1> QED
  BY <1>1, <1>2, <1>3, <1>4, <1>5, <1>6, <1>7, <1>8, <1>9, <1>10 DEF Book

LEMMA MaintenanceOffKeeps ==
  ASSUME NEW c \in Char, Book, MaintenanceOff(c)
  PROVE  Book'
<1>1. ShopsOK'
  BY DEF Book, ShopsOK, MaintenanceOff, Owning, Mishap, Store, channel, saved
<1>2. InTheGame'
  BY DEF Book, ShopsOK, MaintenanceOff, Owning, InTheGame, channel, saved
<1>3. SetUpIsTended'
  BY DEF Book, ShopsOK, MaintenanceOff, Owning, SetUpIsTended, channel, saved
<1>4. InsideIsPlaced'
  BY MerchantAssumption DEF Book, ShopsOK, MaintenanceOff, Owning, InsideIsPlaced,
      OwnerInside, channel, saved
<1>5. InsideIsShut'
  BY MerchantAssumption DEF Book, ShopsOK, MaintenanceOff, Owning, InsideIsShut,
      OwnerInside, channel, saved
<1>6. OwnerAlone'
  BY MerchantAssumption DEF Book, ShopsOK, MaintenanceOff, Owning, OwnerAlone,
      OwnerInside, Visitors, channel, saved
<1>7. Numbered' /\ OneMerchant' /\ Registered' /\ NoGhost'
  BY DEF Book, MaintenanceOff, Numbered, OneMerchant, Registered, NoGhost, channel, saved
<1> QED
  BY <1>1, <1>2, <1>3, <1>4, <1>5, <1>6, <1>7 DEF Book

LEMMA OrganiseKeeps ==
  ASSUME NEW c \in Char, Book, Organise(c)
  PROVE  Book'
<1>1. ShopsOK' /\ InTheGame' /\ SetUpIsTended' /\ Numbered' /\ InsideIsPlaced' /\
    InsideIsShut' /\ OneMerchant' /\ Registered' /\ NoGhost' /\ OwnerAlone'
  BY DEF Book, Organise, ShopsOK, Mishap, Store, InTheGame, SetUpIsTended, Numbered,
      InsideIsPlaced, OwnerInside, InsideIsShut, OneMerchant, Registered, NoGhost,
      OwnerAlone, Visitors, channel, saved
<1> QED
  BY <1>1 DEF Book

LEMMA CloseKeeps ==
  ASSUME NEW c \in Char, Book, Close(c)
  PROVE  Book'
<1>1. ShopsOK'
  BY DEF Book, ShopsOK, Close, Owning, closeShop, removeMerchant, Mishap, Store
<1>2. InTheGame'
  BY DEF Book, ShopsOK, Close, Owning, closeShop, removeMerchant, InTheGame
<1>3. SetUpIsTended'
  BY DEF Book, ShopsOK, Close, Owning, closeShop, removeMerchant, SetUpIsTended
<1>4. Numbered'
  BY CloseShopKeeps DEF Book, ShopsOK, Close, Owning
<1>5. InsideIsPlaced'
  BY MerchantAssumption DEF Book, ShopsOK, Close, Owning, closeShop, removeMerchant,
      InsideIsPlaced, OwnerInside
<1>6. InsideIsShut'
  BY MerchantAssumption DEF Book, ShopsOK, Close, Owning, closeShop, removeMerchant,
      InsideIsShut, OwnerInside
<1>7. OneMerchant'
  BY CloseShopKeeps DEF Book, ShopsOK, Close, Owning
<1>8. Registered'
  BY CloseShopKeeps DEF Book, ShopsOK, Close, Owning
<1>9. NoGhost'
  BY CloseShopKeeps DEF Book, ShopsOK, Close, Owning
<1>10. OwnerAlone'
  BY MerchantAssumption DEF Book, ShopsOK, Close, Owning, closeShop, removeMerchant,
      OwnerAlone, OwnerInside, Visitors
<1> QED
  BY <1>1, <1>2, <1>3, <1>4, <1>5, <1>6, <1>7, <1>8, <1>9, <1>10 DEF Book

LEMMA ExitKeeps ==
  ASSUME NEW c \in Char, Book, Exit(c)
  PROVE  Book'
<1>1. ShopsOK'
  BY DEF Book, ShopsOK, Exit, closeShop, removeMerchant, Mishap, Store, shops, saved
<1>2. InTheGame'
  BY DEF Book, ShopsOK, Exit, closeShop, removeMerchant, InTheGame, shops, saved
<1>3. SetUpIsTended'
  BY DEF Book, ShopsOK, Exit, closeShop, removeMerchant, SetUpIsTended, shops, saved
<1>4. Numbered'
  <2>1. CASE closeShop(shop[c], available[shop[c]], {})
    BY <2>1, CloseShopKeeps DEF Book, ShopsOK, Exit
  <2>2. CASE UNCHANGED <<shops, merchants, running, astray>>
    BY <2>2 DEF Book, Numbered, shops
  <2> QED
    BY <2>1, <2>2 DEF Exit
<1>5. InsideIsPlaced'
  <2>1. shop[c] \in Inst /\ shop'[c] = None /\ \A d \in Char \ {c} : shop'[d] = shop[d]
    BY DEF Book, ShopsOK, Exit
  <2>2. CASE closeShop(shop[c], available[shop[c]], {})
            /\ (~available[shop[c]] \/ owner[shop[c]] = c)
    <3>1. OwnerInside(shop[c]) => owner[shop[c]] = c
      BY <2>1 DEF Book, OwnerAlone, Visitors
    <3>2. owner' = owner /\ astray \subseteq astray'
          /\ \A m \in Inst \ {shop[c]} : placed'[m] = placed[m]
      BY <2>1, <2>2, CloseShopDoes DEF Book, ShopsOK
    <3> QED
      BY <2>1, <3>1, <3>2, MerchantAssumption DEF Book, ShopsOK, InsideIsPlaced, OwnerInside
  <2>3. CASE UNCHANGED <<shops, merchants, running, astray>>
    BY <2>1, <2>3, MerchantAssumption
    DEF Book, ShopsOK, shops, InsideIsPlaced, OwnerInside
  <2> QED
    BY <2>2, <2>3 DEF Exit
<1>6. InsideIsShut'
  BY MerchantAssumption DEF Book, ShopsOK, Exit, closeShop, removeMerchant, InsideIsShut,
      OwnerInside, shops, saved
<1>7. OneMerchant'
  <2>1. CASE closeShop(shop[c], available[shop[c]], {})
    BY <2>1, CloseShopKeeps DEF Book, ShopsOK, Exit
  <2>2. CASE UNCHANGED <<shops, merchants, running, astray>>
    BY <2>2 DEF Book, OneMerchant, shops
  <2> QED
    BY <2>1, <2>2 DEF Exit
<1>8. Registered'
  <2>1. CASE closeShop(shop[c], available[shop[c]], {})
    BY <2>1, CloseShopKeeps DEF Book, ShopsOK, Exit
  <2>2. CASE UNCHANGED <<shops, merchants, running, astray>>
    BY <2>2 DEF Book, Registered, shops
  <2> QED
    BY <2>1, <2>2 DEF Exit
<1>9. NoGhost'
  <2>1. CASE closeShop(shop[c], available[shop[c]], {})
    BY <2>1, CloseShopKeeps DEF Book, ShopsOK, Exit
  <2>2. CASE UNCHANGED <<shops, merchants, running, astray>>
    BY <2>2 DEF Book, NoGhost, shops
  <2> QED
    BY <2>1, <2>2 DEF Exit
<1>10. OwnerAlone'
  BY MerchantAssumption DEF Book, ShopsOK, Exit, closeShop, removeMerchant, OwnerAlone,
      OwnerInside, Visitors, shops, saved
<1> QED
  BY <1>1, <1>2, <1>3, <1>4, <1>5, <1>6, <1>7, <1>8, <1>9, <1>10 DEF Book

LEMMA VisitKeeps ==
  ASSUME NEW c \in Char, NEW n \in Inst, Book, Visit(c, n)
  PROVE  Book'
<1>1. ShopsOK'
  <2>1. open' \in [Inst -> BOOLEAN]
    BY DEF Book, ShopsOK, Visit
  <2>2. shop' \in [Char -> Inst \cup {None}]
    <3>1. CASE owner[n] = c
      BY <3>1 DEF Book, ShopsOK, Visit
    <3>2. CASE owner[n] # c
      BY <3>2 DEF Book, ShopsOK, Visit
    <3> QED
      BY <3>1, <3>2
  <2> QED
    BY <2>1, <2>2 DEF Book, ShopsOK, Visit, channel
<1>2. InTheGame'
  BY DEF Book, ShopsOK, Visit, Visitors, InTheGame, channel, saved
<1>3. SetUpIsTended'
  BY MerchantAssumption DEF Book, ShopsOK, Visit, Visitors, SetUpIsTended, channel, saved
<1>4. InsideIsPlaced'
  BY MerchantAssumption DEF Book, ShopsOK, Visit, Visitors, InsideIsPlaced, OwnerInside,
      channel, saved
<1>5. InsideIsShut'
  <2>1. CASE owner[n] = c
    <3>1. open'[n] = FALSE /\ owner' = owner
          /\ \A m \in Inst \ {n} : open'[m] = open[m]
      BY <2>1 DEF Book, ShopsOK, Visit
    <3>2. \A d \in Char : shop'[d] = IF d = c THEN n
                                     ELSE IF shop[d] = n THEN None ELSE shop[d]
      BY <2>1 DEF Visit
    <3> QED
      BY <2>1, <3>1, <3>2, MerchantAssumption DEF Book, ShopsOK, InsideIsShut, OwnerInside
  <2>2. CASE owner[n] # c
    <3>1. open[n] /\ open' = open /\ owner' = owner
      BY <2>2 DEF Visit
    <3>2. shop'[c] = n /\ \A d \in Char \ {c} : shop'[d] = shop[d]
      BY <2>2 DEF Book, ShopsOK, Visit
    <3> QED
      BY <2>2, <3>1, <3>2, MerchantAssumption DEF Book, ShopsOK, InsideIsShut, OwnerInside
  <2> QED
    BY <2>1, <2>2
<1>6. OwnerAlone'
  <2>1. CASE owner[n] = c
    <3>1. owner' = owner
      BY <2>1 DEF Visit
    <3>2. \A d \in Char : shop'[d] = IF d = c THEN n
                                     ELSE IF shop[d] = n THEN None ELSE shop[d]
      BY <2>1 DEF Visit
    <3>3. ASSUME NEW m \in Inst, OwnerInside(m)', NEW d \in Visitors(m)'
          PROVE  FALSE
      <4>1. owner[m] # None /\ shop'[owner[m]] = m /\ d \in Char
            /\ shop'[d] = m /\ owner[m] # d
        BY <3>1, <3>3 DEF OwnerInside, Visitors
      <4>2. owner[m] \in Char
        BY <4>1 DEF Book, ShopsOK
      <4>3. CASE m = n
        BY <2>1, <3>2, <4>1, <4>3, MerchantAssumption
      <4>4. CASE m # n
        <5>1. shop[owner[m]] = m /\ shop[d] = m
          BY <3>2, <4>1, <4>2, <4>4, MerchantAssumption
        <5> QED
          BY <4>1, <5>1 DEF Book, OwnerAlone, OwnerInside, Visitors
      <4> QED
        BY <4>3, <4>4
    <3> QED
      BY <3>3 DEF OwnerAlone
  <2>2. CASE owner[n] # c
    <3>1. open[n] /\ open' = open /\ owner' = owner
      BY <2>2 DEF Visit
    <3>2. shop'[c] = n /\ \A d \in Char \ {c} : shop'[d] = shop[d]
      BY <2>2 DEF Book, ShopsOK, Visit
    <3> QED
      BY <2>2, <3>1, <3>2, MerchantAssumption DEF Book, ShopsOK, InsideIsShut, OwnerAlone,
          OwnerInside, Visitors
  <2> QED
    BY <2>1, <2>2
<1>7. Numbered' /\ OneMerchant' /\ Registered' /\ NoGhost'
  BY DEF Book, Visit, Numbered, OneMerchant, Registered, NoGhost, channel, saved
<1> QED
  BY <1>1, <1>2, <1>3, <1>4, <1>5, <1>6, <1>7 DEF Book

LEMMA BuyKeeps ==
  ASSUME NEW c \in Char, NEW j, NEW q, Book, Buy(c, j, q)
  PROVE  Book'
<1>0. /\ astray \subseteq astray' /\ astray' \subseteq astray \cup Mishap
      /\ UNCHANGED <<online, shop, owner, open, available, placed, storeid, channel>>
  BY DEF Buy, Topped, Mishap
<1>1. ShopsOK' /\ InTheGame' /\ SetUpIsTended' /\ Numbered' /\ InsideIsPlaced' /\
    InsideIsShut' /\ OneMerchant' /\ Registered' /\ NoGhost' /\ OwnerAlone'
  BY <1>0 DEF Book, ShopsOK, Mishap, Store, InTheGame, SetUpIsTended, Numbered,
      InsideIsPlaced, OwnerInside, InsideIsShut, OneMerchant, Registered, NoGhost,
      OwnerAlone, Visitors, channel
<1> QED
  BY <1>1 DEF Book

LEMMA CollectMesosKeeps ==
  ASSUME NEW c \in Char, Book, CollectMesos(c)
  PROVE  Book'
<1>1. ShopsOK'
  BY DEF Book, ShopsOK, CollectMesos, Unpaid, Mishap, Store, shops, channel
<1>2. InsideIsPlaced' /\ OneMerchant' /\ Registered' /\ NoGhost'
  BY DEF Book, CollectMesos, InsideIsPlaced, OwnerInside, OneMerchant, Registered, NoGhost,
      shops, channel
<1>3. InTheGame' /\ SetUpIsTended' /\ Numbered' /\ InsideIsShut' /\ OwnerAlone'
  BY DEF Book, CollectMesos, InTheGame, SetUpIsTended, Numbered, InsideIsShut, OwnerInside,
      OwnerAlone, Visitors, shops, channel
<1> QED
  BY <1>1, <1>2, <1>3 DEF Book

LEMMA CollectKeeps ==
  ASSUME NEW c \in Char, Book, Collect(c)
  PROVE  Book'
<1>0. /\ astray \subseteq astray' /\ astray' \subseteq astray \cup Mishap
      /\ UNCHANGED <<online, shop, shops, channel>>
  BY DEF Collect, Unpaid, Topped, Mishap
<1>1. ShopsOK'
  BY <1>0 DEF Book, ShopsOK, Mishap, Store, shops, channel
<1>2. InsideIsPlaced' /\ OneMerchant' /\ Registered' /\ NoGhost'
  BY <1>0 DEF Book, InsideIsPlaced, OwnerInside, OneMerchant, Registered, NoGhost,
      shops, channel
<1>3. InTheGame' /\ SetUpIsTended' /\ Numbered' /\ InsideIsShut' /\ OwnerAlone'
  BY <1>0 DEF Book, InTheGame, SetUpIsTended, Numbered, InsideIsShut, OwnerInside,
      OwnerAlone, Visitors, shops, channel
<1> QED
  BY <1>1, <1>2, <1>3 DEF Book

LEMMA DisconnectKeeps ==
  ASSUME NEW c \in Char, Book, Disconnect(c)
  PROVE  Book'
<1>1. ShopsOK'
  BY DEF Book, ShopsOK, Disconnect, Owning, closeShop, removeMerchant, Mishap, Store, saved
<1>2. InTheGame'
  BY DEF Book, ShopsOK, Disconnect, Owning, closeShop, removeMerchant, InTheGame, saved
<1>3. SetUpIsTended'
  <2>1. \A d \in Char \ {c} : shop'[d] = shop[d]
    BY DEF Book, ShopsOK, Disconnect
  <2>2. CASE Owning(c) /\ ~available[shop[c]]
    <3>1. shop[c] \in Inst /\ closeShop(shop[c], TRUE, {})
      BY <2>2 DEF Book, ShopsOK, Disconnect, Owning
    <3>2. owner' = owner /\ available' = available /\ ~placed'[shop[c]]
          /\ \A m \in Inst \ {shop[c]} : placed'[m] = placed[m]
      BY <3>1, CloseShopDoes DEF Book
    <3> QED
      BY <2>1, <3>1, <3>2 DEF Book, SetUpIsTended
  <2>3. CASE ~(Owning(c) /\ ~available[shop[c]])
    <3>1. UNCHANGED <<owner, available, placed>>
      BY <2>3 DEF Disconnect
    <3>2. \A m \in Inst : placed[m] /\ ~available[m] => owner[m] # c
      BY <2>3, MerchantAssumption DEF Book, SetUpIsTended, Owning, Disconnect
    <3> QED
      BY <2>1, <3>1, <3>2 DEF Book, SetUpIsTended
  <2> QED
    BY <2>2, <2>3
<1>4. Numbered'
  <2>1. CASE Owning(c) /\ ~available[shop[c]]
    BY <2>1, CloseShopKeeps DEF Book, ShopsOK, Disconnect, Owning
  <2>2. CASE ~(Owning(c) /\ ~available[shop[c]])
    BY <2>2 DEF Book, Disconnect, Numbered
  <2> QED
    BY <2>1, <2>2
<1>5. owner' = owner /\ astray \subseteq astray'
      /\ \A m \in Inst : OwnerInside(m)' => OwnerInside(m) /\ owner[m] # c
  <2>1. owner' = owner /\ astray \subseteq astray'
    BY DEF Disconnect, closeShop
  <2>2. \A d \in Char : shop'[d] = IF d = c THEN None ELSE shop[d]
    BY DEF Book, ShopsOK, Disconnect
  <2>3. ASSUME NEW m \in Inst, OwnerInside(m)'
        PROVE  OwnerInside(m) /\ owner[m] # c
    <3>1. owner[m] # None /\ shop'[owner[m]] = m
      BY <2>1, <2>3 DEF OwnerInside
    <3>2. owner[m] \in Char
      BY <3>1 DEF Book, ShopsOK
    <3> QED
      BY <2>2, <3>1, <3>2, MerchantAssumption DEF OwnerInside
  <2> QED
    BY <2>1, <2>3
<1>6. \A m \in Inst : owner[m] # c => placed'[m] = placed[m] /\ open'[m] = open[m]
  <2>1. CASE Owning(c) /\ ~available[shop[c]]
    <3>1. shop[c] \in Inst /\ owner[shop[c]] = c /\ closeShop(shop[c], TRUE, {})
      BY <2>1 DEF Book, ShopsOK, Disconnect, Owning
    <3>2. open' = open /\ \A m \in Inst \ {shop[c]} : placed'[m] = placed[m]
      BY <3>1, CloseShopDoes DEF Book
    <3> QED
      BY <3>1, <3>2
  <2>2. CASE ~(Owning(c) /\ ~available[shop[c]])
    <3>1. placed' = placed
          /\ open' = IF Owning(c) THEN [open EXCEPT ![shop[c]] = TRUE] ELSE open
      BY <2>2 DEF Disconnect
    <3>2. Owning(c) => shop[c] \in Inst /\ owner[shop[c]] = c
      BY DEF Book, ShopsOK, Owning
    <3> QED
      BY <3>1, <3>2 DEF Book, ShopsOK
  <2> QED
    BY <2>1, <2>2
<1>7. InsideIsPlaced' /\ InsideIsShut'
  BY <1>5, <1>6 DEF Book, InsideIsPlaced, InsideIsShut
<1>8. OneMerchant'
  <2>1. CASE Owning(c) /\ ~available[shop[c]]
    BY <2>1, CloseShopKeeps DEF Book, ShopsOK, Disconnect, Owning
  <2>2. CASE ~(Owning(c) /\ ~available[shop[c]])
    BY <2>2 DEF Book, Disconnect, OneMerchant
  <2> QED
    BY <2>1, <2>2
<1>9. Registered'
  <2>1. CASE Owning(c) /\ ~available[shop[c]]
    BY <2>1, CloseShopKeeps DEF Book, ShopsOK, Disconnect, Owning
  <2>2. CASE ~(Owning(c) /\ ~available[shop[c]])
    BY <2>2 DEF Book, Disconnect, Registered
  <2> QED
    BY <2>1, <2>2
<1>10. NoGhost'
  <2>1. CASE Owning(c) /\ ~available[shop[c]]
    BY <2>1, CloseShopKeeps DEF Book, ShopsOK, Disconnect, Owning
  <2>2. CASE ~(Owning(c) /\ ~available[shop[c]])
    BY <2>2 DEF Book, Disconnect, NoGhost
  <2> QED
    BY <2>1, <2>2
<1>11. OwnerAlone'
  BY MerchantAssumption DEF Book, ShopsOK, Disconnect, Owning, closeShop, removeMerchant,
      OwnerAlone, OwnerInside, Visitors, saved
<1> QED
  BY <1>1, <1>2, <1>3, <1>4, <1>7, <1>8, <1>9, <1>10, <1>11 DEF Book

LEMMA SaveKeeps ==
  ASSUME NEW c \in Char, Book, Save(c)
  PROVE  Book'
BY DEF Book, Save, ShopsOK, InTheGame, SetUpIsTended, Numbered, InsideIsPlaced,
   OwnerInside, InsideIsShut, OneMerchant, Registered, NoGhost, OwnerAlone, Visitors,
   Mishap, Store, chars, shops, channel

LEMMA ExpireKeeps ==
  ASSUME NEW n \in Inst, Book, Expire(n)
  PROVE  Book'
<1>1. ShopsOK'
  BY DEF Book, ShopsOK, Expire, closeShop, removeMerchant, OwnerInside, Mishap, Store, chars
<1>2. SetUpIsTended'
  BY DEF Book, ShopsOK, Expire, closeShop, removeMerchant, OwnerInside, SetUpIsTended, chars
<1>3. Numbered'
  BY CloseShopKeeps DEF Expire
<1>4. InsideIsPlaced'
  BY DEF Book, ShopsOK, Expire, closeShop, removeMerchant, OwnerInside, InsideIsPlaced,
      chars
<1>5. OneMerchant'
  BY CloseShopKeeps DEF Expire
<1>6. Registered'
  BY CloseShopKeeps DEF Expire
<1>7. NoGhost'
  BY CloseShopKeeps DEF Expire
<1>8. InTheGame' /\ InsideIsShut' /\ OwnerAlone'
  BY DEF Book, Expire, closeShop, InTheGame, InsideIsShut, OwnerInside, OwnerAlone,
      Visitors, chars
<1> QED
  BY <1>1, <1>2, <1>3, <1>4, <1>5, <1>6, <1>7, <1>8 DEF Book

LEMMA ShutdownKeeps ==
  ASSUME Book, Shutdown
  PROVE  Book'
<1>1. ShopsOK'
  BY DEF Book, ShopsOK, Shutdown, Mishap, Store, chars, shops, saved
<1>2. InTheGame' /\ SetUpIsTended' /\ Numbered' /\ InsideIsPlaced' /\ InsideIsShut' /\
    OneMerchant' /\ Registered' /\ NoGhost' /\ OwnerAlone'
  BY DEF Book, Shutdown, InTheGame, SetUpIsTended, Numbered, InsideIsPlaced, OwnerInside,
      InsideIsShut, OneMerchant, Registered, NoGhost, OwnerAlone, Visitors, chars, shops,
      saved
<1> QED
  BY <1>1, <1>2 DEF Book

LEMMA CloseAllMerchantKeeps ==
  ASSUME NEW k \in Store, Book, closeAllMerchant(k)
  PROVE  Book'
<1>1. ShopsOK'
  BY DEF Book, ShopsOK, closeAllMerchant, OwnerInside, Mishap, Store, chars
<1>2. SetUpIsTended'
  BY DEF Book, ShopsOK, closeAllMerchant, OwnerInside, SetUpIsTended, chars
<1>3. Numbered'
  BY DEF Book, ShopsOK, closeAllMerchant, OwnerInside, Numbered, chars
<1>4. InsideIsPlaced'
  BY DEF Book, ShopsOK, closeAllMerchant, OwnerInside, InsideIsPlaced, chars
<1>5. OneMerchant'
  BY DEF Book, ShopsOK, closeAllMerchant, OwnerInside, OneMerchant, chars
<1>6. Registered'
  BY DEF Book, ShopsOK, closeAllMerchant, OwnerInside, Registered, chars
<1>7. NoGhost'
  BY DEF Book, ShopsOK, closeAllMerchant, OwnerInside, NoGhost, chars
<1>8. InTheGame' /\ InsideIsShut' /\ OwnerAlone'
  BY DEF Book, closeAllMerchant, InTheGame, InsideIsShut, OwnerInside, OwnerAlone,
      Visitors, chars
<1> QED
  BY <1>1, <1>2, <1>3, <1>4, <1>5, <1>6, <1>7, <1>8 DEF Book

LEMMA AllClosedKeeps ==
  ASSUME Book, AllClosed
  PROVE  Book'
<1>1. ShopsOK'
  BY DEF Book, ShopsOK, AllClosed, Mishap, Store, chars, shops, saved
<1>2. InTheGame' /\ SetUpIsTended' /\ Numbered' /\ InsideIsPlaced' /\ InsideIsShut' /\
    OneMerchant' /\ Registered' /\ NoGhost' /\ OwnerAlone'
  BY DEF Book, AllClosed, InTheGame, SetUpIsTended, Numbered, InsideIsPlaced, OwnerInside,
      InsideIsShut, OneMerchant, Registered, NoGhost, OwnerAlone, Visitors, chars, shops,
      saved
<1> QED
  BY <1>1, <1>2 DEF Book

LEMMA RestartKeeps ==
  ASSUME Book, Restart
  PROVE  Book'
<1>1. ShopsOK'
  BY MerchantAssumption DEF Book, ShopsOK, Restart, Mishap, Store, saved
<1>2. InTheGame'
  BY DEF Book, ShopsOK, Restart, InTheGame, saved
<1>3. SetUpIsTended'
  BY DEF Book, ShopsOK, Restart, SetUpIsTended, saved
<1>4. Numbered'
  BY DEF Book, ShopsOK, Restart, Numbered, saved
<1>5. InsideIsPlaced'
  BY MerchantAssumption DEF Book, ShopsOK, Restart, InsideIsPlaced, OwnerInside, saved
<1>6. InsideIsShut'
  BY MerchantAssumption DEF Book, ShopsOK, Restart, InsideIsShut, OwnerInside, saved
<1>7. OneMerchant'
  BY DEF Book, ShopsOK, Restart, OneMerchant, saved
<1>8. Registered'
  BY DEF Book, ShopsOK, Restart, Registered, saved
<1>9. NoGhost'
  BY DEF Book, ShopsOK, Restart, NoGhost, saved
<1>10. OwnerAlone'
  BY MerchantAssumption DEF Book, ShopsOK, Restart, OwnerAlone, OwnerInside, Visitors, saved
<1> QED
  BY <1>1, <1>2, <1>3, <1>4, <1>5, <1>6, <1>7, <1>8, <1>9, <1>10 DEF Book

LEMMA BookHolds == Spec => []Book
<1>1. Init => Book
  BY MerchantAssumption DEF Init, Book, ShopsOK, InTheGame, SetUpIsTended, Numbered,
     InsideIsPlaced, InsideIsShut, OneMerchant, Registered, NoGhost, OwnerAlone,
     OwnerInside, Store, Mishap
<1>2. Book /\ [Next]_vars => Book'
  <2> SUFFICES ASSUME Book, [Next]_vars
               PROVE  Book'
    OBVIOUS
  <2>1. ASSUME NEW c \in Char, OwnerActs(c)
        PROVE  Book'
    BY <2>1, LoginKeeps, OpenKeeps, MaintenanceOffKeeps, OrganiseKeeps, CloseKeeps,
       CreateKeeps, AddItemKeeps, TakeBackKeeps DEF OwnerActs
  <2>2. ASSUME NEW c \in Char, Anyone(c)
        PROVE  Book'
    BY <2>2, ExitKeeps, CollectMesosKeeps, CollectKeeps, DisconnectKeeps, SaveKeeps, VisitKeeps,
       BuyKeeps DEF Anyone
  <2>3. CASE Server
    BY <2>3, ExpireKeeps, ShutdownKeeps, AllClosedKeeps, RestartKeeps,
       CloseAllMerchantKeeps DEF Server
  <2>4. CASE UNCHANGED vars
    BY <2>4 DEF Book, vars, chars, shops, channel, saved, ShopsOK, InTheGame,
       SetUpIsTended, Numbered, InsideIsPlaced, InsideIsShut, OneMerchant, Registered,
       NoGhost, OwnerAlone, OwnerInside, Visitors, Mishap, Store
  <2> QED
    BY <2>1, <2>2, <2>3, <2>4 DEF Next
<1> QED
  BY <1>1, <1>2, PTL DEF Spec

\* However shops are set up, opened, closed and lost, no account has two of them on
\* the maps, until a shop that was never opened has put another out of the table.
THEOREM OneShopPerAccount == Spec => []OneMerchant
  BY BookHolds, PTL DEF Book

\* What is still for sale on the maps is in the table that Fredrick and the shutdown
\* ask, under the same proviso.
THEOREM OpenShopsAreListed == Spec => []Registered
  BY BookHolds, PTL DEF Book

\* The table forgets a shop when it leaves the map, unless one was closed around its
\* owner.
THEOREM NoShopIsLeftInTheTable == Spec => []NoGhost
  BY BookHolds, PTL DEF Book

\* An owner never shares the shop with a buyer, whatever the number of seats.
THEOREM OwnersWorkAlone == Spec => []OwnerAlone
  BY BookHolds, PTL DEF Book

----
(***************************************************************************)
(* The list of a shop. Units, Rows and Tidied go through a list entry by   *)
(* entry. Induction over it is counting here (UpTo): the numbers that miss *)
(* a property, sent one down, would fit into fewer (FS_PigeonHole). A list *)
(* without two entries of one stack (Single) has what its entries say, so  *)
(* saving and organising it keep its units.                                *)
(***************************************************************************)

(* Induction, as counting: what the first number outside S and those below *)
(* it would be, sent one down, would fit a smaller set.                    *)
LEMMA UpTo ==
  ASSUME NEW n \in Nat, NEW S, 0 \in S, \A i \in 1 .. n : i - 1 \in S => i \in S
  PROVE  \A i \in 0 .. n : i \in S
<1> SUFFICES ASSUME NEW x \in 0 .. n, x \notin S PROVE FALSE
  OBVIOUS
<1> DEFINE D == {y \in 0 .. x : y \notin S}
           f == [y \in D |-> y - 1]
<1>1. \A y \in D : y - 1 \in D \ {x}
  <2> TAKE y \in D
  <2>1. y # 0 /\ y \in 1 .. n
    OBVIOUS
  <2>2. y - 1 \notin S
    BY <2>1
  <2> QED
    BY <2>1, <2>2
<1>2. IsFiniteSet(D) /\ x \in D
  <2>1. IsFiniteSet(0 .. x) /\ D \subseteq 0 .. x
    BY FS_Interval
  <2> QED
    BY <2>1, FS_Subset
<1>3. IsFiniteSet(D \ {x}) /\ Cardinality(D \ {x}) < Cardinality(D)
  <2> HIDE DEF D
  <2>1. /\ IsFiniteSet(D \ {x}) /\ Cardinality(D \ {x}) = Cardinality(D) - 1
        /\ Cardinality(D) \in Nat
    BY <1>2, FS_RemoveElement, FS_CardinalityType
  <2> QED
    BY <2>1
<1>4. f \in [D -> D \ {x}]
  BY <1>1
<1>5. \A y, z \in D : f[y] = f[z] => y = z
  OBVIOUS
<1> QED
  <2> HIDE DEF D, f
  <2>1. \E y, z \in D : y # z /\ f[y] = f[z]
    BY <1>2, <1>3, <1>4, FS_PigeonHole
  <2> QED
    BY <1>5, <2>1

(* A function may be defined step by step.                                 *)
Steps(f, n, V, b, g) ==
  f \in [0 .. n -> V] /\ f[0] = b /\ \A i \in 1 .. n : f[i] = g[i][f[i - 1]]

LEMMA StepByStep ==
  ASSUME NEW n \in Nat, NEW V, NEW b \in V, NEW g \in [1 .. n -> [V -> V]]
  PROVE  \E f : Steps(f, n, V, b, g)
<1> DEFINE Good(f, k) == f[0] = b /\ \A i \in 1 .. k : f[i] = g[i][f[i - 1]]
           S == {k \in 0 .. n : \E f \in [0 .. k -> V] : Good(f, k)}
<1>1. 0 \in S
  <2> DEFINE f == [i \in 0 .. 0 |-> b]
  <2>1. f \in [0 .. 0 -> V] /\ f[0] = b
    OBVIOUS
  <2>2. Good(f, 0)
    BY <2>1
  <2> HIDE DEF f
  <2> QED
    BY <2>1, <2>2
<1>2. ASSUME NEW k \in 1 .. n, k - 1 \in S
      PROVE  k \in S
  <2>1. PICK f \in [0 .. k - 1 -> V] : Good(f, k - 1)
    BY <1>2
  <2> DEFINE h == [i \in 0 .. k |-> IF i = k THEN g[k][f[k - 1]] ELSE f[i]]
  <2>2. h \in [0 .. k -> V]
    OBVIOUS
  <2>3. h[0] = b
    BY <2>1
  <2>4. ASSUME NEW i \in 1 .. k
        PROVE  h[i] = g[i][h[i - 1]]
    <3>1. CASE i = k
      BY <3>1
    <3>2. CASE i # k
      BY <2>1, <3>2
    <3> QED
      BY <3>1, <3>2
  <2>5. Good(h, k)
    BY <2>3, <2>4
  <2> HIDE DEF h, Good
  <2> QED
    BY <2>2, <2>5
<1>3. n \in S
  <2> HIDE DEF S
  <2>1. \A i \in 1 .. n : i - 1 \in S => i \in S
    BY <1>2
  <2>2. \A i \in 0 .. n : i \in S
    BY <1>1, <2>1, UpTo
  <2> QED
    BY <2>2
<1> QED
  BY <1>3 DEF Steps

-----
LEMMA UnitsSum ==
  ASSUME NEW l \in Seq(Entry), NEW s
  PROVE  \E u \in [0 .. Len(l) -> Nat] :
           /\ u[0] = 0
           /\ \A i \in 1 .. Len(l) :
                u[i] = u[i - 1] + (IF l[i].stack = s THEN l[i].left ELSE 0)
           /\ Units(l, s) = u[Len(l)]
<1> DEFINE n == Len(l)
           x(i) == IF l[i].stack = s THEN l[i].left ELSE 0
           P(u) == u = [i \in 0 .. n |-> IF i = 0 THEN 0 ELSE u[i - 1] + x(i)]
           g == [i \in 1 .. n |-> [v \in Nat |-> v + x(i)]]
<1>1. n \in Nat /\ \A i \in 1 .. n : x(i) \in Nat
  <2>1. \A i \in 1 .. n : l[i] \in Entry
    OBVIOUS
  <2>2. \A e \in Entry : e.left \in Nat
    BY DEF Entry
  <2> QED
    BY <2>1, <2>2
<1>2. g \in [1 .. n -> [Nat -> Nat]]
  BY <1>1
<1>3. PICK f \in [0 .. n -> Nat] : f[0] = 0 /\ \A i \in 1 .. n : f[i] = g[i][f[i - 1]]
  <2> DEFINE V == Nat
             b == 0
  <2> HIDE DEF n, g, x, P
  <2>1. n \in Nat /\ b \in V /\ g \in [1 .. n -> [V -> V]]
    BY <1>1, <1>2
  <2> HIDE DEF V, b
  <2>2. \E f : Steps(f, n, V, b, g)
    BY <2>1, StepByStep
  <2> QED
    BY <2>2 DEF V, b, Steps
<1>4. P(f)
  <2> HIDE DEF n, x, P
  <2>1. \A i \in 1 .. n : f[i] = f[i - 1] + x(i)
    <3> TAKE i \in 1 .. n
    <3>1. f[i - 1] \in Nat
      BY <1>1, <1>3
    <3>2. g[i] = [v \in Nat |-> v + x(i)]
      OBVIOUS
    <3> QED
      BY <1>3, <3>1, <3>2
  <2> USE DEF P
  <2> QED
    BY <1>1, <1>3, <2>1
<1>5. PICK u : P(u) /\ Units(l, s) = u[n]
  <2>1. Units(l, s) = (CHOOSE u : P(u))[n]
    BY DEF Units
  <2>2. P(CHOOSE u : P(u))
    <3> HIDE DEF P
    <3> QED
      BY <1>4
  <2> HIDE DEF P, n
  <2> QED
    BY <2>1, <2>2
<1>6. u[0] = 0 /\ \A i \in 1 .. n : u[i] = u[i - 1] + x(i)
  <2> HIDE DEF x, n
  <2> QED
    BY <1>1, <1>5
<1>7. u \in [0 .. n -> Nat]
  <2> DEFINE S == {i \in 0 .. n : u[i] \in Nat}
  <2>1. 0 \in S
    BY <1>1, <1>6
  <2>2. \A i \in 1 .. n : i - 1 \in S => i \in S
    <3> HIDE DEF x, n
    <3> QED
      BY <1>1, <1>6
  <2>3. \A i \in 0 .. n : i \in S
    <3> HIDE DEF S, n
    <3> QED
      BY <1>1, <2>1, <2>2, UpTo
  <2>4. u = [i \in 0 .. n |-> u[i]]
    <3> HIDE DEF x, n
    <3> QED
      BY <1>5
  <2> HIDE DEF n
  <2> QED
    BY <2>3, <2>4
<1> QED
  BY <1>5, <1>6, <1>7

(* No two entries are of one stack: nobody cut one in two.                 *)
Single(l) == \A i, j \in DOMAIN l : l[i].stack = l[j].stack => i = j

Has(l, e) == \E j \in DOMAIN l : l[j] = e

LEMMA UnitsType ==
  ASSUME NEW l \in Seq(Entry), NEW s
  PROVE  Units(l, s) \in Nat
BY UnitsSum

LEMMA UnitsOfNone ==
  ASSUME NEW l \in Seq(Entry), NEW s, ~Lists(l, s)
  PROVE  Units(l, s) = 0
<1>1. PICK u \in [0 .. Len(l) -> Nat] :
           /\ u[0] = 0
           /\ \A i \in 1 .. Len(l) :
                u[i] = u[i - 1] + (IF l[i].stack = s THEN l[i].left ELSE 0)
           /\ Units(l, s) = u[Len(l)]
  BY UnitsSum
<1> DEFINE n == Len(l)
           S == {i \in 0 .. n : u[i] = 0}
<1>2. n \in Nat /\ DOMAIN l = 1 .. n
  OBVIOUS
<1>3. 0 \in S
  BY <1>1, <1>2
<1>4. \A i \in 1 .. n : i - 1 \in S => i \in S
  <2> HIDE DEF n
  <2> QED
    BY <1>1, <1>2 DEF Lists, n
<1>5. \A i \in 0 .. n : i \in S
  <2> HIDE DEF S, n
  <2> QED
    BY <1>2, <1>3, <1>4, UpTo
<1> QED
  BY <1>1, <1>2, <1>5

LEMMA UnitsOfSingle ==
  ASSUME NEW l \in Seq(Entry), Single(l), NEW j \in DOMAIN l
  PROVE  Units(l, l[j].stack) = l[j].left
<1> DEFINE s == l[j].stack
           m == l[j].left
           n == Len(l)
<1>1. PICK u \in [0 .. Len(l) -> Nat] :
           /\ u[0] = 0
           /\ \A i \in 1 .. Len(l) :
                u[i] = u[i - 1] + (IF l[i].stack = s THEN l[i].left ELSE 0)
           /\ Units(l, s) = u[Len(l)]
  BY UnitsSum
<1> DEFINE S == {i \in 0 .. n : u[i] = IF i < j THEN 0 ELSE m}
<1>2. n \in Nat /\ DOMAIN l = 1 .. n /\ j \in 1 .. n /\ m \in Nat
  <2>1. l[j] \in Entry
    OBVIOUS
  <2>2. m \in Nat
    BY <2>1 DEF Entry
  <2> QED
    BY <2>2
<1>3. 0 \in S
  BY <1>1, <1>2
<1>4. ASSUME NEW i \in 1 .. n, i - 1 \in S
      PROVE  i \in S
  <2>1. u[i] = u[i - 1] + (IF i = j THEN m ELSE 0)
    <3>1. l[i].stack = s <=> i = j
      BY <1>2 DEF Single
    <3> QED
      BY <1>1, <1>2, <3>1
  <2>2. u[i - 1] = IF i - 1 < j THEN 0 ELSE m
    BY <1>4
  <2> HIDE DEF m, n
  <2> QED
    BY <1>2, <2>1, <2>2
<1>5. \A i \in 0 .. n : i \in S
  <2>1. \A i \in 1 .. n : i - 1 \in S => i \in S
    BY <1>4
  <2> HIDE DEF S, n
  <2> QED
    BY <1>2, <1>3, <2>1, UpTo
<1>6. n \in S /\ ~(n < j)
  BY <1>2, <1>5
<1> QED
  BY <1>1, <1>6

(* Two lists with the same goods have the same units.                      *)
LEMMA SameGoods ==
  ASSUME NEW l \in Seq(Entry), NEW m \in Seq(Entry), Single(l), Single(m),
         \A e \in Entry : e.left > 0 => (Has(l, e) <=> Has(m, e))
  PROVE  \A s : Units(l, s) = Units(m, s)
<1>1. ASSUME NEW x \in Seq(Entry), Single(x), NEW y \in Seq(Entry), Single(y),
             \A e \in Entry : e.left > 0 /\ Has(x, e) => Has(y, e),
             NEW s, Units(x, s) # 0
      PROVE  Units(y, s) = Units(x, s)
  <2>1. PICK j \in DOMAIN x : x[j].stack = s
    BY <1>1, UnitsOfNone DEF Lists
  <2>2. x[j] \in Entry /\ Units(x, s) = x[j].left
    BY <1>1, <2>1, UnitsOfSingle
  <2>3. x[j].left > 0 /\ Has(x, x[j])
    BY <1>1, <2>2 DEF Entry, Has
  <2>4. PICK i \in DOMAIN y : y[i] = x[j]
    BY <1>1, <2>2, <2>3 DEF Has
  <2>5. Units(y, y[i].stack) = y[i].left
    BY <1>1, UnitsOfSingle
  <2> QED
    BY <2>1, <2>2, <2>4, <2>5
<1> QED
  BY <1>1

LEMMA PutType ==
  ASSUME NEW rows \in Seq(Entry), NEW e \in Entry, NEW one \in BOOLEAN
  PROVE  Put(rows, e, one) \in Seq(Entry)
<1>1. CASE one /\ Lists(rows, e.stack)
  <2> DEFINE n == Len(rows)
             x == [i \in 1 .. n |-> IF rows[i].stack = e.stack THEN e ELSE rows[i]]
  <2>1. Put(rows, e, one) = x
    BY <1>1 DEF Put
  <2>2. n \in Nat /\ \A i \in 1 .. n : rows[i] \in Entry
    OBVIOUS
  <2>3. x \in [1 .. n -> Entry]
    BY <2>2
  <2> HIDE DEF n, x
  <2>4. x \in Seq(Entry)
    BY <2>2, <2>3
  <2> QED
    BY <2>1, <2>4
<1>2. CASE ~(one /\ Lists(rows, e.stack))
  BY <1>2 DEF Put
<1> QED
  BY <1>1, <1>2

LEMMA RowsRun ==
  ASSUME NEW l \in Seq(Entry), NEW one \in BOOLEAN
  PROVE  \E r \in [0 .. Len(l) -> Seq(Entry)] :
           /\ r[0] = <<>>
           /\ \A i \in 1 .. Len(l) :
                r[i] = IF l[i].left > 0 THEN Put(r[i - 1], l[i], one) ELSE r[i - 1]
           /\ Rows(l, one) = r[Len(l)]
<1> DEFINE n == Len(l)
           V == Seq(Entry)
           b == <<>>
           x(i, v) == IF l[i].left > 0 THEN Put(v, l[i], one) ELSE v
           P(r) == r = [i \in 0 .. n |-> IF i = 0 THEN b ELSE x(i, r[i - 1])]
           g == [i \in 1 .. n |-> [v \in V |-> x(i, v)]]
<1>1. n \in Nat /\ b \in V /\ \A i \in 1 .. n : \A v \in V : x(i, v) \in V
  <2>1. \A i \in 1 .. n : l[i] \in Entry
    OBVIOUS
  <2>2. ASSUME NEW i \in 1 .. n, NEW v \in V
        PROVE  x(i, v) \in V
    <3>1. Put(v, l[i], one) \in V
      <4> HIDE DEF n
      <4> QED
        BY <2>1, PutType
    <3> QED
      BY <3>1
  <2> QED
    BY <2>2
<1>2. Rows(l, one) = (CHOOSE r : P(r))[n]
  BY DEF Rows
<1> HIDE DEF n, V, b, x
<1>3. g \in [1 .. n -> [V -> V]]
  BY <1>1
<1>4. PICK f : Steps(f, n, V, b, g)
  <2> HIDE DEF g
  <2> QED
    BY <1>1, <1>3, StepByStep
<1>5. P(f)
  <2>1. \A i \in 1 .. n : f[i] = x(i, f[i - 1])
    <3> TAKE i \in 1 .. n
    <3>1. f[i - 1] \in V
      BY <1>1, <1>4 DEF Steps
    <3>2. g[i] = [v \in V |-> x(i, v)]
      OBVIOUS
    <3> QED
      BY <1>4, <3>1, <3>2 DEF Steps
  <2> QED
    BY <1>1, <1>4, <2>1 DEF Steps
<1>6. PICK r : P(r) /\ Rows(l, one) = r[n]
  <2>1. P(CHOOSE r : P(r))
    <3> HIDE DEF P
    <3> QED
      BY <1>5
  <2> HIDE DEF P
  <2> QED
    BY <1>2, <2>1
<1>7. r[0] = b /\ \A i \in 1 .. n : r[i] = x(i, r[i - 1])
  BY <1>1, <1>6
<1>8. r \in [0 .. n -> V]
  <2> DEFINE S == {i \in 0 .. n : r[i] \in V}
  <2>1. 0 \in S
    BY <1>1, <1>7
  <2>2. \A i \in 1 .. n : i - 1 \in S => i \in S
    BY <1>1, <1>7
  <2>3. \A i \in 0 .. n : i \in S
    <3> HIDE DEF S
    <3> QED
      BY <1>1, <2>1, <2>2, UpTo
  <2>4. r = [i \in 0 .. n |-> r[i]]
    BY <1>6
  <2> QED
    BY <2>3, <2>4
<1> QED
  BY <1>6, <1>7, <1>8 DEF n, V, b, x

LEMMA TidiedRun ==
  ASSUME NEW l \in Seq(Entry)
  PROVE  \E r \in [0 .. Len(l) -> [kept : Seq(Entry), pass : BOOLEAN]] :
           /\ r[0] = [kept |-> <<>>, pass |-> FALSE]
           /\ \A i \in 1 .. Len(l) :
                r[i] = IF l[i].left = 0 /\ ~r[i - 1].pass
                       THEN [kept |-> r[i - 1].kept, pass |-> TRUE]
                       ELSE [kept |-> Append(r[i - 1].kept, l[i]), pass |-> FALSE]
           /\ Tidied(l) = r[Len(l)].kept
<1> DEFINE n == Len(l)
           V == [kept : Seq(Entry), pass : BOOLEAN]
           b == [kept |-> <<>>, pass |-> FALSE]
           x(i, v) == IF l[i].left = 0 /\ ~v.pass
                      THEN [kept |-> v.kept, pass |-> TRUE]
                      ELSE [kept |-> Append(v.kept, l[i]), pass |-> FALSE]
           P(r) == r = [i \in 0 .. n |-> IF i = 0 THEN b ELSE x(i, r[i - 1])]
           g == [i \in 1 .. n |-> [v \in V |-> x(i, v)]]
<1>1. n \in Nat /\ b \in V /\ \A i \in 1 .. n : \A v \in V : x(i, v) \in V
  <2>1. \A i \in 1 .. n : l[i] \in Entry
    OBVIOUS
  <2> QED
    BY <2>1
<1>2. Tidied(l) = (CHOOSE r : P(r))[n].kept
  BY DEF Tidied
<1> HIDE DEF n, V, b, x
<1>3. g \in [1 .. n -> [V -> V]]
  BY <1>1
<1>4. PICK f : Steps(f, n, V, b, g)
  <2> HIDE DEF g
  <2> QED
    BY <1>1, <1>3, StepByStep
<1>5. P(f)
  <2>1. \A i \in 1 .. n : f[i] = x(i, f[i - 1])
    <3> TAKE i \in 1 .. n
    <3>1. f[i - 1] \in V
      BY <1>1, <1>4 DEF Steps
    <3>2. g[i] = [v \in V |-> x(i, v)]
      OBVIOUS
    <3> QED
      BY <1>4, <3>1, <3>2 DEF Steps
  <2> QED
    BY <1>1, <1>4, <2>1 DEF Steps
<1>6. PICK r : P(r) /\ Tidied(l) = r[n].kept
  <2>1. P(CHOOSE r : P(r))
    <3> HIDE DEF P
    <3> QED
      BY <1>5
  <2> HIDE DEF P
  <2> QED
    BY <1>2, <2>1
<1>7. r[0] = b /\ \A i \in 1 .. n : r[i] = x(i, r[i - 1])
  BY <1>1, <1>6
<1>8. r \in [0 .. n -> V]
  <2> DEFINE S == {i \in 0 .. n : r[i] \in V}
  <2>1. 0 \in S
    BY <1>1, <1>7
  <2>2. \A i \in 1 .. n : i - 1 \in S => i \in S
    BY <1>1, <1>7
  <2>3. \A i \in 0 .. n : i \in S
    <3> HIDE DEF S
    <3> QED
      BY <1>1, <2>1, <2>2, UpTo
  <2>4. r = [i \in 0 .. n |-> r[i]]
    BY <1>6
  <2> QED
    BY <2>3, <2>4
<1> QED
  BY <1>6, <1>7, <1>8 DEF n, V, b, x

\* An entry of a stack that is not listed yet.
LEMMA AppendDoes ==
  ASSUME NEW l \in Seq(Entry), Single(l), NEW e \in Entry, ~Lists(l, e.stack)
  PROVE  /\ Append(l, e) \in Seq(Entry) /\ Single(Append(l, e))
         /\ \A f : Has(Append(l, e), f) <=> Has(l, f) \/ f = e
<1> DEFINE n == Len(l)
           m == Append(l, e)
<1>1. /\ n \in Nat /\ DOMAIN l = 1 .. n /\ DOMAIN m = 1 .. n + 1
      /\ m[n + 1] = e /\ \A i \in 1 .. n : m[i] = l[i]
      /\ m \in Seq(Entry)
  OBVIOUS
<1> HIDE DEF n, m
<1>2. Single(m)
  BY <1>1 DEF Single, Lists
<1>3. ASSUME NEW f PROVE Has(m, f) <=> Has(l, f) \/ f = e
  BY <1>1 DEF Has
<1> QED
  BY <1>1, <1>2, <1>3 DEF m

LEMMA UnitsOfAppended ==
  ASSUME NEW l \in Seq(Entry), Single(l), NEW e \in Entry, ~Lists(l, e.stack), NEW s
  PROVE  Units(Append(l, e), s) = Units(l, s) + (IF s = e.stack THEN e.left ELSE 0)
<1> DEFINE n == Len(l)
           m == Append(l, e)
<1>1. /\ n \in Nat /\ DOMAIN l = 1 .. n /\ DOMAIN m = 1 .. n + 1
      /\ m[n + 1] = e /\ \A i \in 1 .. n : m[i] = l[i]
  OBVIOUS
<1>2. m \in Seq(Entry) /\ Single(m) /\ e.left \in Nat
  BY AppendDoes DEF Entry
<1> HIDE DEF n, m
<1>3. CASE s = e.stack
  <2>1. Units(m, m[n + 1].stack) = m[n + 1].left
    BY <1>1, <1>2, UnitsOfSingle
  <2>2. Units(l, s) = 0
    BY <1>3, UnitsOfNone
  <2> QED
    BY <1>1, <1>2, <1>3, <2>1, <2>2 DEF m
<1>4. CASE s # e.stack /\ Lists(l, s)
  <2>1. PICK j \in 1 .. n : l[j].stack = s
    BY <1>1, <1>4 DEF Lists
  <2>2. Units(l, s) = l[j].left
    BY <1>1, <2>1, UnitsOfSingle
  <2>3. Units(m, m[j].stack) = m[j].left
    BY <1>1, <1>2, UnitsOfSingle
  <2>4. Units(l, s) \in Nat
    BY UnitsType
  <2> QED
    BY <1>1, <1>4, <2>1, <2>2, <2>3, <2>4 DEF m
<1>5. CASE s # e.stack /\ ~Lists(l, s)
  <2>1. ~Lists(m, s)
    BY <1>1, <1>5 DEF Lists
  <2>2. Units(l, s) = 0 /\ Units(m, s) = 0
    BY <1>2, <1>5, <2>1, UnitsOfNone
  <2> QED
    BY <1>5, <2>2 DEF m
<1> QED
  BY <1>3, <1>4, <1>5

LEMMA RemoveAtDoes ==
  ASSUME NEW l \in Seq(Entry), NEW j \in DOMAIN l
  PROVE  /\ RemoveAt(l, j) \in Seq(Entry) /\ Len(RemoveAt(l, j)) = Len(l) - 1
         /\ \A i \in 1 .. Len(l) - 1 :
              RemoveAt(l, j)[i] = IF i < j THEN l[i] ELSE l[i + 1]
<1> DEFINE n == Len(l)
           x == SubSeq(l, 1, j - 1)
           y == SubSeq(l, j + 1, n)
<1>1. n \in Nat /\ j \in 1 .. n
  OBVIOUS
<1>2. x \in Seq(Entry) /\ Len(x) = j - 1 /\ \A i \in 1 .. j - 1 : x[i] = l[i]
  BY <1>1
<1>3. y \in Seq(Entry) /\ Len(y) = n - j /\ \A i \in 1 .. n - j : y[i] = l[i + j]
  BY <1>1
<1>4. RemoveAt(l, j) = x \o y
  BY DEF RemoveAt
<1> HIDE DEF n, x, y
<1>5. x \o y \in Seq(Entry) /\ Len(x \o y) = n - 1
  <2>1. x \o y \in Seq(Entry)
    BY <1>2, <1>3
  <2>2. Len(x \o y) = Len(x) + Len(y)
    BY <1>2, <1>3, ConcatProperties
  <2> QED
    BY <1>1, <1>2, <1>3, <2>1, <2>2
<1>6. ASSUME NEW i \in 1 .. n - 1
      PROVE  (x \o y)[i] = IF i < j THEN l[i] ELSE l[i + 1]
  <2>1. (x \o y)[i] = IF i <= Len(x) THEN x[i] ELSE y[i - Len(x)]
    <3>1. \A k \in 1 .. Len(x) + Len(y) :
            (x \o y)[k] = IF k <= Len(x) THEN x[k] ELSE y[k - Len(x)]
      BY <1>2, <1>3, ConcatProperties
    <3>2. i \in 1 .. Len(x) + Len(y)
      BY <1>1, <1>2, <1>3
    <3> QED
      BY <3>1, <3>2
  <2>2. CASE i < j
    BY <1>1, <1>2, <2>1, <2>2
  <2>3. CASE ~(i < j)
    <3>1. i - (j - 1) \in 1 .. n - j /\ i - (j - 1) + j = i + 1
      BY <1>1, <2>3
    <3>2. (x \o y)[i] = y[i - (j - 1)]
      BY <1>1, <1>2, <2>1, <2>3
    <3>3. y[i - (j - 1)] = l[i - (j - 1) + j]
      BY <1>3, <3>1
    <3> QED
      BY <2>3, <3>1, <3>2, <3>3
  <2> QED
    BY <2>2, <2>3
<1> QED
  BY <1>4, <1>5, <1>6 DEF n

LEMMA RemoveAtKeepsSingle ==
  ASSUME NEW l \in Seq(Entry), Single(l), NEW j \in DOMAIN l
  PROVE  Single(RemoveAt(l, j))
<1> DEFINE n == Len(l)
           m == RemoveAt(l, j)
<1>1. /\ n \in Nat /\ j \in 1 .. n /\ DOMAIN l = 1 .. n /\ DOMAIN m = 1 .. n - 1
      /\ \A i \in 1 .. n - 1 : m[i] = IF i < j THEN l[i] ELSE l[i + 1]
  <2>1. n \in Nat /\ j \in 1 .. n /\ DOMAIN l = 1 .. n
    OBVIOUS
  <2>2. m \in Seq(Entry) /\ Len(m) = n - 1
        /\ \A i \in 1 .. n - 1 : m[i] = IF i < j THEN l[i] ELSE l[i + 1]
    BY RemoveAtDoes
  <2> HIDE DEF m, n
  <2> QED
    BY <2>1, <2>2
<1> HIDE DEF n, m
<1>2. ASSUME NEW i \in 1 .. n - 1, NEW k \in 1 .. n - 1, m[i].stack = m[k].stack, i < k
      PROVE  FALSE
  <2>1. i + 1 \in 1 .. n /\ k + 1 \in 1 .. n /\ i \in 1 .. n /\ k \in 1 .. n
    BY <1>1
  <2>2. CASE k < j
    BY <1>1, <1>2, <2>1, <2>2 DEF Single
  <2>3. CASE ~(k < j) /\ i < j
    BY <1>1, <1>2, <2>1, <2>3 DEF Single
  <2>4. CASE ~(i < j)
    <3>1. m[i] = l[i + 1] /\ m[k] = l[k + 1] /\ i + 1 # k + 1
      BY <1>1, <1>2, <2>4
    <3> QED
      BY <1>1, <1>2, <2>1, <3>1 DEF Single
  <2> QED
    BY <1>1, <1>2, <2>2, <2>3, <2>4
<1>3. Single(m)
  <2> SUFFICES ASSUME NEW i \in 1 .. n - 1, NEW k \in 1 .. n - 1, m[i].stack = m[k].stack
               PROVE  i = k
    BY <1>1 DEF Single
  <2> QED
    BY <1>1, <1>2
<1> QED
  BY <1>3 DEF m

LEMMA UnitsOfRemoved ==
  ASSUME NEW l \in Seq(Entry), Single(l), NEW j \in DOMAIN l, NEW s
  PROVE  Units(l, s) = Units(RemoveAt(l, j), s)
                         + (IF s = l[j].stack THEN l[j].left ELSE 0)
<1> DEFINE n == Len(l)
           m == RemoveAt(l, j)
<1>1. /\ n \in Nat /\ j \in 1 .. n /\ DOMAIN l = 1 .. n /\ DOMAIN m = 1 .. n - 1
      /\ \A i \in 1 .. n - 1 : m[i] = IF i < j THEN l[i] ELSE l[i + 1]
      /\ m \in Seq(Entry) /\ Single(m)
  <2>1. n \in Nat /\ j \in 1 .. n /\ DOMAIN l = 1 .. n
    OBVIOUS
  <2>2. m \in Seq(Entry) /\ Len(m) = n - 1
        /\ \A i \in 1 .. n - 1 : m[i] = IF i < j THEN l[i] ELSE l[i + 1]
    BY RemoveAtDoes
  <2>3. Single(m)
    BY RemoveAtKeepsSingle
  <2> HIDE DEF m, n
  <2> QED
    BY <2>1, <2>2, <2>3
<1> HIDE DEF n, m
<1>2. Units(l, s) \in Nat /\ Units(m, s) \in Nat
  BY <1>1, UnitsType
<1>3. CASE s = l[j].stack
  <2>1. ~Lists(m, s)
    <3> SUFFICES ASSUME NEW i \in 1 .. n - 1, m[i].stack = s
                 PROVE  FALSE
      BY <1>1 DEF Lists
    <3>1. \E k \in 1 .. n : k # j /\ l[k].stack = s
      <4>1. CASE i < j
        BY <1>1, <4>1
      <4>2. CASE ~(i < j)
        BY <1>1, <4>2
      <4> QED
        BY <4>1, <4>2
    <3> QED
      BY <1>1, <1>3, <3>1 DEF Single
  <2>2. Units(m, s) = 0
    BY <1>1, <2>1, UnitsOfNone
  <2>3. Units(l, l[j].stack) = l[j].left
    BY UnitsOfSingle
  <2> QED
    BY <1>2, <1>3, <2>2, <2>3 DEF m
<1>4. CASE s # l[j].stack /\ Lists(l, s)
  <2>1. PICK i \in 1 .. n : l[i].stack = s
    BY <1>1, <1>4 DEF Lists
  <2>2. \E k \in DOMAIN m : m[k] = l[i]
    <3>1. CASE i < j
      BY <1>1, <2>1, <3>1
    <3>2. CASE i > j
      <4>1. i - 1 \in 1 .. n - 1 /\ ~(i - 1 < j) /\ i - 1 + 1 = i
        BY <1>1, <3>2
      <4> QED
        BY <1>1, <4>1
    <3> QED
      BY <1>1, <1>4, <2>1, <3>1, <3>2
  <2>3. PICK k \in DOMAIN m : m[k] = l[i]
    BY <2>2
  <2>4. Units(l, l[i].stack) = l[i].left /\ Units(m, m[k].stack) = m[k].left
    BY <1>1, UnitsOfSingle
  <2> QED
    BY <1>2, <1>4, <2>1, <2>3, <2>4 DEF m
<1>5. CASE s # l[j].stack /\ ~Lists(l, s)
  <2>1. ~Lists(m, s)
    <3> SUFFICES ASSUME NEW i \in 1 .. n - 1, m[i].stack = s
                 PROVE  FALSE
      BY <1>1 DEF Lists
    <3>1. CASE i < j
      BY <1>1, <1>5, <3>1 DEF Lists
    <3>2. CASE ~(i < j)
      <4>1. i + 1 \in 1 .. n /\ m[i] = l[i + 1]
        BY <1>1, <3>2
      <4> QED
        BY <1>1, <1>5, <4>1 DEF Lists
    <3> QED
      BY <3>1, <3>2
  <2>2. Units(l, s) = 0 /\ Units(m, s) = 0
    BY <1>1, <1>5, <2>1, UnitsOfNone
  <2> QED
    BY <1>5, <2>2 DEF m
<1> QED
  BY <1>3, <1>4, <1>5
\* Some units of an entry are sold.
LEMMA SoldDoes ==
  ASSUME NEW l \in Seq(Entry), NEW j \in DOMAIN l, NEW q \in 1 .. l[j].left
  PROVE  LET m == [l EXCEPT ![j].left = @ - q]
         IN  /\ m \in Seq(Entry) /\ (Single(l) => Single(m))
             /\ Single(l) => \A s : /\ Units(m, s) = Units(l, s) - (IF s = l[j].stack THEN q ELSE 0)
                                    /\ Units(m, s) \in Nat
<1> DEFINE n == Len(l)
           m == [l EXCEPT ![j].left = @ - q]
<1>1. /\ n \in Nat /\ j \in 1 .. n /\ l \in [1 .. n -> Entry] /\ DOMAIN l = 1 .. n
  OBVIOUS
<1>2. l[j] \in Entry /\ l[j].left \in Nat /\ l[j].stack \in Stack /\ l[j].left - q \in Nat /\ q \in Nat
  <2>1. l[j] \in Entry
    OBVIOUS
  <2>2. l[j].left \in Nat /\ l[j].stack \in Stack
    BY <2>1 DEF Entry
  <2> QED
    BY <2>1, <2>2
<1>3. /\ DOMAIN m = 1 .. n /\ \A i \in 1 .. n : i # j => m[i] = l[i]
      /\ m[j] = [l[j] EXCEPT !.left = l[j].left - q]
  BY <1>1
<1>4. m[j] \in Entry /\ m[j].stack = l[j].stack /\ m[j].left = l[j].left - q
  <2>1. l[j] \in [stack : Stack, left : Nat]
    BY <1>2 DEF Entry
  <2> QED
    BY <1>2, <1>3, <2>1 DEF Entry
<1>5. m \in Seq(Entry)
  <2>1. m = [i \in 1 .. n |-> m[i]]
    BY <1>1
  <2> HIDE DEF n, m
  <2>2. \A i \in 1 .. n : m[i] \in Entry
    BY <1>1, <1>3, <1>4
  <2>3. m \in [1 .. n -> Entry]
    BY <2>1, <2>2
  <2> QED
    BY <1>1, <2>3
<1> HIDE DEF m, n
<1>6. \A i \in 1 .. n : m[i].stack = l[i].stack
  BY <1>3, <1>4
<1>7. ASSUME Single(l) PROVE Single(m)
  BY <1>1, <1>3, <1>6, <1>7 DEF Single
<1>8. ASSUME Single(l), NEW s
      PROVE  Units(m, s) = Units(l, s) - (IF s = l[j].stack THEN q ELSE 0)
  <2>1. Single(m)
    BY <1>7, <1>8
  <2>2. CASE s = l[j].stack
    <3>1. Units(m, m[j].stack) = m[j].left /\ Units(l, l[j].stack) = l[j].left
      BY <1>1, <1>3, <1>5, <1>8, <2>1, UnitsOfSingle
    <3> QED
      BY <1>4, <2>2, <3>1
  <2>3. CASE s # l[j].stack /\ Lists(l, s)
    <3>1. PICK i \in 1 .. n : l[i].stack = s
      BY <1>1, <2>3 DEF Lists
    <3>2. i # j /\ m[i] = l[i]
      BY <1>3, <2>3, <3>1
    <3>3. Units(m, m[i].stack) = m[i].left /\ Units(l, l[i].stack) = l[i].left
      BY <1>1, <1>3, <1>5, <1>8, <2>1, UnitsOfSingle
    <3>4. Units(l, s) \in Nat
      BY UnitsType
    <3> QED
      BY <2>3, <3>1, <3>2, <3>3, <3>4
  <2>4. CASE s # l[j].stack /\ ~Lists(l, s)
    <3>1. ~Lists(m, s)
      BY <1>1, <1>3, <1>6, <2>4 DEF Lists
    <3>2. Units(m, s) = 0 /\ Units(l, s) = 0
      BY <1>5, <2>4, <3>1, UnitsOfNone
    <3>3. (IF s = l[j].stack THEN q ELSE 0) = 0
      BY <2>4
    <3>4. Units(l, s) - 0 = 0
      BY <3>2
    <3> QED
      BY <3>2, <3>3, <3>4
  <2> QED
    BY <2>2, <2>3, <2>4
<1>9. \A s : Units(m, s) \in Nat
  BY <1>5, UnitsType
<1> QED
  BY <1>5, <1>7, <1>8, <1>9 DEF m

LEMMA UnitsOfSold ==
  ASSUME NEW l \in Seq(Entry), Single(l), NEW j \in DOMAIN l, NEW q \in 1 .. l[j].left,
         NEW s
  PROVE  Units([l EXCEPT ![j].left = @ - q], s)
           = Units(l, s) - (IF s = l[j].stack THEN q ELSE 0)
<1> DEFINE m == [l EXCEPT ![j].left = @ - q]
<1>1. Single(l) => \A t : /\ Units(m, t) = Units(l, t) - (IF t = l[j].stack THEN q ELSE 0)
                          /\ Units(m, t) \in Nat
  BY SoldDoes
<1> HIDE DEF m
<1>2. Units(m, s) = Units(l, s) - (IF s = l[j].stack THEN q ELSE 0)
  BY <1>1
<1> QED
  BY <1>2 DEF m

\* What is saved of a list is what was left in it; so with what is kept of it.
LEMMA RowsDoes ==
  ASSUME NEW l \in Seq(Entry), NEW one \in BOOLEAN
  PROVE  /\ Rows(l, one) \in Seq(Entry)
         /\ Single(l) => /\ Single(Rows(l, one))
                         /\ \A s : Units(Rows(l, one), s) = Units(l, s)
<1> DEFINE n == Len(l)
<1>1. PICK r \in [0 .. n -> Seq(Entry)] :
           /\ r[0] = <<>>
           /\ \A i \in 1 .. n :
                r[i] = IF l[i].left > 0 THEN Put(r[i - 1], l[i], one) ELSE r[i - 1]
           /\ Rows(l, one) = r[n]
  BY RowsRun
<1>2. n \in Nat /\ DOMAIN l = 1 .. n /\ \A i \in 1 .. n : l[i] \in Entry
  OBVIOUS
<1> HIDE DEF n
<1>3. Rows(l, one) \in Seq(Entry)
  BY <1>1, <1>2
<1>4. ASSUME Single(l)
      PROVE  /\ Single(r[n])
             /\ \A e : Has(r[n], e) <=> \E j \in 1 .. n : l[j] = e /\ e.left > 0
  <2> DEFINE Saved(i) == /\ Single(r[i])
                         /\ \A e : Has(r[i], e) <=> \E j \in 1 .. i : l[j] = e /\ e.left > 0
             S == {i \in 0 .. n : Saved(i)}
  <2>1. 0 \in S
    BY <1>1, <1>2 DEF Single, Has
  <2>2. ASSUME NEW i \in 1 .. n, i - 1 \in S
        PROVE  i \in S
    <3>1. Saved(i - 1) /\ r[i - 1] \in Seq(Entry) /\ l[i] \in Entry
      BY <1>1, <1>2, <2>2
    <3>2. CASE l[i].left > 0
      <4>1. ~Lists(r[i - 1], l[i].stack)
        <5>1. SUFFICES ASSUME NEW k \in DOMAIN r[i - 1], r[i - 1][k].stack = l[i].stack
                       PROVE  FALSE
          BY DEF Lists
        <5>2. Has(r[i - 1], r[i - 1][k])
          BY DEF Has
        <5>3. PICK j \in 1 .. i - 1 : l[j] = r[i - 1][k]
          BY <3>1, <5>2
        <5>4. j \in DOMAIN l /\ i \in DOMAIN l /\ j # i /\ l[j].stack = l[i].stack
          BY <1>2, <5>1, <5>3
        <5> QED
          BY <1>4, <5>4 DEF Single
      <4>2. r[i] = Append(r[i - 1], l[i])
        BY <1>1, <3>2, <4>1 DEF Put
      <4>3. Single(r[i]) /\ \A e : Has(r[i], e) <=> Has(r[i - 1], e) \/ e = l[i]
        BY <3>1, <4>1, <4>2, AppendDoes
      <4>4. ASSUME NEW e
            PROVE  Has(r[i], e) <=> \E j \in 1 .. i : l[j] = e /\ e.left > 0
        <5>1. Has(r[i - 1], e) <=> \E j \in 1 .. i - 1 : l[j] = e /\ e.left > 0
          BY <3>1
        <5>2. \A j : j \in 1 .. i <=> j \in 1 .. i - 1 \/ j = i
          BY <1>2
        <5> QED
          BY <3>2, <4>3, <5>1, <5>2
      <4> QED
        BY <4>3, <4>4
    <3>3. CASE ~(l[i].left > 0)
      <4>1. r[i] = r[i - 1]
        BY <1>1, <3>3
      <4>2. \A j : j \in 1 .. i <=> j \in 1 .. i - 1 \/ j = i
        BY <1>2
      <4> QED
        BY <3>1, <3>3, <4>1, <4>2
    <3> QED
      BY <3>2, <3>3
  <2>3. n \in S
    <3>1. \A i \in 1 .. n : i - 1 \in S => i \in S
      BY <2>2
    <3> HIDE DEF S
    <3>2. \A i \in 0 .. n : i \in S
      BY <1>2, <2>1, <3>1, UpTo
    <3> QED
      BY <1>2, <3>2
  <2> QED
    BY <2>3
<1>5. ASSUME Single(l) PROVE \A s : Units(Rows(l, one), s) = Units(l, s)
  <2>1. ASSUME NEW e \in Entry, e.left > 0
        PROVE  Has(Rows(l, one), e) <=> Has(l, e)
    <3>1. Has(l, e) <=> \E j \in 1 .. n : l[j] = e
      BY <1>2 DEF Has
    <3>2. Rows(l, one) = r[n]
      BY <1>1
    <3> QED
      BY <1>4, <1>5, <2>1, <3>1, <3>2
  <2> QED
    BY <1>1, <1>3, <1>4, <1>5, <2>1, SameGoods
<1> QED
  BY <1>1, <1>3, <1>4, <1>5

LEMMA TidiedDoes ==
  ASSUME NEW l \in Seq(Entry)
  PROVE  /\ Tidied(l) \in Seq(Entry)
         /\ Single(l) => /\ Single(Tidied(l))
                         /\ \A s : Units(Tidied(l), s) = Units(l, s)
<1> DEFINE n == Len(l)
<1>1. PICK r \in [0 .. n -> [kept : Seq(Entry), pass : BOOLEAN]] :
           /\ r[0] = [kept |-> <<>>, pass |-> FALSE]
           /\ \A i \in 1 .. n :
                r[i] = IF l[i].left = 0 /\ ~r[i - 1].pass
                       THEN [kept |-> r[i - 1].kept, pass |-> TRUE]
                       ELSE [kept |-> Append(r[i - 1].kept, l[i]), pass |-> FALSE]
           /\ Tidied(l) = r[n].kept
  BY TidiedRun
<1>2. n \in Nat /\ DOMAIN l = 1 .. n /\ \A i \in 1 .. n : l[i] \in Entry
  OBVIOUS
<1> HIDE DEF n
<1>3. Tidied(l) \in Seq(Entry)
  <2>1. r[n] \in [kept : Seq(Entry), pass : BOOLEAN]
    BY <1>1, <1>2
  <2> QED
    BY <1>1, <2>1
<1>4. ASSUME Single(l)
      PROVE  /\ Single(r[n].kept)
             /\ \A e : Has(r[n].kept, e) => \E j \in 1 .. n : l[j] = e
             /\ \A j \in 1 .. n : l[j].left > 0 => Has(r[n].kept, l[j])
  <2> DEFINE Left(i) == /\ Single(r[i].kept)
                        /\ \A e : Has(r[i].kept, e) => \E j \in 1 .. i : l[j] = e
                        /\ \A j \in 1 .. i : l[j].left > 0 => Has(r[i].kept, l[j])
             S == {i \in 0 .. n : Left(i)}
  <2>1. 0 \in S
    <3>1. r[0].kept = <<>>
      BY <1>1
    <3> QED
      BY <1>2, <3>1 DEF Single, Has
  <2>2. ASSUME NEW i \in 1 .. n, i - 1 \in S
        PROVE  i \in S
    <3>1. Left(i - 1) /\ r[i - 1].kept \in Seq(Entry) /\ l[i] \in Entry
      <4>1. i - 1 \in 0 .. n
        BY <1>2
      <4>2. r[i - 1] \in [kept : Seq(Entry), pass : BOOLEAN]
        <5> HIDE DEF Left, S
        <5> QED
          BY <4>1
      <4> QED
        BY <1>2, <2>2, <4>1, <4>2
    <3>2. \A j : j \in 1 .. i <=> j \in 1 .. i - 1 \/ j = i
      BY <1>2
    <3>3. CASE l[i].left = 0 /\ ~r[i - 1].pass
      <4>1. r[i] = [kept |-> r[i - 1].kept, pass |-> TRUE]
        BY <1>1, <3>3
      <4>2. r[i].kept = r[i - 1].kept
        BY <4>1
      <4> QED
        BY <3>1, <3>2, <3>3, <4>2
    <3>4. CASE ~(l[i].left = 0 /\ ~r[i - 1].pass)
      <4>1. ~Lists(r[i - 1].kept, l[i].stack)
        <5>1. SUFFICES ASSUME NEW k \in DOMAIN r[i - 1].kept,
                              r[i - 1].kept[k].stack = l[i].stack
                       PROVE  FALSE
          BY DEF Lists
        <5>2. Has(r[i - 1].kept, r[i - 1].kept[k])
          BY DEF Has
        <5>3. PICK j \in 1 .. i - 1 : l[j] = r[i - 1].kept[k]
          BY <3>1, <5>2
        <5>4. j \in DOMAIN l /\ i \in DOMAIN l /\ j # i /\ l[j].stack = l[i].stack
          BY <1>2, <5>1, <5>3
        <5> QED
          BY <1>4, <5>4 DEF Single
      <4>2. r[i].kept = Append(r[i - 1].kept, l[i])
        <5>1. r[i] = [kept |-> Append(r[i - 1].kept, l[i]), pass |-> FALSE]
          BY <1>1, <3>4
        <5> QED
          BY <5>1
      <4>3. Single(r[i].kept) /\ \A e : Has(r[i].kept, e) <=> Has(r[i - 1].kept, e) \/ e = l[i]
        BY <3>1, <4>1, <4>2, AppendDoes
      <4> QED
        BY <3>1, <3>2, <4>3
    <3> QED
      BY <3>3, <3>4
  <2>3. n \in S
    <3>1. \A i \in 1 .. n : i - 1 \in S => i \in S
      BY <2>2
    <3> HIDE DEF S
    <3>2. \A i \in 0 .. n : i \in S
      BY <1>2, <2>1, <3>1, UpTo
    <3> QED
      BY <1>2, <3>2
  <2> QED
    BY <2>3
<1>5. ASSUME Single(l) PROVE \A s : Units(Tidied(l), s) = Units(l, s)
  <2>1. ASSUME NEW e \in Entry, e.left > 0
        PROVE  Has(Tidied(l), e) <=> Has(l, e)
    <3>1. Has(l, e) <=> \E j \in 1 .. n : l[j] = e
      BY <1>2 DEF Has
    <3>2. Tidied(l) = r[n].kept
      BY <1>1
    <3> QED
      BY <1>4, <1>5, <2>1, <3>1, <3>2
  <2> QED
    BY <1>1, <1>3, <1>4, <1>5, <2>1, SameGoods
<1> QED
  BY <1>1, <1>3, <1>4, <1>5

LEMMA TaxType ==
  ASSUME NEW m \in Nat
  PROVE  EntrustedStoreTax(m) \in Nat
<1> DEFINE r == {b[2] : b \in {x \in Bracket : m >= x[1]}}
<1>1. r \subseteq {4, 9, 15, 20, 25, 30}
  BY DEF Bracket
<1>2. PerMille(m) \in Nat
  <2>1. CASE r = {}
    BY <2>1 DEF PerMille
  <2>2. CASE r # {}
    <3>1. \E x \in r : \A y \in r : y <= x
      <4> HIDE DEF r
      <4>1. CASE 30 \in r
        BY <1>1, <4>1
      <4>2. CASE 30 \notin r /\ 25 \in r
        BY <1>1, <4>2
      <4>3. CASE 30 \notin r /\ 25 \notin r /\ 20 \in r
        BY <1>1, <4>3
      <4>4. CASE 30 \notin r /\ 25 \notin r /\ 20 \notin r /\ 15 \in r
        BY <1>1, <4>4
      <4>5. CASE 30 \notin r /\ 25 \notin r /\ 20 \notin r /\ 15 \notin r /\ 9 \in r
        BY <1>1, <4>5
      <4>6. CASE 30 \notin r /\ 25 \notin r /\ 20 \notin r /\ 15 \notin r /\ 9 \notin r
        <5>1. r = {4}
          BY <1>1, <2>2, <4>6
        <5> QED
          BY <5>1
      <4> QED
        BY <4>1, <4>2, <4>3, <4>4, <4>5, <4>6
    <3>2. PerMille(m) = CHOOSE x \in r : \A y \in r : y <= x
      BY <2>2 DEF PerMille
    <3>3. PerMille(m) \in r
      <4> HIDE DEF r
      <4> QED
        BY <3>1, <3>2
    <3>4. PerMille(m) \in {4, 9, 15, 20, 25, 30}
      BY <1>1, <3>3
    <3> QED
      BY <3>4
  <2> QED
    BY <2>1, <2>2
<1>3. PerMille(m) * m \in Nat
  BY <1>2
<1> QED
  BY <1>3 DEF EntrustedStoreTax

----
(***************************************************************************)
(* Bags. What addFromDrop leaves is a bag, and one with all the units      *)
(* unless some were lost or the kind was refused; so is what Handed leaves *)
(* of a list, for every entry of which check has kept a slot free.         *)
(***************************************************************************)

Outcome == [bag : Bag, lost : BOOLEAN]

LEMMA FilledType ==
  ASSUME NEW b \in Bag, NEW s \in Stack, NEW u \in Int, NEW k \in Int,
         b.units[s] + u \in Nat, b.slots[s] + k \in Nat, b.free - k \in Nat
  PROVE  Filled(b, s, u, k) \in Bag
BY DEF Filled, Bag

\* The stacks of a kind: what one of them holds, the bag holds.
LEMMA SizesType ==
  ASSUME NEW b \in Bag, NEW s \in Stack, NEW p \in Sizes(b, s)
  PROVE  /\ p \in Nat \ {0} /\ p <= SlotMax[s] /\ SlotMax[s] \in Nat \ {0}
         /\ p <= b.units[s] /\ b.slots[s] > 0
         /\ b.units[s] \in Nat /\ b.slots[s] \in Nat /\ b.free \in Nat
<1>1. b.units[s] \in Nat /\ b.slots[s] \in Nat /\ b.free \in Nat
  BY DEF Bag
<1>2. SlotMax[s] \in Nat \ {0}
  BY MerchantAssumption
<1>3. p \in 1 .. SlotMax[s] /\ b.slots[s] > 0 /\ b.slots[s] - 1 <= b.units[s] - p
  BY DEF Sizes
<1> QED
  BY <1>1, <1>2, <1>3

LEMMA AddType ==
  ASSUME NEW c, NEW b \in Bag, NEW s \in Stack, NEW q \in Nat,
         NEW o \in addFromDrop(c, b, s, q)
  PROVE  o \in Outcome
<1>1. b.units[s] \in Nat /\ b.slots[s] \in Nat /\ b.free \in Nat
  BY DEF Bag
<1>2. CASE q = 0 \/ HasOne(c, b, s) \/ ~(Room(b, s) > 0 \/ b.free > 0)
  <2>1. o = [bag |-> b, lost |-> FALSE]
    BY <1>2 DEF addFromDrop
  <2> QED
    BY <2>1 DEF Outcome
<1>3. CASE ~(q = 0 \/ HasOne(c, b, s)) /\ Room(b, s) > 0
  <2>1. PICK p \in Sizes(b, s) :
          o = [bag  |-> Filled(b, s, IF p + q <= SlotMax[s] THEN q ELSE SlotMax[s] - p, 0),
               lost |-> p + q > SlotMax[s]]
    BY <1>3 DEF addFromDrop
  <2>2. p \in Nat /\ p <= SlotMax[s] /\ SlotMax[s] \in Nat
    BY SizesType
  <2> DEFINE u == IF p + q <= SlotMax[s] THEN q ELSE SlotMax[s] - p
  <2>3. u \in Nat
    BY <2>2
  <2> HIDE DEF u
  <2>4. Filled(b, s, u, 0) \in Bag
    BY <1>1, <2>3, FilledType
  <2> QED
    BY <2>1, <2>4 DEF Outcome, u
<1>4. CASE ~(q = 0 \/ HasOne(c, b, s)) /\ ~(Room(b, s) > 0) /\ b.free > 0
  <2>1. o = [bag |-> Filled(b, s, q, 1), lost |-> FALSE]
    BY <1>4 DEF addFromDrop
  <2>2. b.units[s] + q \in Nat /\ b.slots[s] + 1 \in Nat /\ b.free - 1 \in Nat
    BY <1>1, <1>4
  <2>3. Filled(b, s, q, 1) \in Bag
    BY <2>2, FilledType
  <2> QED
    BY <2>1, <2>3 DEF Outcome
<1> QED
  BY <1>2, <1>3, <1>4

\* Nothing lost, nothing refused: the units are in the bag, in one more slot at most.
LEMMA AddDoes ==
  ASSUME NEW c, NEW b \in Bag, NEW s \in Stack, NEW q \in Nat,
         NEW o \in addFromDrop(c, b, s, q), ~o.lost, ~HasOne(c, b, s),
         q > 0 => Room(b, s) > 0 \/ b.free > 0
  PROVE  /\ o.bag.units[s] = b.units[s] + q
         /\ \A t \in Stack \ {s} : o.bag.units[t] = b.units[t]
         /\ o.bag.free >= b.free - 1
<1>1. b.units \in [Stack -> Nat] /\ b.free \in Nat
  BY DEF Bag
<1>2. CASE q = 0
  <2>1. o.bag = b
    BY <1>2 DEF addFromDrop
  <2> QED
    BY <1>1, <1>2, <2>1
<1>3. CASE q # 0 /\ Room(b, s) > 0
  <2>1. PICK p \in Sizes(b, s) :
          o = [bag  |-> Filled(b, s, IF p + q <= SlotMax[s] THEN q ELSE SlotMax[s] - p, 0),
               lost |-> p + q > SlotMax[s]]
    BY <1>3 DEF addFromDrop
  <2>2. p \in Nat /\ SlotMax[s] \in Nat
    BY SizesType
  <2>3. p + q <= SlotMax[s]
    <3>1. o.lost = (p + q > SlotMax[s])
      BY <2>1
    <3>2. ~(p + q > SlotMax[s])
      BY <3>1
    <3> QED
      BY <2>2, <3>2
  <2>4. o.bag = Filled(b, s, q, 0)
    BY <2>1, <2>3
  <2> QED
    BY <1>1, <2>4 DEF Filled
<1>4. CASE q # 0 /\ ~(Room(b, s) > 0)
  <2>1. o.bag = Filled(b, s, q, 1)
    BY <1>4 DEF addFromDrop
  <2> QED
    BY <1>1, <2>1 DEF Filled
<1> QED
  BY <1>2, <1>3, <1>4

\* checkSpace keeps what it asks for.
LEMMA SpaceDoes ==
  ASSUME NEW c, bag[c] \in Bag, NEW s \in Stack, NEW q \in Nat, checkSpace(c, s, q),
         NEW o \in addFromDrop(c, bag[c], s, q), ~o.lost
  PROVE  /\ o.bag.units[s] = bag[c].units[s] + q
         /\ \A t \in Stack \ {s} : o.bag.units[t] = bag[c].units[t]
<1>1. SlotMax[s] \in Nat /\ bag[c].free \in Nat /\ Room(bag[c], s) \in Int
  BY MerchantAssumption DEF Bag, Room
<1>2. Room(bag[c], s) > 0 \/ bag[c].free > 0
  <2> SUFFICES ASSUME bag[c].free = 0 PROVE Room(bag[c], s) > 0
    BY <1>1
  <2>1. bag[c].free * SlotMax[s] = 0
    BY <1>1
  <2>2. q > 0 /\ q <= Room(bag[c], s) + bag[c].free * SlotMax[s]
    BY DEF checkSpace
  <2> QED
    BY <1>1, <2>1, <2>2
<1>3. ~HasOne(c, bag[c], s)
  BY DEF checkSpace
<1>4. PICK b : b = bag[c]
  OBVIOUS
<1>5. b \in Bag /\ o \in addFromDrop(c, b, s, q)
  BY <1>4
<1>6. ~HasOne(c, b, s) /\ (q > 0 => Room(b, s) > 0 \/ b.free > 0)
  BY <1>2, <1>3, <1>4
<1>7. /\ o.bag.units[s] = b.units[s] + q
      /\ \A t \in Stack \ {s} : o.bag.units[t] = b.units[t]
      /\ o.bag.free >= b.free - 1
  <2> HIDE <1>4
  <2> QED
    BY <1>5, <1>6, AddDoes
<1> QED
  BY <1>4, <1>7

\* The sets of outcomes along a list, one after each entry.
LEMMA HandedRun ==
  ASSUME NEW c \in Char, bag[c] \in Bag, NEW l \in Seq(Entry)
  PROVE  \E after \in [0 .. Len(l) -> SUBSET Outcome] :
           /\ after[0] = {[bag |-> bag[c], lost |-> FALSE]}
           /\ \A i \in 1 .. Len(l) :
                after[i] = UNION {{[bag |-> r.bag, lost |-> o.lost \/ r.lost] :
                                     r \in addFromDrop(c, o.bag, l[i].stack, l[i].left)} :
                                  o \in after[i - 1]}
           /\ Handed(c, l) = after[Len(l)]
<1> DEFINE n == Len(l)
           V == SUBSET Outcome
           b == {[bag |-> bag[c], lost |-> FALSE]}
           nx(i, v) == UNION {{[bag |-> r.bag, lost |-> o.lost \/ r.lost] :
                                 r \in addFromDrop(c, o.bag, l[i].stack, l[i].left)} : o \in v}
           P(u) == u = [i \in 0 .. n |-> IF i = 0 THEN b ELSE nx(i, u[i - 1])]
           g == [i \in 1 .. n |-> [v \in V |-> nx(i, v)]]
<1>1. n \in Nat /\ b \in V
  BY DEF Outcome
<1>2. ASSUME NEW i \in 1 .. n, NEW v \in V
      PROVE  nx(i, v) \in V
  <2>1. l[i].stack \in Stack /\ l[i].left \in Nat
    <3>1. l[i] \in Entry
      OBVIOUS
    <3> QED
      BY <3>1 DEF Entry
  <2> SUFFICES ASSUME NEW o \in v,
                      NEW r \in addFromDrop(c, o.bag, l[i].stack, l[i].left)
               PROVE  [bag |-> r.bag, lost |-> o.lost \/ r.lost] \in Outcome
    OBVIOUS
  <2>2. o.bag \in Bag /\ o.lost \in BOOLEAN
    BY DEF Outcome
  <2>3. r \in Outcome
    BY <2>1, <2>2, AddType
  <2> QED
    BY <2>2, <2>3 DEF Outcome
<1>3. g \in [1 .. n -> [V -> V]]
  <2> HIDE DEF n, V, nx
  <2> QED
    BY <1>2
<1>4. PICK f \in [0 .. n -> V] : f[0] = b /\ \A i \in 1 .. n : f[i] = g[i][f[i - 1]]
  <2> HIDE DEF n, g, nx, P, V, b
  <2>1. \E f : Steps(f, n, V, b, g)
    BY <1>1, <1>3, StepByStep
  <2> QED
    BY <2>1 DEF Steps
<1>5. P(f)
  <2> HIDE DEF n, nx, P, V, b
  <2>1. \A i \in 1 .. n : f[i] = nx(i, f[i - 1])
    <3> TAKE i \in 1 .. n
    <3>1. f[i - 1] \in V
      BY <1>1, <1>4
    <3>2. g[i] = [v \in V |-> nx(i, v)]
      OBVIOUS
    <3> HIDE DEF g
    <3> QED
      BY <1>4, <3>1, <3>2
  <2> HIDE DEF g
  <2> USE DEF P
  <2> QED
    BY <1>1, <1>4, <2>1
<1>6. PICK u : P(u) /\ Handed(c, l) = u[n]
  <2>1. Handed(c, l) = (CHOOSE u : P(u))[n]
    BY DEF Handed
  <2>2. P(CHOOSE u : P(u))
    <3> HIDE DEF P
    <3> QED
      BY <1>5
  <2> HIDE DEF P, n
  <2> QED
    BY <2>1, <2>2
<1>7. u[0] = b /\ \A i \in 1 .. n : u[i] = nx(i, u[i - 1])
  <2> HIDE DEF nx, n, b
  <2> QED
    BY <1>1, <1>6
<1>8. u \in [0 .. n -> V]
  <2> DEFINE S == {i \in 0 .. n : u[i] \in V}
  <2>1. 0 \in S
    <3> HIDE DEF n, b, V
    <3> QED
      BY <1>1, <1>7
  <2>2. \A i \in 1 .. n : i - 1 \in S => i \in S
    <3> HIDE DEF n, V, nx
    <3> QED
      BY <1>1, <1>2, <1>7
  <2>3. \A i \in 0 .. n : i \in S
    <3> HIDE DEF S, n
    <3> QED
      BY <1>1, <2>1, <2>2, UpTo
  <2>4. u = [i \in 0 .. n |-> u[i]]
    <3> HIDE DEF nx, n, b
    <3> QED
      BY <1>6
  <2> HIDE DEF n, V
  <2> QED
    BY <2>3, <2>4
<1> QED
  <2> HIDE DEF V, b
  <2>1. V = SUBSET Outcome /\ b = {[bag |-> bag[c], lost |-> FALSE]}
    BY DEF V, b
  <2> QED
    BY <1>6, <1>7, <1>8, <2>1

LEMMA HandedType ==
  ASSUME NEW c \in Char, bag[c] \in Bag, NEW l \in Seq(Entry), NEW o \in Handed(c, l)
  PROVE  o \in Outcome
BY HandedRun

\* A bag after the first i entries of l, of which nothing was lost, had it been b.
Holding(l, b, i, d) ==
  /\ d.free >= b.free - i
  /\ \A j \in 1 .. i : d.units[l[j].stack] = b.units[l[j].stack] + l[j].left
  /\ \A s \in Stack : (\A j \in 1 .. i : l[j].stack # s) => d.units[s] = b.units[s]

LEMMA HoldingStep ==
  ASSUME NEW c, NEW b \in Bag, NEW l \in Seq(Entry), Single(l), Len(l) <= b.free,
         \A j \in DOMAIN l : l[j].stack \in Only => Possessed(c, b, l[j].stack) = 0,
         NEW i \in 1 .. Len(l), NEW d \in Bag, Holding(l, b, i - 1, d),
         NEW r \in addFromDrop(c, d, l[i].stack, l[i].left), ~r.lost
  PROVE  Holding(l, b, i, r.bag)
<1> DEFINE s == l[i].stack
           q == l[i].left
<1>1. s \in Stack /\ q \in Nat /\ i \in Nat /\ i - 1 \in Nat /\ Len(l) \in Nat
      /\ DOMAIN l = 1 .. Len(l) /\ i \in DOMAIN l
  <2>1. l[i] \in Entry
    OBVIOUS
  <2> QED
    BY <2>1 DEF Entry
<1>2. \A j \in 1 .. (i - 1) : j \in DOMAIN l /\ l[j].stack # s
  BY <1>1 DEF Single
<1>3. d.units[s] = b.units[s]
  <2> HIDE DEF s
  <2> QED
    BY <1>1, <1>2 DEF Holding
<1>4. ~HasOne(c, d, s)
  <2>1. s \in Only => Possessed(c, b, s) = 0
    BY <1>1
  <2>2. Possessed(c, d, s) = Possessed(c, b, s)
    BY <1>3 DEF Possessed
  <2> HIDE DEF s
  <2> QED
    BY <2>1, <2>2 DEF HasOne
<1>5. d.free > 0 /\ d.free \in Nat /\ b.free \in Nat
  BY <1>1 DEF Holding, Bag
<1>6. r \in addFromDrop(c, d, s, q)
  OBVIOUS
<1> HIDE DEF s, q
<1>7. /\ r.bag.units[s] = d.units[s] + q
      /\ \A t \in Stack \ {s} : r.bag.units[t] = d.units[t]
      /\ r.bag.free >= d.free - 1
  BY <1>1, <1>4, <1>5, <1>6, AddDoes
<1>8. r \in Outcome
  BY <1>1, <1>6, AddType
<1>9. r.bag.free >= b.free - i
  <2>1. r.bag.free \in Nat
    BY <1>8 DEF Outcome, Bag
  <2> QED
    BY <1>1, <1>5, <1>7, <2>1 DEF Holding
<1>10. ASSUME NEW j \in 1 .. i
       PROVE  r.bag.units[l[j].stack] = b.units[l[j].stack] + l[j].left
  <2>1. CASE j = i
    BY <1>3, <1>7, <2>1 DEF s, q
  <2>2. CASE j # i
    <3>1. j \in 1 .. (i - 1) /\ l[j] \in Entry
      BY <1>1, <2>2
    <3>2. l[j].stack \in Stack \ {s}
      BY <1>2, <3>1 DEF Entry
    <3> QED
      BY <1>7, <3>1, <3>2 DEF Holding
  <2> QED
    BY <2>1, <2>2
<1>11. ASSUME NEW t \in Stack, \A j \in 1 .. i : l[j].stack # t
       PROVE  r.bag.units[t] = b.units[t]
  <2>1. t # s
    BY <1>1, <1>11 DEF s
  <2>2. \A j \in 1 .. (i - 1) : l[j].stack # t
    BY <1>1, <1>11
  <2> QED
    BY <1>7, <2>1, <2>2 DEF Holding
<1> QED
  BY <1>9, <1>10, <1>11 DEF Holding

\* What Fredrick hands out without a loss is the list, if check let it pass.
LEMMA HandedDoes ==
  ASSUME NEW c \in Char, bag[c] \in Bag, NEW l \in Seq(Entry), Single(l), check(c, l),
         NEW o \in Handed(c, l), ~o.lost
  PROVE  \A s \in Stack : o.bag.units[s] = bag[c].units[s] + Units(l, s)
<1>1. PICK b : b = bag[c]
  OBVIOUS
<1>2. /\ b \in Bag /\ Len(l) <= b.free
      /\ \A j \in DOMAIN l : l[j].stack \in Only => Possessed(c, b, l[j].stack) = 0
  BY <1>1 DEF check
<1>3. PICK after \in [0 .. Len(l) -> SUBSET Outcome] :
           /\ after[0] = {[bag |-> b, lost |-> FALSE]}
           /\ \A i \in 1 .. Len(l) :
                after[i] = UNION {{[bag |-> r.bag, lost |-> e.lost \/ r.lost] :
                                     r \in addFromDrop(c, e.bag, l[i].stack, l[i].left)} :
                                  e \in after[i - 1]}
           /\ Handed(c, l) = after[Len(l)]
  BY <1>1, HandedRun
<1> DEFINE n == Len(l)
           Good(i) == \A e \in after[i] : ~e.lost => Holding(l, b, i, e.bag)
           S == {i \in 0 .. n : Good(i)}
<1>4. n \in Nat /\ DOMAIN l = 1 .. n
  OBVIOUS
<1>5. Good(0)
  <2>1. \A e \in after[0] : e.bag = b
    BY <1>3
  <2>2. Holding(l, b, 0, b)
    BY <1>2 DEF Holding, Bag
  <2> QED
    BY <2>1, <2>2
<1>6. ASSUME NEW i \in 1 .. n, Good(i - 1)
      PROVE  Good(i)
  <2> SUFFICES ASSUME NEW x \in after[i], ~x.lost
               PROVE  Holding(l, b, i, x.bag)
    OBVIOUS
  <2>1. PICK e \in after[i - 1] : \E r \in addFromDrop(c, e.bag, l[i].stack, l[i].left) :
               x = [bag |-> r.bag, lost |-> e.lost \/ r.lost]
    BY <1>3
  <2>2. PICK r \in addFromDrop(c, e.bag, l[i].stack, l[i].left) :
               x = [bag |-> r.bag, lost |-> e.lost \/ r.lost]
    BY <2>1
  <2>3. x.bag = r.bag /\ ~e.lost /\ ~r.lost
    BY <2>2
  <2>4. e \in Outcome
    <3>1. i - 1 \in 0 .. n
      BY <1>4
    <3> QED
      BY <1>3, <3>1
  <2>5. e.bag \in Bag /\ Holding(l, b, i - 1, e.bag)
    BY <1>6, <2>3, <2>4 DEF Outcome
  <2> QED
    BY <1>2, <2>3, <2>5, HoldingStep
<1>7. Good(n)
  <2>1. \A i \in 1 .. n : i - 1 \in S => i \in S
    <3> HIDE DEF Good, n
    <3> QED
      BY <1>4, <1>6
  <2>2. 0 \in S
    BY <1>4, <1>5
  <2>3. \A i \in 0 .. n : i \in S
    <3> HIDE DEF S, n
    <3> QED
      BY <1>4, <2>1, <2>2, UpTo
  <2> HIDE DEF n
  <2> QED
    BY <1>4, <2>3
<1>8. Holding(l, b, n, o.bag)
  BY <1>3, <1>7
<1>9. ASSUME NEW s \in Stack
      PROVE  o.bag.units[s] = b.units[s] + Units(l, s)
  <2>1. CASE Lists(l, s)
    <3>1. PICK j \in DOMAIN l : l[j].stack = s
      BY <2>1 DEF Lists
    <3>2. Units(l, s) = l[j].left
      BY <3>1, UnitsOfSingle
    <3> QED
      BY <1>4, <1>8, <3>1, <3>2 DEF Holding
  <2>2. CASE ~Lists(l, s)
    <3>1. Units(l, s) = 0 /\ b.units[s] \in Nat
      BY <1>2, <2>2, UnitsOfNone DEF Bag
    <3>2. o.bag.units[s] = b.units[s]
      BY <1>4, <1>8, <2>2 DEF Holding, Lists
    <3> QED
      BY <3>1, <3>2
  <2> QED
    BY <2>1, <2>2
<1> QED
  BY <1>1, <1>9

----
(***************************************************************************)
(* Types: GoodsOK with ShopsOK is TypeOK, and inductive with Book.         *)
(***************************************************************************)

GoodsOK ==
  /\ purse \in [Char -> 0 .. MaxMeso] /\ bag \in [Char -> Bag]
  /\ items \in [Inst -> Seq(Entry)] /\ till \in [Inst -> 0 .. MaxMeso]
  /\ row \in [Char -> NoRow .. MaxMeso] /\ goods \in [Account -> Seq(Entry)]
  /\ kept \in [Char -> Copy]

LEMMA CopyType ==
  ASSUME GoodsOK, NEW c \in Char
  PROVE  CopyOf(c) \in Copy
BY DEF GoodsOK, CopyOf, Copy

LEMMA SaveItemsType ==
  ASSUME GoodsOK, NEW n, NEW l \in Seq(Entry), NEW m \in 0 .. MaxMeso,
         saveItems(n, l, m)
  PROVE  row' \in [Char -> NoRow .. MaxMeso] /\ goods' \in [Account -> Seq(Entry)]
<1>1. row' \in [Char -> NoRow .. MaxMeso]
  <2>1. m \in NoRow .. MaxMeso
    BY MerchantAssumption DEF NoRow
  <2> QED
    BY <2>1 DEF GoodsOK, saveItems
<1>2. PICK one \in BOOLEAN : goods' = [goods EXCEPT ![AccountOf[owner[n]]] = Rows(l, one)]
  BY DEF saveItems
<1>3. Rows(l, one) \in Seq(Entry)
  BY RowsDoes
<1> QED
  BY <1>1, <1>2, <1>3 DEF GoodsOK

\* What a closing does to the goods and the mesos.
Closing(n) ==
  /\ saveItems(n, items[n], till[n])
  /\ items' = [items EXCEPT ![n] = <<>>]
  /\ placed' = [placed EXCEPT ![n] = FALSE]
  /\ UNCHANGED <<owner, till>>

LEMMA ClosingType ==
  ASSUME GoodsOK, NEW n \in Inst, Closing(n), UNCHANGED <<purse, bag>>,
         kept' \in [Char -> Copy]
  PROVE  GoodsOK'
<1>1. items[n] \in Seq(Entry) /\ till[n] \in 0 .. MaxMeso
  BY DEF GoodsOK
<1>2. row' \in [Char -> NoRow .. MaxMeso] /\ goods' \in [Account -> Seq(Entry)]
  BY <1>1, SaveItemsType DEF Closing
<1>3. items' \in [Inst -> Seq(Entry)]
  BY DEF GoodsOK, Closing
<1> QED
  BY <1>2, <1>3 DEF GoodsOK, Closing

\* The mesos and the row of whoever Fredrick serves.
LEMMA PackageType ==
  ASSUME GoodsOK, NEW c \in Char, NEW l, check(c, l), deletePackage(c)
  PROVE  purse' \in [Char -> 0 .. MaxMeso] /\ row' \in [Char -> NoRow .. MaxMeso]
<1>1. purse[c] \in 0 .. MaxMeso /\ row[c] \in NoRow .. MaxMeso
  BY DEF GoodsOK
<1>2. purse[c] + Mesos(c) \in 0 .. MaxMeso
  BY <1>1, MerchantAssumption DEF Mesos, NoRow, check
<1>3. purse' = [purse EXCEPT ![c] = purse[c] + Mesos(c)]
  BY DEF deletePackage, GoodsOK
<1>4. NoRow \in NoRow .. MaxMeso
  BY MerchantAssumption DEF NoRow
<1> QED
  BY <1>2, <1>3, <1>4 DEF deletePackage, GoodsOK

LEMMA OwnerActsType ==
  ASSUME ShopsOK, GoodsOK, NEW c \in Char, OwnerActs(c)
  PROVE  GoodsOK'
<1>1. CASE Login(c) \/ Open(c) \/ MaintenanceOff(c)
  BY <1>1 DEF Login, Open, MaintenanceOff, shops, saved, GoodsOK
<1>2. CASE Organise(c)
  <2> DEFINE n == shop[c]
             fits == purse[c] + till[n] <= MaxMeso
  <2>1. n \in Inst /\ till[n] \in 0 .. MaxMeso /\ purse[c] \in 0 .. MaxMeso
    BY <1>2 DEF ShopsOK, GoodsOK, Organise, Owning
  <2>2. items' \in [Inst -> Seq(Entry)]
    <3>1. Tidied(items[n]) \in Seq(Entry)
      BY <2>1, TidiedDoes DEF GoodsOK
    <3> QED
      BY <1>2, <3>1 DEF GoodsOK, Organise
  <2>3. (IF fits THEN purse[c] + till[n] ELSE purse[c]) \in 0 .. MaxMeso
    BY <2>1, MerchantAssumption
  <2>4. purse' \in [Char -> 0 .. MaxMeso]
    <3>1. purse' = [purse EXCEPT ![c] = IF fits THEN purse[c] + till[n] ELSE purse[c]]
      BY <1>2 DEF Organise, GoodsOK
    <3> HIDE DEF fits
    <3> QED
      BY <2>3, <3>1 DEF GoodsOK
  <2>5. till' \in [Inst -> 0 .. MaxMeso]
    <3>1. till' = [till EXCEPT ![n] = IF fits THEN 0 ELSE till[n]]
      BY <1>2 DEF Organise, GoodsOK
    <3>2. 0 \in 0 .. MaxMeso
      BY MerchantAssumption
    <3> HIDE DEF fits
    <3> QED
      BY <2>1, <3>1, <3>2 DEF GoodsOK
  <2> QED
    BY <1>2, <2>2, <2>4, <2>5 DEF GoodsOK, Organise, saved
<1>3. CASE Close(c)
  <2>1. shop[c] \in Inst /\ Closing(shop[c]) /\ UNCHANGED <<purse, bag, kept>>
    BY <1>3 DEF Close, closeShop, Closing, Owning, ShopsOK
  <2> QED
    BY <2>1, ClosingType DEF GoodsOK
<1>4. ASSUME NEW n \in Inst, Create(c, n)
      PROVE  GoodsOK'
  <2>1. items' \in [Inst -> Seq(Entry)]
    BY <1>4 DEF GoodsOK, Create
  <2>2. till' \in [Inst -> 0 .. MaxMeso]
    BY <1>4, MerchantAssumption DEF GoodsOK, Create
  <2> QED
    BY <1>4, <2>1, <2>2 DEF GoodsOK, Create, saved
<1>5. ASSUME NEW s \in Stack, NEW p \in Sizes(bag[c], s), NEW k \in 1 .. p,
             AddItem(c, s, p, k)
      PROVE  GoodsOK'
  <2>1. bag[c] \in Bag
    BY DEF GoodsOK
  <2>2. /\ p \in Nat /\ p <= bag[c].units[s] /\ bag[c].slots[s] > 0
        /\ bag[c].units[s] \in Nat /\ bag[c].slots[s] \in Nat /\ bag[c].free \in Nat
    BY <2>1, SizesType
  <2>3. items' \in [Inst -> Seq(Entry)]
    <3>1. [stack |-> s, left |-> k] \in Entry
      BY <2>2 DEF Entry
    <3>2. shop[c] \in Inst /\ items[shop[c]] \in Seq(Entry)
      BY <1>5 DEF ShopsOK, GoodsOK, AddItem, Owning
    <3>3. Append(items[shop[c]], [stack |-> s, left |-> k]) \in Seq(Entry)
      BY <3>1, <3>2
    <3>4. items' = [items EXCEPT ![shop[c]] = Append(items[shop[c]], [stack |-> s, left |-> k])]
      BY <1>5 DEF AddItem
    <3> QED
      BY <3>3, <3>4 DEF GoodsOK
  <2>4. bag' \in [Char -> Bag]
    <3> DEFINE x == IF k = p THEN -1 ELSE 0
    <3>1. x \in Int /\ bag[c].units[s] + (-k) \in Nat /\ bag[c].slots[s] + x \in Nat
          /\ bag[c].free - x \in Nat /\ -k \in Int
      BY <2>2
    <3>2. bag' = [bag EXCEPT ![c] = Filled(bag[c], s, -k, x)]
      BY <1>5 DEF AddItem
    <3> HIDE DEF x
    <3>3. Filled(bag[c], s, -k, x) \in Bag
      BY <2>1, <3>1, FilledType
    <3> QED
      BY <3>2, <3>3 DEF GoodsOK
  <2> QED
    BY <1>5, <2>3, <2>4 DEF GoodsOK, AddItem, saved
<1>6. ASSUME shop[c] # None, NEW j \in DOMAIN items[shop[c]], TakeBack(c, j)
      PROVE  GoodsOK'
  <2> DEFINE e == items[shop[c]][j]
  <2>1. shop[c] \in Inst /\ items[shop[c]] \in Seq(Entry)
    BY <1>6 DEF ShopsOK, GoodsOK
  <2>2. e.stack \in Stack /\ e.left \in Nat
    <3>1. e \in Entry
      BY <1>6, <2>1
    <3> QED
      BY <3>1 DEF Entry
  <2>3. RemoveAt(items[shop[c]], j) \in Seq(Entry)
    BY <1>6, <2>1, RemoveAtDoes
  <2>4. items' \in [Inst -> Seq(Entry)]
    BY <1>6, <2>3 DEF GoodsOK, TakeBack
  <2>5. PICK o \in addFromDrop(c, bag[c], e.stack, e.left) : bag' = [bag EXCEPT ![c] = o.bag]
    BY <1>6 DEF TakeBack
  <2> HIDE DEF e
  <2>6. o \in Outcome
    BY <2>2, AddType DEF GoodsOK
  <2>7. bag' \in [Char -> Bag]
    BY <2>5, <2>6 DEF GoodsOK, Outcome
  <2> QED
    BY <1>6, <2>4, <2>7 DEF GoodsOK, TakeBack, saved
<1> QED
  BY <1>1, <1>2, <1>3, <1>4, <1>5, <1>6 DEF OwnerActs

LEMMA BuyType ==
  ASSUME ShopsOK, GoodsOK, NEW c \in Char, shop[c] # None,
         NEW j \in DOMAIN items[shop[c]], NEW q \in 1 .. items[shop[c]][j].left,
         Buy(c, j, q)
  PROVE  GoodsOK'
<1> DEFINE n == shop[c]
           e == items[n][j]
           cost == Price * q
           gain == till[n] + cost - EntrustedStoreTax(cost)
           list == [items[n] EXCEPT ![j].left = @ - q]
<1>1. n \in Inst /\ items[n] \in Seq(Entry) /\ till[n] \in 0 .. MaxMeso
      /\ purse[c] \in 0 .. MaxMeso
  BY DEF ShopsOK, GoodsOK
<1>2. e.stack \in Stack /\ q \in Nat
  <2>1. e \in Entry
    BY <1>1
  <2> QED
    BY <2>1 DEF Entry
<1>3. list \in Seq(Entry)
  BY <1>1, SoldDoes
<1>4. cost \in Nat /\ EntrustedStoreTax(cost) \in Nat
  <2>1. cost \in Nat
    BY <1>2, MerchantAssumption
  <2> QED
    BY <2>1, TaxType
<1>5. purse[c] >= cost /\ till[n] + cost <= MaxMeso /\ gain > 0
  BY DEF Buy
<1>6. gain \in 0 .. MaxMeso /\ purse[c] - cost \in 0 .. MaxMeso
  <2>1. MaxMeso \in Nat /\ till[n] \in Nat /\ purse[c] \in Nat /\ purse[c] <= MaxMeso
    BY <1>1, MerchantAssumption
  <2> DEFINE tax == EntrustedStoreTax(cost)
  <2>2. gain = till[n] + cost - tax /\ tax \in Nat
    BY <1>4
  <2> HIDE DEF cost, n, tax, gain
  <2> QED
    BY <1>4, <1>5, <2>1, <2>2
<1>7. /\ items' = [items EXCEPT ![n] = list] /\ till' = [till EXCEPT ![n] = gain]
      /\ saveItems(n, list, gain) /\ UNCHANGED kept
      /\ \E o \in addFromDrop(c, bag[c], e.stack, q) : bag' = [bag EXCEPT ![c] = o.bag]
  BY DEF Buy
<1>8. purse' = [purse EXCEPT ![c] = purse[c] - cost]
  BY DEF Buy, GoodsOK
<1> HIDE DEF e, list, gain, cost, n
<1>9. row' \in [Char -> NoRow .. MaxMeso] /\ goods' \in [Account -> Seq(Entry)]
  BY <1>3, <1>6, <1>7, SaveItemsType
<1>10. bag' \in [Char -> Bag]
  <2>1. PICK o \in addFromDrop(c, bag[c], e.stack, q) : bag' = [bag EXCEPT ![c] = o.bag]
    BY <1>7
  <2>2. o \in Outcome
    BY <1>2, AddType DEF GoodsOK
  <2> QED
    BY <2>1, <2>2 DEF GoodsOK, Outcome
<1> QED
  BY <1>3, <1>6, <1>7, <1>8, <1>9, <1>10 DEF GoodsOK

LEMMA AnyoneType ==
  ASSUME ShopsOK, GoodsOK, NEW c \in Char, Anyone(c)
  PROVE  GoodsOK'
<1>1. CASE Exit(c)
  <2> DEFINE closes == ~available[shop[c]] \/ (owner[shop[c]] = c /\ items[shop[c]] = <<>>)
  <2>0. IF closes
        THEN /\ phase # "closing" \/ ~available[shop[c]]
             /\ closeShop(shop[c], available[shop[c]], {})
        ELSE UNCHANGED <<shops, saved, merchants, running, astray>>
    BY <1>1 DEF Exit
  <2>1. CASE closes
    <3>1. shop[c] \in Inst /\ Closing(shop[c]) /\ UNCHANGED <<purse, bag, kept>>
      BY <1>1, <2>1 DEF Exit, closeShop, Closing, ShopsOK
    <3> QED
      BY <3>1, ClosingType DEF GoodsOK
  <2>2. CASE ~closes
    <3> HIDE DEF closes
    <3>1. UNCHANGED <<shops, saved>>
      BY <2>0, <2>2
    <3>2. UNCHANGED <<purse, bag>>
      BY <1>1 DEF Exit
    <3> QED
      BY <3>1, <3>2 DEF GoodsOK, shops, saved
  <2> QED
    BY <2>1, <2>2
<1>2. CASE CollectMesos(c)
  <2>1. purse' \in [Char -> 0 .. MaxMeso] /\ row' \in [Char -> NoRow .. MaxMeso]
    BY <1>2, PackageType DEF CollectMesos
  <2> QED
    BY <1>2, <2>1 DEF GoodsOK, CollectMesos, shops
<1>3. CASE Collect(c)
  <2> DEFINE l == goods[AccountOf[c]]
  <2>1. l \in Seq(Entry)
    BY MerchantAssumption DEF GoodsOK
  <2>2. PICK o \in Handed(c, l) : bag' = [bag EXCEPT ![c] = o.bag]
    BY <1>3 DEF Collect
  <2>3. check(c, l) /\ deletePackage(c) /\ UNCHANGED <<shops, goods, kept>>
    BY <1>3 DEF Collect
  <2> HIDE DEF l
  <2>4. o \in Outcome
    BY <2>1, HandedType DEF GoodsOK
  <2>5. bag' \in [Char -> Bag]
    BY <2>2, <2>4 DEF GoodsOK, Outcome
  <2>6. purse' \in [Char -> 0 .. MaxMeso] /\ row' \in [Char -> NoRow .. MaxMeso]
    BY <2>3, PackageType
  <2> QED
    BY <2>3, <2>5, <2>6 DEF GoodsOK, shops
<1>4. CASE Disconnect(c)
  <2>1. kept' \in [Char -> Copy]
    BY <1>4, CopyType DEF Disconnect, GoodsOK
  <2>2. CASE Owning(c) /\ ~available[shop[c]]
    <3>1. shop[c] \in Inst /\ Closing(shop[c]) /\ UNCHANGED <<purse, bag>>
      BY <1>4, <2>2 DEF Disconnect, closeShop, Closing, Owning, ShopsOK
    <3> QED
      BY <2>1, <3>1, ClosingType
  <2>3. CASE ~(Owning(c) /\ ~available[shop[c]])
    BY <1>4, <2>1, <2>3 DEF Disconnect, GoodsOK
  <2> QED
    BY <2>2, <2>3
<1>5. ASSUME NEW n \in Inst, Visit(c, n)
      PROVE  GoodsOK'
  BY <1>5 DEF Visit, GoodsOK, saved
<1>6. CASE Save(c)
  BY <1>6, CopyType DEF Save, GoodsOK, chars, shops
<1> QED
  BY <1>1, <1>2, <1>3, <1>4, <1>5, <1>6, BuyType DEF Anyone

LEMMA GoodsStep ==
  ASSUME ShopsOK, GoodsOK, [Next]_vars
  PROVE  GoodsOK'
<1>1. ASSUME NEW n \in Inst, Expire(n)
      PROVE  GoodsOK'
  <2>1. Closing(n) /\ UNCHANGED <<purse, bag, kept>>
    BY <1>1 DEF Expire, closeShop, Closing, chars
  <2> QED
    BY <2>1, ClosingType DEF GoodsOK
<1>2. ASSUME NEW k \in Store, closeAllMerchant(k)
      PROVE  GoodsOK'
  <2>1. merchants[k] \in Inst /\ Closing(merchants[k]) /\ UNCHANGED <<purse, bag, kept>>
    BY <1>2 DEF closeAllMerchant, Closing, ShopsOK, chars
  <2> QED
    BY <2>1, ClosingType DEF GoodsOK
<1>3. CASE Shutdown
  BY <1>3 DEF Shutdown, chars, shops, saved, GoodsOK
<1>4. CASE AllClosed
  <2>1. kept' \in [Char -> Copy]
    BY <1>4, CopyType DEF AllClosed, GoodsOK
  <2> QED
    BY <1>4, <2>1 DEF AllClosed, chars, shops, GoodsOK
<1>5. CASE Restart
  <2>1. \A c \in Char : kept[c].bag \in Bag /\ kept[c].purse \in 0 .. MaxMeso
    BY DEF GoodsOK, Copy
  <2>2. bag' \in [Char -> Bag] /\ purse' \in [Char -> 0 .. MaxMeso]
    BY <1>5, <2>1 DEF Restart
  <2> QED
    BY <1>5, <2>2 DEF Restart, saved, GoodsOK
<1>6. CASE UNCHANGED vars
  BY <1>6 DEF vars, chars, shops, saved, GoodsOK
<1> QED
  BY <1>1, <1>2, <1>3, <1>4, <1>5, <1>6, OwnerActsType, AnyoneType DEF Next, Server

LEMMA GoodsAtFirst == Init => GoodsOK
<1> SUFFICES ASSUME Init PROVE GoodsOK
  OBVIOUS
<1>1. purse \in [Char -> 0 .. MaxMeso]
  BY MerchantAssumption DEF Init
<1>2. row \in [Char -> NoRow .. MaxMeso] /\ till \in [Inst -> 0 .. MaxMeso]
  BY MerchantAssumption DEF Init, NoRow
<1>3. kept \in [Char -> Copy]
  BY MerchantAssumption DEF Init, CopyOf, Copy
<1> QED
  BY <1>1, <1>2, <1>3, MerchantAssumption DEF Init, GoodsOK

\* The types hold, whatever is sold, saved and fetched: no purse and no till exceeds
\* what an int holds, though sums are checked before and paid after the tax, and no
\* bag falls below zero.
THEOREM TypesAreKept == Spec => []TypeOK
<1>1. Init => GoodsOK
  BY GoodsAtFirst
<1>2. Book /\ GoodsOK /\ [Next]_vars => GoodsOK'
  BY GoodsStep DEF Book
<1>3. Book /\ GoodsOK => TypeOK
  BY DEF Book, GoodsOK, TypeOK
<1> QED
  BY <1>1, <1>2, <1>3, BookHolds, PTL DEF Spec

----
(***************************************************************************)
(* While nothing went astray no list has two entries of one stack, a shop  *)
(* that left the map is empty, buyers are in open shops only, an account   *)
(* has one row at most, and beside a shop on the map it is its owner's and *)
(* there only once the shop is open.                                       *)
(***************************************************************************)

EntriesApart ==
  (\A n \in Inst : Single(items[n])) /\ (\A x \in Account : Single(goods[x]))
Emptied      == \A n \in Inst : ~placed[n] => items[n] = <<>>
BuyersInOpen == \A c \in Char : shop[c] # None => available[shop[c]] \/ owner[shop[c]] = c
OneRow ==
  \A c, d \in Char : AccountOf[c] = AccountOf[d] /\ row[c] # NoRow /\ row[d] # NoRow => c = d
RowOfTheOwner ==
  \A n \in Inst : \A d \in Char :
    placed[n] /\ row[d] # NoRow /\ AccountOf[d] = AccountOf[owner[n]]
      => d = owner[n] /\ available[n]
Straight == EntriesApart /\ Emptied /\ BuyersInOpen /\ OneRow /\ RowOfTheOwner

LEMMA AstrayGrows == [Next]_vars => astray \subseteq astray'
<1> SUFFICES ASSUME [Next]_vars PROVE astray \subseteq astray'
  OBVIOUS
<1>1. ASSUME NEW c \in Char, OwnerActs(c) PROVE astray \subseteq astray'
  BY <1>1 DEF OwnerActs, Login, Open, MaintenanceOff, Organise, Close, Create, AddItem,
     TakeBack, closeShop
<1>2. ASSUME NEW c \in Char, Anyone(c) PROVE astray \subseteq astray'
  <2>1. CASE Exit(c)
    BY <2>1 DEF Exit, closeShop
  <2>2. CASE Disconnect(c)
    BY <2>2 DEF Disconnect, closeShop
  <2> QED
    BY <1>2, <2>1, <2>2 DEF Anyone, CollectMesos, Collect, Save, Visit, Buy
<1>3. CASE Server
  BY <1>3 DEF Server, Expire, Shutdown, AllClosed, Restart, closeAllMerchant, closeShop
<1>4. CASE UNCHANGED vars
  BY <1>4 DEF vars
<1> QED
  BY <1>1, <1>2, <1>3, <1>4 DEF Next

\* Saving shop n writes its owner's row and its account's goods only.
LEMMA SavedStraight ==
  ASSUME GoodsOK, Straight, NEW n \in Inst, NEW l \in Seq(Entry), Single(l),
         NEW m \in 0 .. MaxMeso, owner[n] \in Char, saveItems(n, l, m)
  PROVE  /\ \A x \in Account : Single(goods'[x])
         /\ \A s : Units(goods'[AccountOf[owner[n]]], s) = Units(l, s)
         /\ \A x \in Account : x # AccountOf[owner[n]] => goods'[x] = goods[x]
         /\ row'[owner[n]] = m
         /\ \A c \in Char : c # owner[n] => row'[c] = row[c]
<1>1. PICK one \in BOOLEAN : goods' = [goods EXCEPT ![AccountOf[owner[n]]] = Rows(l, one)]
  BY DEF saveItems
<1>2. Single(Rows(l, one)) /\ \A s : Units(Rows(l, one), s) = Units(l, s)
  BY RowsDoes
<1>3. AccountOf[owner[n]] \in Account
  BY MerchantAssumption
<1>4. /\ goods'[AccountOf[owner[n]]] = Rows(l, one)
      /\ \A x \in Account : x # AccountOf[owner[n]] => goods'[x] = goods[x]
  BY <1>1, <1>3 DEF GoodsOK
<1>5. \A x \in Account : Single(goods'[x])
  BY <1>2, <1>4 DEF Straight, EntriesApart
<1>6. row'[owner[n]] = m /\ \A c \in Char : c # owner[n] => row'[c] = row[c]
  BY DEF saveItems, GoodsOK
<1> QED
  BY <1>2, <1>4, <1>5, <1>6

LEMMA SavedRows ==
  ASSUME Book, Straight, astray = {}, NEW n \in Inst, placed[n],
         \A c \in Char : c # owner[n] => row'[c] = row[c],
         UNCHANGED owner
  PROVE  /\ OneRow'
         /\ \A k \in Inst : k # n /\ placed[k] =>
              \A d \in Char : row'[d] # NoRow /\ AccountOf[d] = AccountOf[owner[k]]
                => d = owner[k] /\ available[k]
         /\ \A d \in Char : row'[d] # NoRow /\ AccountOf[d] = AccountOf[owner[n]]
                => d = owner[n]
<1>1. owner[n] \in Char
  BY DEF Book, SetUpIsTended
<1>2. \A d \in Char : row'[d] # NoRow /\ AccountOf[d] = AccountOf[owner[n]] => d = owner[n]
  BY DEF Straight, RowOfTheOwner
<1>3. OneRow'
  <2> SUFFICES ASSUME NEW c \in Char, NEW d \in Char, AccountOf[c] = AccountOf[d],
                      row'[c] # NoRow, row'[d] # NoRow
               PROVE  c = d
    BY DEF OneRow
  <2>1. CASE c = owner[n] \/ d = owner[n]
    BY <1>2, <2>1
  <2>2. CASE ~(c = owner[n] \/ d = owner[n])
    BY <2>2 DEF Straight, OneRow
  <2> QED
    BY <2>1, <2>2
<1>4. ASSUME NEW k \in Inst, k # n, placed[k],
             NEW d \in Char, row'[d] # NoRow, AccountOf[d] = AccountOf[owner[k]]
      PROVE  d = owner[k] /\ available[k]
  <2>1. d # owner[n]
    BY <1>4 DEF Book, OneMerchant
  <2> QED
    BY <1>4, <2>1 DEF Straight, RowOfTheOwner
<1> QED
  BY <1>2, <1>3, <1>4

LEMMA ClosingStraight ==
  ASSUME Book, GoodsOK, Straight, astray = {}, NEW n \in Inst, placed[n], Closing(n),
         UNCHANGED available, \A c \in Char : shop'[c] \in {shop[c], None}
  PROVE  Straight'
<1>1. items[n] \in Seq(Entry) /\ Single(items[n]) /\ till[n] \in 0 .. MaxMeso
      /\ owner[n] \in Char
  BY DEF GoodsOK, Straight, EntriesApart, Book, SetUpIsTended
<1>2. saveItems(n, items[n], till[n]) /\ owner' = owner
  BY DEF Closing
<1>3. /\ \A x \in Account : Single(goods'[x])
      /\ \A c \in Char : c # owner[n] => row'[c] = row[c]
  BY <1>1, <1>2, SavedStraight
<1>4. items'[n] = <<>> /\ ~placed'[n]
      /\ \A k \in Inst : k # n => items'[k] = items[k] /\ placed'[k] = placed[k]
  BY DEF Closing, GoodsOK, Book, ShopsOK
<1>5. EntriesApart'
  BY <1>3, <1>4 DEF EntriesApart, Straight, Single
<1>6. Emptied'
  BY <1>4 DEF Emptied, Straight
<1>7. BuyersInOpen'
  <2> SUFFICES ASSUME NEW c \in Char, shop'[c] # None
               PROVE  available'[shop'[c]] \/ owner'[shop'[c]] = c
    BY DEF BuyersInOpen
  <2>1. shop'[c] = shop[c]
    OBVIOUS
  <2> QED
    BY <1>2, <2>1 DEF BuyersInOpen, Straight
<1>8. OneRow' /\ RowOfTheOwner'
  <2>1. /\ OneRow'
        /\ \A k \in Inst : k # n /\ placed[k] =>
              \A d \in Char : row'[d] # NoRow /\ AccountOf[d] = AccountOf[owner[k]]
                => d = owner[k] /\ available[k]
    BY <1>2, <1>3, SavedRows
  <2> QED
    BY <1>2, <1>4, <2>1 DEF RowOfTheOwner
<1> QED
  BY <1>5, <1>6, <1>7, <1>8 DEF Straight

\* Nobody tends a shop that left the map.
LEMMA OwnersShop ==
  ASSUME Book, astray = {}, NEW c \in Char, Owning(c)
  PROVE  shop[c] \in Inst /\ placed[shop[c]] /\ owner[shop[c]] = c
<1>1. shop[c] \in Inst /\ owner[shop[c]] = c
  BY DEF Book, ShopsOK, Owning
<1>2. OwnerInside(shop[c])
  BY <1>1, MerchantAssumption DEF OwnerInside
<1> QED
  BY <1>1, <1>2 DEF Book, InsideIsPlaced

LEMMA ListChanges ==
  ASSUME GoodsOK, Straight, NEW n \in Inst, placed[n], NEW l, Single(l),
         items' = [items EXCEPT ![n] = l], UNCHANGED <<placed, goods>>
  PROVE  EntriesApart' /\ Emptied'
<1>1. items'[n] = l /\ \A k \in Inst : k # n => items'[k] = items[k]
  BY DEF GoodsOK
<1> QED
  BY <1>1 DEF EntriesApart, Emptied, Straight

LEMMA OwnerActsStraight ==
  ASSUME Book, GoodsOK, Straight, astray = {}, astray' = {}, NEW c \in Char, OwnerActs(c)
  PROVE  Straight'
<1>1. CASE Login(c)
  BY <1>1 DEF Login, shops, saved, Straight, EntriesApart, Emptied, BuyersInOpen, OneRow,
     RowOfTheOwner
<1>2. CASE Open(c)
  <2>1. shop[c] \in Inst /\ placed[shop[c]] /\ owner[shop[c]] = c
    BY <1>2, OwnersShop DEF Open
  <2>2. UNCHANGED <<items, goods, placed, row, owner>>
    BY <1>2 DEF Open, saved
  <2>3. available'[shop[c]] /\ \A n \in Inst : n # shop[c] => available'[n] = available[n]
    BY <1>2, <2>1 DEF Open, Book, ShopsOK
  <2>4. shop'[c] = None /\ \A d \in Char : d # c => shop'[d] = shop[d]
    BY <1>2 DEF Open, Book, ShopsOK
  <2>5. EntriesApart' /\ Emptied' /\ OneRow'
    BY <2>2 DEF Straight, EntriesApart, Emptied, OneRow
  <2>6. BuyersInOpen'
    <3> SUFFICES ASSUME NEW d \in Char, shop'[d] # None
                 PROVE  available'[shop'[d]] \/ owner'[shop'[d]] = d
      BY DEF BuyersInOpen
    <3>1. shop'[d] = shop[d] /\ shop[d] \in Inst
      BY <2>4 DEF Book, ShopsOK
    <3> QED
      BY <2>2, <2>3, <3>1 DEF Straight, BuyersInOpen
  <2>7. RowOfTheOwner'
    BY <2>2, <2>3 DEF Straight, RowOfTheOwner
  <2> QED
    BY <2>5, <2>6, <2>7 DEF Straight
<1>3. CASE MaintenanceOff(c)
  <2>1. shop'[c] = None /\ \A d \in Char : d # c => shop'[d] = shop[d]
    BY <1>3 DEF MaintenanceOff, Book, ShopsOK
  <2>2. UNCHANGED <<items, goods, placed, row, owner, available>>
    BY <1>3 DEF MaintenanceOff, saved
  <2> QED
    BY <2>1, <2>2 DEF Straight, EntriesApart, Emptied, BuyersInOpen, OneRow, RowOfTheOwner
<1>4. CASE Organise(c)
  <2>1. shop[c] \in Inst /\ placed[shop[c]]
    BY <1>4, OwnersShop DEF Organise
  <2>2. UNCHANGED <<goods, placed, row, owner, available, shop>>
    BY <1>4 DEF Organise, saved
  <2>3. items' = [items EXCEPT ![shop[c]] = Tidied(items[shop[c]])]
    BY <1>4 DEF Organise
  <2>4. Single(Tidied(items[shop[c]]))
    BY <2>1, TidiedDoes DEF GoodsOK, Straight, EntriesApart
  <2>5. EntriesApart' /\ Emptied'
    BY <2>1, <2>2, <2>3, <2>4, ListChanges
  <2> QED
    BY <2>2, <2>5 DEF Straight, BuyersInOpen, OneRow, RowOfTheOwner
<1>5. CASE Close(c)
  <2>1. shop[c] \in Inst /\ placed[shop[c]]
    BY <1>5, OwnersShop DEF Close
  <2>2. Closing(shop[c]) /\ available' = available
    BY <1>5 DEF Close, closeShop, Closing
  <2>3. \A d \in Char : shop'[d] \in {shop[d], None}
    BY <1>5 DEF Close
  <2> QED
    BY <2>1, <2>2, <2>3, ClosingStraight
<1>6. ASSUME NEW n \in Inst, Create(c, n)
      PROVE  Straight'
  <2>1. /\ ~placed[n] /\ \A d \in Char : shop[d] # n
        /\ \A d \in Char : AccountOf[d] = AccountOf[c] => row[d] = NoRow
    BY <1>6 DEF Create, Fresh, Unused, HasRow, Mates
  <2>2. /\ items'[n] = <<>> /\ placed'[n] /\ owner'[n] = c /\ shop'[c] = n
        /\ \A k \in Inst : k # n => /\ items'[k] = items[k] /\ placed'[k] = placed[k]
                                    /\ owner'[k] = owner[k] /\ available'[k] = available[k]
        /\ \A d \in Char : d # c => shop'[d] = shop[d]
        /\ UNCHANGED <<row, goods>>
    BY <1>6 DEF Create, GoodsOK, Book, ShopsOK, saved
  <2>3. EntriesApart' /\ Emptied' /\ OneRow'
    <3>1. Single(<<>>)
      BY DEF Single
    <3> QED
      BY <2>2, <3>1 DEF Straight, EntriesApart, Emptied, OneRow
  <2>4. BuyersInOpen'
    <3> SUFFICES ASSUME NEW d \in Char, d # c, shop'[d] # None
                 PROVE  available'[shop'[d]] \/ owner'[shop'[d]] = d
      BY <2>2 DEF BuyersInOpen
    <3>1. shop'[d] = shop[d] /\ shop[d] \in Inst /\ shop[d] # n
      BY <2>1, <2>2 DEF Book, ShopsOK
    <3> QED
      BY <2>2, <3>1 DEF Straight, BuyersInOpen
  <2>5. RowOfTheOwner'
    BY <2>1, <2>2 DEF Straight, RowOfTheOwner
  <2> QED
    BY <2>3, <2>4, <2>5 DEF Straight
<1>7. ASSUME NEW s \in Stack, NEW p \in Sizes(bag[c], s), NEW k \in 1 .. p,
               AddItem(c, s, p, k)
      PROVE  Straight'
  <2>1. shop[c] \in Inst /\ placed[shop[c]]
    BY <1>7, OwnersShop DEF AddItem
  <2>2. UNCHANGED <<goods, placed, row, owner, available, shop>>
    BY <1>7 DEF AddItem, saved
  <2> DEFINE e == [stack |-> s, left |-> k]
  <2>3. items' = [items EXCEPT ![shop[c]] = Append(items[shop[c]], e)]
        /\ ~Lists(items[shop[c]], s)
    BY <1>7 DEF AddItem
  <2>4. e \in Entry /\ e.stack = s
    <3>1. k \in Nat
      BY DEF GoodsOK
    <3> QED
      BY <3>1 DEF Entry
  <2>5. Single(Append(items[shop[c]], e))
    <3> HIDE DEF e
    <3> QED
      BY <2>1, <2>3, <2>4, AppendDoes DEF GoodsOK, Straight, EntriesApart
  <2>6. EntriesApart' /\ Emptied'
    BY <2>1, <2>2, <2>3, <2>5, ListChanges
  <2> QED
    BY <2>2, <2>6 DEF Straight, BuyersInOpen, OneRow, RowOfTheOwner
<1>8. ASSUME NEW j \in DOMAIN items[shop[c]], TakeBack(c, j)
      PROVE  Straight'
  <2>1. shop[c] \in Inst /\ placed[shop[c]]
    BY <1>8, OwnersShop DEF TakeBack
  <2>2. UNCHANGED <<goods, placed, row, owner, available, shop>>
    BY <1>8 DEF TakeBack, saved
  <2>3. items' = [items EXCEPT ![shop[c]] = RemoveAt(items[shop[c]], j)]
    BY <1>8 DEF TakeBack
  <2>4. Single(RemoveAt(items[shop[c]], j))
    BY <2>1, <1>8, RemoveAtKeepsSingle DEF GoodsOK, Straight, EntriesApart
  <2>5. EntriesApart' /\ Emptied'
    BY <2>1, <2>2, <2>3, <2>4, ListChanges
  <2> QED
    BY <2>2, <2>5 DEF Straight, BuyersInOpen, OneRow, RowOfTheOwner
<1> QED
  BY <1>1, <1>2, <1>3, <1>4, <1>5, <1>6, <1>7, <1>8 DEF OwnerActs

\* The goods stay as they are, or a shop on the map closes.
Resting == UNCHANGED <<owner, items, till, available, placed, row, goods>>
SomeClosing == \E n \in Inst : placed[n] /\ Closing(n) /\ UNCHANGED available

LEMMA ExitCloses ==
  ASSUME Book, Straight, astray = {}, NEW c \in Char, Exit(c)
  PROVE  Resting \/ SomeClosing
<1> DEFINE closes == ~available[shop[c]] \/ (owner[shop[c]] = c /\ items[shop[c]] = <<>>)
<1>1. IF closes
      THEN /\ phase # "closing" \/ ~available[shop[c]]
           /\ closeShop(shop[c], available[shop[c]], {})
      ELSE UNCHANGED <<shops, saved, merchants, running, astray>>
  BY DEF Exit
<1>2. CASE closes
  <2>1. owner[shop[c]] = c
    BY <1>2 DEF Straight, BuyersInOpen, Exit
  <2>2. Owning(c)
    BY <2>1 DEF Exit, Owning
  <2>3. shop[c] \in Inst /\ placed[shop[c]]
    BY <2>2, OwnersShop
  <2>4. closeShop(shop[c], available[shop[c]], {})
    <3> HIDE DEF closes
    <3> QED
      BY <1>1, <1>2
  <2> QED
    BY <2>3, <2>4 DEF SomeClosing, Closing, closeShop
<1>3. CASE ~closes
  <2>1. UNCHANGED <<shops, saved>>
    <3> HIDE DEF closes
    <3> QED
      BY <1>1, <1>3
  <2> QED
    BY <2>1 DEF Resting, shops, saved
<1> QED
  BY <1>2, <1>3

LEMMA DisconnectCloses ==
  ASSUME Book, astray = {}, NEW c \in Char, Disconnect(c)
  PROVE  Resting \/ SomeClosing
<1>1. CASE Owning(c) /\ ~available[shop[c]]
  <2>1. shop[c] \in Inst /\ placed[shop[c]]
    BY <1>1, OwnersShop
  <2> QED
    BY <1>1, <2>1 DEF Disconnect, SomeClosing, Closing, closeShop
<1>2. CASE ~(Owning(c) /\ ~available[shop[c]])
  BY <1>2 DEF Disconnect, Resting, saved
<1> QED
  BY <1>1, <1>2

LEMMA CloseCloses ==
  ASSUME Book, astray = {}, NEW c \in Char, Close(c)
  PROVE  SomeClosing
<1>1. shop[c] \in Inst /\ placed[shop[c]]
  BY OwnersShop DEF Close
<1> QED
  BY <1>1 DEF Close, SomeClosing, Closing, closeShop

LEMMA ServerCloses ==
  ASSUME Book, astray = {}, astray' = {}, Server
  PROVE  (Resting /\ UNCHANGED shop) \/ (SomeClosing /\ UNCHANGED shop) \/ Restart
<1>1. ASSUME NEW n \in Inst, Expire(n)
      PROVE  SomeClosing /\ UNCHANGED shop
  BY <1>1 DEF Expire, SomeClosing, Closing, closeShop, chars
<1>2. ASSUME NEW k \in Store, closeAllMerchant(k)
      PROVE  SomeClosing /\ UNCHANGED shop
  <2>1. merchants[k] \in Inst /\ placed[merchants[k]]
    BY <1>2 DEF closeAllMerchant, Book, ShopsOK, NoGhost
  <2> QED
    BY <1>2, <2>1 DEF closeAllMerchant, SomeClosing, Closing, chars
<1>3. ASSUME Shutdown \/ AllClosed
      PROVE  Resting /\ UNCHANGED shop
  BY <1>3 DEF Shutdown, AllClosed, Resting, chars, shops, saved
<1> QED
  BY <1>1, <1>2, <1>3 DEF Server

\* The buyer is in an open shop of somebody else, and takes units of one entry.
BuyShape(c, j, q) ==
  LET n == shop[c]  e == items[n][j]  cost == Price * q
      gain == till[n] + cost - EntrustedStoreTax(cost)
      list == [items[n] EXCEPT ![j].left = @ - q]
  IN  /\ n \in Inst /\ placed[n] /\ available[n] /\ owner[n] \in Char /\ owner[n] # c
      /\ items[n] \in Seq(Entry) /\ e \in Entry /\ q \in 1 .. e.left
      /\ list \in Seq(Entry) /\ Single(list) /\ gain \in 0 .. MaxMeso
      /\ till' = [till EXCEPT ![n] = gain] /\ items' = [items EXCEPT ![n] = list]
      /\ saveItems(n, list, gain)
      /\ UNCHANGED <<shop, owner, available, placed>>

LEMMA BuyHasShape ==
  ASSUME Book, GoodsOK, GoodsOK', Straight, astray = {}, NEW c \in Char, shop[c] # None,
         NEW j \in DOMAIN items[shop[c]], NEW q \in 1 .. items[shop[c]][j].left,
         Buy(c, j, q)
  PROVE  BuyShape(c, j, q)
<1> DEFINE n == shop[c]
           e == items[n][j]
           cost == Price * q
           gain == till[n] + cost - EntrustedStoreTax(cost)
           list == [items[n] EXCEPT ![j].left = @ - q]
<1>1. n \in Inst /\ items[n] \in Seq(Entry) /\ owner[n] # c /\ Single(items[n])
  BY DEF Book, ShopsOK, GoodsOK, Buy, Straight, EntriesApart
<1>2. placed[n]
  BY <1>1 DEF Straight, Emptied
<1>3. available[n] /\ owner[n] \in Char
  BY <1>1, <1>2 DEF Straight, BuyersInOpen, Book, SetUpIsTended
<1>4. e \in Entry
  BY <1>1
<1>5. list \in Seq(Entry) /\ Single(list)
  BY <1>1, SoldDoes
<1>6. till' = [till EXCEPT ![n] = gain] /\ items' = [items EXCEPT ![n] = list]
      /\ saveItems(n, list, gain) /\ UNCHANGED <<shop, owner, available, placed>>
  BY DEF Buy
<1>7. gain \in 0 .. MaxMeso
  <2> HIDE DEF gain, n
  <2>1. till'[n] = gain
    BY <1>1, <1>6 DEF GoodsOK
  <2> QED
    BY <1>1, <2>1 DEF GoodsOK
<1> HIDE DEF gain, list, e, cost, n
<1>8. q \in 1 .. e.left
  BY DEF e, n
<1> QED
  BY <1>1, <1>2, <1>3, <1>4, <1>5, <1>6, <1>7, <1>8 DEF BuyShape, gain, list, e, cost, n

LEMMA RestingStraight ==
  ASSUME Book, Straight, Resting, \A c \in Char : shop'[c] \in {shop[c], None}
  PROVE  Straight'
<1>1. BuyersInOpen'
  <2> SUFFICES ASSUME NEW c \in Char, shop'[c] # None
               PROVE  available'[shop'[c]] \/ owner'[shop'[c]] = c
    BY DEF BuyersInOpen
  <2>1. shop'[c] = shop[c]
    OBVIOUS
  <2> QED
    BY <2>1 DEF Straight, BuyersInOpen, Resting
<1> QED
  BY <1>1 DEF Straight, Resting, EntriesApart, Emptied, OneRow, RowOfTheOwner

LEMMA AnyoneStraight ==
  ASSUME Book, GoodsOK, GoodsOK', Straight, astray = {}, astray' = {},
         NEW c \in Char, Anyone(c)
  PROVE  Straight'
<1>1. ASSUME Resting \/ SomeClosing, \A d \in Char : shop'[d] \in {shop[d], None}
      PROVE  Straight'
  BY <1>1, ClosingStraight, RestingStraight DEF SomeClosing
<1>2. CASE Exit(c)
  <2>1. \A d \in Char : shop'[d] \in {shop[d], None}
    BY <1>2 DEF Exit, Book, ShopsOK
  <2> QED
    BY <1>1, <1>2, <2>1, ExitCloses
<1>3. CASE Disconnect(c)
  <2>1. \A d \in Char : shop'[d] \in {shop[d], None}
    BY <1>3 DEF Disconnect, Book, ShopsOK
  <2> QED
    BY <1>1, <1>3, <2>1, DisconnectCloses
<1>4. CASE CollectMesos(c) \/ Collect(c)
  <2>1. UNCHANGED <<goods, items, owner, available, placed, shop>>
    BY <1>4 DEF CollectMesos, Collect, shops
  <2>2. \A d \in Char : row'[d] # NoRow => row'[d] = row[d]
    BY <1>4 DEF CollectMesos, Collect, deletePackage
  <2> QED
    BY <2>1, <2>2 DEF Straight, EntriesApart, Emptied, BuyersInOpen, OneRow, RowOfTheOwner
<1>5. ASSUME NEW n \in Inst, Visit(c, n)
      PROVE  Straight'
  <2>1. UNCHANGED <<goods, items, owner, available, placed, row>>
    BY <1>5 DEF Visit, saved
  <2>2. /\ \A d \in Char : d # c => shop'[d] \in {shop[d], None}
        /\ shop'[c] = n /\ (owner[n] = c \/ available[n])
    BY <1>5 DEF Visit, Book, ShopsOK
  <2>3. BuyersInOpen'
    <3> SUFFICES ASSUME NEW d \in Char, d # c, shop'[d] # None
                 PROVE  available'[shop'[d]] \/ owner'[shop'[d]] = d
      BY <2>1, <2>2 DEF BuyersInOpen
    <3>1. shop'[d] = shop[d]
      BY <2>2
    <3> QED
      BY <2>1, <3>1 DEF Straight, BuyersInOpen
  <2> QED
    BY <2>1, <2>3 DEF Straight, EntriesApart, Emptied, OneRow, RowOfTheOwner
<1>6. ASSUME shop[c] # None, NEW j \in DOMAIN items[shop[c]],
             NEW q \in 1 .. items[shop[c]][j].left, Buy(c, j, q)
      PROVE  Straight'
  <2>1. BuyShape(c, j, q)
    BY <1>6, BuyHasShape
  <2>2. PICK list, gain :
          /\ shop[c] \in Inst /\ placed[shop[c]] /\ available[shop[c]]
          /\ owner[shop[c]] \in Char
          /\ list \in Seq(Entry) /\ Single(list) /\ gain \in 0 .. MaxMeso
          /\ items' = [items EXCEPT ![shop[c]] = list]
          /\ saveItems(shop[c], list, gain)
          /\ UNCHANGED <<shop, owner, available, placed>>
    BY <2>1 DEF BuyShape
  <2>3. /\ \A x \in Account : Single(goods'[x])
        /\ \A d \in Char : d # owner[shop[c]] => row'[d] = row[d]
    BY <2>2, SavedStraight
  <2>4. items'[shop[c]] = list /\ \A k \in Inst : k # shop[c] => items'[k] = items[k]
    BY <2>2 DEF GoodsOK
  <2>5. EntriesApart' /\ Emptied'
    BY <2>2, <2>3, <2>4 DEF EntriesApart, Emptied, Straight
  <2>6. BuyersInOpen'
    BY <2>2 DEF BuyersInOpen, Straight
  <2>7. OneRow' /\ RowOfTheOwner'
    <3>1. /\ OneRow'
          /\ \A k \in Inst : k # shop[c] /\ placed[k] =>
               \A d \in Char : row'[d] # NoRow /\ AccountOf[d] = AccountOf[owner[k]]
                 => d = owner[k] /\ available[k]
          /\ \A d \in Char : row'[d] # NoRow /\ AccountOf[d] = AccountOf[owner[shop[c]]]
                => d = owner[shop[c]]
      BY <2>2, <2>3, SavedRows
    <3> QED
      BY <2>2, <3>1 DEF RowOfTheOwner
  <2> QED
    BY <2>5, <2>6, <2>7 DEF Straight
<1>7. CASE Save(c)
  BY <1>1, <1>7 DEF Save, Resting, chars, shops
<1> QED
  BY <1>2, <1>3, <1>4, <1>5, <1>6, <1>7 DEF Anyone

LEMMA StraightStep ==
  ASSUME Book, GoodsOK, GoodsOK', Straight, astray = {}, astray' = {}, [Next]_vars
  PROVE  Straight'
<1>1. CASE Server
  <2>1. CASE Resting /\ UNCHANGED shop
    BY <2>1, RestingStraight
  <2>2. CASE SomeClosing /\ UNCHANGED shop
    BY <2>2, ClosingStraight DEF SomeClosing
  <2>3. CASE Restart
    <3>1. UNCHANGED <<items, goods, owner, row>> /\ \A n \in Inst : ~placed[n] /\ ~placed'[n]
      BY <2>3 DEF Restart, saved
    <3>2. \A c \in Char : shop'[c] = None
      BY <2>3 DEF Restart
    <3> QED
      BY <3>1, <3>2 DEF Straight, EntriesApart, Emptied, BuyersInOpen, OneRow, RowOfTheOwner
  <2> QED
    BY <1>1, <2>1, <2>2, <2>3, ServerCloses
<1>2. CASE UNCHANGED vars
  BY <1>2, RestingStraight DEF vars, chars, shops, saved, Resting
<1> QED
  BY <1>1, <1>2, OwnerActsStraight, AnyoneStraight DEF Next

Kept == astray = {} => Straight

LEMMA KeptHolds == Spec => [](Book /\ GoodsOK /\ Kept)
<1>1. Init => Kept
  BY DEF Init, Kept, Straight, EntriesApart, Emptied, BuyersInOpen, OneRow, RowOfTheOwner, Single
<1>2. Book /\ GoodsOK /\ GoodsOK' /\ Kept /\ [Next]_vars => Kept'
  <2> SUFFICES ASSUME Book, GoodsOK, GoodsOK', Kept, [Next]_vars, astray' = {}
               PROVE  Straight'
    BY DEF Kept
  <2>1. astray = {}
    BY AstrayGrows
  <2> QED
    BY <2>1, StraightStep DEF Kept
<1>3. Init => GoodsOK
  BY GoodsAtFirst
<1>4. Book /\ GoodsOK /\ [Next]_vars => GoodsOK'
  BY GoodsStep DEF Book
<1> QED
  BY <1>1, <1>2, <1>3, <1>4, BookHolds, PTL DEF Spec

----
(***************************************************************************)
(* The promise: what an account has in consignment is in its one shop on   *)
(* the map, or with Fredrick in its one row. Closing a shop takes it from  *)
(* there to here; whatever else a step does is a move of the owner's, or a *)
(* sale.                                                                   *)
(***************************************************************************)

\* What left and due say of each account: its one shop on the map, else its row.
Mapped ==
  /\ left = [x \in Account |-> [s \in Stack |-> left[x][s]]]
  /\ due = [x \in Account |-> due[x]]
  /\ \A n \in Inst : placed[n] =>
       /\ \A s \in Stack : left[AccountOf[owner[n]]][s] = Units(items[n], s)
       /\ due[AccountOf[owner[n]]] = till[n]
  /\ \A x \in Account : \A c \in Char :
       Placed(x) = {} /\ AccountOf[c] = x /\ row[c] # NoRow =>
         /\ \A s \in Stack : left[x][s] = Units(goods[x], s)
         /\ due[x] = row[c]
  /\ \A x \in Account :
       Placed(x) = {} /\ (\A c \in Char : AccountOf[c] = x => row[c] = NoRow) =>
         /\ \A s \in Stack : left[x][s] = 0
         /\ due[x] = 0

LEMMA IsMapped == Book /\ Straight /\ astray = {} => Mapped
<1> SUFFICES ASSUME Book, Straight, astray = {} PROVE Mapped
  OBVIOUS
<1>1. /\ left = [x \in Account |-> [s \in Stack |-> left[x][s]]]
      /\ due = [x \in Account |-> due[x]]
  BY DEF left, due
<1>2. ASSUME NEW n \in Inst, placed[n]
      PROVE  /\ \A s \in Stack : left[AccountOf[owner[n]]][s] = Units(items[n], s)
             /\ due[AccountOf[owner[n]]] = till[n]
  <2> DEFINE x == AccountOf[owner[n]]
  <2>1. x \in Account
    BY <1>2, MerchantAssumption DEF Book, SetUpIsTended
  <2>2. Placed(x) = {n}
    BY <1>2 DEF Placed, Book, OneMerchant
  <2> HIDE DEF x
  <2>3. Placed(x) # {} /\ (CHOOSE k \in Placed(x) : TRUE) = n
    BY <2>2
  <2>4. \A s \in Stack : left[x][s] = Units(items[n], s)
    BY <2>1, <2>3 DEF left
  <2>5. due[x] = till[n]
    BY <2>1, <2>3 DEF due
  <2> QED
    BY <2>4, <2>5 DEF x
<1>3. ASSUME NEW x \in Account, NEW c \in Char, Placed(x) = {}, AccountOf[c] = x,
             row[c] # NoRow
      PROVE  (\A s \in Stack : left[x][s] = Units(goods[x], s)) /\ due[x] = row[c]
  <2>1. \A d \in Char : AccountOf[d] = x /\ row[d] # NoRow => d = c
    BY <1>3 DEF Straight, OneRow
  <2>2. (CHOOSE d \in Char : AccountOf[d] = x /\ row[d] # NoRow) = c
    BY <1>3, <2>1
  <2>3. \A s \in Stack : left[x][s] = Units(goods[x], s)
    BY <1>3 DEF left
  <2>4. due[x] = row[CHOOSE d \in Char : AccountOf[d] = x /\ row[d] # NoRow]
    BY <1>3 DEF due
  <2> QED
    BY <2>2, <2>3, <2>4
<1>4. ASSUME NEW x \in Account, Placed(x) = {},
             \A c \in Char : AccountOf[c] = x => row[c] = NoRow
      PROVE  (\A s \in Stack : left[x][s] = 0) /\ due[x] = 0
  <2>1. \A s \in Stack : left[x][s] = 0
    BY <1>4 DEF left
  <2>2. due[x] = 0
    BY <1>4 DEF due
  <2> QED
    BY <2>1, <2>2
<1> QED
  BY <1>1, <1>2, <1>3, <1>4 DEF Mapped

\* An account whose shop, rows and goods stay has the same in consignment.
LEMMA AccountRests ==
  ASSUME Mapped, Mapped', NEW x \in Account,
         \A n \in Inst : n \in Placed(x)' <=> n \in Placed(x),
         \A n \in Inst : n \in Placed(x) => items'[n] = items[n] /\ till'[n] = till[n],
         goods'[x] = goods[x], \A c \in Char : AccountOf[c] = x => row'[c] = row[c]
  PROVE  left'[x] = left[x] /\ due'[x] = due[x]
<1>1. (\A s \in Stack : left'[x][s] = left[x][s]) /\ due'[x] = due[x]
  <2>1. ASSUME NEW n \in Inst, n \in Placed(x)
        PROVE  (\A s \in Stack : left'[x][s] = left[x][s]) /\ due'[x] = due[x]
    <3>1. placed[n] /\ AccountOf[owner[n]] = x /\ placed'[n] /\ AccountOf[owner'[n]] = x
      BY <2>1 DEF Placed
    <3>2. (\A s \in Stack : left[x][s] = Units(items[n], s)) /\ due[x] = till[n]
      <4>1. /\ \A s \in Stack : left[AccountOf[owner[n]]][s] = Units(items[n], s)
            /\ due[AccountOf[owner[n]]] = till[n]
        BY <3>1 DEF Mapped
      <4> QED
        BY <3>1, <4>1
    <3>3. (\A s \in Stack : left'[x][s] = Units(items'[n], s)) /\ due'[x] = till'[n]
      <4>1. /\ \A s \in Stack : left'[AccountOf[owner'[n]]][s] = Units(items'[n], s)
            /\ due'[AccountOf[owner'[n]]] = till'[n]
        BY <3>1 DEF Mapped
      <4> QED
        BY <3>1, <4>1
    <3> QED
      BY <2>1, <3>2, <3>3
  <2>2. CASE Placed(x) = {}
    <3>1. Placed(x)' = {}
      BY <2>2 DEF Placed
    <3>2. ASSUME NEW c \in Char, AccountOf[c] = x, row[c] # NoRow
          PROVE  (\A s \in Stack : left'[x][s] = left[x][s]) /\ due'[x] = due[x]
      <4>1. (\A s \in Stack : left[x][s] = Units(goods[x], s)) /\ due[x] = row[c]
        BY <2>2, <3>2 DEF Mapped
      <4>2. (\A s \in Stack : left'[x][s] = Units(goods'[x], s)) /\ due'[x] = row'[c]
        BY <3>1, <3>2 DEF Mapped
      <4> QED
        BY <3>2, <4>1, <4>2
    <3>3. CASE \A c \in Char : AccountOf[c] = x => row[c] = NoRow
      <4>1. (\A s \in Stack : left[x][s] = 0) /\ due[x] = 0
        BY <2>2, <3>3 DEF Mapped
      <4>2. (\A s \in Stack : left'[x][s] = 0) /\ due'[x] = 0
        <5>1. \A c \in Char : AccountOf[c] = x => row'[c] = NoRow
          BY <3>3
        <5> QED
          BY <3>1, <5>1 DEF Mapped
      <4> QED
        BY <4>1, <4>2
    <3> QED
      BY <3>2, <3>3
  <2>3. Placed(x) # {} => \E n \in Inst : n \in Placed(x)
    BY DEF Placed
  <2> QED
    BY <2>1, <2>2, <2>3
<1>2. left[x] = [s \in Stack |-> left[x][s]]
  BY DEF left
<1>3. left'[x] = [s \in Stack |-> left'[x][s]]
  BY DEF left
<1> HIDE DEF left
<1> QED
  BY <1>1, <1>2, <1>3

LEMMA AllRest ==
  ASSUME Mapped, Mapped', \A x \in Account : left'[x] = left[x] /\ due'[x] = due[x]
  PROVE  UNCHANGED <<left, due>>
<1>1. left = [x \in Account |-> left[x]] /\ due = [x \in Account |-> due[x]]
  BY DEF left, due
<1>2. left' = [x \in Account |-> left'[x]] /\ due' = [x \in Account |-> due'[x]]
  BY DEF left, due
<1> QED
  BY <1>1, <1>2

LEMMA ClosingRests ==
  ASSUME Book, GoodsOK, Straight, Mapped, Mapped', astray = {}, SomeClosing
  PROVE  UNCHANGED <<left, due>>
<1>1. PICK n \in Inst : placed[n] /\ Closing(n)
  BY DEF SomeClosing
<1>0. items[n] \in Seq(Entry) /\ Single(items[n]) /\ till[n] \in 0 .. MaxMeso
      /\ owner[n] \in Char
  BY <1>1 DEF GoodsOK, Straight, EntriesApart, Book, SetUpIsTended
<1>2. PICK a \in Account : a = AccountOf[owner[n]]
  BY <1>0, MerchantAssumption
<1>3. saveItems(n, items[n], till[n]) /\ owner' = owner
  BY <1>1 DEF Closing
<1>4. /\ \A s : Units(goods'[a], s) = Units(items[n], s)
      /\ \A x \in Account : x # a => goods'[x] = goods[x]
      /\ row'[owner[n]] = till[n]
      /\ \A c \in Char : c # owner[n] => row'[c] = row[c]
  BY <1>0, <1>2, <1>3, SavedStraight
<1>5. ~placed'[n] /\ till' = till
      /\ \A k \in Inst : k # n => items'[k] = items[k] /\ placed'[k] = placed[k]
  BY <1>1 DEF Closing, GoodsOK, Book, ShopsOK
<1>6. left'[a] = left[a] /\ due'[a] = due[a]
  <2>1. Placed(a)' = {}
    BY <1>1, <1>2, <1>3, <1>5 DEF Placed, Book, OneMerchant
  <2>2. row'[owner[n]] # NoRow
    BY <1>0, <1>4 DEF NoRow
  <2>3. (\A s \in Stack : left'[a][s] = Units(goods'[a], s)) /\ due'[a] = row'[owner[n]]
    BY <1>0, <1>2, <2>1, <2>2 DEF Mapped
  <2>4. (\A s \in Stack : left[a][s] = Units(items[n], s)) /\ due[a] = till[n]
    <3>1. /\ \A s \in Stack : left[AccountOf[owner[n]]][s] = Units(items[n], s)
          /\ due[AccountOf[owner[n]]] = till[n]
      BY <1>1 DEF Mapped
    <3> QED
      BY <1>2, <3>1
  <2>5. \A s \in Stack : left'[a][s] = left[a][s]
    BY <1>4, <2>3, <2>4
  <2>6. left[a] = [s \in Stack |-> left[a][s]]
    BY <1>2 DEF left
  <2>7. left'[a] = [s \in Stack |-> left'[a][s]]
    BY <1>2 DEF left
  <2> QED
    BY <1>4, <2>3, <2>4, <2>5, <2>6, <2>7
<1>7. ASSUME NEW x \in Account, x # a
      PROVE  left'[x] = left[x] /\ due'[x] = due[x]
  <2>1. \A k \in Inst : k \in Placed(x)' <=> k \in Placed(x)
    BY <1>2, <1>3, <1>5, <1>7 DEF Placed
  <2>2. \A k \in Inst : k \in Placed(x) => items'[k] = items[k] /\ till'[k] = till[k]
    BY <1>2, <1>5, <1>7 DEF Placed
  <2>3. \A c \in Char : AccountOf[c] = x => row'[c] = row[c]
    BY <1>2, <1>4, <1>7
  <2> QED
    BY <1>4, <1>7, <2>1, <2>2, <2>3, AccountRests
<1> QED
  BY <1>6, <1>7, AllRest

\* What changes in one shop changes for its owner's account only.
LEMMA ShopMoves ==
  ASSUME Book, Mapped, Mapped', NEW n \in Inst, placed[n], UNCHANGED <<owner, placed>>,
         \A k \in Inst : k # n => items'[k] = items[k] /\ till'[k] = till[k],
         \A x \in Account : x # AccountOf[owner[n]] => goods'[x] = goods[x],
         \A c \in Char : c # owner[n] => row'[c] = row[c]
  PROVE  /\ \A x \in Account : x # AccountOf[owner[n]]
              => left'[x] = left[x] /\ due'[x] = due[x]
         /\ \A s \in Stack : /\ left[AccountOf[owner[n]]][s] = Units(items[n], s)
                             /\ left'[AccountOf[owner[n]]][s] = Units(items'[n], s)
         /\ due[AccountOf[owner[n]]] = till[n] /\ due'[AccountOf[owner[n]]] = till'[n]
<1>1. ASSUME NEW x \in Account, x # AccountOf[owner[n]]
      PROVE  left'[x] = left[x] /\ due'[x] = due[x]
  <2>1. \A k \in Inst : k \in Placed(x)' <=> k \in Placed(x)
    BY DEF Placed
  <2>2. \A k \in Inst : k \in Placed(x) => items'[k] = items[k] /\ till'[k] = till[k]
    BY <1>1 DEF Placed
  <2>3. \A c \in Char : AccountOf[c] = x => row'[c] = row[c]
    BY <1>1
  <2> QED
    BY <1>1, <2>1, <2>2, <2>3, AccountRests
<1>2. /\ \A s \in Stack : left[AccountOf[owner[n]]][s] = Units(items[n], s)
      /\ due[AccountOf[owner[n]]] = till[n]
  BY DEF Mapped
<1>3. /\ \A s \in Stack : left'[AccountOf[owner[n]]][s] = Units(items'[n], s)
      /\ due'[AccountOf[owner[n]]] = till'[n]
  BY DEF Mapped
<1> QED
  BY <1>1, <1>2, <1>3

LEMMA CreateRests ==
  ASSUME Book, Mapped, Mapped', astray = {}, GoodsOK, NEW c \in Char, NEW n \in Inst,
         Create(c, n), Book', astray' = {}
  PROVE  UNCHANGED <<left, due>>
<1> DEFINE a == AccountOf[c]
<1>1. /\ items'[n] = <<>> /\ placed'[n] /\ ~placed[n] /\ owner'[n] = c /\ till'[n] = 0
      /\ \A k \in Inst : k # n => /\ items'[k] = items[k] /\ placed'[k] = placed[k]
                                  /\ owner'[k] = owner[k] /\ till'[k] = till[k]
      /\ UNCHANGED <<row, goods>>
  BY DEF Create, Fresh, Unused, GoodsOK, Book, ShopsOK, saved
<1>2. left'[a] = left[a] /\ due'[a] = due[a]
  <2>1. \A d \in Char : AccountOf[d] = a => row[d] = NoRow
    BY DEF Create, HasRow, Mates
  <2>2. Placed(a) = {}
    <3> SUFFICES ASSUME NEW k \in Inst, placed[k], AccountOf[owner[k]] = a
                 PROVE  FALSE
      BY DEF Placed
    <3>1. k # n /\ placed'[k] /\ AccountOf[owner'[k]] = AccountOf[owner'[n]]
      BY <1>1
    <3> QED
      BY <1>1, <3>1 DEF Book, OneMerchant
  <2>3. a \in Account
    BY MerchantAssumption
  <2>4. (\A s \in Stack : left[a][s] = 0) /\ due[a] = 0
    BY <2>1, <2>2, <2>3 DEF Mapped
  <2>5. (\A s \in Stack : left'[a][s] = Units(items'[n], s)) /\ due'[a] = till'[n]
    <3>1. AccountOf[owner'[n]] = a
      BY <1>1
    <3> QED
      BY <1>1, <3>1 DEF Mapped
  <2>6. \A s : Units(<<>>, s) = 0
    <3>1. <<>> \in Seq(Entry) /\ \A s : ~Lists(<<>>, s)
      BY DEF Lists
    <3> QED
      BY <3>1, UnitsOfNone
  <2>7. left[a] = [s \in Stack |-> left[a][s]]
    BY <2>3 DEF left
  <2>8. left'[a] = [s \in Stack |-> left'[a][s]]
    BY <2>3 DEF left
  <2> QED
    BY <1>1, <2>4, <2>5, <2>6, <2>7, <2>8
<1>3. ASSUME NEW x \in Account, x # a
      PROVE  left'[x] = left[x] /\ due'[x] = due[x]
  <2>1. \A k \in Inst : k \in Placed(x)' <=> k \in Placed(x)
    BY <1>1, <1>3 DEF Placed
  <2>2. \A k \in Inst : k \in Placed(x) => items'[k] = items[k] /\ till'[k] = till[k]
    BY <1>1, <1>3 DEF Placed
  <2> QED
    BY <1>1, <1>3, <2>1, <2>2, AccountRests
<1> QED
  BY <1>2, <1>3, AllRest

LEMMA OthersOf ==
  ASSUME NEW S, NEW f, NEW g, DOMAIN f = S, NEW x, \A y \in S : y # x => g[y] = f[y]
  PROVE  Promise!Others(f, g, x)
BY DEF Promise!Others

\* The owner moves units or mesos between bag or purse and the shop it is in.
LEMMA OwnerMoves ==
  ASSUME Book, GoodsOK, Mapped, Mapped', NEW c \in Char, NEW n \in Inst,
         owner[n] = c, placed[n], UNCHANGED <<owner, placed, row, goods>>,
         \A k \in Inst : k # n => items'[k] = items[k] /\ till'[k] = till[k],
         \A d \in Char : d # c => bag'[d] = bag[d] /\ purse'[d] = purse[d],
         \A s \in Stack :
           bag'[c].units[s] + Units(items'[n], s) = bag[c].units[s] + Units(items[n], s),
         purse'[c] + till'[n] = purse[c] + till[n]
  PROVE  Promise!Own(c)
<1>1. /\ \A x \in Account : x # AccountOf[c] => left'[x] = left[x] /\ due'[x] = due[x]
      /\ \A s \in Stack : /\ left[AccountOf[c]][s] = Units(items[n], s)
                          /\ left'[AccountOf[c]][s] = Units(items'[n], s)
      /\ due[AccountOf[c]] = till[n] /\ due'[AccountOf[c]] = till'[n]
  BY ShopMoves
<1>2. /\ DOMAIN units = Char /\ DOMAIN purse = Char
      /\ \A d \in Char : units[d] = bag[d].units /\ units'[d] = bag'[d].units
  BY DEF GoodsOK, units
<1>3. DOMAIN left = Account /\ DOMAIN due = Account
  BY DEF left, due
<1>4. Promise!Others(units, units', c) /\ Promise!Others(purse, purse', c)
  BY <1>2, OthersOf
<1>5. Promise!Others(left, left', AccountOf[c]) /\ Promise!Others(due, due', AccountOf[c])
  BY <1>1, <1>3, OthersOf
<1> QED
  BY <1>1, <1>2, <1>4, <1>5 DEF Promise!Own

LEMMA AddItemMoves ==
  ASSUME Book, GoodsOK, Straight, Mapped, Mapped', astray = {}, astray' = {},
         NEW c \in Char, NEW s \in Stack, NEW p \in Sizes(bag[c], s), NEW k \in 1 .. p,
         AddItem(c, s, p, k)
  PROVE  Promise!Own(c)
<1> DEFINE n == shop[c]
           e == [stack |-> s, left |-> k]
<1>1. n \in Inst /\ placed[n] /\ owner[n] = c
  BY OwnersShop DEF AddItem
<1>2. k \in Nat /\ bag[c] \in Bag /\ bag[c].units \in [Stack -> Nat]
  <2>1. bag[c] \in Bag
    BY DEF GoodsOK
  <2> QED
    BY <2>1, SizesType DEF Bag
<1>3. e \in Entry /\ e.stack = s /\ e.left = k
  BY <1>2 DEF Entry
<1>4. items' = [items EXCEPT ![n] = Append(items[n], e)] /\ ~Lists(items[n], s)
      /\ UNCHANGED <<owner, placed, row, goods, till, purse>>
  BY DEF AddItem, saved
<1>5. bag' = [bag EXCEPT ![c] = Filled(bag[c], s, -k, IF k = p THEN -1 ELSE 0)]
  BY DEF AddItem
<1> HIDE DEF n, e
<1>6. items[n] \in Seq(Entry) /\ Single(items[n])
  BY <1>1 DEF GoodsOK, Straight, EntriesApart
<1>7. items'[n] = Append(items[n], e) /\ \A m \in Inst : m # n => items'[m] = items[m]
  BY <1>1, <1>4 DEF GoodsOK
<1>8. \A t \in Stack : Units(items'[n], t) = Units(items[n], t) + (IF t = s THEN k ELSE 0)
  BY <1>3, <1>4, <1>6, <1>7, UnitsOfAppended
<1>9. /\ \A d \in Char : d # c => bag'[d] = bag[d]
      /\ \A t \in Stack :
           bag'[c].units[t] = IF t = s THEN bag[c].units[t] + (-k) ELSE bag[c].units[t]
  <2>1. bag'[c].units = [bag[c].units EXCEPT ![s] = @ + (-k)]
    BY <1>5 DEF GoodsOK, Filled
  <2> QED
    BY <1>2, <1>5, <2>1 DEF GoodsOK
<1>10. ASSUME NEW t \in Stack
       PROVE  bag'[c].units[t] + Units(items'[n], t) = bag[c].units[t] + Units(items[n], t)
  <2>1. bag[c].units[t] \in Nat /\ Units(items[n], t) \in Nat
    BY <1>2, <1>6, UnitsType
  <2> QED
    BY <1>2, <1>8, <1>9, <2>1
<1> QED
  BY <1>1, <1>4, <1>7, <1>9, <1>10, OwnerMoves

LEMMA TakeBackMoves ==
  ASSUME Book, GoodsOK, Straight, Mapped, Mapped', astray = {}, astray' = {},
         NEW c \in Char, NEW j \in DOMAIN items[shop[c]], TakeBack(c, j)
  PROVE  Promise!Own(c)
<1> DEFINE n == shop[c]
           e == items[n][j]
<1>1. n \in Inst /\ placed[n] /\ owner[n] = c
  BY OwnersShop DEF TakeBack
<1>2. items[n] \in Seq(Entry) /\ Single(items[n]) /\ bag[c] \in Bag
      /\ bag[c].units \in [Stack -> Nat]
  BY <1>1 DEF GoodsOK, Straight, EntriesApart, Bag
<1>3. e \in Entry /\ e.stack \in Stack /\ e.left \in Nat
  <2>1. e \in Entry
    BY <1>2
  <2> QED
    BY <2>1 DEF Entry
<1>4. items' = [items EXCEPT ![n] = RemoveAt(items[n], j)]
      /\ UNCHANGED <<owner, placed, row, goods, till, purse>>
  BY DEF TakeBack, saved
<1>5. PICK o \in addFromDrop(c, bag[c], e.stack, e.left) :
             bag' = [bag EXCEPT ![c] = o.bag] /\ astray' = astray \cup Topped(o)
  BY DEF TakeBack
<1>0. checkSpace(c, e.stack, e.left)
  BY DEF TakeBack
<1>6. \A t : Units(items[n], t) = Units(RemoveAt(items[n], j), t)
                                    + (IF t = e.stack THEN e.left ELSE 0)
  BY <1>2, UnitsOfRemoved
<1>7. RemoveAt(items[n], j) \in Seq(Entry)
  BY <1>2, RemoveAtDoes
<1> HIDE DEF n, e
<1>8. items'[n] = RemoveAt(items[n], j) /\ \A m \in Inst : m # n => items'[m] = items[m]
  BY <1>1, <1>4 DEF GoodsOK
<1>9. /\ \A d \in Char : d # c => bag'[d] = bag[d]
      /\ \A t \in Stack : bag'[c].units[t] = IF t = e.stack THEN bag[c].units[t] + e.left
                                              ELSE bag[c].units[t]
  <2>1. ~o.lost
    BY <1>5 DEF Topped
  <2>2. /\ o.bag.units[e.stack] = bag[c].units[e.stack] + e.left
        /\ \A t \in Stack \ {e.stack} : o.bag.units[t] = bag[c].units[t]
    BY <1>0, <1>2, <1>3, <2>1, SpaceDoes
  <2> QED
    BY <1>5, <2>2 DEF GoodsOK
<1>10. ASSUME NEW t \in Stack
       PROVE  bag'[c].units[t] + Units(items'[n], t) = bag[c].units[t] + Units(items[n], t)
  <2>1. bag[c].units[t] \in Nat /\ Units(items'[n], t) \in Nat
    BY <1>2, <1>7, <1>8, UnitsType
  <2> QED
    BY <1>3, <1>6, <1>8, <1>9, <2>1
<1> QED
  BY <1>1, <1>4, <1>8, <1>9, <1>10, OwnerMoves

LEMMA OrganiseMoves ==
  ASSUME Book, GoodsOK, Straight, Mapped, Mapped', astray = {}, astray' = {},
         NEW c \in Char, Organise(c)
  PROVE  Promise!Own(c)
<1> DEFINE n == shop[c]
           fits == purse[c] + till[n] <= MaxMeso
<1>1. n \in Inst /\ placed[n] /\ owner[n] = c
  BY OwnersShop DEF Organise
<1>2. items[n] \in Seq(Entry) /\ Single(items[n]) /\ purse[c] \in Nat /\ till[n] \in Nat
  BY <1>1, MerchantAssumption DEF GoodsOK, Straight, EntriesApart
<1>3. items' = [items EXCEPT ![n] = Tidied(items[n])]
      /\ purse' = [purse EXCEPT ![c] = IF fits THEN purse[c] + till[n] ELSE purse[c]]
      /\ till' = [till EXCEPT ![n] = IF fits THEN 0 ELSE till[n]]
      /\ UNCHANGED <<owner, placed, row, goods, bag>>
  BY DEF Organise, saved
<1>4. \A t : Units(Tidied(items[n]), t) = Units(items[n], t)
  BY <1>2, TidiedDoes
<1> HIDE DEF n, fits
<1>5. /\ items'[n] = Tidied(items[n]) /\ \A m \in Inst : m # n => items'[m] = items[m]
      /\ purse'[c] = (IF fits THEN purse[c] + till[n] ELSE purse[c])
      /\ \A d \in Char : d # c => purse'[d] = purse[d]
      /\ till'[n] = (IF fits THEN 0 ELSE till[n])
      /\ \A m \in Inst : m # n => till'[m] = till[m]
  BY <1>1, <1>3 DEF GoodsOK
<1>6. purse'[c] + till'[n] = purse[c] + till[n]
  BY <1>2, <1>5
<1> QED
  BY <1>1, <1>3, <1>4, <1>5, <1>6, OwnerMoves

\* A function of functions that differs in one place.
LEMMA TwoLevels ==
  ASSUME NEW S, NEW T, NEW f, NEW g,
         f = [x \in S |-> [t \in T |-> f[x][t]]], g = [x \in S |-> [t \in T |-> g[x][t]]],
         NEW a \in S, NEW s \in T, NEW v,
         \A x \in S, t \in T : g[x][t] = IF x = a /\ t = s THEN v ELSE f[x][t]
  PROVE  g = [f EXCEPT ![a][s] = v]
<1>1. [f EXCEPT ![a][s] = v] = [x \in S |-> IF x = a THEN [f[a] EXCEPT ![s] = v] ELSE f[x]]
  OBVIOUS
<1>2. [f[a] EXCEPT ![s] = v] = [t \in T |-> IF t = s THEN v ELSE f[a][t]]
  <2>1. f[a] = [t \in T |-> f[a][t]]
    OBVIOUS
  <2> QED
    BY <2>1
<1>3. ASSUME NEW x \in S
      PROVE  g[x] = IF x = a THEN [f[a] EXCEPT ![s] = v] ELSE f[x]
  <2>1. g[x] = [t \in T |-> g[x][t]] /\ f[x] = [t \in T |-> f[x][t]]
    OBVIOUS
  <2>2. CASE x = a
    BY <1>2, <2>1, <2>2
  <2>3. CASE x # a
    BY <2>1, <2>3
  <2> QED
    BY <2>2, <2>3
<1>4. g = [x \in S |-> g[x]]
  OBVIOUS
<1> QED
  BY <1>1, <1>3, <1>4

LEMMA BuyMoves ==
  ASSUME Book, GoodsOK, GoodsOK', Straight, Mapped, Mapped', astray = {},
         astray' = {}, NEW c \in Char, shop[c] # None, NEW j \in DOMAIN items[shop[c]],
         NEW q \in 1 .. items[shop[c]][j].left, Buy(c, j, q)
  PROVE  \E x \in Account : Promise!Buy(c, x)
<1> DEFINE n == shop[c]
           e == items[n][j]
           cost == Price * q
           gain == till[n] + cost - EntrustedStoreTax(cost)
           list == [items[n] EXCEPT ![j].left = @ - q]
<1>1. BuyShape(c, j, q)
  BY BuyHasShape
<1>2. /\ n \in Inst /\ placed[n] /\ owner[n] \in Char /\ owner[n] # c
      /\ items[n] \in Seq(Entry) /\ e \in Entry /\ q \in 1 .. e.left
      /\ list \in Seq(Entry) /\ Single(list) /\ gain \in 0 .. MaxMeso
      /\ till' = [till EXCEPT ![n] = gain] /\ items' = [items EXCEPT ![n] = list]
      /\ saveItems(n, list, gain) /\ UNCHANGED <<owner, placed>>
  BY <1>1 DEF BuyShape
<1>3. /\ purse' = [purse EXCEPT ![c] = @ - cost] /\ checkSpace(c, e.stack, q)
      /\ \E o \in addFromDrop(c, bag[c], e.stack, q) :
           bag' = [bag EXCEPT ![c] = o.bag] /\ astray' = astray \cup Topped(o)
  BY DEF Buy
<1>4. Single(items[n])
  BY <1>2 DEF Straight, EntriesApart
<1>5. \A t : Units(list, t) = Units(items[n], t) - (IF t = e.stack THEN q ELSE 0)
  BY <1>2, <1>4, UnitsOfSold
<1>6. Units(items[n], e.stack) = e.left
  BY <1>2, <1>4, UnitsOfSingle
<1>7. e.stack \in Stack /\ q \in Nat /\ e.left \in Nat
  BY <1>2 DEF Entry
<1> HIDE DEF n, e, cost, gain, list
<1>8. PICK a \in Account : a = AccountOf[owner[n]]
  BY <1>2, MerchantAssumption
<1>9. /\ \A x \in Account : x # a => goods'[x] = goods[x]
      /\ \A d \in Char : d # owner[n] => row'[d] = row[d]
  BY <1>2, <1>8, SavedStraight
<1>10. /\ items'[n] = list /\ \A k \in Inst : k # n => items'[k] = items[k]
       /\ till'[n] = gain /\ \A k \in Inst : k # n => till'[k] = till[k]
  BY <1>2 DEF GoodsOK
<1>11. /\ \A x \in Account : x # a => left'[x] = left[x] /\ due'[x] = due[x]
       /\ \A t \in Stack : left[a][t] = Units(items[n], t) /\ left'[a][t] = Units(list, t)
       /\ due[a] = till[n] /\ due'[a] = gain
  BY <1>2, <1>8, <1>9, <1>10, ShopMoves
<1>12. left' = [left EXCEPT ![a][e.stack] = @ - q]
  <2>1. \A x \in Account, t \in Stack :
          left'[x][t] = IF x = a /\ t = e.stack THEN left[a][e.stack] - q ELSE left[x][t]
    <3>1. \A t \in Stack : Units(items[n], t) \in Nat
      BY <1>2, UnitsType
    <3>2. \A t \in Stack : t # e.stack => left'[a][t] = left[a][t]
      BY <1>5, <1>11, <3>1
    <3>3. left'[a][e.stack] = left[a][e.stack] - q
      BY <1>5, <1>7, <1>11
    <3> QED
      BY <1>11, <3>2, <3>3
  <2>2. /\ left = [x \in Account |-> [t \in Stack |-> left[x][t]]]
        /\ left' = [x \in Account |-> [t \in Stack |-> left'[x][t]]]
    BY DEF Mapped
  <2>3. left' = [left EXCEPT ![a][e.stack] = left[a][e.stack] - q]
    BY <1>7, <2>1, <2>2, TwoLevels
  <2> QED
    BY <2>3
<1>13. due' = [due EXCEPT ![a] = @ + cost - EntrustedStoreTax(cost)]
  <2>1. due = [x \in Account |-> due[x]] /\ due' = [x \in Account |-> due'[x]]
    BY DEF Mapped
  <2>2. due'[a] = due[a] + cost - EntrustedStoreTax(cost)
    BY <1>11 DEF gain
  <2> QED
    BY <1>11, <2>1, <2>2
<1>14. q \in 1 .. left[a][e.stack]
  BY <1>2, <1>6, <1>7, <1>11
<1>15. units' = [units EXCEPT ![c][e.stack] = @ + q]
  <2>1. PICK o \in addFromDrop(c, bag[c], e.stack, q) :
               bag' = [bag EXCEPT ![c] = o.bag] /\ astray' = astray \cup Topped(o)
    BY <1>3
  <2>2. ~o.lost /\ bag[c] \in Bag
    BY <2>1 DEF Topped, GoodsOK
  <2>3. /\ o.bag.units[e.stack] = bag[c].units[e.stack] + q
        /\ \A t \in Stack \ {e.stack} : o.bag.units[t] = bag[c].units[t]
    BY <1>3, <1>7, <2>2, SpaceDoes
  <2>4. /\ units = [x \in Char |-> [t \in Stack |-> units[x][t]]]
        /\ units' = [x \in Char |-> [t \in Stack |-> units'[x][t]]]
        /\ \A d \in Char : units[d] = bag[d].units /\ units'[d] = bag'[d].units
    <3>1. \A d \in Char : units[d] = bag[d].units /\ units'[d] = bag'[d].units
      BY DEF units
    <3>2. \A d \in Char : bag[d].units \in [Stack -> Nat] /\ bag'[d].units \in [Stack -> Nat]
      BY DEF GoodsOK, Bag
    <3>3. \A d \in Char : /\ units[d] = [t \in Stack |-> units[d][t]]
                          /\ units'[d] = [t \in Stack |-> units'[d][t]]
      BY <3>1, <3>2
    <3>4. units = [x \in Char |-> units[x]] /\ units' = [x \in Char |-> units'[x]]
      BY DEF units
    <3> HIDE DEF units
    <3> QED
      BY <3>1, <3>3, <3>4
  <2>5. \A x \in Char, t \in Stack :
          units'[x][t] = IF x = c /\ t = e.stack THEN units[c][e.stack] + q ELSE units[x][t]
    <3>1. bag'[c] = o.bag /\ \A x \in Char \ {c} : bag'[x] = bag[x]
      BY <2>1 DEF GoodsOK
    <3>2. \A x \in Char \ {c} : units'[x] = units[x]
      BY <2>4, <3>1
    <3>3. \A t \in Stack : units'[c][t] = IF t = e.stack THEN units[c][t] + q ELSE units[c][t]
      BY <1>7, <2>3, <2>4, <3>1
    <3> HIDE DEF units
    <3> QED
      BY <3>2, <3>3
  <2>6. units' = [units EXCEPT ![c][e.stack] = units[c][e.stack] + q]
    BY <1>7, <2>4, <2>5, TwoLevels
  <2> QED
    BY <2>6
<1> QED
  BY <1>3, <1>7, <1>12, <1>13, <1>14, <1>15 DEF Promise!Buy, cost

\* Fredrick pays what the account is owed and hands out what it left.
LEMMA FetchMoves ==
  ASSUME Book, GoodsOK, Straight, Mapped, Mapped', astray = {},
         NEW c \in Char, deletePackage(c), Unpaid(c) = {}, ~hasMerchant(AccountOf[c]),
         UNCHANGED <<owner, placed, items, till, goods>>,
         \A d \in Char : d # c => bag'[d] = bag[d],
         \A s \in Stack : bag'[c].units[s] = bag[c].units[s] + Units(goods[AccountOf[c]], s)
  PROVE  Promise!Own(c)
<1>1. PICK a \in Account : a = AccountOf[c]
  BY MerchantAssumption
<1>2. PICK d \in Char : AccountOf[d] = a /\ row[d] # NoRow
  BY <1>1 DEF deletePackage, HasRow, Mates
<1>3. Placed(a) = {}
  <2> SUFFICES ASSUME NEW n \in Inst, placed[n], AccountOf[owner[n]] = a
               PROVE  FALSE
    BY DEF Placed
  <2>1. available[n]
    BY <1>2 DEF Straight, RowOfTheOwner
  <2>2. storeid[n] \in Store /\ merchants[storeid[n]] = n /\ n # None
    BY <2>1, MerchantAssumption DEF Book, ShopsOK, Registered
  <2> QED
    BY <1>1, <2>2 DEF hasMerchant
<1>4. Placed(a)' = {}
  BY <1>3 DEF Placed
<1>5. (\A s \in Stack : left[a][s] = Units(goods[a], s)) /\ due[a] = row[d]
  BY <1>2, <1>3 DEF Mapped
<1>6. \A x \in Char : AccountOf[x] = a => row'[x] = NoRow
  BY <1>1 DEF deletePackage, Mates
<1>7. (\A s \in Stack : left'[a][s] = 0) /\ due'[a] = 0
  BY <1>4, <1>6 DEF Mapped
<1>8. Mesos(c) = row[d]
  <2>1. CASE row[c] # NoRow
    BY <1>1, <1>2, <2>1 DEF Straight, OneRow, Mesos
  <2>2. CASE row[c] = NoRow
    <3>1. d \in Mates(c) \ {c}
      BY <1>1, <1>2, <2>2 DEF Mates
    <3>2. ~(Mesos(d) > 0)
      BY <3>1 DEF Unpaid
    <3>3. row[d] \in NoRow .. MaxMeso
      BY DEF GoodsOK
    <3>4. Mesos(d) = row[d] /\ Mesos(c) = 0
      BY <1>2, <2>2 DEF Mesos
    <3>5. row[d] \in Nat
      BY <1>2, <3>3, MerchantAssumption DEF NoRow
    <3> QED
      BY <3>2, <3>4, <3>5
  <2> QED
    BY <2>1, <2>2
<1>9. row[d] \in Nat /\ purse[c] \in Nat /\ bag[c].units \in [Stack -> Nat]
      /\ goods[a] \in Seq(Entry)
  <2>1. row[d] \in Nat /\ purse[c] \in Nat /\ goods[a] \in Seq(Entry)
    BY <1>2, MerchantAssumption DEF GoodsOK, NoRow
  <2>2. bag[c].units \in [Stack -> Nat]
    BY DEF GoodsOK, Bag
  <2> QED
    BY <2>1, <2>2
<1>10. purse'[c] = purse[c] + row[d] /\ \A x \in Char : x # c => purse'[x] = purse[x]
  BY <1>8 DEF deletePackage, GoodsOK
<1>11. ASSUME NEW x \in Account, x # a
       PROVE  left'[x] = left[x] /\ due'[x] = due[x]
  <2>1. \A k \in Inst : k \in Placed(x)' <=> k \in Placed(x)
    BY DEF Placed
  <2>2. \A y \in Char : AccountOf[y] = x => row'[y] = row[y]
    BY <1>1, <1>11 DEF deletePackage, Mates
  <2> QED
    BY <2>1, <2>2, AccountRests
<1>12. /\ DOMAIN units = Char /\ DOMAIN purse = Char
       /\ \A x \in Char : units[x] = bag[x].units /\ units'[x] = bag'[x].units
  BY DEF GoodsOK, units
<1>13. \A s \in Stack : units'[c][s] + left'[a][s] = units[c][s] + left[a][s]
  <2> TAKE s \in Stack
  <2>1. Units(goods[a], s) \in Nat /\ bag[c].units[s] \in Nat
    BY <1>9, UnitsType
  <2> QED
    BY <1>1, <1>5, <1>7, <1>12, <2>1
<1>14. purse'[c] + due'[a] = purse[c] + due[a]
  BY <1>5, <1>7, <1>9, <1>10
<1>15. DOMAIN left = Account /\ DOMAIN due = Account
  BY DEF left, due
<1>16. Promise!Others(units, units', c) /\ Promise!Others(purse, purse', c)
  BY <1>10, <1>12, OthersOf
<1>17. Promise!Others(left, left', a) /\ Promise!Others(due, due', a)
  BY <1>11, <1>15, OthersOf
<1> QED
  BY <1>1, <1>13, <1>14, <1>16, <1>17 DEF Promise!Own

LEMMA CollectMesosMoves ==
  ASSUME Book, GoodsOK, Straight, Mapped, Mapped', astray = {}, astray' = {},
         NEW c \in Char, CollectMesos(c)
  PROVE  Promise!Own(c)
<1>1. /\ deletePackage(c) /\ Unpaid(c) = {} /\ ~hasMerchant(AccountOf[c])
      /\ UNCHANGED <<owner, placed, items, till, goods, bag>> /\ goods[AccountOf[c]] = <<>>
  BY DEF CollectMesos, shops
<1>2. ASSUME NEW s \in Stack
      PROVE  bag'[c].units[s] = bag[c].units[s] + Units(goods[AccountOf[c]], s)
  <2>1. <<>> \in Seq(Entry) /\ ~Lists(<<>>, s)
    BY DEF Lists
  <2>2. Units(<<>>, s) = 0
    BY <2>1, UnitsOfNone
  <2>3. bag[c].units[s] \in Nat
    BY DEF GoodsOK, Bag
  <2> QED
    BY <1>1, <2>2, <2>3
<1> QED
  BY <1>1, <1>2, FetchMoves

LEMMA CollectMoves ==
  ASSUME Book, GoodsOK, Straight, Mapped, Mapped', astray = {}, astray' = {},
         NEW c \in Char, Collect(c)
  PROVE  Promise!Own(c)
<1> DEFINE l == goods[AccountOf[c]]
<1>1. l \in Seq(Entry) /\ Single(l) /\ bag[c] \in Bag
  BY MerchantAssumption DEF GoodsOK, Straight, EntriesApart
<1>2. PICK o \in Handed(c, l) :
             /\ bag' = [bag EXCEPT ![c] = o.bag]
             /\ astray' = astray \cup Unpaid(c) \cup Topped(o)
                  \cup (IF hasMerchant(AccountOf[c]) THEN {"forsale"} ELSE {})
  BY DEF Collect
<1>3. /\ check(c, l) /\ deletePackage(c)
      /\ UNCHANGED <<owner, placed, items, till, goods>>
  BY DEF Collect, shops
<1>4. ~o.lost /\ Unpaid(c) = {} /\ ~hasMerchant(AccountOf[c])
  BY <1>2 DEF Topped
<1>5. \A s \in Stack : o.bag.units[s] = bag[c].units[s] + Units(l, s)
  <2> HIDE DEF l
  <2> QED
    BY <1>1, <1>3, <1>4, HandedDoes
<1>6. /\ bag'[c] = o.bag
      /\ \A d \in Char : d # c => bag'[d] = bag[d]
  BY <1>2 DEF GoodsOK
<1> QED
  BY <1>3, <1>4, <1>5, <1>6, FetchMoves

Reached == astray = {} => Mapped

LEMMA RestingRests == Resting => UNCHANGED <<left, due>>
BY DEF Resting, left, due, Placed

LEMMA PromiseStep ==
  ASSUME Book, Book', GoodsOK, GoodsOK', Kept, Kept', Reached, Reached', [Next]_vars
  PROVE  [Promise!Next]_(Promise!vars)
<1>1. CASE astray' # {}
  BY <1>1 DEF Promise!Next
<1> SUFFICES ASSUME astray' = {} PROVE [Promise!Next]_(Promise!vars)
  BY <1>1
<1>2. astray = {} /\ Straight /\ Straight' /\ Mapped /\ Mapped'
  BY AstrayGrows DEF Kept, Reached
<1>3. ASSUME UNCHANGED <<bag, purse>>, UNCHANGED <<left, due>>
      PROVE  [Promise!Next]_(Promise!vars)
  BY <1>2, <1>3 DEF Promise!vars, units
<1>4. ASSUME Resting, UNCHANGED <<bag, purse>>
      PROVE  [Promise!Next]_(Promise!vars)
  BY <1>3, <1>4, RestingRests
<1>5. ASSUME SomeClosing, UNCHANGED <<bag, purse>>
      PROVE  [Promise!Next]_(Promise!vars)
  BY <1>2, <1>3, <1>5, ClosingRests
<1>6. ASSUME NEW c \in Char, Promise!Own(c) \/ \E x \in Account : Promise!Buy(c, x)
      PROVE  [Promise!Next]_(Promise!vars)
  BY <1>2, <1>6 DEF Promise!Next
<1>7. ASSUME NEW c \in Char, OwnerActs(c)
      PROVE  [Promise!Next]_(Promise!vars)
  <2>1. CASE Login(c)
    BY <1>4, <2>1 DEF Login, Resting, shops, saved
  <2>2. CASE Open(c)
    <3>1. UNCHANGED <<left, due>>
      BY <2>2 DEF Open, left, due, Placed, saved
    <3> QED
      BY <1>3, <2>2, <3>1 DEF Open
  <2>3. CASE MaintenanceOff(c)
    BY <1>4, <2>3 DEF MaintenanceOff, Resting, saved
  <2>4. CASE Organise(c)
    BY <1>2, <1>6, <2>4, OrganiseMoves
  <2>5. CASE Close(c)
    BY <1>2, <1>5, <2>5, CloseCloses DEF Close
  <2>6. ASSUME NEW n \in Inst, Create(c, n)
        PROVE  [Promise!Next]_(Promise!vars)
    <3>1. UNCHANGED <<left, due>>
      BY <1>2, <2>6, CreateRests
    <3> QED
      BY <1>3, <2>6, <3>1 DEF Create
  <2>7. ASSUME NEW s \in Stack, NEW p \in Sizes(bag[c], s), NEW k \in 1 .. p,
               AddItem(c, s, p, k)
        PROVE  [Promise!Next]_(Promise!vars)
    BY <1>2, <1>6, <2>7, AddItemMoves
  <2>8. ASSUME NEW j \in DOMAIN items[shop[c]], TakeBack(c, j)
        PROVE  [Promise!Next]_(Promise!vars)
    BY <1>2, <1>6, <2>8, TakeBackMoves
  <2> QED
    BY <1>7, <2>1, <2>2, <2>3, <2>4, <2>5, <2>6, <2>7, <2>8 DEF OwnerActs
<1>8. ASSUME NEW c \in Char, Anyone(c)
      PROVE  [Promise!Next]_(Promise!vars)
  <2>1. CASE Exit(c)
    BY <1>2, <1>4, <1>5, <2>1, ExitCloses DEF Exit
  <2>2. CASE CollectMesos(c) \/ Collect(c)
    BY <1>2, <1>6, <2>2, CollectMesosMoves, CollectMoves
  <2>3. CASE Disconnect(c)
    BY <1>2, <1>4, <1>5, <2>3, DisconnectCloses DEF Disconnect
  <2>4. ASSUME NEW n \in Inst, Visit(c, n)
        PROVE  [Promise!Next]_(Promise!vars)
    BY <1>4, <2>4 DEF Visit, Resting, saved
  <2>5. ASSUME shop[c] # None, NEW j \in DOMAIN items[shop[c]],
               NEW q \in 1 .. items[shop[c]][j].left, Buy(c, j, q)
        PROVE  [Promise!Next]_(Promise!vars)
    BY <1>2, <1>6, <2>5, BuyMoves
  <2>6. CASE Save(c)
    BY <1>4, <2>6 DEF Save, Resting, chars, shops
  <2> QED
    BY <1>8, <2>1, <2>2, <2>3, <2>4, <2>5, <2>6 DEF Anyone
<1>9. CASE Server
  <2>1. UNCHANGED <<bag, purse>>
    <3>1. CASE Restart
      <4>1. \A c \in Char : kept[c] = CopyOf(c)
        <5>1. (\E c \in Char : kept[c] # CopyOf(c)) => "unsaved" \in astray'
          BY <3>1 DEF Restart
        <5> QED
          BY <5>1
      <4>2. \A c \in Char : kept[c].bag = bag[c] /\ kept[c].purse = purse[c]
        <5>1. \A c \in Char : CopyOf(c).bag = bag[c] /\ CopyOf(c).purse = purse[c]
          BY DEF CopyOf
        <5> QED
          BY <4>1, <5>1
      <4>3. bag' = [c \in Char |-> kept[c].bag] /\ purse' = [c \in Char |-> kept[c].purse]
        BY <3>1 DEF Restart
      <4>4. bag = [c \in Char |-> bag[c]] /\ purse = [c \in Char |-> purse[c]]
        BY DEF GoodsOK
      <4> QED
        BY <4>2, <4>3, <4>4
    <3>2. CASE ~Restart
      BY <1>9, <3>2 DEF Server, Expire, Shutdown, AllClosed, closeAllMerchant, chars
    <3> QED
      BY <3>1, <3>2
  <2>2. CASE Restart
    <3>1. \A n \in Inst : ~placed[n] /\ ~placed'[n]
      BY <2>2 DEF Restart
    <3>2. UNCHANGED <<left, due>>
      BY <2>2, <3>1 DEF Restart, left, due, Placed, saved
    <3> QED
      BY <1>3, <2>1, <3>2
  <2> QED
    BY <1>2, <1>4, <1>5, <1>9, <2>1, <2>2, ServerCloses
<1>10. CASE UNCHANGED vars
  BY <1>4, <1>10 DEF vars, chars, shops, saved, Resting
<1> QED
  BY <1>7, <1>8, <1>9, <1>10 DEF Next

\* Hired merchants keep goods and mesos in consignment as they promise: unless one of
\* the eight mishaps happened, every step moves units or mesos between a character and
\* its own account's shop or row, or sells some at the price less the tax. For any
\* characters, accounts, shops, stacks and prices.
THEOREM ConsignmentIsKept == Spec => KeepsConsignment
<1>1. Init => Promise!Init
  <2> SUFFICES ASSUME Init PROVE Promise!Init
    OBVIOUS
  <2>1. \A x \in Account : Placed(x) = {}
    BY DEF Init, Placed
  <2>2. left = [x \in Account |-> [s \in Stack |-> 0]]
    BY <2>1 DEF left, Init
  <2>3. due = [x \in Account |-> 0]
    BY <2>1 DEF due, Init
  <2>4. units = [c \in Char |-> InitBag[c].units]
    BY DEF units, Init
  <2> QED
    BY <2>2, <2>3, <2>4 DEF Init, Promise!Init
<1>2. Book /\ GoodsOK /\ Kept => Reached
  BY IsMapped DEF Kept, Reached
<1>3. Book /\ Book' /\ GoodsOK /\ GoodsOK' /\ Kept /\ Kept' /\ Reached /\ Reached' /\ [Next]_vars
        => [Promise!Next]_(Promise!vars)
  BY PromiseStep
<1> QED
  BY <1>1, <1>2, <1>3, KeptHolds, PTL DEF Spec, KeepsConsignment, Promise!Spec
=============================================================================
