# A verification project for the MapleStory 079 server

This directory holds TLA+ models of the server in `src/src/main/java`, the TLC
configurations that check them on small instances, and TLAPS proofs about them.
Every definition is read off the Java source; `PROJECT.json` gives, under
`map`, the lines each definition stands for.

The server is one JVM process. A login server, several channel servers and a
cash shop listen on ports of their own; MINA hands the packets of one session
to one I/O thread at a time, and packets of different sessions run in parallel.
Scripts (3 339 JavaScript files: NPCs, quests, events, reactors) are game
content interpreted by the server and call the same Java API as the packet
handlers. All state lives in memory and is written to MySQL at certain points;
a crash loses the rest.

## 1. Inventory

### 1.1 Components

State, operations, partners and correctness of each part. "Modelled by" names
the module; *planned* names the module of section 2 that is not written yet.

| Component | State it keeps | Operations | Interacts with | What makes it correct | Modelled by |
|---|---|---|---|---|---|
| Sessions and server migration (`MapleClient`, `InterServerHandler`, `CashShopOperation`, `CharLoginHandler`, `PlayerStorage`, `World.Find`) | account's login state in the database, flags of each client, pending transfers, registered players, where each character is | log in, choose a character, arrive at a channel, change channel, enter and leave the cash shop, close, restart, throw out the one who is logged in | everything: a player exists through it | one character of an account in the game; never in the shop and on a channel; a player is where the server looks for it; an owner is never locked out | `Session`, `SessionProofs` |
| Trades (`MapleTrade`, trade cases of `PlayerInteractionHandler`) | per window: partner, offered items and mesos, confirmation | invite, accept, decline, offer, confirm, cancel | inventories, wallets, pickups | no item or meso is copied; both confirm what they see; all or nothing | `Trade`, `TradeProofs`, `TradePairProofs` |
| Parties (`World.Party`, `MapleParty`, `PartyHandler`) | parties by id, member lists, the reference of each character, its copies in transfers and in the database | create, join, leave, disband, expel, hand over, updates, arrivals, disconnects, restart | sessions (loading, saving), event instances | lists and references agree; one party per character; the limit; ids never reused while referred to | `Party`, `PartyBook`, `PartyProofs`, `PartyBookProofs` |
| Inventory (`MapleInventoryManipulator`, `InventoryHandler`) | bags of slots with stacks | add, remove, move, merge, split, equip, drop, pick up | trades, shops, maps | nothing is lost or copied when stacks merge; slot limits | `Trade` (one-slot items, drops and pickups); *Inventory* |
| Maps and their objects (`MapleMap`, `MapleMapItem`) | object table under a read-write lock; items with owner and expiry | spawn, pick up, expire, become free for all | inventories, timers | an item is taken once | *MapItem* |
| Monsters and spawning (`MapleMonster`, `SpawnPoint`) | hp, attackers, controllers, spawn counters | damage, kill, share experience, respawn | maps, parties | a monster dies once and pays once | *Monster* |
| Hired merchants and player shops (`HiredMerchant`, `AbstractPlayerStore`, `HiredMerchantHandler`, shop cases of `PlayerInteractionHandler`) | stock, till, visitors, the channel's table of shops, what Fredrick keeps in the database | set up, open, buy, tend, close, collect, 24 h timer, shutdown | inventories, database, sessions | one shop per account; table and maps agree; goods and mesos only change hands | `Merchant`, `Consignment`, `MerchantProofs` (hired merchants) |
| Auction houses (`AuctionManager`) | goods and points in tables | put up, buy, take back | database, inventories | a good is sold once, and paid for if and only if handed over | *Auction* |
| Duey parcels | parcels in a table | send, take, expire | database, inventories | a parcel is taken once | *Auction* |
| Account storage (`MapleStorage`) | items and mesos shared by an account | store, take out, save | inventories, sessions | nothing in two places after a reload | *Storage* |
| Cash shop, MTS and gifts | points, bought items, gifts | buy, gift, move to and from the bag | sessions, database | points paid once | `Session` (entering, leaving); purchases with *Inventory* |
| Expedition squads (`MapleSquad`) | one squad per type and channel, members, waiting list, timers | register, join, ban, pass on, clear | scripts, timers | one squad per type; a timer removes its own squad only | *Squad* |
| Event instances (`EventManager`, `EventInstanceManager`, `data/scripts/event`) | members, timer, disposed flag, the instance known by name, the property an entrance reads | start, register, leave, time out, dispose | parties, maps, scripts, timers, sessions | lists and references agree; the rooms belong to one run; a closed entrance opens again | `EventInstance`, `EventScripts`, `EventRoom`, `EventProofs`, `EventRoomProofs` |
| Guilds, alliances, families, buddies, messengers | world-wide membership tables, mostly saved | join, leave, expel, change rank, chat | sessions, database | both sides of a relation agree | *Buddy*; guilds and families not planned |
| Network codec (`MaplePacketEncoder`, `MaplePacketDecoder`) | one rolling vector per direction | encrypt and frame, read and decrypt | all sessions | both ends step the vectors in the same order | *Codec* |
| Packet dispatch (`MapleServerHandler`) | none of its own | open, message, close, idle | all handlers | every opcode reaches its handler in the right state | session events in `Session` |
| Login and character list (`CharLoginHandler`, `LoginWorker`) | characters of an account | list, create, delete, select | sessions, database | | `Session` (log in, select) |
| Characters (`MapleCharacter`) | stats, mesos, skills, quests, buffs | gain, save, load, change channel | everything | wallet never wraps | parts in `Trade`, `Session`, `Party` |
| Timers and shutdown (`Timer`, `ShutdownServer`, `Start`) | scheduled tasks | start, schedule, orderly stop | merchants, sessions | all is saved before the process ends | start-up in `Session` and `Party`; shutdown and the shops' timers in `Merchant`; event timers in `EventInstance` |
| Constants (`GameConstants`) | tables | tax brackets | trades | | `getTaxAmount` in `Trade` |
| Reactors; mini-games; carnival and scheduled events | counters of one map or one table of players | hit, move, score | maps | | *MapItem* (reactors); others not planned before the shared tables |
| Movement and combat handlers; quests; fame, marriage, pets, beans | per-character data | parse and apply | characters | | not modelled: long formulas over game data, no shared state of their own |
| Scripts (`data/scripts`) | properties of event managers | one function per occasion | events, everything through the script API | every way out of an event gives back what its entrance took | 27 event scripts and the NPCs and portals that start them in `EventScripts`; the rest is game content |
| Cheat tracker; records, lottery, forum; commands; database and data files | | | | | not modelled: points that expire, plain input and output, administrators' calls of the parts above |

### 1.2 What is hard

- **Handlers of different sessions run in parallel with almost no locks.**
  `PlayerStorage` locks its tables, `MapleMapItem` and the maps have locks, and
  that is about all: trades, parties, squads and monsters are plain objects.
- **A player moves by dying and being born again.** Changing channel or entering
  the shop deregisters the player, leaves a `CharacterTransfer` for the target
  and sends the client a packet; the client may come at once, late, twice, or
  never, and its old session may be reported closed any time later.
- **The same fact in several copies.** Where an account is: database state, two
  flags per client, storages, `World.Find`. Which party a character is in: the
  list, the reference, transfers, the database.
- **Objects outlive their windows.** A trade refers to its partner's object even
  after the partner has opened another one.
- **Crashes.** Start-up resets the login states only; saved characters keep the
  ids of parties that are gone.
- **Bounds.** Wallets are ints; bags are full; a party has six places.
- **Timers** close merchants, drop transfers, expire items and end instances
  while their owners act.
- **Every event script repeats the engine's part.** Who is unregistered, who is
  warped out, when the instance is disposed and when the entrance opens again is
  written in eight functions of each of the scripts, and what closes the
  entrance in yet another file.

`PROJECT.json` lists 40 hazards at their lines with the properties that cover
them; those without one say why or name the planned module. A hazard that the code
does fall for, so that a property has to make an exception of it, is not listed as
covered: its note names the exception.

## 2. Plan

Done: `Session` and `Trade` (the two places where an account or its items could
be doubled), `Party`, which exercises the same copies of state one level up,
`EventInstance`, which parties, sessions and timers all act upon, and
`Merchant`, where goods leave memory for the database and come back. What
follows, in order:

1. **Split handlers.** A finer `Trade` (two confirmations at once in
   `completeTrade`), `Merchant` (two buyers at once) and `Party` (size check,
   list, told members), each with the coarse module as what it fails or manages
   to implement.
2. **Copies of data in Session.** A version of the character's data per copy
   (transfer, database, player) to state that no save is overwritten by an older
   one; then **Storage** on top of it.
3. **MapItem** (pickup, pet, expiry), **Auction** and Duey (statements without
   a transaction, crashes between them).
4. **Inventory** (stacks; merging and splitting checked against a reference
   definition), **Codec** (vectors of both ends), **Monster** (hp without lock),
   **Squad**, **Buddy**.

Abstract specifications: `PartyBook`, `EventRoom` and `Consignment` (written); an
atomic exchange that a pair of traders implements; an account lock that
`Session` implements; a shelf that is sold once for Auction and MapItem.

Theorems still to prove: those of the modules still to be written. Every safety
property that a passing run checks is a theorem by now (section 5), some under
hypotheses that section 5 justifies; liveness under fairness (`OwnerGetsIn`,
`OpensAgain`) is out of the prover's reach and left to TLC.

## 3. The modules

### 3.1 Session

One account; every query in the code is by account or by its characters. A
connection is an element of `Conn` and stands for the MINA session, its
`MapleClient` and the character that client loaded; a window is the program its
owner runs. The variables are the fields of the code: `loginState` is
`accounts.loggedin`, `pending` the transfers of `PlayerStorage`, `storage` the
registered players, `find` is `World.Find`, and `channel`, `player`,
`loggedIn`, `serverTransition` are fields of `MapleClient`. The actions carry the
names of the handlers. `Loggedin` and `EnterCS` take three steps (take the
transfer and throw others out; ask; register) because nothing is locked between
them, and departing takes two because the packet that sends the client away is
written before the handler is through.

Two constants say what may overlap. `Overlap` lets handlers of different
sessions interleave; `Prompt` makes `sessionClosed` follow a lost link before
anything else happens.

Left out: what a character carries; passwords, bans, registration, gender and
the login failure count (which closes the session: `LinkLost`); the one second
delay before `unlockAcc` closes the other session (`LinkLost` at any later
time); the shop opened from an NPC script, which repeats `EnterCS`; the orderly
shutdown; other callers of `disconnect`. `login` and `finishLogin` are one step.
The order in which `getClients` lists clients is a choice. Lastly,
`sendPing` never runs: MINA's idle time is never set (`setAttribute` is called
instead), so no session times out in the model either.

### 3.2 Trade

A trade is an object with the fields of `MapleTrade`; `trade[c]` is the
character's current one. `exchangeItems` in the code holds the partner's list
itself, not a copy; the model keeps the trade whose list it is, so that clearing
one clears the other as in the code. Objects that a partner still refers to
live on; unreachable ones are used again.

An item is one equip (one slot). `addFromDrop` refuses what does not fit, and a
one-of-a-kind item whose template its receiver has exactly one of, in the bag or worn
(`Refuses`, `HasOne`: `haveItem` is asked for one, not for at least one); every caller
in `MapleTrade` ignores that. `check` sees less: it counts slots and looks for a
one-of-a-kind template in the bag only. Hence an item of which the receiver wears one
passes the second confirmation and is lost on delivery, as is the second of two in one
offer. `SecondConfirmationIsAllOrNothing` and `ItemsVanishOnlyWhenRefused` name these
two cases; everything else arrives. `PickupMeso`, `Pickup_Pet`, `Drop`, `equip` and
`unequip` are the other ways a bag or a wallet changes, the first two also while its
owner's window is open: a pet picks up although its owner trades, unless `checkSpace`, which asks the same as
`addFromDrop`, leaves the item where it is; a party member's meso pickup is shared with
everybody on the map; things are dropped, put on and taken off while no window is open. Which part
of the body an equip goes to, and its requirements, are left out: anything may be put
on, and up to two things that are worn may come off for it (two for a two-handed weapon
or an overall). Cash trades use the same handlers with the same effects; `visitTrade` only
sends packets.

A handler is one step. Two I/O threads in `completeTrade` at once are not
modelled yet (hazard at `MapleTrade.java:35`).

### 3.3 Party

`parties`, `runningPartyId` and `members` are `World.Party` and the
`MapleParty` objects; an entry of a list keeps the name and whether it is shown
online. `party[c]` is the character's reference, `transfer` the id that waits at
a server, `saved` the column in the database. `updateParty` changes the list and
then sets the reference of every member it finds on a channel (`Told`); the
cash shop and characters on their way are not told, which is why a loaded id is
looked up (`Found`: the party exists and lists the character). `Depart` is
`changeChannel`, `EnterCS` or `EnterMTS`, and `LeaveCS`; `Loggedin` throws out a
copy that is still in the game, after it has loaded its own.

`Late` says whether a client may come for a move it gave up long ago or while
another client plays the character. With `Late = FALSE` it arrives where it was
last sent, or after that transfer was dropped, from the database.

Of a disbanded party only the id is read, so its list is empty in the model.
Left out: what requests do to an event instance (`EventInstance` has it) and the
pyramid, doors and party buffs, levels and maps in
the entries, deleting a character that is listed, characters registered without
a client (Session has them). A handler is one step.

`PartyBook` is what parties promise: each character in at most one party, a
head who alone dissolves, expels and hands over, a limit, and a crash that
loses the book. `Party` maps to it by reading the lists (`Group`) and the leaders
of existing parties (`HeadOf`).

### 3.4 Events

`EventInstance` is the engine and `EventScripts` what it runs. An event is played
in maps that all parties share; nothing but a property of its `EventManager`, a
glance into the rooms or the manager's table of instances keeps a second party
out. `flag` is that property, `current` the instance `EventManager.instances` has
under the name, `live`, `chars` and `timer` the fields of the instance (disposed,
members, event timer), `inst[p]` is `MapleCharacter.eventInstance`, `at[p]` the
room, `team[p]` the leader of the party. `entry[p]` is how far a player's talk
at the entrance has got: it checks, `startInstance` creates the instance and runs
`setup`, and the members are registered one by one; other players act in between.
`came[p]` is history: the run that brought `p` into the rooms.

A script is a record. Its handlers (`changed`, `left`, `disband`, `clear`,
`timeout`, `exit`, `dead`, `slain`, `asked`) say what the script's function does:
whom it unregisters, whether it warps them, below which number of players
`disposeIfPlayerBelow` disposes and whether it ejects, when the property is given
back, and whether it goes on with `playerExit`. The other fields describe the
entrance: what it reads (`gates`, one of them chosen if several NPCs start the
event), who may start and whether all must be there, who closes it and when, and
the rooms the event uses, looks into and knows in `changedMap`. `Run` is the
engine's part and is the same for all scripts. `Lost` is fixed: the engine casts
the number `playerDisconnected` returns to a `Double`, which an `Integer` is not,
and the answer counts as 0. `clear` is `clearPQ` where an NPC calls `finishPQ` (2032002
for ZakumPQ) and `Nothing` elsewhere: most scripts have a `clearPQ` that disposes
everybody, but nothing in their rooms calls it.

The scripts differ, and so does what holds. Each property says of which scripts:
`SendsOut` (every handler warps out whom it unregisters), `Guards` (every entrance
reads what the event closes), `Returns` (the property is the one disposal gives
back, and the timer disposes). Without these conditions TLC finds that
- `MembersAgree` fails for ZakumPQ, which counts the players in its maps;
- `KnownByName` and `OneRunInside` fail for scripts whose entrance reads nothing
  or a property nobody sets (Relic, ElementThanatos, 4jrush, Kyrin's, ZakumPQ,
  Romeo, Juliet, MV), for KerningPQ (the entrance does not look into 103000805),
  and `OneRunInside` also for HenesysPQ and DollHouse, `KnownByName` for s4nest;
- `InsideBelongs` fails for HenesysPQ, MV and DollHouse, which leave players
  behind in the rooms (Juliet and Ellin need more than three);
- `ClosedIsUsed` and `OpensAgain` fail where the property is not named `state` and
  the last player disconnects (Kyrin's, s4resurrection, s4aWorld, ZakumPQ,
  LudiPQ), for QiajiPQ, whose map 749050301 is not in the data, so that `setup`
  fails after closing the entrance, and for KerningPQ, whose timer does not
  dispose; `ClosedIsUsed` also for DollHouse.

`EventRoom` is what an entrance promises: the rooms are given to one run at a
time, only while they are empty, and are empty when it is over. `EventInstance`
maps to it by `current` and the players inside.

Left out: events that get maps of their own (`createInstanceMap`, BossQuest), squads, the
carnival's two parties, stages, monsters, rewards and kill counts inside the
rooms; scripts without a starter or whose NPC is on no map (Amoria, Ravana),
bosses entered through a squad, and the transport scripts.

### 3.5 Hired merchants

A shop is an object with fields of `HiredMerchant` and `AbstractPlayerStore`:
`owner`, `items`, `till`, `open`, `available` (it has been opened), `placed` (it is
on the map), `storeid`. `merchants` and `running` are `ChannelServer.merchants`
and `running_MerchantID`, `row` and `goods` the tables `hiredmerch` and
`hiredmerchitems`, `kept[c]` what the database has of a character, `phase` the progress of `ShutdownServer`: after `closing`, in
which the table of shops is locked and emptied, comes `closed`, in which the
players are still there. A request of the owner or a buyer is a step.

A bag is the units of each kind, the number of slots they take and the free slots; how
the units lie in the slots is not kept, so `addFromDrop` tops up a stack of any size
that is possible (`Sizes`) and `AddItem` takes from any. A stack that has room is topped
up first; what it has no room for is lost. A kind in `Only` is one a character may have
one of, and `Worn[c]` are those it wears throughout: `checkSpace`, `addFromDrop`
(`HasOne`) and Fredrick's `check` (`Possessed`) count them. `Handed` adds the entries of
a package one after the other, whatever the answers. Fredrick has two requests:
`CollectMesos` (20) pays when there are no goods, and asks whether the account has a
shop; `Collect` (26) hands out the goods as well and does not ask. That a player talks to
Fredrick (`conversation`) is left out, since anyone may at any time. A character is saved
on its player's command or as it changes channels (`Save`), when its connection ends and
by the shutdown (`AllClosed`); a restart loads what was saved.

`Consignment` is what a shop promises: goods and mesos an account has entrusted
are in the shop or with Fredrick, they leave for the owner or for a buyer who
pays, and the owner gets the price less the fee. `Merchant` maps to it by reading
whichever place holds them.

The code does not always keep that, and `astray` records the eight ways in which
it fails, so that the properties can say "but for these":
- `evicted`: a shop has number 0 until it is opened, and losing the connection (or
  the day's end) while it is set up takes the channel's shop number 0 out of the
  table. Its owner may then open a second shop, and fetch goods for sale.
- `inside`: the timer or the shutdown closes a shop around its owner. The goods
  are saved; the owner's exit saves the emptied list over them, organising pays
  the till a second time, and the owner may even open what is left.
- `split`: two entries cut from one stack keep the stack's number when they come
  from the database, and `saveItems` lets one row overwrite the other.
- `other`: Fredrick finds goods by account but mesos by character. Another
  character of the account gets the goods, no mesos, and the row is deleted.
- `stopped`: a shop in set-up, or opened after `closeAllMerchant`, is in no list
  the shutdown saves.
- `topped`: `addFromDrop` computes `quantity - newQ - oldQ` for what a topped-up stack
  leaves over, which is below zero: taking back, buying and collecting all lose it.
- `forsale`: a sale saves the shop's list to the rows Fredrick reads, and request 26
  hands them out while the shop goes on selling the same goods.
- `unsaved`: `ShutdownServer` saves the characters and then marks the channels as shut
  down, so that their `shutdown` returns at once and the players play on: what they take
  from Fredrick then is deleted in the database and lost with the process.

Two smaller oddities are in the model as they are: `Tidied`, the loop of Organise
that passes over the entry after each one it drops, and an owner who leaves by
request 10, which does not open the shop again.

A bundle is one unit and all goods have one price, whose products fit an int.
Left out: names, blacklist, positions on the map, items that may not be sold,
player shops (the same base class without the table and the timer), the shop
search, and the offline tool `HiredMerchantSave`. Two buyers at once need the
finer model of section 2; a process that is killed is left out, because bags and
shops are saved at different times and nothing is promised then. Bags change in the
model by the shops and Fredrick only, and clothes are not changed (`Trade` has that).

## 4. What the runs check

| Run | Instance | Distinct states | Properties |
|---|---|---|---|
| `session_window` | one window, 3 sessions, 2 characters, 2 channels, lost links reported any time later | 45 656 | `TypeOK`, `OneCharacterOnline`, `ShopOrChannel`, `PlayingIsFound` |
| `session_two` | two windows, 3 sessions, 1 character, 2 channels, lost links reported at once | 72 486 | `OneCharacterOnline`, `ShopOrChannel`, `PlayingIsFound` |
| `session_owner` | one window, 2 sessions, both shops, overlapping handlers; liveness | 37 338 | `OwnerGetsIn` |
| `session_login` | two windows | violated | `OneClientLoggedIn` |
| `session_overlap` | two windows, overlapping handlers | violated | `OneCharacterOnline` |
| `trade_pair` | 2 players, 3 items (two of one kind), 2 slots, clothes, mesos up to 150 M | 22 092 | `TypeOK`, `PartnersAgree`, `OfferOnlyGrows`, `SecondConfirmationIsAllOrNothing`, `ItemsVanishOnlyWhenRefused`, `MesosOnlyTaxedOrOverflow` |
| `trade_third` | 3 players, 2 items, 6 trade objects | 249 980 | `ItemsHaveOneHome`, `PaidFromLockedSide`, `TransferNeedsBothConfirmations` |
| `party_prompt` | 3 characters, 2 channels, parties of 2, two parties | 160 339 | `TypeOK`, `PartyListsIt`, `MemberKnowsIt`, `OneParty`, `OnlineIsShown`, `NewPartyIsUnknown`, `KeepsTheBook` |
| `party_late` | 2 characters, 1 channel, late clients | 1 178 779 | `PartyListsIt`, `SizeLimit` |
| `party_twice` | late clients | violated | `OneParty` |
| `event_main` | 16 scripts, a party of two and a third player, 2 instances; liveness | 176 729 | `TypeOK`, `MembersAgree`, `InsideBelongs`, `KnownByName`, `OneRunInside`, `ClosedIsUsed`, `OpensAgain`, `KeepsTheRoom` |
| `merchant_main` | 2 characters of one account, a buyer of another, 2 shops opened at most, 4 units of goods in stacks of two and a piece one may have one of | 423 526 | `TypeOK`, `OneMerchant`, `Registered`, `NoGhost`, `OwnerAlone`, `KeepsConsignment` |

**Bounds.** Three sessions are one that plays, one left behind and one arriving;
a leftover blocks or is thrown out in the same way however many there are. Two
channels make a move possible and a shop's way back ambiguous. Two trade slots
let a pet fill the bag, and of the two items of one kind one can be worn by somebody who
is then paid with the other; 150 M as `MaxMeso` and 100 M on the map let a credit
overflow, and 100 M is in the top tax bracket. Three players is the least for a
partner who has moved on, and six objects never run out there. Parties of two
are full with two of three characters, so a third sees the limit, and two ids
allow a crash between two creations.

In `event_main` two instances are a run and the one that replaces it, three
players a party and somebody who comes between. One entrance is used at a time
(`Overlap = FALSE`): with two, any entrance that reads before it closes lets both
in. The scripts played together are `Played` in `MCEvent`; the records of
ZakumPQ, ElementThanatos, MV, 4jrush, Relic (which FireDemon and 4jberserk
share), Romeo, KyrinTrainingGroundC (also V's) and DollHouse are left out
because their open entrances make too many states; each was checked alone. Of
the eleven scripts that promise their rooms (`Promising` in `EventRoomProofs`) none is
left out.

In `merchant_main` one unit costs 100 000, the least that is taxed, the buyer can
pay for two, and what they bring does not fit the owner's purse (`MaxMeso`), so
that Organise and Fredrick refuse. A slot holds two units and a list has two entries:
the owner has a full stack and a half one, the buyer a half one, and each one free
slot, which is enough to split a stack, to fill up a stack exactly, to top it up past
its maximum, to take a new slot and to refuse. Besides, the owner has a piece of a kind
one may have one of, and his second character, who may fetch what the first one's shop
had left, wears another; there it is Fredrick's `check` that keeps the promise, which is
what the mutant for `KeepsConsignment` breaks. `Bounds` follows a run with one of the
three mishaps of the shops themselves (`inside`, `evicted`, `stopped`) until a second
one, or until something is sold, doubled or not saved or a second unit is in the shop,
and no run further in which goods were lost or doubled (`split`, `topped`, `other`,
`forsale`, `unsaved`); what follows is not promised, but the invariants are still
checked where it is followed. Only the owner fills a shop, with goods of one kind until they are back, and
only the buyer visits, but all three may set up and open. The proofs of section 5 do not depend on any of these.

**Reductions.** The Session runs identify states that differ only in the fields
of a client that is not logged in, has no window and no running handler (`View`
in `MCSession`): no action reads them again except `sessionClosed`, which
forgets them. Transfers waiting at channels are not in the view because no step
depends on them (`Loggedin` loads from the database when there is none).
Sessions, windows, characters and channels are interchangeable; no liveness run
uses symmetry or a view. The Trade runs identify states that differ in the
names of objects or in unreachable ones (`LiveState`). `merchant_main` forgets the fields
of shops nobody can reach and goods without a row, which no request finds (`MCView`).

**Where the passing runs stop.**
With two windows and late reports of lost links (`Prompt = FALSE`) both
`PlayingIsFound` (17 steps) and `ShopOrChannel` (30 steps) fail. The way to the
first: a client rejected on arrival has got `loggedIn = TRUE` from the account's
state and is not closed yet; the other window enters the game; a third login is
refused, `unlockAcc` finds the rejected client first, sees that its link is gone
and deregisters the account's player, which goes on playing unregistered. That
is why `session_two` has `Prompt = TRUE`. `OneCharacterOnline` holds regardless and is proved so.
With a third player `PartnersAgree`, `OfferOnlyGrows` and the conservation of
mesos fail, because `inviteTrade` asks whether the invited one is trading but
not whether the inviter has a partner already; what survives is checked in
`trade_third`. In a pair, an item offered before there is a partner is lost
(`setItems` takes it out of the bag, `addItem` does not list it), so is one that
`addFromDrop` refuses on delivery, and so is a credit that does not fit in a wallet: the
properties name these exceptions.
With late clients `MemberKnowsIt`, `OneParty` and `OnlineIsShown` fail; what
survives is in `party_late`.

**Deadlock** is checked in every run but `merchant_main`, whose bounds on numbers
and lists stop a server that would go on.

**Fairness.** In `session_owner`: weak fairness of `Continue` (a handler that
has begun runs on), of `sessionClosed` (MINA reports a closed session) and of
`LinkLost` for a session with no program at its other end. The owner is
persistent: weak fairness of launching, logging in, choosing a character and
arriving. Disturbances (crash, vanished window, lost link of a used session)
may happen any number of times but not for ever. The states they leave behind
are those of the full model with overlapping handlers. In `event_main`: the
event timer fires (`Timer.EventTimer` is a running executor, and no modelled script
calls `stopEventTimer`), and a thread in `startInstance` goes on to the end. Nobody is
assumed to play, leave or come back.

**Disagreements with the repository's texts.** `session_login` and
`session_overlap` refute CHANGELOG.md line 58 (double logins are fixed at login,
in the game and in the shop): `getLoginState` writes the account's state into
the flag of whichever client asks, so a rejected client frees the account when
it closes; and two `Loggedin` handlers that overlap both find nobody. `party_twice`
refutes what `PartyHandler` (45, 95) tells a player who has a party: a character
loaded from an older copy than the one in the game forgets its party and may
join another while the first still lists it.

## 5. What is proved

All proofs are for any value of the constants that meets the assumption named in
the component's module. Where a theorem has a hypothesis besides, it is in the
second column, and section 4 or the text below says what happens without it.

| Theorem | States | Rests on |
|---|---|---|
| `SessionTypes` | `TypeOK` | `TInv`: types, and a client with a live player is connected to a channel or the shop |
| `OneOnline` | `OneCharacterOnline` while handlers do not overlap | `Online`: at most one session is inside a handler, and one that has been admitted found no player registered |
| `PlayersAreFound`, `NeverInShopAndOnChannel` | `PlayingIsFound`, `ShopOrChannel` while handlers do not overlap and the owner has one window, or lost links are reported at once and there is one shop | `Placing`, below |
| `OneWindowLogsInOnce` | `OneClientLoggedIn` while handlers do not overlap and the owner has one window | `Regime`, below; with two windows `session_login` refutes it |
| `TradeTypes` | `TypeOK` | inductive as it is |
| `NoItemDuplicated` | `ItemsHaveOneHome` for any number of players | `IInv`: types, items in one place, each current trade owned by who points at it, payments drawn on locked sides only |
| `PaymentsAreLocked` | `PaidFromLockedSide` | `IInv`: a trade only learns its partner's list from a confirmation, and no handler undoes a lock |
| `TransfersAreConfirmed` | `TransferNeedsBothConfirmations` | the invariant above, step by step |
| `LinksAgree` | `PartnersAgree` for two players | `PairInv`: an open trade's partner is the other open trade, and a side is paid with the list of a partner who has confirmed |
| `OffersOnlyGrow`, `AllOrNothingIsKept`, `ItemsVanishOnlyRefused`, `MesosAddUp` | `OfferOnlyGrows`, `SecondConfirmationIsAllOrNothing`, `ItemsVanishOnlyWhenRefused`, `MesosOnlyTaxedOrOverflow` for two players | `PairInv`, step by step |
| `PartyTypes` | `TypeOK` | inductive as it is |
| `NewIdsAreUnknown` | `NewPartyIsUnknown` | `IdsBelow`: every id in use or saved is below `runningPartyId` |
| `ReferencesAreListed`, `PartiesKeepTheLimit` | `PartyListsIt`, `SizeLimit`, late clients included | `ListingInv`: parties that do not exist have empty lists (`Dead`), ids below the next one |
| `MembersKnowTheirParty`, `NobodyIsInTwoParties`, `MembersAreShownOnline` | `MemberKnowsIt`, `OneParty`, `OnlineIsShown` when clients are prompt | `OnceInv`: every copy of a member's reference (player, transfer, database) names the party that lists it (`Known`), one transfer at most waits for a character (`Settled`), no list has a name twice (`Single`) |
| `BookIsKept` | `KeepsTheBook`: `Party` implements `PartyBook` when clients are prompt | `OnceInv`, and every party has a leader (`Led`) |
| `EventTypes` | `TypeOK` | inductive as it is, for any set of script records |
| `ListsAgree` | `MembersAgree` whatever a script's handlers do | `Listed`: types, who is outside the rooms plays nowhere (so `registerPlayer` puts nobody in two lists), and only live instances have a timer |
| `BelongInside` | `InsideBelongs` of every script that sends everyone out, entrances overlapping or not | `Belonging`: who is inside refers to a live instance, and each handler that takes somebody out of it warps him out |
| `NameFindsThePlayers`, `OneRunAtATime`, `ClosedEntranceIsUsed` | `KnownByName`, `OneRunInside`, `ClosedIsUsed` for the scripts of `EventScripts`, one entrance at a time | `RoomInv`, below |
| `RoomRefinement` | `KeepsTheRoom`: they implement `EventRoom` | `RoomInv`, step by step |
| `ElevenKeepTheirRooms` | `OneRunHasTheRooms`: with the eleven scripts of `Promising`, everyone inside belongs to the one run known by name, without the conditions of the properties | the theorems above, and `PromisingScripts`: those records guard their entrance and send everyone out |
| `OneShopPerAccount`, `OpenShopsAreListed`, `NoShopIsLeftInTheTable`, `OwnersWorkAlone` | `OneMerchant`, `Registered`, `NoGhost`, `OwnerAlone` | `Book`, below |
| `TypesAreKept` | `TypeOK` of `Merchant` | `GoodsOK` and `Book`: numbers, lists and rows keep their types, for a shop that is acted on is one of the shops and has an owner, and the tax never exceeds the price |
| `ConsignmentIsKept` | `KeepsConsignment`: `Merchant` implements `Consignment` | `Straight` and `Mapped`, below |

**Sessions.** `Placing` says of every live client that it is registered where it
is connected, that `World.Find` leads there, and that a client on its way to a
storage will not find its own key taken. It is inductive but for two steps. A
refused login throws out the first of the account's logged-in clients and
removes it by key, which may be a bystander's if there are several (`Sole` says
there are not); and a visitor may arrive at the shop where its character is
already (`Exclusive` says it does not). Both exclusions hold if the owner has one
window: who is awaited is then the only one logged in. With more windows they
hold if a lost link is reported before anything else happens, provided the cash
shop is the only one: with the MTS as well TLC finds a trace of 37 states in which
three windows leave a transfer of one character waiting at both and bring two
clients into the shop under one key. `Regime` is what is kept in each case.

**Trade.** For two players nothing a handler reaches outlives its window, because
there are two open trades at most (`TwoTrades`). The step that matters is the
second confirmation: both lists are settled, or neither is. What `check` asks makes
`addFromDrop` store a whole list, except for what it refuses because of an item that is
worn or was stored just before; those are the exceptions that `Paid` has
(`AllOrNothingIsKept`), and that nothing else vanishes is `ItemsVanishOnlyRefused`. That mesos add up is an
equation over every wallet and every open trade, a fold over the set of holders; the
proof reduces it to the four of a pair, and follows each credit to where it is
taxed, received, or lost because the wallet is full.

**Parties.** `MemberKnowsIt` and `OneParty` are not inductive: that a character on a
channel refers to its party says nothing of one on its way, whose next reference
comes from a transfer or from the database. `Known` covers all copies; that they
agree needs `Settled`, or an older transfer could be read; and that a departing
member leaves no entry behind needs `Single`, since `removeMember` drops one entry.
The book's groups are then determined by the names on the lists (`Filed`), so a
step of `Party` is shown to be one of `PartyBook` by saying what becomes of names.

**Events.** Types and lists (`Listed`) hold for all scripts. `Belonging` is for those
whose handlers clear whom they take out. Of an entrance there are two facts:
`Granted`, for scripts that read the property before they close it (`Guards`): a live
run is the one known by name and has closed the entrance, and what the one thread
at the entrance has checked is still so until it calls `setup`; and `Tending`, for
scripts that give the property back when they dispose: an instance nobody is in any
more has been disposed. The records of `EventScripts` are shown to meet what these need
(`GuardedLoaded`, `LoadedSound`, `LudiTends`), so the theorems speak of any set of
them (`Scripts \subseteq Loaded`), hence the hypothesis `~Overlap` only: with two entrances
at once any script that reads before it closes lets both in. The component's
assumptions are `Typed`, and `Few`: at most 100 players, because the scripts write
`disposeIfPlayerBelow(100, ...)` for everyone.

**Merchants.** `OneMerchant` is not inductive: the request that creates a shop asks
the channel's table, which knows only opened ones. `Book` adds who answers for a
shop that is not in it: a shop in set-up has its owner inside (`SetUpIsTended`),
whoever is in a shop is in the game and no other character of the account is
(`InTheGame`), so that no second shop can be begun; an open one is in the table
under a number already given out (`Numbered`, `Registered`), so that opening another
never overwrites it.

The promise of `Consignment` needs what holds until a mishap (`Straight`): no list has
two entries of one stack, shops off the map are empty, a buyer is in an opened shop, an
account has one row, and if it has a shop on the map the row is its owner's. Then what
an account has in consignment is in its one shop or in its one row (`Mapped`), and
closing moves it from there to here. What lists do is in lemmas of their own: a list
and the rows it is saved as have the same units of every stack (`RowsDoes`), tidying
keeps them (`TidiedDoes`), a sale takes what was sold (`SoldDoes`). What bags do is in
others: `AddDoes` says that `addFromDrop` adds all units if there is room, no other of
the kind in the way and no stack topped up past its maximum; `SpaceDoes` that after `checkSpace` it does not refuse; and `HandedDoes` that
after `check` none of a package is refused, because each entry finds its free slot
(`Holding`) and a list without mishap has no kind twice. Those operators
are recursive functions over the positions of a list; since the library's induction
theorems cannot be instantiated here, `UpTo` derives the induction they need from
the pigeonhole principle (if a position were missed, so would be the one before it,
and the missed ones would fit into a smaller set), and `StepByStep` the existence
of the function.

Only model-checked: what holds under fairness (`OwnerGetsIn`, `OpensAgain`). The
properties the three violation runs refute are not theorems of the full model; two
are proved under the hypotheses that the runs drop (`OneWindowLogsInOnce`,
`OneOnline`), and so is the third (`NobodyIsInTwoParties`).

## 6. Not modelled

The table of section 1 names what has no module; `PROJECT.json` gives the reason
for each. Most lines of the repository are `data/scripts` (about 200 000 lines of
JavaScript, 1 633 NPCs and 481 quests among them): conversations, menus, prices
and rewards, each for one player, without state that another script reads. Only
scripts with shared state, the events on shared maps and what starts them, are
modelled; a table of the rest would restate the files. The Java handlers that
are left are either sequential updates of one character or named in the plan.

## 7. Running it

`tlc -config MCSession_window.cfg MCSession` and likewise for the other
configurations (`PROJECT.json` names module and file of each run);
`tlapm TradeProofs.tla`, and likewise `TradePairProofs`, `SessionProofs`,
`PartyProofs`, `PartyBookProofs`, `EventProofs`, `EventRoomProofs` and
`MerchantProofs`, for the proofs. `PROJECT.json` lists for
every property of a passing run a faulty variant of a definition (marked
*Fault* in the modules) under which TLC finds the property violated.
