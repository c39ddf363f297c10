------------------------------ MODULE Session ------------------------------
(***************************************************************************)
(* One account moving between the login server, the channels and the cash  *)
(* shop: MapleClient (login state, disconnect), InterServerHandler,        *)
(* CashShopOperation, CharLoginHandler, PlayerStorage and World.Find.      *)
(*                                                                         *)
(* Every query the code makes is by account id or by the account's list of *)
(* characters, so one account is enough.  A connection stands for its      *)
(* MapleClient and for the MapleCharacter loaded by it (chr.getClient()).  *)
(* Windows are the client programs their owner runs; a window that         *)
(* vanishes leaves a connection the server still believes in.              *)
(*                                                                         *)
(* Clock readings (the 20 s of a transition, the 40 s of a pending         *)
(* transfer) become choices.  No session times out: MINA calls sessionIdle *)
(* only for sessions with an idle time, and none is ever set, so sendPing  *)
(* is dead code.  What a character carries is left out; README.md says     *)
(* which other details are.                                                *)
(***************************************************************************)
EXTENDS Integers

CONSTANTS
    Window,     \* game clients run by the account's owner
    Conn,       \* network sessions, reused once closed
    Char,       \* the characters of the account
    Channel,    \* channel servers
    LoginSrv,   \* the login server
    CashShop,   \* storage -10 and the server its clients connect to
    Shop,       \* where transfers to it wait: CashShop, and storage -20 (the MTS)
    None,       \* null
    Gone,       \* a closed client some storage still refers to
    Overlap,    \* whether handlers of different sessions may overlap
    Prompt      \* whether sessionClosed follows at once when a link is lost

Store   == Channel \cup {CashShop}
Pending == Channel \cup Shop

ASSUME SessionAssumption ==
    /\ Overlap \in BOOLEAN /\ Prompt \in BOOLEAN
    /\ LoginSrv # CashShop /\ CashShop \in Shop
    /\ None \notin Pending \cup {LoginSrv} \cup Conn \cup Char
    /\ None \notin Store \X Char
    /\ Gone \notin Conn \cup {None}
    /\ ({LoginSrv} \cup Shop) \cap Channel = {}

VARIABLES
    loginState,  \* accounts.loggedin in the database
    pending,     \* pending[p][c]: the channel a CharacterTransfer waiting at p leads
                 \* to, p itself or the one a shop's visitor goes back to
    storage,     \* storage[s][c]: the client whose player is registered
    find,        \* find[c]: World.Find
    server,      \* server[k]: where the session is connected, None if it is closed
    channel,     \* from here on, fields of a MapleClient
    player,
    loggedIn,
    serverTransition,
    connected,   \* session.isConnected()
    pc,          \* how far the session's current handler is
    seat,        \* seat[w]: the session window w uses
    ticket       \* ticket[w]: <<server, character>> w was told to connect to

accountVars == <<loginState, pending, storage, find>>
clientVars  == <<server, channel, player, loggedIn, serverTransition, connected, pc>>
windowVars  == <<seat, ticket>>
vars        == <<accountVars, clientVars, windowVars>>

\* MapleClient.LOGIN_*: 3 (WAITING), 4 and 5 are never written.
NotLoggedIn == 0
ServerTransition == 1
LoggedIn == 2
ChangingChannel == 6
Transition == {ServerTransition, ChangingChannel}

-----------------------------------------------------------------------------
Live(k)   == player[k] # None /\ loggedIn[k]
Seated(k) == \E w \in Window : seat[w] = k
Alone(k)  == Overlap \/ \A j \in Conn \ {k} : pc[j] = "idle"
Turn(k)   == /\ Alone(k)
             /\ Prompt => \A j \in Conn \ {k} : server[j] # None => connected[j]
Ready(k)  == server[k] # None /\ pc[k] = "idle" /\ Turn(k)

Registered(c) == \E s \in Channel : storage[s][c] # None

(* What getLoginState may answer: an old transition counts as logged out.  *)
States == {loginState} \cup (IF loginState \in Transition THEN {NotLoggedIn} ELSE {})

(* Fault: a client once logged in keeps the flag when it is sent away.     *)
updateLoginStateFlagKept(k, n) ==
    /\ loginState' = n
    /\ loggedIn' = [loggedIn EXCEPT ![k] = @ \/ n = LoggedIn]
    /\ serverTransition' = [serverTransition EXCEPT ![k] = n \in Transition]

(***************************************************************************)
(* updateLoginState(n) by client k: the database, then the two flags.      *)
(***************************************************************************)
updateLoginState(k, n) ==
    /\ loginState' = n
    /\ loggedIn' = [loggedIn EXCEPT ![k] = n = LoggedIn]
    /\ serverTransition' = [serverTransition EXCEPT ![k] = n \in Transition]

(***************************************************************************)
(* disconnect() of every client in D.  A live one loses its player; one    *)
(* that is logged in writes 0.  The keys under which it is removed from a  *)
(* channel depend on the caller.                                           *)
(***************************************************************************)
Bereft(D) == [k \in Conn |-> IF k \in D /\ Live(k) THEN None ELSE player[k]]

disconnectAs(D, players) ==
    /\ player' = players
    /\ loggedIn' = [k \in Conn |-> loggedIn[k] /\ (k \in D => serverTransition[k])]
    /\ loginState' = IF \E k \in D : loggedIn[k] /\ ~serverTransition[k]
                     THEN NotLoggedIn ELSE loginState

disconnect(D) == disconnectAs(D, Bereft(D))

(* ch.removePlayer(idz, namez), with ch the client's channel.              *)
Keys(D) == {<<channel[k], player[k]>> : k \in {j \in D : Live(j)}}

(* deregisterPlayer removes whatever is registered under the key.          *)
deregister(keys) ==
    /\ storage' = [s \in Store |-> [c \in Char |->
                      IF <<s, c>> \in keys THEN None ELSE storage[s][c]]]
    /\ find' = [c \in Char |-> IF \E s \in Store : <<s, c>> \in keys
                               THEN None ELSE find[c]]

-----------------------------------------------------------------------------
(***************************************************************************)
(* What is outside the server.  A window connects, vanishes without a word *)
(* or gives up a move it was told to make; a connection is lost; the       *)
(* server crashes and Start frees all accounts.                            *)
(***************************************************************************)
Launch(w, k) ==
    /\ seat[w] = None /\ ticket[w] = None /\ server[k] = None
    /\ server' = [server EXCEPT ![k] = LoginSrv]
    /\ connected' = [connected EXCEPT ![k] = TRUE]
    /\ seat' = [seat EXCEPT ![w] = k]
    /\ UNCHANGED <<accountVars, channel, player, loggedIn, serverTransition, pc,
                   ticket>>

Vanish(w) ==
    /\ seat[w] # None \/ ticket[w] # None
    /\ seat' = [seat EXCEPT ![w] = None]
    /\ ticket' = [ticket EXCEPT ![w] = None]
    /\ UNCHANGED <<accountVars, clientVars>>

Unseat(k) == seat' = [w \in Window |-> IF seat[w] = k THEN None ELSE seat[w]]

LinkLost(k) ==
    /\ connected[k]
    /\ connected' = [connected EXCEPT ![k] = FALSE]
    /\ Unseat(k)
    /\ UNCHANGED <<accountVars, server, channel, player, loggedIn,
                   serverTransition, pc, ticket>>

Restart ==
    /\ loginState' = NotLoggedIn
    /\ pending' = [p \in Pending |-> [c \in Char |-> None]]
    /\ storage' = [s \in Store |-> [c \in Char |-> None]]
    /\ find' = [c \in Char |-> None]
    /\ server' = [k \in Conn |-> None]
    /\ channel' = [k \in Conn |-> None]
    /\ player' = [k \in Conn |-> None]
    /\ loggedIn' = [k \in Conn |-> FALSE]
    /\ serverTransition' = [k \in Conn |-> FALSE]
    /\ connected' = [k \in Conn |-> FALSE]
    /\ pc' = [k \in Conn |-> "idle"]
    /\ seat' = [w \in Window |-> None]
    /\ UNCHANGED ticket

(* The packet that tells w to go on as c at server s.                      *)
Send(w, s, c) ==
    /\ ticket' = [ticket EXCEPT ![w] = <<s, c>>]
    /\ seat' = [seat EXCEPT ![w] = None]

-----------------------------------------------------------------------------
(***************************************************************************)
(* unlockAcc() for a refused login of k: some logged-in client j of the    *)
(* account is thrown out.  unLockDisconnect passes serverTransition, which *)
(* is FALSE for a logged-in client, as RemoveInChannelServer: the player   *)
(* stays registered.  If the link of j is gone already, one character is   *)
(* removed from each storage first.                                        *)
(***************************************************************************)
StaleKeys(pick) == {<<s, pick[s]>> : s \in Store}

unlockAcc(k) ==
    LET others == {j \in Conn \ {k} : loggedIn[j]}
        stored(s) == {c \in Char : storage[s][c] # None}
    IN  \/ \E j \in others :
              /\ disconnect({j})
              /\ \/ /\ ~connected[j]
                    /\ \E pick \in [Store -> Char \cup {None}] :
                          /\ \A s \in Store : IF stored(s) = {} THEN pick[s] = None
                                              ELSE pick[s] \in stored(s)
                          /\ deregister(StaleKeys(pick))
                 \/ connected[j] /\ UNCHANGED <<storage, find>>
        \/ /\ others = {}
           /\ loginState' = NotLoggedIn
           /\ UNCHANGED <<loggedIn, player, storage, find>>

(* login() and registerClient() with the right password.                   *)
LoginRefused(w, k) ==
    /\ seat[w] = k /\ server[k] = LoginSrv /\ Ready(k) /\ ~loggedIn[k]
    /\ loginState # NotLoggedIn
    /\ unlockAcc(k)
    /\ UNCHANGED <<pending, server, channel, serverTransition, connected, pc, windowVars>>

LoginAccepted(w, k) ==
    /\ seat[w] = k /\ server[k] = LoginSrv /\ Ready(k) /\ ~loggedIn[k]
    /\ NotLoggedIn \in States
    /\ updateLoginState(k, LoggedIn)
    /\ UNCHANGED <<pending, storage, find, server, channel, player, connected, pc,
                   windowVars>>

(* CHAR_SELECT, for a channel chosen by CHARLIST_REQUEST.                  *)
Character_WithoutSecondPassword(w, k, s, c) ==
    /\ seat[w] = k /\ server[k] = LoginSrv /\ Ready(k) /\ loggedIn[k]
    /\ updateLoginState(k, ServerTransition)
    /\ Send(w, s, c)
    /\ UNCHANGED <<pending, storage, find, server, channel, player, connected, pc>>

-----------------------------------------------------------------------------
(* Fault: a player whose client is gone is left where it is.               *)
OnChannelsByClient == {key \in Channel \X Char : storage[key[1]][key[2]] \in Conn}

OnChannels == {key \in Channel \X Char : storage[key[1]][key[2]] # None}

(***************************************************************************)
(* InterServerHandler.Loggedin, in three steps.  First the transfers       *)
(* waiting on this channel are taken or dropped, the player is loaded and  *)
(* forceRemovePlayerByAccId throws out whoever is registered: from the     *)
(* channels whatever its client answers, from the cash shop only by        *)
(* disconnecting its client.                                               *)
(***************************************************************************)
Residents  == {storage[s][c] : s \in Store, c \in Char} \cap Conn

(* The new session k of a window that comes to s to play on as c.          *)
Expected(w, k, s, c) == ticket[w] = <<s, c>> /\ server[k] = None /\ Turn(k)

Arrive(w, k, s, step) ==
    /\ server' = [server EXCEPT ![k] = s]
    /\ connected' = [connected EXCEPT ![k] = TRUE]
    /\ pc' = [pc EXCEPT ![k] = step]
    /\ seat' = [seat EXCEPT ![w] = k]
    /\ ticket' = [ticket EXCEPT ![w] = None]

(* Fault: nobody is thrown out, and nothing is asked afterwards.           *)
LoggedinUnguarded(w, k, s, c) ==
    /\ Expected(w, k, s, c) /\ s \in Channel
    /\ Arrive(w, k, s, "admitted")
    /\ channel' = [channel EXCEPT ![k] = s]
    /\ player' = [player EXCEPT ![k] = c]
    /\ pending' = [pending EXCEPT ![s] = [d \in Char |-> None]]
    /\ UNCHANGED <<loginState, storage, find, loggedIn, serverTransition>>

Loggedin(w, k, s, c) ==
    /\ Expected(w, k, s, c) /\ s \in Channel
    /\ Arrive(w, k, s, "arrived")
    /\ disconnectAs(Residents, [Bereft(Residents) EXCEPT ![k] = c])
    /\ deregister(OnChannels \cup Keys(Residents))
    /\ pending' = [pending EXCEPT ![s] = [d \in Char |-> None]]
    /\ channel' = [channel EXCEPT ![k] = s]
    /\ UNCHANGED serverTransition

(* CashShopOperation.EnterCS takes the transfer from either shop, and      *)
(* closes the session when there is none.                                  *)
EnterCS(w, k, c) ==
    /\ Expected(w, k, CashShop, c)
    /\ Arrive(w, k, CashShop, "arrived")
    /\ \E p \in Shop :
          /\ pending[p][c] # None
          /\ p # CashShop => pending[CashShop][c] = None
          /\ pending' = [pending EXCEPT ![p][c] = None]
          /\ channel' = [channel EXCEPT ![k] = pending[p][c]]
    /\ player' = [player EXCEPT ![k] = c]
    /\ UNCHANGED <<loginState, storage, find, loggedIn, serverTransition>>

NothingPending(w, c) ==
    /\ ticket[w] = <<CashShop, c>>
    /\ \A p \in Shop : pending[p][c] = None
    /\ ticket' = [ticket EXCEPT ![w] = None]
    /\ UNCHANGED <<accountVars, clientVars, seat>>

(***************************************************************************)
(* The second step of either: getLoginState and isCharacterListConnected.  *)
(* The first writes what it finds expired and keeps in loggedIn whether    *)
(* the account, not this client, is logged in.                             *)
(***************************************************************************)
Allowed(s) == IF s = CashShop THEN Transition ELSE Transition \cup {NotLoggedIn}

Admissible(k, state) ==
    state \in Allowed(server[k]) /\ \A c \in Char : ~Registered(c)

Checking(k, state) ==
    /\ pc[k] = "arrived" /\ Alone(k) /\ state \in States
    /\ loginState' = state
    /\ loggedIn' = [loggedIn EXCEPT ![k] = state = LoggedIn]
    /\ UNCHANGED <<pending, storage, find, server, channel, serverTransition,
                   ticket>>

Admit(k, state) ==
    /\ Checking(k, state) /\ Admissible(k, state)
    /\ pc' = [pc EXCEPT ![k] = "admitted"]
    /\ UNCHANGED <<player, connected, seat>>

Reject(k, state) ==
    /\ Checking(k, state) /\ ~Admissible(k, state)
    /\ player' = [player EXCEPT ![k] = None]
    /\ connected' = [connected EXCEPT ![k] = FALSE]
    /\ pc' = [pc EXCEPT ![k] = "idle"]
    /\ Unseat(k)

(* The third: LOGGEDIN is written and the player registered.               *)
registerPlayer(k) ==
    /\ pc[k] = "admitted" /\ Alone(k)
    /\ updateLoginState(k, LoggedIn)
    /\ storage' = [storage EXCEPT ![server[k]][player[k]] = k]
    /\ find' = [find EXCEPT ![player[k]] = server[k]]
    /\ pc' = [pc EXCEPT ![k] = "idle"]
    /\ UNCHANGED <<pending, server, channel, player, connected, windowVars>>

-----------------------------------------------------------------------------
(* Fault: the transfer names where it waits, not where it leads to.        *)
WayOnToItself(k, p) == p

WayOn(k, p) == IF p \in Shop THEN channel[k] ELSE p

(***************************************************************************)
(* changeChannel, and InterServerHandler.EnterCS and EnterMTS.  The packet *)
(* that sends the window away is written before saveToDB, so the rest of   *)
(* the handler may overlap with the arrival: clearing the player is a      *)
(* second step, after which receiving is FALSE and the client is deaf.     *)
(***************************************************************************)
Depart(w, k, p) ==
    /\ seat[w] = k /\ server[k] \in Channel /\ Ready(k) /\ Live(k)
    /\ p # channel[k]
    /\ pending' = [pending EXCEPT ![p][player[k]] = WayOn(k, p)]
    /\ deregister({<<channel[k], player[k]>>})
    /\ updateLoginState(k, ChangingChannel)
    /\ Send(w, IF p \in Shop THEN CashShop ELSE p, player[k])
    /\ pc' = [pc EXCEPT ![k] = "leaving"]
    /\ UNCHANGED <<server, channel, player, connected>>

changeChannel(w, k) == \E s \in Channel : Depart(w, k, s)

EnterShop(w, k) == \E p \in Shop : Depart(w, k, p)

Leave(k) ==
    /\ pc[k] = "leaving" /\ Alone(k)
    /\ player' = [player EXCEPT ![k] = None]
    /\ pc' = [pc EXCEPT ![k] = "idle"]
    /\ UNCHANGED <<accountVars, server, channel, loggedIn, serverTransition,
                   connected, windowVars>>

(* LeaveCS goes back to the channel the transfer named; it keeps c.player. *)
LeaveCS(w, k) ==
    /\ seat[w] = k /\ server[k] = CashShop /\ Ready(k) /\ Live(k)
    /\ pending' = [pending EXCEPT ![channel[k]][player[k]] = channel[k]]
    /\ deregister({<<CashShop, player[k]>>})
    /\ updateLoginState(k, ServerTransition)
    /\ Send(w, channel[k], player[k])
    /\ UNCHANGED <<server, channel, player, connected, pc>>

-----------------------------------------------------------------------------
(***************************************************************************)
(* sessionClosed.  From the cash shop a live player is removed only when   *)
(* World.Find puts it on a channel: the cash shop's own entry stays.  The  *)
(* client is then forgotten, except by the storages that still refer to it.*)
(***************************************************************************)
ClosedKeys(k) ==
    IF server[k] # CashShop \/ (Live(k) /\ find[player[k]] \in Channel) THEN Keys({k}) ELSE {}

sessionClosed(k) ==
    /\ server[k] # None /\ ~connected[k] /\ pc[k] = "idle" /\ Alone(k)
    /\ disconnectAs({k}, [player EXCEPT ![k] = None])
    /\ LET kept(s, c) == <<s, c>> \notin ClosedKeys(k)
       IN  /\ storage' = [s \in Store |-> [c \in Char |->
                 CASE ~kept(s, c) -> None
                   [] kept(s, c) /\ storage[s][c] = k -> Gone
                   [] OTHER -> storage[s][c]]]
           /\ find' = [c \in Char |-> IF \E s \in Store : ~kept(s, c)
                                      THEN None ELSE find[c]]
    /\ server' = [server EXCEPT ![k] = None]
    /\ channel' = [channel EXCEPT ![k] = None]
    /\ serverTransition' = [serverTransition EXCEPT ![k] = FALSE]
    /\ UNCHANGED <<pending, connected, pc, windowVars>>

(* PersistingTask drops a transfer nobody came for.                        *)
PersistingTask(p, c) ==
    /\ pending[p][c] # None
    /\ pending' = [pending EXCEPT ![p][c] = None]
    /\ UNCHANGED <<loginState, storage, find, clientVars, windowVars>>

-----------------------------------------------------------------------------
Init ==
    /\ loginState = NotLoggedIn
    /\ pending = [p \in Pending |-> [c \in Char |-> None]]
    /\ storage = [s \in Store |-> [c \in Char |-> None]]
    /\ find = [c \in Char |-> None]
    /\ server = [k \in Conn |-> None]
    /\ channel = [k \in Conn |-> None]
    /\ player = [k \in Conn |-> None]
    /\ loggedIn = [k \in Conn |-> FALSE]
    /\ serverTransition = [k \in Conn |-> FALSE]
    /\ connected = [k \in Conn |-> FALSE]
    /\ pc = [k \in Conn |-> "idle"]
    /\ seat = [w \in Window |-> None]
    /\ ticket = [w \in Window |-> None]

World == Restart \/ \E w \in Window, k \in Conn : Launch(w, k) \/ Vanish(w) \/ LinkLost(k)

Login ==
    \E w \in Window, k \in Conn :
        \/ LoginRefused(w, k)
        \/ LoginAccepted(w, k)
        \/ \E s \in Channel, c \in Char : Character_WithoutSecondPassword(w, k, s, c)

Arrival(w) ==
    \E k \in Conn, c \in Char :
        \/ \E s \in Channel : Loggedin(w, k, s, c)
        \/ EnterCS(w, k, c)
        \/ NothingPending(w, c)

Continue(k) ==
    \/ \E state \in States : Admit(k, state) \/ Reject(k, state)
    \/ registerPlayer(k)
    \/ Leave(k)

Departure == \E w \in Window, k \in Conn :
                changeChannel(w, k) \/ EnterShop(w, k) \/ LeaveCS(w, k)

End == \/ \E k \in Conn : sessionClosed(k)
       \/ \E p \in Pending, c \in Char : PersistingTask(p, c)

Next == \/ World \/ Login \/ Departure \/ End
        \/ \E w \in Window : Arrival(w)
        \/ \E k \in Conn : Continue(k)

Spec == Init /\ [][Next]_vars

(***************************************************************************)
(* Handlers run on, MINA reports closed sessions, and a session without a  *)
(* program at its other end is lost in the end.                            *)
(***************************************************************************)
Fairness ==
    \A k \in Conn : /\ WF_vars(Continue(k))
                    /\ WF_vars(sessionClosed(k))
                    /\ WF_vars(~Seated(k) /\ LinkLost(k))

(* The owner goes on trying to get into the game.                          *)
Persistence(w) ==
    /\ WF_vars(\E k \in Conn : Launch(w, k))
    /\ WF_vars(\E k \in Conn : LoginRefused(w, k) \/ LoginAccepted(w, k))
    /\ WF_vars(\E k \in Conn, s \in Channel, c \in Char :
                   Character_WithoutSecondPassword(w, k, s, c))
    /\ WF_vars(Arrival(w))

(* A step that cuts the owner off.                                         *)
Disturbance ==
    \/ Restart
    \/ \E w \in Window : Vanish(w)
    \/ \E k \in Conn : Seated(k) /\ LinkLost(k)

(* After any number of them there are none any more.                       *)
PersistentSpec ==
    Spec /\ Fairness /\ (\A w \in Window : Persistence(w)) /\ <>[][~Disturbance]_vars

-----------------------------------------------------------------------------
TypeOK ==
    /\ loginState \in Transition \cup {NotLoggedIn, LoggedIn}
    /\ pending \in [Pending -> [Char -> Channel \cup {None}]]
    /\ storage \in [Store -> [Char -> Conn \cup {None, Gone}]]
    /\ find \in [Char -> Store \cup {None}]
    /\ server \in [Conn -> Store \cup {LoginSrv, None}]
    /\ channel \in [Conn -> Channel \cup {None}]
    /\ player \in [Conn -> Char \cup {None}]
    /\ loggedIn \in [Conn -> BOOLEAN]
    /\ serverTransition \in [Conn -> BOOLEAN]
    /\ connected \in [Conn -> BOOLEAN]
    /\ pc \in [Conn -> {"idle", "arrived", "admitted", "leaving"}]
    /\ seat \in [Window -> Conn \cup {None}]
    /\ ticket \in [Window -> (Store \X Char) \cup {None}]

(***************************************************************************)
(* At most one character of the account is registered on the channels,     *)
(* whatever was left behind by sessions that vanished: a second Loggedin   *)
(* throws the first one out.                                               *)
(***************************************************************************)
OneCharacterOnline ==
    \A s, t \in Channel : \A c, d \in Char :
        storage[s][c] # None /\ storage[t][d] # None => s = t /\ c = d

(***************************************************************************)
(* A player in the game is where the server looks for it: the storage it   *)
(* plays in has it under its key, and World.Find leads there.  Removal by  *)
(* key, by a session that lost the character since, must not hit it.       *)
(***************************************************************************)
PlayingIsFound ==
    \A k \in Conn : Live(k) /\ pc[k] = "idle" =>
        storage[server[k]][player[k]] = k /\ find[player[k]] = server[k]

(***************************************************************************)
(* The account does not play on a channel and in the cash shop at once.    *)
(***************************************************************************)
ShopOrChannel ==
    \A j, k \in Conn : Live(j) /\ Live(k) /\ server[j] = CashShop => server[k] \notin Channel

(***************************************************************************)
(* CHANGELOG.md line 58 says double logins are fixed, at login as in the   *)
(* game: no two connected clients of the account are logged in.            *)
(***************************************************************************)
OneClientLoggedIn ==
    \A j, k \in Conn :
        loggedIn[j] /\ connected[j] /\ loggedIn[k] /\ connected[k] => j = k

(***************************************************************************)
(* CHANGELOG.md line 57: accounts are never stuck.  Whatever sessions and  *)
(* registered players disturbances left behind, once they end, an owner    *)
(* who keeps trying gets to play.                                          *)
(***************************************************************************)
Playing == \E k \in Conn : Live(k) /\ server[k] \in Store /\ pc[k] = "idle"

OwnerGetsIn == []<>Playing

=============================================================================
