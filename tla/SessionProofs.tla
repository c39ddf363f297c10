--------------------------- MODULE SessionProofs ---------------------------
(***************************************************************************)
(* Proofs about Session, for any number of windows, sessions, characters   *)
(* and channels.  ClientsOK says what a client's fields have to do with    *)
(* each other; with the types it is inductive.  When handlers do not       *)
(* overlap, Online is too: at most one handler is under way, and a client  *)
(* that was admitted finds no character registered.  Placing says where    *)
(* the live clients are, if in addition the owner has one window, or lost  *)
(* links are reported at once and there is one shop.                       *)
(***************************************************************************)
EXTENDS Session, TLAPS

Coming(k) == pc[k] \in {"arrived", "admitted"}

ClientsOK ==
    \A k \in Conn :
        /\ loggedIn[k] => ~serverTransition[k]
        /\ server[k] = None \/ Coming(k) => ~loggedIn[k] /\ ~serverTransition[k]
        /\ Coming(k) => server[k] \in Store /\ player[k] \in Char
        /\ server[k] = CashShop => channel[k] \in Channel

TInv == TypeOK /\ ClientsOK

OneHandler == \A j, k \in Conn : pc[j] # "idle" /\ pc[k] # "idle" => j = k

AdmittedAlone == \A k \in Conn : pc[k] = "admitted" => \A c \in Char : ~Registered(c)

Online == OneHandler /\ AdmittedAlone /\ OneCharacterOnline

-----------------------------------------------------------------------------
(* What the helpers leave of the types.                                    *)
LEMMA StateType ==
    ASSUME TypeOK, NEW state \in States
    PROVE  state \in Transition \cup {NotLoggedIn, LoggedIn}
BY DEF TypeOK, States, Transition

LEMMA DeregisterType ==
    ASSUME TypeOK, NEW keys, deregister(keys)
    PROVE  /\ storage' \in [Store -> [Char -> Conn \cup {None, Gone}]]
           /\ find' \in [Char -> Store \cup {None}]
BY DEF TypeOK, deregister

LEMMA DisconnectType ==
    ASSUME TypeOK, NEW D, NEW players \in [Conn -> Char \cup {None}],
           disconnectAs(D, players)
    PROVE  /\ player' \in [Conn -> Char \cup {None}]
           /\ loggedIn' \in [Conn -> BOOLEAN]
           /\ loginState' \in Transition \cup {NotLoggedIn, LoggedIn}
           /\ \A k \in Conn : loggedIn'[k] => loggedIn[k]
BY DEF TypeOK, disconnectAs

LEMMA BereftType ==
    ASSUME TypeOK, NEW D
    PROVE  /\ Bereft(D) \in [Conn -> Char \cup {None}]
           /\ \A k \in Conn : ~loggedIn[k] => Bereft(D)[k] = player[k]
BY DEF TypeOK, Bereft, Live

LEMMA UpdateType ==
    ASSUME TypeOK, NEW k \in Conn, NEW n \in Transition \cup {NotLoggedIn, LoggedIn},
           updateLoginState(k, n)
    PROVE  /\ loginState' \in Transition \cup {NotLoggedIn, LoggedIn}
           /\ loggedIn' \in [Conn -> BOOLEAN]
           /\ serverTransition' \in [Conn -> BOOLEAN]
           /\ loggedIn'[k] => ~serverTransition'[k]
           /\ \A j \in Conn \ {k} : loggedIn'[j] = loggedIn[j]
                                 /\ serverTransition'[j] = serverTransition[j]
<1> DEFINE logged == n = LoggedIn
           moving == n \in Transition
<1>1. logged \in BOOLEAN /\ moving \in BOOLEAN /\ (logged => ~moving)
  BY DEF Transition, LoggedIn, ServerTransition, ChangingChannel
<1>2. /\ loginState' = n
      /\ loggedIn' = [loggedIn EXCEPT ![k] = logged]
      /\ serverTransition' = [serverTransition EXCEPT ![k] = moving]
  BY DEF updateLoginState
<1> HIDE DEF logged, moving
<1>3. loggedIn \in [Conn -> BOOLEAN] /\ serverTransition \in [Conn -> BOOLEAN]
  BY DEF TypeOK
<1> QED
  BY <1>1, <1>2, <1>3

-----------------------------------------------------------------------------
LEMMA WorldTypes ==
    ASSUME TInv, World
    PROVE  TInv'
<1> USE SessionAssumption DEF TInv, TypeOK, ClientsOK, Coming
<1>1. ASSUME NEW w \in Window, NEW k \in Conn, Launch(w, k)
      PROVE  TInv'
  <2>1. TypeOK'
    BY <1>1 DEF Launch, accountVars
  <2>2. /\ server' = [server EXCEPT ![k] = LoginSrv] /\ server[k] = None
        /\ UNCHANGED <<channel, player, loggedIn, serverTransition, pc>>
        /\ LoginSrv # CashShop
    BY <1>1 DEF Launch
  <2>3. ClientsOK'
    BY <2>2 DEF Store, Pending
  <2> QED
    BY <2>1, <2>3
<1>2. ASSUME NEW w \in Window, Vanish(w)
      PROVE  TInv'
  BY <1>2 DEF Vanish, accountVars, clientVars
<1>3. ASSUME NEW k \in Conn, LinkLost(k)
      PROVE  TInv'
  BY <1>3 DEF LinkLost, Unseat, accountVars
<1>4. CASE Restart
  BY <1>4 DEF Restart, Transition, Pending, Store
<1> QED
  BY <1>1, <1>2, <1>3, <1>4 DEF World

LEMMA LoginTypes ==
    ASSUME TInv, Login
    PROVE  TInv'
<1> USE SessionAssumption
<1>1. ASSUME NEW w \in Window, NEW k \in Conn, LoginRefused(w, k)
      PROVE  TInv'
  <2>1. /\ player' \in [Conn -> Char \cup {None}]
        /\ loggedIn' \in [Conn -> BOOLEAN]
        /\ loginState' \in Transition \cup {NotLoggedIn, LoggedIn}
        /\ \A j \in Conn : loggedIn'[j] => loggedIn[j]
        /\ \A j \in Conn : ~loggedIn[j] => player'[j] = player[j]
    <3>1. CASE \E j \in Conn : disconnect({j})
      BY <3>1, DisconnectType, BereftType DEF disconnect, disconnectAs, TInv
    <3>2. CASE loginState' = NotLoggedIn /\ UNCHANGED <<loggedIn, player>>
      BY <3>2 DEF TInv, TypeOK
    <3> QED
      BY <1>1, <3>1, <3>2 DEF LoginRefused, unlockAcc
  <2>2. /\ storage' \in [Store -> [Char -> Conn \cup {None, Gone}]]
        /\ find' \in [Char -> Store \cup {None}]
    BY <1>1, DeregisterType DEF LoginRefused, unlockAcc, TInv, TypeOK
  <2>3. UNCHANGED <<pending, server, channel, serverTransition, connected, pc, windowVars>>
    BY <1>1 DEF LoginRefused
  <2> QED
    BY <2>1, <2>2, <2>3 DEF TInv, TypeOK, ClientsOK, Coming, windowVars
<1>2. ASSUME NEW w \in Window, NEW k \in Conn, LoginAccepted(w, k)
      PROVE  TInv'
  <2>1. LoggedIn \in Transition \cup {NotLoggedIn, LoggedIn}
    OBVIOUS
  <2> QED
    BY <1>2, <2>1, UpdateType
       DEF LoginAccepted, Ready, TInv, TypeOK, ClientsOK, Coming, windowVars, Store
<1>3. ASSUME NEW w \in Window, NEW k \in Conn, NEW s \in Channel, NEW c \in Char,
             Character_WithoutSecondPassword(w, k, s, c)
      PROVE  TInv'
  <2>1. ServerTransition \in Transition
    BY DEF Transition
  <2> QED
    BY <1>3, <2>1, UpdateType
       DEF Character_WithoutSecondPassword, Ready, Send, TInv, TypeOK, ClientsOK, Coming,
           Store
<1> QED
  BY <1>1, <1>2, <1>3 DEF Login

LEMMA ArrivalTypes ==
    ASSUME TInv, NEW w \in Window, Arrival(w)
    PROVE  TInv'
<1> USE SessionAssumption
<1>1. ASSUME NEW k \in Conn, NEW s \in Channel, NEW c \in Char, Loggedin(w, k, s, c)
      PROVE  TInv'
  <2> DEFINE players == [Bereft(Residents) EXCEPT ![k] = c]
  <2>1. /\ players \in [Conn -> Char \cup {None}] /\ players[k] = c
        /\ \A j \in Conn \ {k} : ~loggedIn[j] => players[j] = player[j]
    BY BereftType DEF TInv
  <2>2. disconnectAs(Residents, players)
    BY <1>1 DEF Loggedin
  <2> HIDE DEF players
  <2>3. /\ player' = players
        /\ player' \in [Conn -> Char \cup {None}]
        /\ loggedIn' \in [Conn -> BOOLEAN]
        /\ loginState' \in Transition \cup {NotLoggedIn, LoggedIn}
        /\ \A j \in Conn : loggedIn'[j] => loggedIn[j]
    BY <2>1, <2>2, DisconnectType DEF disconnectAs, TInv
  <2>4. /\ storage' \in [Store -> [Char -> Conn \cup {None, Gone}]]
        /\ find' \in [Char -> Store \cup {None}]
    BY <1>1, DeregisterType DEF Loggedin, TInv
  <2>5. /\ server' = [server EXCEPT ![k] = s] /\ server[k] = None
        /\ pc' = [pc EXCEPT ![k] = "arrived"]
        /\ channel' = [channel EXCEPT ![k] = s]
        /\ UNCHANGED serverTransition
    BY <1>1 DEF Loggedin, Expected, Arrive
  <2>6. TypeOK'
    <3>1. pending' \in [Pending -> [Char -> Channel \cup {None}]]
      BY <1>1 DEF Loggedin, TInv, TypeOK
    <3>2. /\ connected' = [connected EXCEPT ![k] = TRUE]
          /\ seat' = [seat EXCEPT ![w] = k]
          /\ ticket' = [ticket EXCEPT ![w] = None]
      BY <1>1 DEF Loggedin, Arrive
    <3> QED
      BY <2>3, <2>4, <2>5, <3>1, <3>2 DEF TInv, TypeOK, Store
  <2>7. ClientsOK'
    BY <2>1, <2>3, <2>5 DEF TInv, TypeOK, ClientsOK, Coming, Store
  <2> QED
    BY <2>6, <2>7 DEF TInv
<1>2. ASSUME NEW k \in Conn, NEW c \in Char, EnterCS(w, k, c)
      PROVE  TInv'
  <2>1. PICK p \in Shop :
            /\ pending[p][c] # None
            /\ pending' = [pending EXCEPT ![p][c] = None]
            /\ channel' = [channel EXCEPT ![k] = pending[p][c]]
    BY <1>2 DEF EnterCS
  <2>2. pending[p][c] \in Channel /\ pending' \in [Pending -> [Char -> Channel \cup {None}]]
    BY <2>1 DEF TInv, TypeOK, Pending
  <2>3. /\ server' = [server EXCEPT ![k] = CashShop] /\ server[k] = None
        /\ pc' = [pc EXCEPT ![k] = "arrived"]
        /\ player' = [player EXCEPT ![k] = c]
        /\ UNCHANGED <<loggedIn, serverTransition>>
    BY <1>2 DEF EnterCS, Expected, Arrive
  <2>4. TypeOK'
    BY <1>2, <2>1, <2>2, <2>3 DEF EnterCS, Arrive, TInv, TypeOK, Store
  <2>5. ClientsOK'
    BY <2>1, <2>2, <2>3 DEF TInv, TypeOK, ClientsOK, Coming, Store
  <2> QED
    BY <2>4, <2>5 DEF TInv
<1>3. ASSUME NEW c \in Char, NothingPending(w, c)
      PROVE  TInv'
  BY <1>3 DEF NothingPending, accountVars, clientVars, TInv, TypeOK, ClientsOK, Coming
<1> QED
  BY <1>1, <1>2, <1>3 DEF Arrival

LEMMA ContinueTypes ==
    ASSUME TInv, NEW k \in Conn, Continue(k)
    PROVE  TInv'
<1> USE SessionAssumption
<1>1. ASSUME NEW state \in States, Admit(k, state)
      PROVE  TInv'
  <2>1. state \in Transition \cup {NotLoggedIn, LoggedIn} /\ state # LoggedIn
    BY <1>1, StateType DEF Admit, Admissible, Allowed, TInv, Transition, LoggedIn,
       NotLoggedIn, ServerTransition, ChangingChannel
  <2>2. /\ loginState' = state /\ loggedIn' = [loggedIn EXCEPT ![k] = FALSE]
        /\ pc[k] = "arrived" /\ pc' = [pc EXCEPT ![k] = "admitted"]
        /\ UNCHANGED <<pending, storage, find, server, channel, serverTransition, ticket,
                       player, connected, seat>>
    BY <1>1, <2>1 DEF Admit, Checking
  <2> QED
    BY <2>1, <2>2 DEF TInv, TypeOK, ClientsOK, Coming
<1>2. ASSUME NEW state \in States, Reject(k, state)
      PROVE  TInv'
  <2> DEFINE logged == state = LoggedIn
  <2>1. state \in Transition \cup {NotLoggedIn, LoggedIn} /\ logged \in BOOLEAN
    BY StateType DEF TInv
  <2>2. /\ loginState' = state /\ loggedIn' = [loggedIn EXCEPT ![k] = logged]
        /\ pc[k] = "arrived" /\ pc' = [pc EXCEPT ![k] = "idle"]
        /\ player' = [player EXCEPT ![k] = None]
        /\ connected' = [connected EXCEPT ![k] = FALSE]
        /\ seat' = [w \in Window |-> IF seat[w] = k THEN None ELSE seat[w]]
        /\ UNCHANGED <<pending, storage, find, server, channel, serverTransition, ticket>>
    BY <1>2 DEF Reject, Checking, Unseat
  <2> HIDE DEF logged
  <2>3. server[k] \in Store /\ ~serverTransition[k]
    BY <2>2 DEF TInv, ClientsOK, Coming
  <2>4. TypeOK'
    BY <2>1, <2>2 DEF TInv, TypeOK
  <2>5. ClientsOK'
    BY <2>1, <2>2, <2>3 DEF TInv, TypeOK, ClientsOK, Coming, Store, Pending
  <2> QED
    BY <2>4, <2>5 DEF TInv
<1>3. CASE registerPlayer(k)
  <2>1. server[k] \in Store /\ player[k] \in Char
    BY <1>3 DEF registerPlayer, TInv, ClientsOK, Coming
  <2>2. LoggedIn \in Transition \cup {NotLoggedIn, LoggedIn}
    OBVIOUS
  <2>3. TypeOK'
    BY <1>3, <2>1, <2>2, UpdateType DEF registerPlayer, TInv, TypeOK, windowVars
  <2>4. /\ pc' = [pc EXCEPT ![k] = "idle"] /\ UNCHANGED <<server, player, channel>>
        /\ updateLoginState(k, LoggedIn) /\ server[k] # None
    BY <1>3, <2>1 DEF registerPlayer, Store, Pending
  <2>5. ClientsOK'
    BY <2>2, <2>4, UpdateType DEF TInv, TypeOK, ClientsOK, Coming
  <2> QED
    BY <2>3, <2>5 DEF TInv
<1>4. CASE Leave(k)
  BY <1>4 DEF Leave, accountVars, windowVars, TInv, TypeOK, ClientsOK, Coming
<1> QED
  BY <1>1, <1>2, <1>3, <1>4 DEF Continue

LEMMA DepartureTypes ==
    ASSUME TInv, Departure
    PROVE  TInv'
<1> USE SessionAssumption
<1>1. ASSUME NEW w \in Window, NEW k \in Conn, NEW p \in Pending, Depart(w, k, p)
      PROVE  TInv'
  <2>1. player[k] \in Char /\ WayOn(k, p) \in Channel \cup {None}
        /\ (IF p \in Shop THEN CashShop ELSE p) \in Store
    BY <1>1 DEF Depart, Live, WayOn, TInv, TypeOK, Pending, Store
  <2>2. /\ storage' \in [Store -> [Char -> Conn \cup {None, Gone}]]
        /\ find' \in [Char -> Store \cup {None}]
    BY <1>1, DeregisterType DEF Depart, TInv
  <2>3. ChangingChannel \in Transition
    BY DEF Transition
  <2>4. /\ pc' = [pc EXCEPT ![k] = "leaving"] /\ UNCHANGED <<server, player, channel>>
        /\ updateLoginState(k, ChangingChannel) /\ server[k] # None
    BY <1>1 DEF Depart, Pending
  <2>5. TypeOK'
    BY <1>1, <2>1, <2>2, <2>3, UpdateType DEF Depart, Send, TInv, TypeOK
  <2>6. ClientsOK'
    BY <2>3, <2>4, UpdateType DEF TInv, TypeOK, ClientsOK, Coming
  <2> QED
    BY <2>5, <2>6 DEF TInv
<1>2. ASSUME NEW w \in Window, NEW k \in Conn, LeaveCS(w, k)
      PROVE  TInv'
  <2>1. player[k] \in Char /\ channel[k] \in Channel
    BY <1>2 DEF LeaveCS, Live, TInv, TypeOK, ClientsOK
  <2>2. /\ storage' \in [Store -> [Char -> Conn \cup {None, Gone}]]
        /\ find' \in [Char -> Store \cup {None}]
    BY <1>2, DeregisterType DEF LeaveCS, TInv
  <2>3. ServerTransition \in Transition
    BY DEF Transition
  <2>4. /\ UNCHANGED <<pc, server, player, channel>> /\ pc[k] = "idle"
        /\ updateLoginState(k, ServerTransition) /\ server[k] # None
    BY <1>2 DEF LeaveCS, Ready
  <2>5. TypeOK'
    BY <1>2, <2>1, <2>2, <2>3, UpdateType
       DEF LeaveCS, Send, TInv, TypeOK, Pending, Store
  <2>6. ClientsOK'
    BY <2>3, <2>4, UpdateType DEF TInv, TypeOK, ClientsOK, Coming
  <2> QED
    BY <2>5, <2>6 DEF TInv
<1> QED
  BY <1>1, <1>2 DEF Departure, changeChannel, EnterShop, Pending

LEMMA EndTypes ==
    ASSUME TInv, End
    PROVE  TInv'
<1> USE SessionAssumption
<1>1. ASSUME NEW k \in Conn, sessionClosed(k)
      PROVE  TInv'
  <2>1. [player EXCEPT ![k] = None] \in [Conn -> Char \cup {None}]
    BY DEF TInv, TypeOK
  <2>2. /\ player' \in [Conn -> Char \cup {None}]
        /\ loggedIn' \in [Conn -> BOOLEAN]
        /\ loginState' \in Transition \cup {NotLoggedIn, LoggedIn}
        /\ \A j \in Conn : loggedIn'[j] => loggedIn[j]
        /\ loggedIn'[k] => serverTransition[k]
        /\ player' = [player EXCEPT ![k] = None]
    BY <1>1, <2>1, DisconnectType DEF sessionClosed, disconnectAs, TInv
  <2>3. storage' \in [Store -> [Char -> Conn \cup {None, Gone}]]
    BY <1>1 DEF sessionClosed, TInv, TypeOK
  <2>4. find' \in [Char -> Store \cup {None}]
    BY <1>1 DEF sessionClosed, TInv, TypeOK
  <2>5. /\ server' = [server EXCEPT ![k] = None]
        /\ channel' = [channel EXCEPT ![k] = None]
        /\ serverTransition' = [serverTransition EXCEPT ![k] = FALSE]
        /\ UNCHANGED <<pending, connected, pc, windowVars>> /\ pc[k] = "idle"
    BY <1>1 DEF sessionClosed
  <2>6. TypeOK'
    BY <2>2, <2>3, <2>4, <2>5 DEF TInv, TypeOK, windowVars
  <2>7. ClientsOK'
    BY <2>2, <2>5 DEF TInv, TypeOK, ClientsOK, Coming, Store, Pending
  <2> QED
    BY <2>6, <2>7 DEF TInv
<1>2. ASSUME NEW p \in Pending, NEW c \in Char, PersistingTask(p, c)
      PROVE  TInv'
  BY <1>2 DEF PersistingTask, clientVars, windowVars, TInv, TypeOK, ClientsOK, Coming
<1> QED
  BY <1>1, <1>2 DEF End

LEMMA TypesInductive ==
    ASSUME TInv, [Next]_vars
    PROVE  TInv'
<1>1. CASE UNCHANGED vars
  BY <1>1 DEF vars, accountVars, clientVars, windowVars, TInv, TypeOK, ClientsOK, Coming
<1> QED
  BY <1>1, WorldTypes, LoginTypes, ArrivalTypes, ContinueTypes, DepartureTypes, EndTypes
     DEF Next

(***************************************************************************)
(* Every field keeps its type, and a client's fields fit together: what is *)
(* being admitted has a player and is not logged in yet, and a client in   *)
(* the cash shop knows the channel it goes back to.                        *)
(***************************************************************************)
THEOREM SessionTypes == Spec => [](TypeOK /\ ClientsOK)
<1>1. Init => TInv
  BY SessionAssumption
     DEF Init, TInv, TypeOK, ClientsOK, Coming, Transition, Pending, Store
<1>2. TInv /\ [Next]_vars => TInv'
  BY TypesInductive
<1> QED
  BY <1>1, <1>2, PTL DEF Spec, TInv

-----------------------------------------------------------------------------
(* A step that registers nobody on a channel.                              *)
Shrinks == \A s \in Channel, c \in Char : storage[s][c] = None => storage'[s][c] = None

LEMMA ShrinksOnline ==
    ASSUME Shrinks
    PROVE  /\ OneCharacterOnline => OneCharacterOnline'
           /\ (\A c \in Char : ~Registered(c)) => \A c \in Char : ~Registered(c)'
BY DEF Shrinks, OneCharacterOnline, Registered

LEMMA DeregisterShrinks ==
    ASSUME NEW keys, deregister(keys)
    PROVE  Shrinks
BY DEF deregister, Shrinks, Store

LEMMA SameStorage ==
    ASSUME UNCHANGED storage
    PROVE  Shrinks
BY DEF Shrinks

(* A step that neither registers a player nor touches a handler.           *)
LEMMA QuietStep ==
    ASSUME Online, Shrinks, UNCHANGED pc
    PROVE  Online'
BY ShrinksOnline DEF Online, OneHandler, AdmittedAlone

(* A handler starts while no other is under way.                           *)
LEMMA FirstStep ==
    ASSUME TInv, Online, Shrinks, ~Overlap, NEW k \in Conn, Alone(k),
           NEW step \in {"arrived", "leaving"}, pc' = [pc EXCEPT ![k] = step]
    PROVE  Online'
<1>1. \A j \in Conn \ {k} : pc'[j] = "idle"
  BY DEF Alone, TInv, TypeOK
<1>2. pc'[k] # "admitted"
  BY DEF TInv, TypeOK
<1> QED
  BY <1>1, <1>2, ShrinksOnline DEF Online, OneHandler, AdmittedAlone

(* A handler ends.                                                         *)
LEMMA LastStep ==
    ASSUME TInv, Online, Shrinks, NEW k \in Conn, pc' = [pc EXCEPT ![k] = "idle"]
    PROVE  Online'
<1>1. \A j \in Conn : pc'[j] # "idle" => pc'[j] = pc[j]
  BY DEF TInv, TypeOK
<1> QED
  BY <1>1, ShrinksOnline DEF Online, OneHandler, AdmittedAlone

LEMMA OnlineInductive ==
    ASSUME ~Overlap, TInv, Online, [Next]_vars
    PROVE  Online'
<1>1. CASE World
  <2>1. CASE Restart
    <3>1. /\ \A k \in Conn : pc'[k] = "idle"
          /\ \A s \in Channel, c \in Char : storage'[s][c] = None
      BY <2>1 DEF Restart, Store
    <3> QED
      BY <3>1 DEF Online, OneHandler, AdmittedAlone, OneCharacterOnline
  <2>2. ASSUME NEW w \in Window, NEW k \in Conn,
               Launch(w, k) \/ Vanish(w) \/ LinkLost(k)
        PROVE  Online'
    <3>1. UNCHANGED <<storage, pc>>
      BY <2>2 DEF Launch, Vanish, LinkLost, accountVars, clientVars
    <3> QED
      BY <3>1, SameStorage, QuietStep
  <2> QED
    BY <1>1, <2>1, <2>2 DEF World
<1>2. CASE Login
  <2>1. ASSUME NEW w \in Window, NEW k \in Conn, LoginRefused(w, k)
        PROVE  Online'
    BY <2>1, DeregisterShrinks, SameStorage, QuietStep DEF LoginRefused, unlockAcc
  <2>2. ASSUME NEW w \in Window, NEW k \in Conn, LoginAccepted(w, k)
        PROVE  Online'
    BY <2>2, SameStorage, QuietStep DEF LoginAccepted
  <2>3. ASSUME NEW w \in Window, NEW k \in Conn, NEW s \in Channel, NEW c \in Char,
               Character_WithoutSecondPassword(w, k, s, c)
        PROVE  Online'
    BY <2>3, SameStorage, QuietStep DEF Character_WithoutSecondPassword
  <2> QED
    BY <1>2, <2>1, <2>2, <2>3 DEF Login
<1>3. CASE \E w \in Window : Arrival(w)
  <2>1. ASSUME NEW w \in Window, NEW k \in Conn, NEW s \in Channel, NEW c \in Char,
               Loggedin(w, k, s, c)
        PROVE  Online'
    BY <2>1, DeregisterShrinks, FirstStep DEF Loggedin, Arrive, Expected, Turn
  <2>2. ASSUME NEW w \in Window, NEW k \in Conn, NEW c \in Char, EnterCS(w, k, c)
        PROVE  Online'
    BY <2>2, SameStorage, FirstStep DEF EnterCS, Arrive, Expected, Turn
  <2>3. ASSUME NEW w \in Window, NEW c \in Char, NothingPending(w, c)
        PROVE  Online'
    BY <2>3, SameStorage, QuietStep DEF NothingPending, accountVars, clientVars
  <2> QED
    BY <1>3, <2>1, <2>2, <2>3 DEF Arrival
<1>4. CASE Departure
  <2>1. ASSUME NEW w \in Window, NEW k \in Conn, NEW p \in Pending, Depart(w, k, p)
        PROVE  Online'
    BY <2>1, DeregisterShrinks, FirstStep DEF Depart, Ready, Turn
  <2>2. ASSUME NEW w \in Window, NEW k \in Conn, LeaveCS(w, k)
        PROVE  Online'
    BY <2>2, DeregisterShrinks, QuietStep DEF LeaveCS
  <2> QED
    BY <1>4, <2>1, <2>2 DEF Departure, changeChannel, EnterShop, Pending
<1>5. CASE End
  <2>1. ASSUME NEW k \in Conn, sessionClosed(k)
        PROVE  Online'
    <3>1. Shrinks
      <4> SUFFICES ASSUME NEW s \in Channel, NEW c \in Char, storage[s][c] = None
                   PROVE  storage'[s][c] = None
        BY DEF Shrinks
      <4>1. storage[s][c] # k
        BY SessionAssumption
      <4>2. s \in Store
        BY DEF Store
      <4>3. storage'[s][c] = IF <<s, c>> \in ClosedKeys(k) THEN None ELSE storage[s][c]
        BY <2>1, <4>1, <4>2 DEF sessionClosed
      <4> QED
        BY <4>3
    <3> QED
      BY <2>1, <3>1, QuietStep DEF sessionClosed
  <2>2. ASSUME NEW p \in Pending, NEW c \in Char, PersistingTask(p, c)
        PROVE  Online'
    BY <2>2, SameStorage, QuietStep DEF PersistingTask, clientVars
  <2> QED
    BY <1>5, <2>1, <2>2 DEF End
<1>6. CASE \E k \in Conn : Continue(k)
  <2>1. ASSUME NEW k \in Conn, NEW state \in States, Admit(k, state)
        PROVE  Online'
    <3>1. /\ pc[k] = "arrived" /\ pc' = [pc EXCEPT ![k] = "admitted"] /\ UNCHANGED storage
          /\ \A c \in Char : ~Registered(c)
      BY <2>1 DEF Admit, Checking, Admissible
    <3>2. \A j \in Conn \ {k} : pc'[j] = "idle"
      BY <3>1 DEF Online, OneHandler, TInv, TypeOK
    <3> QED
      BY <3>1, <3>2, SameStorage, ShrinksOnline DEF Online, OneHandler, AdmittedAlone
  <2>2. ASSUME NEW k \in Conn, NEW state \in States, Reject(k, state)
        PROVE  Online'
    BY <2>2, SameStorage, LastStep DEF Reject, Checking
  <2>3. ASSUME NEW k \in Conn, registerPlayer(k)
        PROVE  Online'
    <3>1. /\ pc[k] = "admitted" /\ pc' = [pc EXCEPT ![k] = "idle"]
          /\ storage' = [storage EXCEPT ![server[k]][player[k]] = k]
      BY <2>3 DEF registerPlayer
    <3>2. \A s \in Channel, c \in Char : storage[s][c] = None
      BY <3>1 DEF Online, AdmittedAlone, Registered
    <3>3. \A s \in Channel, c \in Char :
              storage'[s][c] # None => s = server[k] /\ c = player[k]
      BY <3>1, <3>2 DEF TInv, TypeOK, Store
    <3>4. OneCharacterOnline'
      BY <3>3 DEF OneCharacterOnline
    <3>5. \A j \in Conn : pc'[j] = "idle"
      BY <3>1 DEF Online, OneHandler, TInv, TypeOK
    <3> QED
      BY <3>4, <3>5 DEF Online, OneHandler, AdmittedAlone
  <2>4. ASSUME NEW k \in Conn, Leave(k)
        PROVE  Online'
    BY <2>4, SameStorage, LastStep DEF Leave, accountVars
  <2> QED
    BY <1>6, <2>1, <2>2, <2>3, <2>4 DEF Continue
<1>7. CASE UNCHANGED vars
  BY <1>7, SameStorage, QuietStep DEF vars, accountVars, clientVars
<1> QED
  BY <1>1, <1>2, <1>3, <1>4, <1>5, <1>6, <1>7 DEF Next

(***************************************************************************)
(* While handlers of different sessions do not overlap, no two characters  *)
(* of the account are registered on channels: whoever comes in throws out  *)
(* whoever is there, however many sessions were left behind, and however   *)
(* late they are reported closed.                                          *)
(***************************************************************************)
THEOREM OneOnline ==
    ASSUME ~Overlap
    PROVE  Spec => []OneCharacterOnline
<1>1. Init => TInv /\ Online
  <2>1. Init => TInv
    BY SessionAssumption
       DEF Init, TInv, TypeOK, ClientsOK, Coming, Transition, Pending, Store
  <2>2. Init => Online
    BY DEF Init, Online, OneHandler, AdmittedAlone, OneCharacterOnline, Store
  <2> QED
    BY <2>1, <2>2
<1>2. TInv /\ Online /\ [Next]_vars => TInv' /\ Online'
  BY TypesInductive, OnlineInductive
<1>3. Online => OneCharacterOnline
  BY DEF Online
<1> QED
  BY <1>1, <1>2, <1>3, PTL DEF Spec

-----------------------------------------------------------------------------
(***************************************************************************)
(* Where the live clients are.  Whether one is still found under its key   *)
(* depends on whose keys the others remove, and a client that comes to a   *)
(* storage must not find its own key taken.  Placing is inductive but for  *)
(* two steps: a refused login may remove a bystander when it throws out    *)
(* one of several logged-in clients whose link is lost (Sole says there is *)
(* none such), and a visitor may come to the shop where its character is   *)
(* (Exclusive says it may not).  Both follow in two regimes: if the links  *)
(* that are lost are reported at once, and if the owner has one window.    *)
(***************************************************************************)
Away == \A k \in Conn : server[k] \notin Store => player[k] = None

OnItsChannel == \A k \in Conn : server[k] \in Channel => channel[k] = server[k]

LeavingIsOut == \A k \in Conn : pc[k] = "leaving" => ~loggedIn[k]

Clear ==
    \A j, k \in Conn : Coming(k) /\ Live(j) =>
        server[k] = CashShop /\ (server[j] = CashShop => player[j] # player[k])

Placing == /\ Away /\ OnItsChannel /\ LeavingIsOut
           /\ Clear /\ PlayingIsFound /\ ShopOrChannel

Sole == Prompt \/ \A j, k \in Conn : loggedIn[j] /\ loggedIn[k] => j = k

Exclusive ==
    \A w \in Window : \A c \in Char : \A k \in Conn :
        ticket[w] = <<CashShop, c>> /\ (\E p \in Shop : pending[p][c] # None)
            => ~(Live(k) /\ server[k] = CashShop /\ player[k] = c)

(* A live client is where its storage says, and no handler of its runs.    *)
LEMMA LiveIsThere ==
    ASSUME TInv, Placing, NEW k \in Conn, Live(k)
    PROVE  /\ pc[k] = "idle" /\ server[k] \in Store /\ player[k] \in Char
           /\ storage[server[k]][player[k]] = k /\ find[player[k]] = server[k]
<1>1. pc[k] = "idle"
  BY DEF TInv, TypeOK, ClientsOK, Coming, Live, Placing, LeavingIsOut
<1>2. server[k] \in Store /\ player[k] \in Char
  BY DEF Placing, Away, Live, TInv, TypeOK
<1> QED
  BY <1>1, <1>2 DEF Placing, PlayingIsFound

(* Two live clients have different keys, and on channels there is one.     *)
LEMMA LiveAreApart ==
    ASSUME TInv, Placing, Online, NEW j \in Conn, NEW k \in Conn, Live(j), Live(k), j # k
    PROVE  server[j] = CashShop /\ server[k] = CashShop /\ player[j] # player[k]
<1>1. /\ server[j] \in Store /\ player[j] \in Char /\ storage[server[j]][player[j]] = j
      /\ server[k] \in Store /\ player[k] \in Char /\ storage[server[k]][player[k]] = k
  BY LiveIsThere
<1>2. j # None /\ k # None
  BY SessionAssumption
<1>3. ~(server[j] \in Channel /\ server[k] \in Channel)
  BY <1>1, <1>2 DEF Online, OneCharacterOnline
<1>4. server[j] = CashShop /\ server[k] = CashShop
  BY <1>1, <1>3 DEF Store, Placing, ShopOrChannel
<1> QED
  BY <1>1, <1>4

(* While a handler is to run alone, nobody is coming.                      *)
LEMMA NobodyComes ==
    ASSUME ~Overlap, NEW k \in Conn, Alone(k), ~Coming(k)
    PROVE  \A j \in Conn : ~Coming(j)
BY DEF Alone, Coming

(* A client that a step leaves live where it was, under its key.           *)
Stays(j) ==
    /\ Live(j) /\ player'[j] = player[j] /\ server'[j] = server[j]
    /\ storage'[server[j]][player[j]] = storage[server[j]][player[j]]
    /\ find'[player[j]] = find[player[j]]

Fewer == /\ \A j \in Conn : Live(j)' => Stays(j)
         /\ \A j \in Conn : Coming(j)' => /\ Coming(j) /\ server'[j] = server[j]
                                         /\ player'[j] = player[j]

LEMMA FewerPlaying ==
    ASSUME TInv, Placing, \A j \in Conn : Live(j)' => Stays(j)
    PROVE  PlayingIsFound' /\ ShopOrChannel'
<1>1. ASSUME NEW k \in Conn, Live(k)'
      PROVE  /\ storage'[server'[k]][player'[k]] = k /\ find'[player'[k]] = server'[k]
             /\ Live(k) /\ server'[k] = server[k]
  BY <1>1, LiveIsThere DEF Stays
<1>2. PlayingIsFound'
  BY <1>1 DEF PlayingIsFound
<1>3. ShopOrChannel'
  BY <1>1 DEF ShopOrChannel, Placing
<1> QED
  BY <1>2, <1>3

LEMMA FewerClear ==
    ASSUME TInv, Placing, Fewer
    PROVE  PlayingIsFound' /\ ShopOrChannel' /\ Clear'
<1>1. Clear'
  BY DEF Fewer, Stays, Placing, Clear
<1> QED
  BY <1>1, FewerPlaying DEF Fewer

LEMMA WorldPlaces ==
    ASSUME TInv, Placing, World
    PROVE  Placing'
<1>1. CASE Restart
  <2>1. \A k \in Conn : /\ ~Live(k)' /\ ~Coming(k)' /\ player'[k] = None /\ server'[k] = None
                        /\ ~loggedIn'[k]
    BY <1>1 DEF Restart, Live, Coming
  <2> QED
    BY <2>1, SessionAssumption DEF Placing, Away, OnItsChannel, LeavingIsOut, Clear,
                                   PlayingIsFound, ShopOrChannel, Pending
<1>2. ASSUME NEW w \in Window, NEW k \in Conn, Launch(w, k)
      PROVE  Placing'
  <2>1. /\ server[k] = None /\ server' = [server EXCEPT ![k] = LoginSrv]
        /\ UNCHANGED <<storage, find, channel, player, loggedIn, pc>>
    BY <1>2 DEF Launch, accountVars
  <2>2. player[k] = None /\ LoginSrv \notin Store
    BY <2>1, SessionAssumption DEF Placing, Away, Store, Pending
  <2>3. \A j \in Conn \ {k} : server'[j] = server[j]
    BY <2>1 DEF TInv, TypeOK
  <2>4. server'[k] = LoginSrv /\ ~Coming(k)
    BY <2>1, SessionAssumption DEF TInv, TypeOK, ClientsOK, Store, Pending
  <2>5. Fewer
    BY <2>1, <2>2, <2>3, <2>4 DEF Fewer, Stays, Live, Coming
  <2>6. Away' /\ OnItsChannel' /\ LeavingIsOut'
    BY <2>1, <2>2, <2>3, <2>4, SessionAssumption
       DEF Placing, Away, OnItsChannel, LeavingIsOut, Store
  <2> QED
    BY <2>5, <2>6, FewerClear DEF Placing
<1>3. ASSUME NEW w \in Window, NEW k \in Conn, Vanish(w) \/ LinkLost(k)
      PROVE  Placing'
  BY <1>3 DEF Vanish, LinkLost, accountVars, clientVars, Placing, Away, OnItsChannel,
              LeavingIsOut, Clear, PlayingIsFound, ShopOrChannel, Live, Coming
<1> QED
  BY <1>1, <1>2, <1>3 DEF World

(* A refused login throws one client out and leaves the others in place.   *)
LEMMA RefusalPlaces ==
    ASSUME TInv, Placing, Sole, NEW w \in Window, NEW k \in Conn, LoginRefused(w, k)
    PROVE  Placing'
<1>1. UNCHANGED <<server, channel, pc>> /\ unlockAcc(k) /\ Turn(k)
  BY DEF LoginRefused, Ready
<1>2. CASE UNCHANGED <<loggedIn, player, storage, find>>
  <2>1. Fewer
    BY <1>1, <1>2 DEF Fewer, Stays, Live, Coming
  <2> QED
    BY <1>1, <1>2, <2>1, FewerClear DEF Placing, Away, OnItsChannel, LeavingIsOut
<1>3. ASSUME NEW j \in Conn \ {k}, loggedIn[j], disconnect({j}),
             ~connected[j] \/ UNCHANGED <<storage, find>>
      PROVE  Placing'
  <2>1. ~serverTransition[j]
    BY <1>3 DEF TInv, ClientsOK
  <2>2. /\ ~loggedIn'[j]
        /\ \A i \in Conn : loggedIn'[i] => loggedIn[i]
        /\ \A i \in Conn \ {j} : player'[i] = player[i]
        /\ \A i \in Conn : player[i] = None => player'[i] = None
    BY <1>3, <2>1 DEF disconnect, disconnectAs, Bereft, TInv, TypeOK
  <2>3. ASSUME NEW i \in Conn, Live(i)'
        PROVE  Stays(i)
    <3>1. i # j /\ loggedIn[i]
      BY <2>2, <2>3 DEF Live
    <3>2. connected[j]
      <4>1. Prompt
        BY <1>3, <3>1 DEF Sole
      <4>2. server[j] # None
        BY <1>3 DEF TInv, ClientsOK
      <4> QED
        BY <1>1, <4>1, <4>2 DEF Turn
    <3> QED
      BY <1>1, <1>3, <2>2, <2>3, <3>1, <3>2 DEF Stays, Live
  <2>4. Clear'
    <3> SUFFICES ASSUME NEW i \in Conn, NEW l \in Conn, Coming(l)', Live(i)'
                 PROVE  /\ server'[l] = CashShop
                        /\ server'[i] = CashShop => player'[i] # player'[l]
      BY DEF Clear
    <3>1. Coming(l) /\ ~loggedIn[l]
      BY <1>1 DEF Coming, TInv, ClientsOK
    <3>2. player'[l] = player[l]
      BY <1>3, <2>2, <3>1
    <3> QED
      BY <1>1, <2>3, <3>1, <3>2 DEF Stays, Placing, Clear
  <2>5. Away' /\ OnItsChannel' /\ LeavingIsOut'
    BY <1>1, <2>2 DEF Placing, Away, OnItsChannel, LeavingIsOut
  <2> QED
    BY <2>3, <2>4, <2>5, FewerPlaying DEF Placing
<1> QED
  BY <1>1, <1>2, <1>3 DEF unlockAcc

LEMMA LoginPlaces ==
    ASSUME TInv, Placing, Sole, Login
    PROVE  Placing'
<1>1. ASSUME NEW w \in Window, NEW k \in Conn, LoginAccepted(w, k)
      PROVE  Placing'
  <2>1. /\ UNCHANGED <<storage, find, server, channel, player, pc>>
        /\ server[k] = LoginSrv /\ pc[k] = "idle"
        /\ \A j \in Conn \ {k} : loggedIn'[j] = loggedIn[j]
    BY <1>1 DEF LoginAccepted, Ready, updateLoginState
  <2>2. player[k] = None
    BY <2>1, SessionAssumption DEF Placing, Away, Store
  <2>3. Fewer
    BY <2>1, <2>2 DEF Fewer, Stays, Live, Coming
  <2> QED
    BY <2>1, <2>3, FewerClear DEF Placing, Away, OnItsChannel, LeavingIsOut
<1>2. ASSUME NEW w \in Window, NEW k \in Conn, NEW s \in Channel, NEW c \in Char,
             Character_WithoutSecondPassword(w, k, s, c)
      PROVE  Placing'
  <2>1. /\ UNCHANGED <<storage, find, server, channel, player, pc>>
        /\ \A j \in Conn : loggedIn'[j] => loggedIn[j]
    BY <1>2 DEF Character_WithoutSecondPassword, Ready, updateLoginState, TInv, TypeOK
  <2>2. Fewer
    BY <2>1 DEF Fewer, Stays, Live, Coming
  <2> QED
    BY <2>1, <2>2, FewerClear DEF Placing, Away, OnItsChannel, LeavingIsOut
<1> QED
  BY <1>1, <1>2, RefusalPlaces DEF Login

(* Coming to a channel throws everyone out who plays.                      *)
LEMMA LoggedinPlaces ==
    ASSUME ~Overlap, TInv, Placing, NEW w \in Window, NEW k \in Conn, NEW s \in Channel,
           NEW c \in Char, Loggedin(w, k, s, c)
    PROVE  Placing' /\ \A j \in Conn : ~Live(j)'
<1>1. /\ server[k] = None /\ Turn(k) /\ Arrive(w, k, s, "arrived")
      /\ disconnectAs(Residents, [Bereft(Residents) EXCEPT ![k] = c])
      /\ channel' = [channel EXCEPT ![k] = s]
  BY DEF Loggedin, Expected
<1>2. ~loggedIn[k]
  BY <1>1 DEF TInv, ClientsOK
<1>3. /\ \A j \in Conn : loggedIn'[j] = (loggedIn[j] /\ (j \in Residents => serverTransition[j]))
      /\ \A j \in Conn \ {k} : player'[j] = Bereft(Residents)[j]
  BY <1>1 DEF disconnectAs, Bereft
<1>4. \A j \in Conn : ~Live(j)'
  <2> SUFFICES ASSUME NEW j \in Conn, Live(j)' PROVE FALSE
    OBVIOUS
  <2>1. loggedIn[j] /\ j # k /\ player'[j] # None
    BY <1>2, <1>3 DEF Live
  <2>2. Live(j)
    BY <1>3, <2>1 DEF Live, Bereft
  <2>3. server[j] \in Store /\ player[j] \in Char /\ storage[server[j]][player[j]] = j
    BY <2>2, LiveIsThere
  <2>4. j \in Residents
    BY <2>3 DEF Residents
  <2> QED
    BY <1>3, <2>1, <2>2, <2>4 DEF Bereft
<1>5. Clear' /\ PlayingIsFound' /\ ShopOrChannel'
  BY <1>4 DEF Clear, PlayingIsFound, ShopOrChannel
<1>6. /\ server'[k] = s /\ \A j \in Conn \ {k} : server'[j] = server[j]
      /\ pc'[k] = "arrived" /\ \A j \in Conn \ {k} : pc'[j] = pc[j]
      /\ channel'[k] = s /\ \A j \in Conn \ {k} : channel'[j] = channel[j]
  BY <1>1 DEF Arrive, TInv, TypeOK
<1>7. Away' /\ OnItsChannel' /\ LeavingIsOut'
  BY <1>3, <1>6 DEF Placing, Away, OnItsChannel, LeavingIsOut, Store, Bereft
<1> QED
  BY <1>4, <1>5, <1>7 DEF Placing

LEMMA ArrivalPlaces ==
    ASSUME ~Overlap, TInv, Placing, Exclusive, NEW w \in Window, Arrival(w)
    PROVE  Placing'
<1>1. ASSUME NEW k \in Conn, NEW c \in Char, EnterCS(w, k, c)
      PROVE  Placing'
  <2>1. /\ ticket[w] = <<CashShop, c>> /\ server[k] = None /\ Alone(k)
        /\ UNCHANGED <<storage, find, loggedIn>>
        /\ \E p \in Shop : pending[p][c] # None
    BY <1>1 DEF EnterCS, Expected, Turn
  <2>2. /\ server'[k] = CashShop /\ \A j \in Conn \ {k} : server'[j] = server[j]
        /\ pc'[k] = "arrived" /\ \A j \in Conn \ {k} : pc'[j] = pc[j]
        /\ \A j \in Conn \ {k} : channel'[j] = channel[j]
        /\ player'[k] = c /\ \A j \in Conn \ {k} : player'[j] = player[j]
    BY <1>1 DEF EnterCS, Arrive, TInv, TypeOK
  <2>3. ~loggedIn[k] /\ ~Coming(k)
    BY <2>1, SessionAssumption DEF TInv, ClientsOK, Store, Pending
  <2>4. \A j \in Conn : Live(j)' => j # k /\ Stays(j)
    BY <2>1, <2>2, <2>3 DEF Live, Stays
  <2>5. Clear'
    <3> SUFFICES ASSUME NEW i \in Conn, NEW l \in Conn, Coming(l)', Live(i)'
                 PROVE  /\ server'[l] = CashShop
                        /\ server'[i] = CashShop => player'[i] # player'[l]
      BY DEF Clear
    <3>1. l = k
      BY <2>1, <2>2, <2>3, NobodyComes DEF Coming
    <3>2. Live(i) /\ server'[i] = server[i] /\ player'[i] = player[i]
      BY <2>4 DEF Stays
    <3> QED
      BY <2>1, <2>2, <3>1, <3>2 DEF Exclusive
  <2>6. Away' /\ OnItsChannel' /\ LeavingIsOut'
    BY <2>1, <2>2, SessionAssumption DEF Placing, Away, OnItsChannel, LeavingIsOut, Store
  <2> QED
    BY <2>4, <2>5, <2>6, FewerPlaying DEF Placing
<1>2. ASSUME NEW c \in Char, NothingPending(w, c)
      PROVE  Placing'
  BY <1>2 DEF NothingPending, accountVars, clientVars, Placing, Away, OnItsChannel,
              LeavingIsOut, Clear, PlayingIsFound, ShopOrChannel, Live, Coming
<1> QED
  BY <1>1, <1>2, LoggedinPlaces DEF Arrival

(* Whoever registers is alone under its key, and on its side.              *)
LEMMA RegistrationPlaces ==
    ASSUME TInv, Placing, Online, NEW k \in Conn, registerPlayer(k)
    PROVE  Placing'
<1>1. /\ pc[k] = "admitted" /\ UNCHANGED <<server, channel, player>>
      /\ storage' = [storage EXCEPT ![server[k]][player[k]] = k]
      /\ find' = [find EXCEPT ![player[k]] = server[k]]
      /\ pc' = [pc EXCEPT ![k] = "idle"]
      /\ \A j \in Conn \ {k} : loggedIn'[j] = loggedIn[j]
  BY DEF registerPlayer, updateLoginState
<1>2. Coming(k) /\ server[k] \in Store /\ player[k] \in Char
  BY <1>1 DEF Coming, TInv, ClientsOK
<1>3. storage'[server[k]][player[k]] = k /\ find'[player[k]] = server[k]
  BY <1>1, <1>2 DEF TInv, TypeOK
<1>4. ASSUME NEW j \in Conn \ {k}, Live(j)'
      PROVE  Stays(j) /\ server[j] = CashShop /\ server[k] = CashShop
  <2>1. Live(j)
    BY <1>1, <1>4 DEF Live
  <2>2. server[k] = CashShop /\ (server[j] = CashShop => player[j] # player[k])
    BY <1>2, <2>1 DEF Placing, Clear
  <2>3. /\ server[j] \in Store /\ player[j] \in Char /\ storage[server[j]][player[j]] = j
    BY <2>1, LiveIsThere
  <2>4. server[j] \notin Channel
    BY <1>1, <2>3, SessionAssumption DEF Online, AdmittedAlone, Registered
  <2>5. server[j] = CashShop
    BY <2>3, <2>4 DEF Store
  <2>6. /\ storage'[server[j]][player[j]] = storage[server[j]][player[j]]
        /\ find'[player[j]] = find[player[j]]
    BY <1>1, <1>2, <2>2, <2>3, <2>5 DEF TInv, TypeOK
  <2> QED
    BY <1>1, <2>1, <2>2, <2>5, <2>6 DEF Stays
<1>5. PlayingIsFound'
  <2> SUFFICES ASSUME NEW j \in Conn, Live(j)'
               PROVE  storage'[server'[j]][player'[j]] = j /\ find'[player'[j]] = server'[j]
    BY DEF PlayingIsFound
  <2>1. CASE j = k
    BY <1>1, <1>3, <2>1
  <2>2. CASE j # k
    BY <1>4, <2>2, LiveIsThere DEF Stays
  <2> QED
    BY <2>1, <2>2
<1>6. ShopOrChannel'
  <2>1. ASSUME NEW i \in Conn, NEW j \in Conn, Live(i)', Live(j)', server[i] = CashShop
        PROVE  server[j] \notin Channel
    <3>1. CashShop \notin Channel
      BY SessionAssumption
    <3> QED
      BY <1>4, <2>1, <3>1
  <2> QED
    BY <1>1, <2>1 DEF ShopOrChannel
<1>7. \A j \in Conn : pc'[j] = "idle"
  BY <1>1 DEF Online, OneHandler, TInv, TypeOK
<1>8. Clear' /\ LeavingIsOut'
  BY <1>7 DEF Clear, LeavingIsOut, Coming
<1>9. Away' /\ OnItsChannel'
  BY <1>1 DEF Placing, Away, OnItsChannel
<1> QED
  BY <1>5, <1>6, <1>8, <1>9 DEF Placing

LEMMA ContinuePlaces ==
    ASSUME TInv, Placing, Online, NEW k \in Conn, Continue(k)
    PROVE  Placing'
<1>1. ASSUME NEW state \in States, Admit(k, state)
      PROVE  Placing'
  <2>0. state # LoggedIn
    BY <1>1 DEF Admit, Admissible, Allowed, Transition, NotLoggedIn, LoggedIn,
                ServerTransition, ChangingChannel
  <2>1. /\ pc[k] = "arrived" /\ pc' = [pc EXCEPT ![k] = "admitted"]
        /\ UNCHANGED <<storage, find, server, channel, player>>
        /\ loggedIn' = [loggedIn EXCEPT ![k] = FALSE]
    BY <1>1, <2>0 DEF Admit, Checking
  <2>2. \A j \in Conn : (loggedIn'[j] => loggedIn[j]) /\ (Coming(j)' => Coming(j))
                     /\ (pc'[j] = "leaving" => pc[j] = "leaving")
    BY <2>1 DEF Coming, TInv, TypeOK
  <2>3. Fewer
    BY <2>1, <2>2 DEF Fewer, Stays, Live
  <2> QED
    BY <2>1, <2>2, <2>3, FewerClear DEF Placing, Away, OnItsChannel, LeavingIsOut
<1>2. ASSUME NEW state \in States, Reject(k, state)
      PROVE  Placing'
  <2>1. /\ pc' = [pc EXCEPT ![k] = "idle"] /\ UNCHANGED <<storage, find, server, channel>>
        /\ player' = [player EXCEPT ![k] = None]
        /\ \A j \in Conn \ {k} : loggedIn'[j] = loggedIn[j]
    BY <1>2 DEF Reject, Checking
  <2>2. \A j \in Conn : /\ Live(j)' => j # k /\ Live(j) /\ player'[j] = player[j]
                        /\ Coming(j)' => j # k /\ Coming(j) /\ player'[j] = player[j]
                        /\ pc'[j] = "leaving" => j # k /\ pc[j] = "leaving"
                        /\ player[j] = None => player'[j] = None
    BY <2>1 DEF Live, Coming, TInv, TypeOK
  <2>3. Fewer
    BY <2>1, <2>2 DEF Fewer, Stays
  <2> QED
    BY <2>1, <2>2, <2>3, FewerClear DEF Placing, Away, OnItsChannel, LeavingIsOut
<1>3. CASE Leave(k)
  <2>1. /\ pc' = [pc EXCEPT ![k] = "idle"] /\ player' = [player EXCEPT ![k] = None]
        /\ UNCHANGED <<storage, find, server, channel, loggedIn>>
    BY <1>3 DEF Leave, accountVars
  <2>2. \A j \in Conn : /\ Live(j)' => Live(j) /\ player'[j] = player[j]
                        /\ Coming(j)' => Coming(j) /\ player'[j] = player[j]
                        /\ pc'[j] = "leaving" => pc[j] = "leaving"
                        /\ player[j] = None => player'[j] = None
    BY <2>1 DEF Live, Coming, TInv, TypeOK
  <2>3. Fewer
    BY <2>1, <2>2 DEF Fewer, Stays
  <2> QED
    BY <2>1, <2>2, <2>3, FewerClear DEF Placing, Away, OnItsChannel, LeavingIsOut
<1> QED
  BY <1>1, <1>2, <1>3, RegistrationPlaces DEF Continue

(* A client that goes takes its own key along and nobody else's.           *)
LEMMA OwnKey ==
    ASSUME TInv, Placing, Online, NEW k \in Conn, Live(k), NEW j \in Conn \ {k}, Live(j),
           NEW keys, keys \subseteq {<<server[k], player[k]>>}
    PROVE  /\ <<server[j], player[j]>> \notin keys
           /\ \A s \in Store : <<s, player[j]>> \notin keys
<1>1. player[j] # player[k]
  BY LiveAreApart
<1> QED
  BY <1>1

LEMMA DeparturePlaces ==
    ASSUME ~Overlap, TInv, Placing, Online, Departure
    PROVE  Placing'
<1>1. ASSUME NEW k \in Conn, Live(k), Ready(k),
             \A s \in Store, c \in Char :
                 s # server[k] \/ c # player[k] => storage'[s][c] = storage[s][c],
             \A c \in Char : c # player[k] => find'[c] = find[c],
             \A j \in Conn \ {k} : loggedIn'[j] = loggedIn[j] /\ pc'[j] = pc[j],
             ~loggedIn'[k], pc'[k] \in {"idle", "leaving"},
             UNCHANGED <<server, channel, player>>
      PROVE  Placing'
  <2>1. ASSUME NEW j \in Conn, Live(j)'
        PROVE  Stays(j)
    <3>1. j # k /\ Live(j)
      BY <1>1, <2>1 DEF Live
    <3>2. server[j] \in Store /\ player[j] \in Char
      BY <3>1, LiveIsThere
    <3>3. player[j] # player[k]
      BY <1>1, <3>1, LiveAreApart
    <3>4. /\ storage'[server[j]][player[j]] = storage[server[j]][player[j]]
          /\ find'[player[j]] = find[player[j]]
      BY <1>1, <3>2, <3>3
    <3> QED
      BY <1>1, <3>1, <3>4 DEF Stays
  <2>2. \A j \in Conn : ~Coming(j)'
    <3>1. \A j \in Conn : ~Coming(j)
      BY <1>1, NobodyComes DEF Ready, Turn, Coming
    <3> QED
      BY <1>1, <3>1 DEF Coming
  <2>3. Fewer
    BY <2>1, <2>2 DEF Fewer
  <2>4. Away' /\ OnItsChannel' /\ LeavingIsOut'
    BY <1>1 DEF Placing, Away, OnItsChannel, LeavingIsOut
  <2> QED
    BY <2>3, <2>4, FewerClear DEF Placing
<1>2. ASSUME NEW w \in Window, NEW k \in Conn, NEW p \in Pending, Depart(w, k, p)
      PROVE  Placing'
  <2>1. /\ Live(k) /\ Ready(k) /\ server[k] \in Channel
        /\ deregister({<<channel[k], player[k]>>})
        /\ updateLoginState(k, ChangingChannel)
        /\ pc' = [pc EXCEPT ![k] = "leaving"]
        /\ UNCHANGED <<server, channel, player>>
    BY <1>2 DEF Depart
  <2>2. channel[k] = server[k]
    BY <2>1 DEF Placing, OnItsChannel
  <2>3. /\ ~loggedIn'[k]
        /\ \A j \in Conn \ {k} : loggedIn'[j] = loggedIn[j] /\ pc'[j] = pc[j]
        /\ pc'[k] = "leaving"
    <3>1. ChangingChannel # LoggedIn
      BY DEF ChangingChannel, LoggedIn
    <3>2. loggedIn' = [loggedIn EXCEPT ![k] = FALSE]
      BY <2>1, <3>1 DEF updateLoginState
    <3> QED
      BY <2>1, <3>2 DEF TInv, TypeOK
  <2>4. /\ \A s \in Store, c \in Char :
              s # server[k] \/ c # player[k] => storage'[s][c] = storage[s][c]
        /\ \A c \in Char : c # player[k] => find'[c] = find[c]
    BY <2>1, <2>2 DEF deregister
  <2> QED
    BY <1>1, <2>1, <2>3, <2>4
<1>3. ASSUME NEW w \in Window, NEW k \in Conn, LeaveCS(w, k)
      PROVE  Placing'
  <2>1. /\ Live(k) /\ Ready(k) /\ server[k] = CashShop
        /\ deregister({<<CashShop, player[k]>>})
        /\ updateLoginState(k, ServerTransition)
        /\ UNCHANGED <<server, channel, player, pc>>
    BY <1>3 DEF LeaveCS
  <2>2. /\ ~loggedIn'[k] /\ \A j \in Conn \ {k} : loggedIn'[j] = loggedIn[j]
        /\ pc'[k] = "idle"
    <3>1. ServerTransition # LoggedIn
      BY DEF ServerTransition, LoggedIn
    <3>2. loggedIn' = [loggedIn EXCEPT ![k] = FALSE]
      BY <2>1, <3>1 DEF updateLoginState
    <3> QED
      BY <2>1, <3>2 DEF Ready, TInv, TypeOK
  <2>3. /\ \A s \in Store, c \in Char :
              s # server[k] \/ c # player[k] => storage'[s][c] = storage[s][c]
        /\ \A c \in Char : c # player[k] => find'[c] = find[c]
    BY <2>1 DEF deregister
  <2> QED
    BY <1>1, <2>1, <2>2, <2>3
<1> QED
  BY <1>2, <1>3 DEF Departure, changeChannel, EnterShop, Pending

LEMMA EndPlaces ==
    ASSUME TInv, Placing, Online, End
    PROVE  Placing'
<1>1. ASSUME NEW k \in Conn, sessionClosed(k)
      PROVE  Placing'
  <2>1. /\ disconnectAs({k}, [player EXCEPT ![k] = None])
        /\ server' = [server EXCEPT ![k] = None] /\ channel' = [channel EXCEPT ![k] = None]
        /\ pc' = pc /\ pc[k] = "idle"
    BY <1>1 DEF sessionClosed
  <2>2. /\ player'[k] = None /\ server'[k] = None
        /\ \A j \in Conn \ {k} : /\ server'[j] = server[j] /\ channel'[j] = channel[j]
                                 /\ player'[j] = player[j] /\ loggedIn'[j] = loggedIn[j]
        /\ \A j \in Conn : loggedIn'[j] => loggedIn[j]
    BY <2>1 DEF disconnectAs, TInv, TypeOK
  <2>3. ClosedKeys(k) = {} \/ (Live(k) /\ ClosedKeys(k) \subseteq {<<server[k], player[k]>>})
    <3>1. CASE ~Live(k)
      BY <3>1 DEF ClosedKeys, Keys
    <3>2. CASE Live(k)
      <4>1. server[k] \in Store /\ find[player[k]] = server[k]
        BY <3>2, LiveIsThere
      <4>2. CASE server[k] \in Channel
        <5>1. ClosedKeys(k) \subseteq {<<channel[k], player[k]>>}
          BY DEF ClosedKeys, Keys
        <5> QED
          BY <3>2, <4>2, <5>1 DEF Placing, OnItsChannel
      <4>3. CASE server[k] = CashShop
        BY <3>2, <4>1, <4>3, SessionAssumption DEF ClosedKeys
      <4> QED
        BY <4>1, <4>2, <4>3 DEF Store
    <3> QED
      BY <3>1, <3>2
  <2>4. ASSUME NEW j \in Conn, Live(j)'
        PROVE  Stays(j)
    <3>1. j # k /\ Live(j)
      BY <2>2, <2>4 DEF Live
    <3>2. /\ server[j] \in Store /\ player[j] \in Char
          /\ storage[server[j]][player[j]] = j
      BY <3>1, LiveIsThere
    <3>3. /\ <<server[j], player[j]>> \notin ClosedKeys(k)
          /\ \A s \in Store : <<s, player[j]>> \notin ClosedKeys(k)
      BY <2>3, <3>1, OwnKey
    <3>4. storage'[server[j]][player[j]] = storage[server[j]][player[j]]
      BY <1>1, <3>1, <3>2, <3>3 DEF sessionClosed
    <3>5. find'[player[j]] = find[player[j]]
      BY <1>1, <3>2, <3>3 DEF sessionClosed
    <3> QED
      BY <2>2, <3>1, <3>4, <3>5 DEF Stays
  <2>5. \A j \in Conn : Coming(j)' => j # k /\ Coming(j)
    BY <2>1 DEF Coming
  <2>6. Fewer
    BY <2>2, <2>4, <2>5 DEF Fewer
  <2>7. Away' /\ OnItsChannel' /\ LeavingIsOut'
    BY <2>1, <2>2, SessionAssumption DEF Placing, Away, OnItsChannel, LeavingIsOut, Pending
  <2> QED
    BY <2>6, <2>7, FewerClear DEF Placing
<1>2. ASSUME NEW p \in Pending, NEW c \in Char, PersistingTask(p, c)
      PROVE  Placing'
  BY <1>2 DEF PersistingTask, clientVars, Placing, Away, OnItsChannel, LeavingIsOut, Clear,
              PlayingIsFound, ShopOrChannel, Live, Coming
<1> QED
  BY <1>1, <1>2 DEF End

LEMMA PlacingKept ==
    ASSUME ~Overlap, TInv, Online, Placing, Sole, Exclusive, [Next]_vars
    PROVE  Placing'
<1>1. CASE UNCHANGED vars
  BY <1>1 DEF vars, accountVars, clientVars, Placing, Away, OnItsChannel, LeavingIsOut,
              Clear, PlayingIsFound, ShopOrChannel, Live, Coming
<1> QED
  BY <1>1, WorldPlaces, LoginPlaces, ArrivalPlaces, ContinuePlaces, DeparturePlaces,
     EndPlaces DEF Next

LEMMA PlacingAtFirst == Init => Placing
BY SessionAssumption DEF Init, Placing, Away, OnItsChannel, LeavingIsOut, Clear,
   PlayingIsFound, ShopOrChannel, Live, Coming, Pending

-----------------------------------------------------------------------------
(***************************************************************************)
(* One window.  It uses a session or holds a ticket, and the account is    *)
(* logged in by one client if the database says so: while the window is on *)
(* its way, and until its arrival is over, by none.                        *)
(***************************************************************************)
OneWindow == \A v, w \in Window : v = w

OneLogin ==
    /\ \A w \in Window : seat[w] = None \/ ticket[w] = None
    /\ \A k \in Conn : loggedIn[k] => loginState = LoggedIn
    /\ \A j, k \in Conn : loggedIn[j] /\ loggedIn[k] => j = k
    /\ (\E w \in Window : ticket[w] # None) => loginState # LoggedIn
    /\ (\E k \in Conn : Coming(k)) =>
           loginState # LoggedIn /\ \A w \in Window : ticket[w] = None

LEMMA OneLoginAdmits == OneLogin => Sole /\ Exclusive
<1>1. ASSUME OneLogin, NEW w \in Window, NEW c \in Char, NEW k \in Conn,
             ticket[w] = <<CashShop, c>>, Live(k)
      PROVE  FALSE
  <2>1. CashShop \in Store
    BY DEF Store
  <2>2. <<CashShop, c>> \in Store \X Char
    BY <2>1
  <2>3. ticket[w] # None
    BY <1>1, <2>2, SessionAssumption
  <2> QED
    BY <1>1, <2>3 DEF OneLogin, Live
<1> QED
  BY <1>1 DEF OneLogin, Sole, Exclusive

LEMMA OneLoginAtLogin ==
    ASSUME ~Overlap, OneWindow, TInv, OneLogin, Login
    PROVE  OneLogin'
<1> USE DEF OneLogin
<1>1. ASSUME NEW w \in Window, NEW k \in Conn, LoginRefused(w, k)
      PROVE  OneLogin'
  <2>1. /\ unlockAcc(k) /\ ~loggedIn[k] /\ UNCHANGED <<pc, seat, ticket>>
        /\ seat[w] = k
    BY <1>1 DEF LoginRefused, windowVars
  <2>2. loginState' = NotLoggedIn /\ \A i \in Conn : ~loggedIn'[i]
    <3>1. ASSUME NEW j \in Conn \ {k}, loggedIn[j], disconnect({j})
          PROVE  loginState' = NotLoggedIn /\ \A i \in Conn : ~loggedIn'[i]
      <4>1. ~serverTransition[j]
        BY <3>1 DEF TInv, ClientsOK
      <4> QED
        BY <3>1, <4>1 DEF disconnect, disconnectAs
    <3>2. ASSUME {j \in Conn \ {k} : loggedIn[j]} = {}, loginState' = NotLoggedIn,
                 UNCHANGED loggedIn
          PROVE  \A i \in Conn : ~loggedIn'[i]
      BY <2>1, <3>2
    <3> QED
      BY <2>1, <3>1, <3>2 DEF unlockAcc
  <2>3. NotLoggedIn # LoggedIn
    BY DEF NotLoggedIn, LoggedIn
  <2> QED
    BY <2>1, <2>2, <2>3 DEF Coming
<1>2. ASSUME NEW w \in Window, NEW k \in Conn, LoginAccepted(w, k)
      PROVE  OneLogin'
  <2>1. /\ seat[w] = k /\ Alone(k) /\ pc[k] = "idle" /\ NotLoggedIn \in States
        /\ loginState' = LoggedIn /\ UNCHANGED <<pc, seat, ticket>>
        /\ \A j \in Conn \ {k} : loggedIn'[j] = loggedIn[j]
    BY <1>2 DEF LoginAccepted, Ready, Turn, updateLoginState, windowVars
  <2>2. loginState # LoggedIn
    BY <2>1 DEF States, Transition, NotLoggedIn, LoggedIn, ServerTransition, ChangingChannel
  <2>3. \A v \in Window : v = w /\ ticket[v] = None
    BY <2>1, SessionAssumption DEF OneWindow
  <2>4. \A j \in Conn : ~Coming(j)
    BY <2>1, NobodyComes DEF Coming
  <2> QED
    BY <2>1, <2>2, <2>3, <2>4 DEF Coming
<1>3. ASSUME NEW w \in Window, NEW k \in Conn, NEW s \in Channel, NEW c \in Char,
             Character_WithoutSecondPassword(w, k, s, c)
      PROVE  OneLogin'
  <2>1. /\ Alone(k) /\ pc[k] = "idle" /\ loggedIn[k] /\ Send(w, s, c) /\ pc' = pc
        /\ updateLoginState(k, ServerTransition)
    BY <1>3 DEF Character_WithoutSecondPassword, Ready, Turn
  <2>2. loginState' # LoggedIn /\ \A j \in Conn : ~loggedIn'[j]
    <3>1. ServerTransition # LoggedIn
      BY DEF ServerTransition, LoggedIn
    <3>2. loginState' = ServerTransition /\ loggedIn' = [loggedIn EXCEPT ![k] = FALSE]
      BY <2>1, <3>1 DEF updateLoginState
    <3> QED
      BY <2>1, <3>1, <3>2 DEF TInv, TypeOK
  <2>3. \A v \in Window : seat'[v] = None
    BY <2>1 DEF Send, OneWindow, TInv, TypeOK
  <2>4. \A j \in Conn : ~Coming(j)
    BY <2>1, NobodyComes DEF Coming
  <2> QED
    BY <2>1, <2>2, <2>3, <2>4 DEF Coming
<1> QED
  BY <1>1, <1>2, <1>3 DEF Login

(* A ticket of a character is one.                                         *)
LEMMA TicketIsHeld ==
    ASSUME NEW w \in Window, NEW s \in Store, NEW c \in Char, ticket[w] = <<s, c>>
    PROVE  ticket[w] # None
<1>1. <<s, c>> \in Store \X Char
  OBVIOUS
<1> QED
  BY <1>1, SessionAssumption

LEMMA NobodyThrownOut ==
    ASSUME NEW D \in SUBSET Conn, NEW players, disconnectAs(D, players),
           \A j \in Conn : ~loggedIn[j]
    PROVE  loginState' = loginState /\ \A j \in Conn : ~loggedIn'[j]
BY DEF disconnectAs

LEMMA OneLoginInWorld ==
    ASSUME TInv, OneLogin, World
    PROVE  OneLogin'
<1> USE DEF OneLogin
<1>1. CASE Restart
  <2>1. /\ loginState' = NotLoggedIn /\ ticket' = ticket
        /\ \A k \in Conn : ~loggedIn'[k] /\ ~Coming(k)'
        /\ \A w \in Window : seat'[w] = None
    BY <1>1 DEF Restart, Coming
  <2>2. NotLoggedIn # LoggedIn
    BY DEF NotLoggedIn, LoggedIn
  <2> QED
    BY <2>1, <2>2
<1>2. ASSUME NEW w \in Window, NEW k \in Conn, Launch(w, k) \/ Vanish(w) \/ LinkLost(k)
      PROVE  OneLogin'
  <2>1. UNCHANGED <<loginState, loggedIn, pc>>
    BY <1>2 DEF Launch, Vanish, LinkLost, accountVars, clientVars
  <2>2. /\ \A v \in Window : ticket'[v] # None => ticket[v] # None
        /\ \A v \in Window : seat'[v] = None \/ ticket'[v] = None
    BY <1>2 DEF Launch, Vanish, LinkLost, Unseat, TInv, TypeOK
  <2> QED
    BY <2>1, <2>2 DEF Coming
<1> QED
  BY <1>1, <1>2 DEF World

LEMMA OneLoginAtArrival ==
    ASSUME ~Overlap, OneWindow, TInv, OneLogin, NEW w \in Window, Arrival(w)
    PROVE  OneLogin'
<1> USE DEF OneLogin
<1>1. ASSUME NEW k \in Conn, NEW s \in Store, NEW c \in Char, NEW step,
             ticket[w] = <<s, c>>, Arrive(w, k, s, step)
      PROVE  /\ loginState # LoggedIn /\ \A j \in Conn : ~loggedIn[j]
             /\ \A v \in Window : ticket'[v] = None
  BY <1>1, TicketIsHeld DEF Arrive, OneWindow, TInv, TypeOK
<1>2. ASSUME NEW k \in Conn, NEW s \in Channel, NEW c \in Char, Loggedin(w, k, s, c)
      PROVE  OneLogin'
  <2>1. /\ ticket[w] = <<s, c>> /\ Arrive(w, k, s, "arrived") /\ s \in Store
        /\ disconnectAs(Residents, [Bereft(Residents) EXCEPT ![k] = c])
    BY <1>2 DEF Loggedin, Expected, Store
  <2>2. loginState' = loginState /\ \A j \in Conn : ~loggedIn'[j]
    <3>1. \A j \in Conn : ~loggedIn[j]
      BY <1>1, <2>1
    <3> DEFINE players == [Bereft(Residents) EXCEPT ![k] = c]
    <3>2. disconnectAs(Residents, players) /\ Residents \in SUBSET Conn
      BY <2>1 DEF Residents
    <3> HIDE DEF players
    <3> QED
      BY <3>1, <3>2, NobodyThrownOut
  <2> QED
    BY <1>1, <2>1, <2>2
<1>3. ASSUME NEW k \in Conn, NEW c \in Char, EnterCS(w, k, c)
      PROVE  OneLogin'
  <2>1. /\ ticket[w] = <<CashShop, c>> /\ Arrive(w, k, CashShop, "arrived")
        /\ CashShop \in Store /\ UNCHANGED <<loginState, loggedIn>>
    BY <1>3 DEF EnterCS, Expected, Store
  <2> QED
    BY <1>1, <2>1
<1>4. ASSUME NEW c \in Char, NothingPending(w, c)
      PROVE  OneLogin'
  BY <1>4 DEF NothingPending, accountVars, clientVars, Coming, TInv, TypeOK
<1> QED
  BY <1>2, <1>3, <1>4 DEF Arrival

LEMMA OneLoginAfterArrival ==
    ASSUME TInv, Online, OneLogin, NEW k \in Conn, Continue(k)
    PROVE  OneLogin'
<1> USE DEF OneLogin
<1>1. ASSUME NEW state \in States, Admit(k, state) \/ Reject(k, state)
      PROVE  OneLogin'
  <2>1. /\ pc[k] = "arrived" /\ loginState' = state /\ ticket' = ticket
        /\ loggedIn' = [loggedIn EXCEPT ![k] = state = LoggedIn]
        /\ pc' = [pc EXCEPT ![k] = "admitted"] \/ pc' = [pc EXCEPT ![k] = "idle"]
        /\ \A w \in Window : seat'[w] = seat[w] \/ seat'[w] = None
    BY <1>1 DEF Admit, Reject, Checking, Unseat
  <2>2. Coming(k) /\ \A j \in Conn : Coming(j)' => Coming(j)
    BY <2>1 DEF Coming, TInv, TypeOK
  <2>3. state # LoggedIn
    BY <2>2 DEF States, NotLoggedIn, LoggedIn
  <2>4. \A j \in Conn : ~loggedIn[j]
    BY <2>2
  <2>5. \A j \in Conn : ~loggedIn'[j]
    <3>1. loggedIn' = [loggedIn EXCEPT ![k] = FALSE]
      BY <2>1, <2>3
    <3> QED
      BY <2>4, <3>1 DEF TInv, TypeOK
  <2> QED
    BY <2>1, <2>2, <2>3, <2>5
<1>2. CASE registerPlayer(k)
  <2>1. /\ pc[k] = "admitted" /\ loginState' = LoggedIn /\ UNCHANGED <<seat, ticket>>
        /\ pc' = [pc EXCEPT ![k] = "idle"]
        /\ \A j \in Conn \ {k} : loggedIn'[j] = loggedIn[j]
    BY <1>2 DEF registerPlayer, updateLoginState, windowVars
  <2>2. Coming(k) /\ \A j \in Conn : ~Coming(j)'
    BY <2>1 DEF Coming, Online, OneHandler, TInv, TypeOK
  <2> QED
    BY <2>1, <2>2
<1>3. CASE Leave(k)
  BY <1>3 DEF Leave, accountVars, windowVars, Coming, TInv, TypeOK
<1> QED
  BY <1>1, <1>2, <1>3 DEF Continue

(* Who goes was the one logged in, and takes the window along.             *)
LEMMA OneLoginAtDeparture ==
    ASSUME ~Overlap, OneWindow, TInv, OneLogin, Departure
    PROVE  OneLogin'
<1> USE DEF OneLogin
<1>1. ASSUME NEW w \in Window, NEW k \in Conn, Ready(k), Live(k),
             NEW s \in Store, NEW c \in Char, Send(w, s, c),
             NEW n \in Transition, updateLoginState(k, n),
             \A j \in Conn \ {k} : pc'[j] = pc[j], ~Coming(k)'
      PROVE  OneLogin'
  <2>1. n # LoggedIn
    BY DEF Transition, ServerTransition, ChangingChannel, LoggedIn
  <2>2. loginState' = n /\ loggedIn' = [loggedIn EXCEPT ![k] = FALSE]
    BY <1>1, <2>1 DEF updateLoginState
  <2>3. \A j \in Conn : ~loggedIn'[j]
    BY <1>1, <2>2 DEF Live, TInv, TypeOK
  <2>4. \A v \in Window : seat'[v] = None
    BY <1>1 DEF Send, OneWindow, TInv, TypeOK
  <2>5. \A j \in Conn : ~Coming(j)'
    BY <1>1, NobodyComes DEF Ready, Turn, Coming
  <2> QED
    BY <2>1, <2>2, <2>3, <2>4, <2>5
<1>2. ASSUME NEW w \in Window, NEW k \in Conn, NEW p \in Pending, Depart(w, k, p)
      PROVE  OneLogin'
  <2> DEFINE s == IF p \in Shop THEN CashShop ELSE p
  <2>1. /\ Ready(k) /\ Live(k) /\ Send(w, s, player[k]) /\ updateLoginState(k, ChangingChannel)
        /\ pc' = [pc EXCEPT ![k] = "leaving"]
    BY <1>2 DEF Depart
  <2>2. ChangingChannel \in Transition /\ s \in Store /\ player[k] \in Char
    BY <2>1 DEF Transition, Store, Pending, Live, TInv, TypeOK
  <2>3. ~Coming(k)' /\ \A j \in Conn \ {k} : pc'[j] = pc[j]
    BY <2>1 DEF Coming, TInv, TypeOK
  <2> HIDE DEF s
  <2> QED
    BY <1>1, <2>1, <2>2, <2>3
<1>3. ASSUME NEW w \in Window, NEW k \in Conn, LeaveCS(w, k)
      PROVE  OneLogin'
  <2>1. /\ Ready(k) /\ Live(k) /\ Send(w, channel[k], player[k])
        /\ updateLoginState(k, ServerTransition) /\ pc' = pc /\ server[k] = CashShop
    BY <1>3 DEF LeaveCS
  <2>2. ServerTransition \in Transition /\ channel[k] \in Store /\ player[k] \in Char
    BY <2>1 DEF Transition, Store, Live, TInv, TypeOK, ClientsOK
  <2>3. ~Coming(k)'
    BY <2>1 DEF Coming, Ready
  <2> QED
    BY <1>1, <2>1, <2>2, <2>3
<1> QED
  BY <1>2, <1>3 DEF Departure, changeChannel, EnterShop, Pending

LEMMA OneLoginAtEnd ==
    ASSUME TInv, OneLogin, End
    PROVE  OneLogin'
<1> USE DEF OneLogin
<1>1. ASSUME NEW k \in Conn, sessionClosed(k)
      PROVE  OneLogin'
  <2>1. /\ disconnectAs({k}, [player EXCEPT ![k] = None]) /\ UNCHANGED <<pc, seat, ticket>>
    BY <1>1 DEF sessionClosed, windowVars
  <2>2. /\ \A j \in Conn : loggedIn'[j] => loggedIn[j]
        /\ loggedIn[k] => ~loggedIn'[k]
        /\ loginState' = loginState \/ (loggedIn[k] /\ loginState' = NotLoggedIn)
    BY <2>1 DEF disconnectAs, TInv, ClientsOK
  <2>3. NotLoggedIn # LoggedIn
    BY DEF NotLoggedIn, LoggedIn
  <2> QED
    BY <2>1, <2>2, <2>3 DEF Coming
<1>2. ASSUME NEW p \in Pending, NEW c \in Char, PersistingTask(p, c)
      PROVE  OneLogin'
  BY <1>2 DEF PersistingTask, clientVars, windowVars, Coming
<1> QED
  BY <1>1, <1>2 DEF End

LEMMA OneLoginKept ==
    ASSUME ~Overlap, OneWindow, TInv, Online, OneLogin, [Next]_vars
    PROVE  OneLogin'
<1>1. CASE UNCHANGED vars
  BY <1>1 DEF vars, accountVars, clientVars, windowVars, OneLogin, Coming
<1> QED
  BY <1>1, OneLoginInWorld, OneLoginAtLogin, OneLoginAtArrival, OneLoginAfterArrival,
     OneLoginAtDeparture, OneLoginAtEnd DEF Next

-----------------------------------------------------------------------------
(***************************************************************************)
(* One shop, with lost links reported at once.  No transfer waits for a    *)
(* character that is in the shop already: one is made on a channel, by the *)
(* character's only live client, and the visitor it lets in takes it.      *)
(***************************************************************************)
OneShop == Shop = {CashShop}

InShop(k) == server[k] = CashShop /\ (Live(k) \/ Coming(k))

Awaited == \A k \in Conn : InShop(k) => pending[CashShop][player[k]] = None

LEMMA AwaitedExcludes ==
    ASSUME OneShop, Awaited
    PROVE  Exclusive
BY DEF OneShop, Awaited, Exclusive, InShop

(* Nobody enters the shop, and no transfer to it is made.                  *)
FewerInShop == \A j \in Conn : InShop(j)' => InShop(j) /\ player'[j] = player[j]

FewerPending ==
    \A c \in Char : pending[CashShop][c] = None => pending'[CashShop][c] = None

LEMMA FewerAwaited ==
    ASSUME TInv, Awaited, FewerInShop, FewerPending
    PROVE  Awaited'
<1>1. ASSUME NEW k \in Conn, InShop(k)
      PROVE  player[k] \in Char
  BY <1>1 DEF InShop, Live, Coming, TInv, TypeOK, ClientsOK
<1> QED
  BY <1>1 DEF Awaited, FewerInShop, FewerPending

LEMMA SamePending ==
    ASSUME UNCHANGED pending
    PROVE  FewerPending
BY DEF FewerPending

LEMMA AwaitedInWorld ==
    ASSUME TInv, Awaited, World
    PROVE  Awaited'
<1>1. CASE Restart
  <2>1. \A k \in Conn : ~InShop(k)'
    BY <1>1 DEF Restart, InShop, Live, Coming
  <2> QED
    BY <2>1 DEF Awaited
<1>2. ASSUME NEW w \in Window, NEW k \in Conn, Launch(w, k) \/ Vanish(w) \/ LinkLost(k)
      PROVE  Awaited'
  <2>1. /\ UNCHANGED <<pending, player, loggedIn, pc>>
        /\ server' = server \/ server' = [server EXCEPT ![k] = LoginSrv]
    BY <1>2 DEF Launch, Vanish, LinkLost, accountVars, clientVars
  <2>2. FewerInShop
    BY <2>1, SessionAssumption DEF FewerInShop, InShop, Live, Coming, TInv, TypeOK
  <2> QED
    BY <2>1, <2>2, SamePending, FewerAwaited
<1> QED
  BY <1>1, <1>2 DEF World

LEMMA AwaitedAtLogin ==
    ASSUME TInv, Awaited, Login
    PROVE  Awaited'
<1>1. ASSUME NEW w \in Window, NEW k \in Conn, LoginRefused(w, k)
      PROVE  Awaited'
  <2>1. UNCHANGED <<pending, server, pc>> /\ unlockAcc(k)
    BY <1>1 DEF LoginRefused
  <2>2. /\ \A j \in Conn : loggedIn'[j] => loggedIn[j]
        /\ \A j \in Conn : player'[j] = player[j] \/ (loggedIn[j] /\ player'[j] = None)
    BY <2>1 DEF unlockAcc, disconnect, disconnectAs, Bereft, Live, TInv, TypeOK
  <2>3. FewerInShop
    BY <2>1, <2>2 DEF FewerInShop, InShop, Live, Coming, TInv, ClientsOK
  <2> QED
    BY <2>1, <2>3, SamePending, FewerAwaited
<1>2. ASSUME NEW w \in Window, NEW k \in Conn, NEW n, updateLoginState(k, n),
             server[k] = LoginSrv \/ n # LoggedIn,
             UNCHANGED <<pending, server, player, pc>>
      PROVE  Awaited'
  <2>1. \A j \in Conn : loggedIn'[j] => loggedIn[j] \/ server[j] = LoginSrv
    BY <1>2 DEF updateLoginState, TInv, TypeOK
  <2>2. FewerInShop
    BY <1>2, <2>1, SessionAssumption DEF FewerInShop, InShop, Live, Coming
  <2> QED
    BY <1>2, <2>2, SamePending, FewerAwaited
<1> QED
  BY <1>1, <1>2 DEF Login, LoginAccepted, Character_WithoutSecondPassword

LEMMA AwaitedAtArrival ==
    ASSUME OneShop, TInv, Awaited, NEW w \in Window, Arrival(w)
    PROVE  Awaited'
<1>1. ASSUME NEW k \in Conn, NEW s \in Channel, NEW c \in Char, Loggedin(w, k, s, c)
      PROVE  Awaited'
  <2>1. /\ server[k] = None /\ Arrive(w, k, s, "arrived") /\ s # CashShop
        /\ disconnectAs(Residents, [Bereft(Residents) EXCEPT ![k] = c])
        /\ pending' = [pending EXCEPT ![s] = [d \in Char |-> None]]
    BY <1>1, SessionAssumption DEF Loggedin, Expected
  <2>2. /\ \A j \in Conn : loggedIn'[j] => loggedIn[j]
        /\ \A j \in Conn \ {k} : player'[j] = player[j] \/ (loggedIn[j] /\ player'[j] = None)
    BY <2>1 DEF disconnectAs, Bereft, Live, TInv, TypeOK
  <2>3. /\ server'[k] = s /\ \A j \in Conn \ {k} : server'[j] = server[j] /\ pc'[j] = pc[j]
    BY <2>1 DEF Arrive, TInv, TypeOK
  <2>4. FewerInShop
    BY <2>1, <2>2, <2>3 DEF FewerInShop, InShop, Live, Coming, TInv, ClientsOK
  <2>5. FewerPending
    BY <2>1 DEF FewerPending
  <2> QED
    BY <2>4, <2>5, FewerAwaited
<1>2. ASSUME NEW k \in Conn, NEW c \in Char, EnterCS(w, k, c)
      PROVE  Awaited'
  <2>1. /\ server[k] = None /\ Arrive(w, k, CashShop, "arrived") /\ loggedIn' = loggedIn
        /\ player' = [player EXCEPT ![k] = c]
        /\ pending' = [pending EXCEPT ![CashShop][c] = None]
    BY <1>2 DEF EnterCS, Expected, OneShop
  <2>2. /\ player'[k] = c
        /\ \A j \in Conn \ {k} : /\ server'[j] = server[j] /\ pc'[j] = pc[j]
                                 /\ player'[j] = player[j]
    BY <2>1 DEF Arrive, TInv, TypeOK
  <2>3. \A d \in Char : pending'[CashShop][d] = IF d = c THEN None ELSE pending[CashShop][d]
    BY <2>1 DEF TInv, TypeOK, OneShop, Pending
  <2> SUFFICES ASSUME NEW j \in Conn, InShop(j)'
               PROVE  pending'[CashShop][player'[j]] = None
    BY DEF Awaited
  <2>4. CASE j = k
    BY <2>2, <2>3, <2>4
  <2>5. CASE j # k
    <3>1. InShop(j) /\ player'[j] = player[j]
      BY <2>1, <2>2, <2>5 DEF InShop, Live, Coming
    <3>2. player[j] \in Char
      BY <3>1 DEF InShop, Live, Coming, TInv, TypeOK, ClientsOK
    <3> QED
      BY <2>3, <3>1, <3>2 DEF Awaited
  <2> QED
    BY <2>4, <2>5
<1>3. ASSUME NEW c \in Char, NothingPending(w, c)
      PROVE  Awaited'
  BY <1>3 DEF NothingPending, accountVars, clientVars, Awaited, InShop, Live, Coming
<1> QED
  BY <1>1, <1>2, <1>3 DEF Arrival

LEMMA AwaitedAfterArrival ==
    ASSUME TInv, Awaited, NEW k \in Conn, Continue(k)
    PROVE  Awaited'
<1>1. /\ UNCHANGED <<pending, server>>
      /\ \A j \in Conn \ {k} : loggedIn'[j] = loggedIn[j] /\ pc'[j] = pc[j]
                            /\ player'[j] = player[j]
  BY DEF Continue, Admit, Reject, Checking, registerPlayer, updateLoginState, Leave,
         accountVars, TInv, TypeOK
<1>2. player'[k] = None \/ (Coming(k) /\ player'[k] = player[k])
  BY DEF Continue, Admit, Reject, Checking, registerPlayer, Leave, Coming, TInv, TypeOK
<1>3. player'[k] = None => ~Coming(k)'
  <2>1. CASE Leave(k) \/ \E state \in States : Reject(k, state)
    BY <2>1 DEF Leave, Reject, Coming, TInv, TypeOK
  <2>2. CASE Coming(k) /\ player'[k] = player[k]
    BY <2>2, SessionAssumption DEF TInv, ClientsOK
  <2> QED
    BY <2>1, <2>2 DEF Continue, Admit, Checking, registerPlayer, Coming
<1>4. FewerInShop
  BY <1>1, <1>2, <1>3 DEF FewerInShop, InShop, Live, Coming
<1> QED
  BY <1>1, <1>4, SamePending, FewerAwaited

LEMMA AwaitedAtDeparture ==
    ASSUME ~Overlap, TInv, Placing, Awaited, Departure
    PROVE  Awaited'
<1>1. ASSUME NEW w \in Window, NEW k \in Conn, NEW p \in Pending, Depart(w, k, p)
      PROVE  Awaited'
  <2>1. /\ Live(k) /\ Ready(k) /\ server[k] \in Channel /\ UNCHANGED <<server, player>>
        /\ pc' = [pc EXCEPT ![k] = "leaving"]
        /\ \A j \in Conn \ {k} : loggedIn'[j] = loggedIn[j]
    BY <1>1 DEF Depart, updateLoginState
  <2>2. \A j \in Conn : ~Coming(j)'
    <3>1. \A j \in Conn : ~Coming(j)
      BY <2>1, NobodyComes DEF Ready, Turn, Coming
    <3> QED
      BY <2>1, <3>1 DEF Coming, TInv, TypeOK
  <2>3. ASSUME NEW j \in Conn, server[j] = CashShop
        PROVE  ~Live(j)'
    <3>1. j # k
      BY <2>1, <2>3, SessionAssumption
    <3>2. ~Live(j)
      BY <2>1, <2>3 DEF Placing, ShopOrChannel
    <3> QED
      BY <2>1, <3>1, <3>2 DEF Live
  <2> QED
    BY <2>1, <2>2, <2>3 DEF Awaited, InShop
<1>2. ASSUME NEW w \in Window, NEW k \in Conn, LeaveCS(w, k)
      PROVE  Awaited'
  <2>1. /\ Live(k) /\ server[k] = CashShop /\ UNCHANGED <<server, player, pc>>
        /\ pending' = [pending EXCEPT ![channel[k]][player[k]] = channel[k]]
        /\ updateLoginState(k, ServerTransition)
    BY <1>2 DEF LeaveCS
  <2>2. \A j \in Conn : loggedIn'[j] => loggedIn[j]
    <3>1. ServerTransition # LoggedIn
      BY DEF ServerTransition, LoggedIn
    <3>2. loggedIn' = [loggedIn EXCEPT ![k] = FALSE]
      BY <2>1, <3>1 DEF updateLoginState
    <3> QED
      BY <3>2 DEF TInv, TypeOK
  <2>3. channel[k] # CashShop
    BY <2>1, SessionAssumption DEF TInv, ClientsOK
  <2>4. FewerPending
    BY <2>1, <2>3 DEF FewerPending
  <2>5. FewerInShop
    BY <2>1, <2>2 DEF FewerInShop, InShop, Live, Coming
  <2> QED
    BY <2>4, <2>5, FewerAwaited
<1> QED
  BY <1>1, <1>2 DEF Departure, changeChannel, EnterShop, Pending

LEMMA AwaitedAtEnd ==
    ASSUME TInv, Awaited, End
    PROVE  Awaited'
<1>1. ASSUME NEW k \in Conn, sessionClosed(k)
      PROVE  Awaited'
  <2>1. /\ disconnectAs({k}, [player EXCEPT ![k] = None]) /\ UNCHANGED <<pending, pc>>
        /\ server' = [server EXCEPT ![k] = None]
    BY <1>1 DEF sessionClosed
  <2>2. /\ server'[k] = None /\ \A j \in Conn \ {k} : player'[j] = player[j]
        /\ \A j \in Conn \ {k} : server'[j] = server[j]
        /\ \A j \in Conn : loggedIn'[j] => loggedIn[j]
    BY <2>1 DEF disconnectAs, TInv, TypeOK
  <2>3. FewerInShop
    BY <2>1, <2>2, SessionAssumption DEF FewerInShop, InShop, Live, Coming, Pending
  <2> QED
    BY <2>1, <2>3, SamePending, FewerAwaited
<1>2. ASSUME NEW p \in Pending, NEW c \in Char, PersistingTask(p, c)
      PROVE  Awaited'
  <2>1. UNCHANGED clientVars /\ pending' = [pending EXCEPT ![p][c] = None]
    BY <1>2 DEF PersistingTask
  <2>2. FewerPending
    BY <2>1 DEF FewerPending, TInv, TypeOK
  <2>3. FewerInShop
    BY <2>1 DEF clientVars, FewerInShop, InShop, Live, Coming
  <2> QED
    BY <2>2, <2>3, FewerAwaited
<1> QED
  BY <1>1, <1>2 DEF End

LEMMA AwaitedKept ==
    ASSUME ~Overlap, OneShop, TInv, Placing, Awaited, [Next]_vars
    PROVE  Awaited'
<1>1. CASE UNCHANGED vars
  BY <1>1 DEF vars, accountVars, clientVars, Awaited, InShop, Live, Coming
<1> QED
  BY <1>1, AwaitedInWorld, AwaitedAtLogin, AwaitedAtArrival, AwaitedAfterArrival,
     AwaitedAtDeparture, AwaitedAtEnd DEF Next

-----------------------------------------------------------------------------
(* Either regime: what the others do is one client's own affair.           *)
OneClientEach == OneWindow \/ (Prompt /\ OneShop)

Regime == IF OneWindow THEN OneLogin ELSE Awaited

LEMMA PlacingInvariant ==
    ASSUME ~Overlap, OneClientEach
    PROVE  Spec => [](Placing /\ Regime)
<1>1. Init => TInv /\ Online /\ Placing /\ Regime
  <2>1. Init => TInv
    BY SessionAssumption
       DEF Init, TInv, TypeOK, ClientsOK, Coming, Transition, Pending, Store
  <2>2. Init => Online
    BY DEF Init, Online, OneHandler, AdmittedAlone, OneCharacterOnline, Store
  <2>3. Init => Regime
    BY DEF Init, Regime, OneLogin, Awaited, InShop, Live, Coming
  <2> QED
    BY <2>1, <2>2, <2>3, PlacingAtFirst
<1>2. TInv /\ Online /\ Placing /\ Regime /\ [Next]_vars
          => TInv' /\ Online' /\ Placing' /\ Regime'
  <2> SUFFICES ASSUME TInv, Online, Placing, Regime, [Next]_vars
               PROVE  TInv' /\ Online' /\ Placing' /\ Regime'
    OBVIOUS
  <2>1. TInv' /\ Online'
    BY TypesInductive, OnlineInductive
  <2>2. CASE OneWindow
    BY <2>1, <2>2, OneLoginAdmits, OneLoginKept, PlacingKept DEF Regime
  <2>3. CASE ~OneWindow
    BY <2>1, <2>3, AwaitedExcludes, AwaitedKept, PlacingKept DEF Regime, OneClientEach, Sole
  <2> QED
    BY <2>2, <2>3
<1> QED
  BY <1>1, <1>2, PTL DEF Spec

(***************************************************************************)
(* A player in the game is registered where it plays and World.Find leads  *)
(* there, however many sessions were left behind and however their removal *)
(* by key is ordered, if handlers do not overlap and either the owner runs *)
(* one window, or lost links are reported at once and the shop is one.     *)
(***************************************************************************)
THEOREM PlayersAreFound ==
    ASSUME ~Overlap, OneClientEach
    PROVE  Spec => []PlayingIsFound
<1>1. Placing => PlayingIsFound
  BY DEF Placing
<1> QED
  BY <1>1, PlacingInvariant, PTL

(***************************************************************************)
(* Under the same conditions the account never plays on a channel while it *)
(* is in the cash shop: coming to a channel throws out whoever is in the   *)
(* shop, and the shop admits nobody while a character is registered.       *)
(***************************************************************************)
THEOREM NeverInShopAndOnChannel ==
    ASSUME ~Overlap, OneClientEach
    PROVE  Spec => []ShopOrChannel
<1>1. Placing => ShopOrChannel
  BY DEF Placing
<1> QED
  BY <1>1, PlacingInvariant, PTL

(***************************************************************************)
(* CHANGELOG.md line 58, as far as it goes: if handlers do not overlap, an *)
(* owner with one window never has two connected clients logged in, however*)
(* often the window vanishes and comes back before the server notices.     *)
(***************************************************************************)
THEOREM OneWindowLogsInOnce ==
    ASSUME ~Overlap, OneWindow
    PROVE  Spec => []OneClientLoggedIn
<1>1. Spec => []Regime
  <2>1. OneClientEach
    BY DEF OneClientEach
  <2> QED
    BY <2>1, PlacingInvariant, PTL
<1>2. Regime => OneClientLoggedIn
  BY DEF Regime, OneLogin, OneClientLoggedIn
<1> QED
  BY <1>1, <1>2, PTL

=============================================================================
