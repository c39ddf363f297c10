----------------------------- MODULE MCSession -----------------------------
(***************************************************************************)
(* Instances of Session for TLC.  Sessions, windows, characters and        *)
(* channels are interchangeable in every safety property.                  *)
(***************************************************************************)
EXTENDS Session, TLC

CONSTANT Market  \* the MTS

Symmetry == Permutations(Conn) \cup Permutations(Window)
            \cup Permutations(Char) \cup Permutations(Channel)

(***************************************************************************)
(* A client that is not logged in, that no window uses and whose handlers  *)
(* are over can only be closed: its other fields are never read again, and *)
(* two states that differ in them alone are one to TLC.                    *)
(* To a storage it is as good as gone.  Nor does a step depend on the      *)
(* transfers waiting at channels, where Loggedin takes the database's copy *)
(* when there is none.                                                     *)
(***************************************************************************)
Inert(k) == ~loggedIn[k] /\ ~Seated(k) /\ pc[k] = "idle"

ClientView(k) ==
    IF Inert(k) THEN <<server[k] # None, connected[k]>>
    ELSE <<server[k], channel[k], player[k], loggedIn[k], serverTransition[k],
           connected[k], pc[k]>>

Resident(s, c) ==
    IF storage[s][c] \in Conn /\ Inert(storage[s][c]) THEN Gone ELSE storage[s][c]

View == <<loginState, [p \in Shop |-> pending[p]],
          [s \in Store |-> [c \in Char |-> Resident(s, c)]],
          find, [k \in Conn |-> ClientView(k)], windowVars>>

=============================================================================
