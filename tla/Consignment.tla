----------------------------- MODULE Consignment -----------------------------
(***************************************************************************)
(* What hired merchants promise: goods left with one and what it has       *)
(* earned are the owner account's, and units and mesos only change hands.  *)
(* Until something goes astray a step moves units or mesos between a       *)
(* character and what its own account has in consignment, or sells some    *)
(* units for their price, of which the house keeps its share.              *)
(***************************************************************************)
EXTENDS Integers, Functions

CONSTANTS Char, Account, AccountOf, Stack, InitBag, InitPurse, Price,
          KeptBack(_)     \* the share of a sum that the house keeps

VARIABLES bag, purse,     \* of a character
          left, due,      \* left[a][s], due[a]: units and mesos in consignment
          astray          \* something went astray: nothing is promised any more

vars == <<bag, purse, left, due, astray>>

Init ==
  /\ bag = InitBag /\ purse = InitPurse
  /\ left = [x \in Account |-> [s \in Stack |-> 0]]
  /\ due = [x \in Account |-> 0]
  /\ ~astray

Others(f, g, x) == \A y \in DOMAIN f : y # x => g[y] = f[y]

Own(c) ==
  LET x == AccountOf[c]
  IN  /\ Others(bag, bag', c) /\ Others(purse, purse', c)
      /\ Others(left, left', x) /\ Others(due, due', x)
      /\ \A s \in Stack : bag'[c][s] + left'[x][s] = bag[c][s] + left[x][s]
      /\ purse'[c] + due'[x] = purse[c] + due[x]

Buy(c, x) ==
  \E s \in Stack : \E q \in 1 .. left[x][s] :
    /\ bag' = [bag EXCEPT ![c][s] = @ + q]
    /\ left' = [left EXCEPT ![x][s] = @ - q]
    /\ purse' = [purse EXCEPT ![c] = @ - Price * q]
    /\ due' = [due EXCEPT ![x] = @ + Price * q - KeptBack(Price * q)]

Next == \/ ~astray' /\ \E c \in Char : Own(c) \/ \E x \in Account : Buy(c, x)
        \/ astray'

Spec == Init /\ [][Next]_vars
=============================================================================
