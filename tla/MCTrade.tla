------------------------------ MODULE MCTrade ------------------------------
(***************************************************************************)
(* Instances of Trade for TLC.  a and b start with one item each and a     *)
(* third lies on the map, so a bag of SlotLimit = 2 can be filled by a pet *)
(* while its owner trades, or the third be worn by somebody who is then    *)
(* offered another of its kind.                                            *)
(***************************************************************************)
EXTENDS Trade

CONSTANTS a, b, c1, i1, i2, i3

MCBag(c) == CASE c = a -> {i1} [] c = b -> {i2} [] OTHER -> {}
MCInitBag == [c \in Char |-> MCBag(c)]
MCInitWorn == [c \in Char |-> {}]

MCInitWallet == [c \in Char |-> IF c = a THEN 100000000 ELSE 0]

MCNoWallet == [c \in Char |-> 0]

(***************************************************************************)
(* States that differ only in the identities of objects, or in objects no  *)
(* handler can reach, are one state to TLC.  A current trade is known by   *)
(* its owner; an object that outlived its window is told from others by    *)
(* its fields and by which trades share it as their partner.               *)
(***************************************************************************)
Ref(t) ==
    IF t = None THEN None
    ELSE <<trade[chr[t]] = t, chr[t], items[t], meso[t], exchangeMeso[t], locked[t]>>

Fields(t) == IF t = None THEN None ELSE <<Ref(t), Ref(exchangeItems[t])>>

LiveState ==
    <<bag, worn, wallet, mapVars,
      [c \in Char |-> IF trade[c] = None THEN None
                      ELSE <<Fields(trade[c]), Fields(partner[trade[c]])>>],
      {<<c, d>> \in Char \X Char :
          trade[c] # None /\ trade[d] # None /\ partner[trade[c]] = partner[trade[d]]}>>

=============================================================================
