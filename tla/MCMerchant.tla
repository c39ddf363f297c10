----------------------------- MODULE MCMerchant -----------------------------
(* Two characters of one account and one of another on a channel.          *)
EXTENDS Merchant

CONSTANTS a, alt, b, A, B, s1, s2

MCAccountOf == [c \in {a, alt, b} |-> IF c = b THEN B ELSE A]
MCPurse == (a :> 50000) @@ (alt :> 0) @@ (b :> 200000)

\* Of s1 a slot holds two units: a has a full stack and a half one, b a half one. Of s2
\* one may have one: a has it, alt wears another. Each has a free slot besides.
Carries(u, k, v) == [units |-> (s1 :> u) @@ (s2 :> v), slots |-> (s1 :> k) @@ (s2 :> v), free |-> 1]
MCBag == (a :> Carries(3, 2, 1)) @@ (alt :> Carries(0, 0, 0)) @@ (b :> Carries(1, 1, 0))
MCMax == (s1 :> 2) @@ (s2 :> 1)
MCWorn == [c \in {a, alt, b} |-> IF c = alt THEN {s2} ELSE {}]

\* Bounds: a run with a mishap of the shops themselves is followed until a second one,
\* or until something is sold, doubled, not saved or a second unit is in the shop, and
\* one in which goods or mesos were lost or doubled no further; only b buys, goods of
\* one kind are about at a time, and only a fills a shop, though b and alt may set up
\* and open empty ones.
InBags(s) == bag[a].units[s] + bag[alt].units[s] + bag[b].units[s]
AtHome(s) == \A c \in Char : bag[c].units[s] = MCBag[c].units[s]
Bounds == /\ \/ astray = {}
             \/ /\ Cardinality(astray) = 1 /\ purse = MCPurse
                /\ AtHome(s2) /\ InBags(s1) >= 3 /\ astray \subseteq {"inside", "evicted", "stopped"}
                /\ phase = "closed" => \A c \in Char : kept[c] = CopyOf(c)
          /\ InBags(s1) <= 4 /\ InBags(s2) <= 1
          /\ AtHome(s1) \/ AtHome(s2)
          /\ \A n \in Inst : Visitors(n) \subseteq {b} /\ (owner[n] # a => items[n] = <<>>)

\* What objects that nobody can reach any more hold does not matter, nor do saved
\* characters until the process is about to end.
MCView == LET known == {n \in Inst : ~Unused(n)}
              hasRow(x) == \E c \in Char : AccountOf[c] = x /\ row[c] # NoRow
          IN  <<chars, placed, channel, row, {<<x, goods[x]>> : x \in {y \in Account : hasRow(y)}},
                IF phase = "closed" THEN kept ELSE <<>>, astray,
                [n \in known |-> <<owner[n], items[n], till[n], open[n], available[n], storeid[n]>>]>>
=============================================================================
