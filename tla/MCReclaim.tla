----------------------------- MODULE MCReclaim -----------------------------
(* Three nodes with two channels, and a copy of the first node's directory   *)
(* that a snapshot left behind.  The third node has nothing but its share of *)
(* a channel.                                                                *)
EXTENDS Reclaim

MCAccount == [d \in Dirs |-> CASE d = "node_001" -> "b"
                               [] d = "node_002" -> "c"
                               [] OTHER          -> "a"]
MCEnds    == [c \in Channels |-> IF c = "ab" THEN <<"a", "b">> ELSE <<"b", "c">>]

\* The amounts of nodes a and b, with the given one for c.
Amounts(S, last) ==
    {[x \in Accounts |-> IF x = "c" THEN last ELSE f[x]] : f \in [{"a", "b"} -> S]}

MCEthStart      == Amounts({1, 5, 9}, 1)
MCDepositStart  == Amounts({0, 3}, 0)
MCTokenStart    == {[x \in Accounts |-> IF x = "a" THEN n ELSE 0] : n \in {0, 4}}
MCCapacityStart == [Channels -> {0, 6}]
=============================================================================
