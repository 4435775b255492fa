----------------------------- MODULE MCClients ------------------------------
(* A walk over a list; Ann's withdrawals of ETH and two tokens, in two     *)
(* browser tabs.                                                           *)
EXTENDS GatewayClients, TLC

CONSTANTS s1, s2, Ann, Eth, Gold, Silver, Tab1, Tab2

SomeTxs == {s1, s2}

EveryList == {"blocks", "transactions", "deposits", "withdrawals", "settlements"}

\* Nothing, one, two, and more than is allowed.
SomeLimits == {0, 1, 2, 5}

People == {Ann}
Coins == {Eth, Gold, Silver}
OneOrTwo == {1, 2}

\* Two tabs follow one list, or one tab a list of two tokens, at a gateway that
\* has lost the first settlement's job.
TabsOfAnn ==
    {[accounts |-> {<<Ann, Eth>>},
      client |-> Tab1 :> <<Ann, "native">> @@ Tab2 :> <<Ann, "native">>,
      lost |-> 0],
     [accounts |-> {<<Ann, Gold>>, <<Ann, Silver>>},
      client |-> Tab1 :> <<Ann, "tokens">>,
      lost |-> 1]}

=============================================================================
