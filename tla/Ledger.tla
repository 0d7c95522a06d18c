------------------------------- MODULE Ledger -------------------------------
(***************************************************************************)
(* What the economy of the world promises, whatever happens inside: every  *)
(* agent has a balance, and a balance changes by the agent's endowment, by *)
(* paying or collecting for an action, by a payment that takes from one    *)
(* agent in the very step it gives to another, or by forfeiting something. *)
(* A transfer in progress is nowhere to be seen.                           *)
(***************************************************************************)
EXTENDS Integers

CONSTANTS Agents, Actions, Catalogue, Payloads, InitialMoney

VARIABLE balance

Plus(p, q) == [money |-> p.money + q.money, items |-> p.items + q.items]
Minus(p, q) == [money |-> p.money - q.money, items |-> p.items - q.items]
AtMost(p, q) == p.money <= q.money /\ p.items <= q.items

Init == balance = [a \in Agents |-> [money |-> 0, items |-> 0]]

\* A registration comes with the initial money.
Endow(a) == balance' = [balance EXCEPT ![a].money = @ + InitialMoney]

Spend(a, x) == balance' = [balance EXCEPT ![a] = Minus(@, Catalogue[x].cost)]

\* Items that do not fit are not granted.
Earn(a, x) ==
  \E items \in 0 .. Catalogue[x].reward.items :
    balance' = [balance EXCEPT
      ![a] = Plus(@, [money |-> Catalogue[x].reward.money, items |-> items])]

Pay(from, to, payload) ==
  /\ AtMost(payload, balance[from])
  /\ balance' = [balance EXCEPT ![from] = Minus(@, payload),
                                ![to] = Plus(@, payload)]

\* Using an item, deleting a registration, losing open offers in a restart.
Forfeit ==
  /\ DOMAIN balance' = Agents
  /\ \A a \in Agents : AtMost(balance'[a], balance[a])

Next ==
  \/ \E a \in Agents : Endow(a) \/ \E x \in Actions : Spend(a, x) \/ Earn(a, x)
  \/ \E from, to \in Agents, payload \in Payloads :
       from # to /\ Pay(from, to, payload)
  \/ Forfeit

Spec == Init /\ [][Next]_balance
============================================================================
