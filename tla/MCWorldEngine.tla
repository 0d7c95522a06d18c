--------------------------- MODULE MCWorldEngine ---------------------------
(* Small instances of WorldEngine for TLC. *)
EXTENDS Choices, TLC

CONSTANTS buy

Coin == [money |-> 1, items |-> 0]
Item == [money |-> 0, items |-> 1]

\* One action: buying the item for a coin.
MCCatalogue == [x \in Actions |-> [cost |-> Coin, reward |-> Item]]

MCPayloads == {Coin, Item}
MCCoins == {Coin}

Symmetry ==
  Permutations(Agents) \cup Permutations(Transfers) \cup Permutations(Announcements)
============================================================================
