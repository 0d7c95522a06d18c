------------------------ MODULE MCConversationEngine ------------------------
(* Small instances of ConversationEngine for TLC. *)
EXTENDS ConversationEngine

Coin == [money |-> 1, items |-> 0]

MCPayloads == {Coin}
MCCatalogue == <<>>

Symmetry == Permutations(Agents)
=============================================================================
