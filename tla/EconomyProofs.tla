--------------------------- MODULE EconomyProofs ---------------------------
(***************************************************************************)
(* Offers, refunds, interruptions, logins and logouts neither make nor     *)
(* lose money, and the engine is a Ledger, for every value of the          *)
(* constants.                                                              *)
(***************************************************************************)
EXTENDS WorldEngineProofs

(***************************************************************************)
(* What a world is worth.                                                  *)
(***************************************************************************)
OwnedIn(w, a) ==
  IF LoggedIn(w, a) THEN w.purses[a]
  ELSE IF Registered(w, a) THEN w.registrations[a] ELSE Nothing

\* The offers agent a has sent, and what the offers hold.
SentBy(w, a) == {t \in Transfers : w.transfers[t].from_agent_id = a}
Coins(w) == [t \in Transfers |-> w.transfers[t].escrow.money]
Goods(w) == [t \in Transfers |-> w.transfers[t].escrow.items]

MoneyOf(w, a) == OwnedIn(w, a).money + SumOver(SentBy(w, a), Coins(w))
ItemsOf(w, a) == OwnedIn(w, a).items + SumOver(SentBy(w, a), Goods(w))

AllMoney(w) ==
  SumOver(Agents, [a \in Agents |-> OwnedIn(w, a).money])
    + SumOver(Transfers, Coins(w))

AllItems(w) ==
  SumOver(Agents, [a \in Agents |-> OwnedIn(w, a).items])
    + SumOver(Transfers, Goods(w))

\* What agents own and offers hold is natural.
LEMMA WorthTypes ==
  ASSUME NEW w \in Worlds
  PROVE  /\ \A a \in Agents : OwnedIn(w, a) \in Purse
         /\ \A a \in Agents : OwnedIn(w, a).money \in Nat /\ OwnedIn(w, a).items \in Nat
         /\ \A t \in Transfers : Coins(w)[t] \in Nat /\ Goods(w)[t] \in Nat
<1>1. ASSUME NEW a \in Agents
      PROVE  OwnedIn(w, a) \in Purse
  BY WorldsFields DEF OwnedIn, Registered, Nothing, Purse
<1>2. \A t \in Transfers : w.transfers[t].escrow \in Purse
  BY WorldsFields DEF OfferRecord
<1> QED
  BY <1>1, <1>2 DEF Purse, Coins, Goods

\* The offers F of one agent, of which those in S are emptied: E is left, and c
\* and d say what each offer holds before and after.
Left(c, d, S, F, E) ==
  /\ \A t \in Transfers : c[t] \in Nat /\ d[t] \in Nat
  /\ S \in SUBSET Transfers /\ F \in SUBSET Transfers /\ E = F \ S
  /\ \A t \in Transfers \ S : d[t] = c[t]

\* What an agent's offers held is what those left hold and what was emptied.
LEMMA EmptyingShare ==
  ASSUME NEW c, NEW d, NEW S, NEW F, NEW E, Left(c, d, S, F, E)
  PROVE  /\ SumOver(F, c) = SumOver(E, d) + SumOver(F \cap S, c)
         /\ SumOver(F, c) \in Nat /\ SumOver(E, d) \in Nat
         /\ SumOver(F \cap S, c) \in Nat
<1> DEFINE G == F \cap S
<1>1. E \cup G = F /\ E \cap G = {} /\ F \in SUBSET Transfers
  BY DEF Left
<1>2. IsFiniteSet(E) /\ IsFiniteSet(G) /\ IsFiniteSet(F)
  BY <1>1, WorldAssumption, FS_Subset
<1>3. \A t \in F : c[t] \in Nat
  BY DEF Left
<1>4. \A t \in E : c[t] = d[t] /\ d[t] \in Nat
  BY DEF Left
<1> HIDE DEF G
<1>5. SumOver(F, c) = SumOver(E, c) + SumOver(G, c)
  BY <1>1, <1>2, <1>3, SumUnion
<1>6. SumOver(E, c) = SumOver(E, d)
  BY <1>4, SumSame
<1>7. SumOver(F, c) \in Nat /\ SumOver(E, d) \in Nat /\ SumOver(G, c) \in Nat
  BY <1>1, <1>2, <1>3, <1>4, SumInNat
<1> QED
  BY <1>5, <1>6, <1>7 DEF G

\* What agents have with what their offers hold is natural.
LEMMA ShareTypes ==
  ASSUME NEW w \in Worlds
  PROVE  /\ AllMoney(w) \in Nat /\ AllItems(w) \in Nat
         /\ \A a \in Agents : /\ MoneyOf(w, a) \in Nat /\ ItemsOf(w, a) \in Nat
                              /\ OwnedIn(w, a).money <= MoneyOf(w, a)
                              /\ OwnedIn(w, a).items <= ItemsOf(w, a)
<1>1. IsFiniteSet(Agents) /\ IsFiniteSet(Transfers)
  BY WorldAssumption
<1>2. /\ \A a \in Agents : OwnedIn(w, a).money \in Nat /\ OwnedIn(w, a).items \in Nat
      /\ \A t \in Transfers : Coins(w)[t] \in Nat /\ Goods(w)[t] \in Nat
  BY WorthTypes
<1>3. /\ SumOver(Transfers, Coins(w)) \in Nat /\ SumOver(Transfers, Goods(w)) \in Nat
      /\ SumOver(Agents, [a \in Agents |-> OwnedIn(w, a).money]) \in Nat
      /\ SumOver(Agents, [a \in Agents |-> OwnedIn(w, a).items]) \in Nat
  BY <1>1, <1>2, SumInNat
<1>4. ASSUME NEW a \in Agents
      PROVE  /\ SumOver(SentBy(w, a), Coins(w)) \in Nat
             /\ SumOver(SentBy(w, a), Goods(w)) \in Nat
  <2>1. SentBy(w, a) \in SUBSET Transfers
    BY DEF SentBy
  <2> QED
    BY <1>1, <1>2, <2>1, FS_Subset, SumInNat
<1> QED
  BY <1>2, <1>3, <1>4 DEF AllMoney, AllItems, MoneyOf, ItemsOf

\* The offers in S are emptied into what agent a owns, but for some lost items.
Emptied(v, w, S, a, lost) ==
  /\ OwnedIn(v, a).money = OwnedIn(w, a).money + SumOver(S, Coins(w))
  /\ OwnedIn(v, a).items + lost = OwnedIn(w, a).items + SumOver(S, Goods(w))
  /\ \A b \in Agents \ {a} : OwnedIn(v, b) = OwnedIn(w, b)
  /\ \A t \in S : v.transfers[t] = NoOffer
  /\ \A t \in Transfers \ S :
       /\ v.transfers[t].from_agent_id = w.transfers[t].from_agent_id
       /\ v.transfers[t].escrow = w.transfers[t].escrow

\* Emptying offers loses nothing else.
LEMMA EmptiedTotal ==
  ASSUME NEW w \in Worlds, NEW v \in Worlds, NEW S \in SUBSET Transfers,
         NEW a \in Agents, NEW lost \in Nat, Emptied(v, w, S, a, lost)
  PROVE  AllMoney(v) = AllMoney(w) /\ AllItems(v) + lost = AllItems(w)
<1> DEFINE o == [b \in Agents |-> OwnedIn(w, b).money]
           p == [b \in Agents |-> OwnedIn(v, b).money]
           i == [b \in Agents |-> OwnedIn(w, b).items]
           j == [b \in Agents |-> OwnedIn(v, b).items]
<1>1. /\ \A b \in Agents : o[b] \in Nat /\ p[b] \in Nat /\ i[b] \in Nat /\ j[b] \in Nat
      /\ \A t \in Transfers : /\ Coins(w)[t] \in Nat /\ Coins(v)[t] \in Nat
                              /\ Goods(w)[t] \in Nat /\ Goods(v)[t] \in Nat
  BY WorthTypes
<1>2. SumOver(S, Coins(w)) \in Nat /\ SumOver(S, Goods(w)) \in Nat
  BY <1>1, SumInNat, FS_Subset, WorldAssumption
<1>3. \A b \in Agents \ {a} : p[b] = o[b] /\ j[b] = i[b]
  BY DEF Emptied
<1>4. /\ p[a] = o[a] + SumOver(S, Coins(w))
      /\ j[a] = i[a] + (SumOver(S, Goods(w)) - lost)
  BY <1>1, <1>2 DEF Emptied
<1>5. /\ \A t \in S : Coins(v)[t] = 0 /\ Goods(v)[t] = 0
      /\ \A t \in Transfers \ S : /\ Coins(v)[t] = Coins(w)[t]
                                  /\ Goods(v)[t] = Goods(w)[t]
  BY DEF Emptied, Coins, Goods, NoOffer, Nothing
<1>6. /\ AllMoney(w) = SumOver(Agents, o) + SumOver(Transfers, Coins(w))
      /\ AllMoney(v) = SumOver(Agents, p) + SumOver(Transfers, Coins(v))
      /\ AllItems(w) = SumOver(Agents, i) + SumOver(Transfers, Goods(w))
      /\ AllItems(v) = SumOver(Agents, j) + SumOver(Transfers, Goods(v))
  BY DEF AllMoney, AllItems
<1> DEFINE c == Coins(w)
           d == Coins(v)
           g == Goods(w)
           h == Goods(v)
           n == SumOver(S, g) - lost
<1>7. Shifted(o, p, c, d, S, a, SumOver(S, c))
  BY <1>1, <1>2, <1>3, <1>4, <1>5 DEF Shifted
<1>8. Shifted(i, j, g, h, S, a, n)
  BY <1>1, <1>2, <1>3, <1>4, <1>5 DEF Shifted
<1>a. n + lost = SumOver(S, g) /\ SumOver(S, g) \in Nat /\ n \in Int
  BY <1>2
<1> HIDE DEF o, p, i, j, c, d, g, h, n
<1>9. /\ SumOver(Agents, p) + SumOver(Transfers, d) + SumOver(S, c)
           = SumOver(Agents, o) + SumOver(Transfers, c) + SumOver(S, c)
      /\ SumOver(Agents, p) \in Nat /\ SumOver(Transfers, d) \in Nat
      /\ SumOver(Agents, o) \in Nat /\ SumOver(Transfers, c) \in Nat
      /\ SumOver(S, c) \in Nat
  BY <1>7, EmptyingTotal
<1>10. /\ SumOver(Agents, j) + SumOver(Transfers, h) + SumOver(S, g)
            = SumOver(Agents, i) + SumOver(Transfers, g) + n
       /\ SumOver(Agents, j) \in Nat /\ SumOver(Transfers, h) \in Nat
       /\ SumOver(Agents, i) \in Nat /\ SumOver(Transfers, g) \in Nat
  BY <1>8, EmptyingTotal
<1>11. AllMoney(v) = AllMoney(w)
  BY <1>6, <1>9 DEF c, d
<1>12. AllItems(v) + lost = AllItems(w)
  BY <1>6, <1>10, <1>a DEF g, h
<1> QED
  BY <1>11, <1>12

\* What that makes of the share of agent b, of whose offers those in own are in S.
Shares(v, w, S, a, lost, b, own) ==
  /\ b = a => /\ MoneyOf(v, b) + SumOver(own, Coins(w))
                   = MoneyOf(w, b) + SumOver(S, Coins(w))
              /\ ItemsOf(v, b) + SumOver(own, Goods(w))
                   = ItemsOf(w, b) + SumOver(S, Goods(w)) - lost
  /\ b # a => /\ MoneyOf(v, b) + SumOver(own, Coins(w)) = MoneyOf(w, b)
              /\ ItemsOf(v, b) + SumOver(own, Goods(w)) = ItemsOf(w, b)
  /\ SumOver(own, Coins(w)) \in Nat /\ SumOver(own, Goods(w)) \in Nat
  /\ SumOver(S, Coins(w)) \in Nat /\ SumOver(S, Goods(w)) \in Nat

\* Each agent has lost what its own emptied offers held; a has gained them all.
LEMMA EmptiedShares ==
  ASSUME NEW w \in Worlds, NEW v \in Worlds, NEW S \in SUBSET Transfers,
         NEW a \in Agents, NEW lost \in Nat, Emptied(v, w, S, a, lost),
         NEW b \in Agents
  PROVE  Shares(v, w, S, a, lost, b, SentBy(w, b) \cap S)
<1> DEFINE F == SentBy(w, b)
           E == SentBy(v, b)
<1>1. /\ \A t \in Transfers : /\ Coins(w)[t] \in Nat /\ Coins(v)[t] \in Nat
                              /\ Goods(w)[t] \in Nat /\ Goods(v)[t] \in Nat
      /\ OwnedIn(w, b).money \in Nat /\ OwnedIn(w, b).items \in Nat
      /\ OwnedIn(v, b).money \in Nat /\ OwnedIn(v, b).items \in Nat
  BY WorthTypes
<1>2. F \in SUBSET Transfers /\ E \in SUBSET Transfers
  BY DEF SentBy
<1>3. E = F \ S
  BY WorldAssumption DEF Emptied, SentBy, NoOffer
<1>4. \A t \in Transfers \ S : Coins(v)[t] = Coins(w)[t] /\ Goods(v)[t] = Goods(w)[t]
  BY DEF Emptied, Coins, Goods
<1>5. /\ MoneyOf(w, b) = OwnedIn(w, b).money + SumOver(F, Coins(w))
      /\ MoneyOf(v, b) = OwnedIn(v, b).money + SumOver(E, Coins(v))
      /\ ItemsOf(w, b) = OwnedIn(w, b).items + SumOver(F, Goods(w))
      /\ ItemsOf(v, b) = OwnedIn(v, b).items + SumOver(E, Goods(v))
  BY DEF MoneyOf, ItemsOf
<1>6. SumOver(S, Coins(w)) \in Nat /\ SumOver(S, Goods(w)) \in Nat
  BY <1>1, SumInNat, FS_Subset, WorldAssumption
<1> DEFINE c == Coins(w)
           d == Coins(v)
           g == Goods(w)
           h == Goods(v)
<1>a. Left(c, d, S, F, E) /\ Left(g, h, S, F, E)
  BY <1>1, <1>2, <1>3, <1>4 DEF Left
<1> HIDE DEF E, F, c, d, g, h
<1>7. /\ SumOver(F, c) = SumOver(E, d) + SumOver(F \cap S, c)
      /\ SumOver(F, c) \in Nat /\ SumOver(E, d) \in Nat
      /\ SumOver(F \cap S, c) \in Nat
  BY <1>a, EmptyingShare
<1>8. /\ SumOver(F, g) = SumOver(E, h) + SumOver(F \cap S, g)
      /\ SumOver(F, g) \in Nat /\ SumOver(E, h) \in Nat
      /\ SumOver(F \cap S, g) \in Nat
  BY <1>a, EmptyingShare
<1>9. /\ b = a => /\ OwnedIn(v, b).money = OwnedIn(w, b).money + SumOver(S, c)
                  /\ OwnedIn(v, b).items = OwnedIn(w, b).items + SumOver(S, g) - lost
      /\ b # a => /\ OwnedIn(v, b).money = OwnedIn(w, b).money
                  /\ OwnedIn(v, b).items = OwnedIn(w, b).items
  BY <1>1, <1>6 DEF Emptied, c, g
<1>b. /\ MoneyOf(w, b) = OwnedIn(w, b).money + SumOver(F, c)
      /\ MoneyOf(v, b) = OwnedIn(v, b).money + SumOver(E, d)
      /\ ItemsOf(w, b) = OwnedIn(w, b).items + SumOver(F, g)
      /\ ItemsOf(v, b) = OwnedIn(v, b).items + SumOver(E, h)
      /\ SumOver(S, c) \in Nat /\ SumOver(S, g) \in Nat
  BY <1>5, <1>6 DEF c, d, g, h
<1>10. ASSUME b = a
       PROVE  /\ MoneyOf(v, b) + SumOver(F \cap S, c) = MoneyOf(w, b) + SumOver(S, c)
              /\ ItemsOf(v, b) + SumOver(F \cap S, g)
                   = ItemsOf(w, b) + SumOver(S, g) - lost
  <2>1. MoneyOf(v, b) + SumOver(F \cap S, c) = MoneyOf(w, b) + SumOver(S, c)
    BY <1>1, <1>b, <1>7, <1>9, <1>10
  <2>2. ItemsOf(v, b) + SumOver(F \cap S, g) = ItemsOf(w, b) + SumOver(S, g) - lost
    BY <1>1, <1>b, <1>8, <1>9, <1>10
  <2> QED
    BY <2>1, <2>2
<1>11. ASSUME b # a
       PROVE  /\ MoneyOf(v, b) + SumOver(F \cap S, c) = MoneyOf(w, b)
              /\ ItemsOf(v, b) + SumOver(F \cap S, g) = ItemsOf(w, b)
  <2>1. MoneyOf(v, b) + SumOver(F \cap S, c) = MoneyOf(w, b)
    BY <1>1, <1>b, <1>7, <1>9, <1>11
  <2>2. ItemsOf(v, b) + SumOver(F \cap S, g) = ItemsOf(w, b)
    BY <1>1, <1>b, <1>8, <1>9, <1>11
  <2> QED
    BY <2>1, <2>2
<1> QED
  BY <1>6, <1>7, <1>8, <1>10, <1>11 DEF Shares, F, c, g

(***************************************************************************)
(* What a step may do to what there is.                                    *)
(***************************************************************************)

\* Offers no longer kept are blank, and open ones hold what one may hand over.
Escrows(w) ==
  \A t \in Transfers :
    /\ w.transfers[t].status = "absent" => w.transfers[t] = NoOffer
    /\ Live(w, t) => w.transfers[t].escrow \in Payloads

\* Until a refund fails nothing outgrows an inventory, what has been offered
\* included: whatever comes back fits.
Fits(w) == "refund" \notin FailingWrites =>
  /\ \A t \in Transfers : w.transfers[t].status # "refund_failed"
  /\ \A a \in Agents : /\ w.purses[a].items <= MaxItems
                       /\ Registered(w, a) => w.registrations[a].items <= MaxItems
  /\ \A t \in Transfers : Live(w, t) =>
       w.purses[w.transfers[t].from_agent_id].items + w.transfers[t].escrow.items
         <= MaxItems

Sound(w) == Escrows(w) /\ Fits(w)

Conserved(v, w) ==
  /\ AllMoney(v) = AllMoney(w)
  /\ \/ AllItems(v) = AllItems(w)
     \/ AllItems(v) < AllItems(w) /\ "refund" \in FailingWrites

NoGain(v, w) ==
  \A a \in Agents :
    MoneyOf(v, a) <= MoneyOf(w, a) /\ ItemsOf(v, a) <= ItemsOf(w, a)

Even(v, w) == Sound(v) /\ Conserved(v, w) /\ NoGain(v, w)

SameLogins(v, w) == \A a \in Agents : LoggedIn(v, a) <=> LoggedIn(w, a)

\* Steps that conserve, or gain nothing, do so one after the other.
LEMMA NoGainTwice ==
  ASSUME NEW w \in Worlds, NEW u \in Worlds, NEW v \in Worlds,
         NoGain(u, w), NoGain(v, u)
  PROVE  NoGain(v, w)
<1> SUFFICES ASSUME NEW a \in Agents
             PROVE  MoneyOf(v, a) <= MoneyOf(w, a) /\ ItemsOf(v, a) <= ItemsOf(w, a)
  BY DEF NoGain
<1>1. /\ MoneyOf(w, a) \in Nat /\ MoneyOf(u, a) \in Nat /\ MoneyOf(v, a) \in Nat
      /\ ItemsOf(w, a) \in Nat /\ ItemsOf(u, a) \in Nat /\ ItemsOf(v, a) \in Nat
  BY ShareTypes
<1>2. /\ MoneyOf(u, a) <= MoneyOf(w, a) /\ ItemsOf(u, a) <= ItemsOf(w, a)
      /\ MoneyOf(v, a) <= MoneyOf(u, a) /\ ItemsOf(v, a) <= ItemsOf(u, a)
  BY DEF NoGain
<1> QED
  BY <1>1, <1>2

LEMMA EvenTwice ==
  ASSUME NEW w \in Worlds, NEW u \in Worlds, NEW v \in Worlds,
         Even(u, w), Even(v, u)
  PROVE  Even(v, w)
<1>1. NoGain(v, w) /\ Sound(v)
  BY NoGainTwice DEF Even
<1>2. /\ AllItems(w) \in Nat /\ AllItems(u) \in Nat /\ AllItems(v) \in Nat
  BY ShareTypes
<1>3. Conserved(u, w) /\ Conserved(v, u)
  BY DEF Even
<1>4. Conserved(v, w)
  BY <1>2, <1>3 DEF Conserved
<1> QED
  BY <1>1, <1>4 DEF Even

\* Who owns as before, with the same offers, is worth the same.
LEMMA SameWorth ==
  ASSUME NEW w \in Worlds, NEW v \in Worlds, v.transfers = w.transfers,
         \A b \in Agents : OwnedIn(v, b) = OwnedIn(w, b)
  PROVE  Conserved(v, w) /\ NoGain(v, w)
<1>1. Coins(v) = Coins(w) /\ Goods(v) = Goods(w) /\ \A b : SentBy(v, b) = SentBy(w, b)
  BY DEF Coins, Goods, SentBy
<1>2. /\ [a \in Agents |-> OwnedIn(v, a).money] = [a \in Agents |-> OwnedIn(w, a).money]
      /\ [a \in Agents |-> OwnedIn(v, a).items] = [a \in Agents |-> OwnedIn(w, a).items]
  OBVIOUS
<1>3. AllMoney(v) = AllMoney(w) /\ AllItems(v) = AllItems(w)
  BY <1>1, <1>2 DEF AllMoney, AllItems
<1>4. \A b \in Agents : MoneyOf(v, b) = MoneyOf(w, b) /\ ItemsOf(v, b) = ItemsOf(w, b)
  BY <1>1 DEF MoneyOf, ItemsOf
<1>5. \A b \in Agents : MoneyOf(w, b) \in Nat /\ ItemsOf(w, b) \in Nat
  BY ShareTypes
<1> QED
  BY <1>3, <1>4, <1>5 DEF Conserved, NoGain

\* What leaves the purses, the offers and the registrations alone.
LEMMA SameEven ==
  ASSUME NEW w \in Worlds, NEW v \in Worlds, Sound(w),
         SameStores(v, w), SameLogins(v, w)
  PROVE  Even(v, w)
<1>1. \A b \in Agents : OwnedIn(v, b) = OwnedIn(w, b)
  BY DEF OwnedIn, Registered, SameStores, SameLogins
<1>2. Conserved(v, w) /\ NoGain(v, w)
  BY <1>1, SameWorth DEF SameStores
<1>3. Escrows(v)
  BY DEF Sound, Escrows, SameStores, Live
<1>4. Fits(v)
  BY DEF Sound, Fits, SameStores, Live, Registered
<1> QED
  BY <1>2, <1>3, <1>4 DEF Even, Sound

\* Agent a has sent every offer in S.
AllFrom(w, S, a) == \A t \in S : w.transfers[t].from_agent_id = a

KeepsShare(v, w, a, lost, b) ==
  /\ MoneyOf(v, b) = MoneyOf(w, b)
  /\ b = a => ItemsOf(v, b) + lost = ItemsOf(w, b)
  /\ b # a => ItemsOf(v, b) = ItemsOf(w, b)

\* Emptying its own offers makes an agent no richer.
LEMMA EmptiedWorth ==
  ASSUME NEW w \in Worlds, NEW v \in Worlds, NEW S \in SUBSET Transfers,
         NEW a \in Agents, NEW lost \in Nat, Emptied(v, w, S, a, lost),
         AllFrom(w, S, a)
  PROVE  /\ AllMoney(v) = AllMoney(w) /\ AllItems(v) + lost = AllItems(w)
         /\ \A b \in Agents : KeepsShare(v, w, a, lost, b)
<1>1. AllMoney(v) = AllMoney(w) /\ AllItems(v) + lost = AllItems(w)
  BY EmptiedTotal
<1>2. ASSUME NEW b \in Agents
      PROVE  KeepsShare(v, w, a, lost, b)
  <2> DEFINE own == SentBy(w, b) \cap S
  <2>1. Shares(v, w, S, a, lost, b, own)
    BY EmptiedShares
  <2>2. /\ MoneyOf(v, b) \in Nat /\ ItemsOf(v, b) \in Nat
        /\ MoneyOf(w, b) \in Nat /\ ItemsOf(w, b) \in Nat
    BY ShareTypes
  <2>3. CASE b = a
    <3>1. own = S
      BY <2>3 DEF SentBy, AllFrom
    <3> HIDE DEF own
    <3> QED
      BY <2>1, <2>2, <2>3, <3>1 DEF Shares, KeepsShare
  <2>4. CASE b # a
    <3>1. own = {}
      BY <2>4 DEF SentBy, AllFrom
    <3>2. SumOver({}, Coins(w)) = 0 /\ SumOver({}, Goods(w)) = 0
      BY SumZero
    <3> HIDE DEF own
    <3> QED
      BY <2>1, <2>2, <2>4, <3>1, <3>2 DEF Shares, KeepsShare
  <2> QED
    BY <2>3, <2>4
<1> QED
  BY <1>1, <1>2

\* Nothing is lost but what a refund after a failed one does not fit.
LEMMA EmptiedEven ==
  ASSUME NEW w \in Worlds, NEW v \in Worlds, NEW S \in SUBSET Transfers,
         NEW a \in Agents, NEW lost \in Nat, Emptied(v, w, S, a, lost),
         AllFrom(w, S, a), "refund" \notin FailingWrites => lost = 0, Sound(v)
  PROVE  Even(v, w)
<1>1. /\ AllMoney(v) = AllMoney(w) /\ AllItems(v) + lost = AllItems(w)
      /\ \A b \in Agents : KeepsShare(v, w, a, lost, b)
  BY EmptiedWorth
<1>2. /\ AllItems(v) \in Nat /\ AllItems(w) \in Nat
      /\ \A b \in Agents : /\ MoneyOf(v, b) \in Nat /\ ItemsOf(v, b) \in Nat
  BY ShareTypes
<1>3. Conserved(v, w)
  BY <1>1, <1>2 DEF Conserved
<1>4. NoGain(v, w)
  BY <1>1, <1>2 DEF NoGain, KeepsShare
<1> QED
  BY <1>3, <1>4 DEF Even

(***************************************************************************)
(* Hand-overs.                                                             *)
(***************************************************************************)

\* How much a credit adds.
LEMMA CreditFacts ==
  ASSUME NEW p \in Purse, NEW q \in Purse
  PROVE  LET n == fitting(p.items, q.items)
         IN  /\ n \in Nat /\ n <= q.items
             /\ credit(p, q) \in Purse
             /\ credit(p, q).money = p.money + q.money
             /\ credit(p, q).items = p.items + n
             /\ p.items <= MaxItems => credit(p, q).items <= MaxItems
             /\ p.items + q.items <= MaxItems => n = q.items
             /\ ~drops(p, q) => n = q.items
<1>1. /\ p.items \in Nat /\ q.items \in Nat /\ p.money \in Nat /\ q.money \in Nat
      /\ MaxItems \in Nat
  BY WorldAssumption DEF Purse
<1> DEFINE n == fitting(p.items, q.items)
<1>2. /\ n \in Nat /\ n <= q.items
      /\ p.items <= MaxItems => p.items + n <= MaxItems
      /\ p.items + q.items <= MaxItems => n = q.items
  BY <1>1 DEF fitting
<1>3. credit(p, q) = [money |-> p.money + q.money, items |-> p.items + n]
  BY DEF credit
<1>4. ~drops(p, q) => n = q.items
  BY <1>1, <1>2 DEF drops
<1> HIDE DEF n
<1> QED
  BY <1>1, <1>2, <1>3, <1>4 DEF Purse, n

\* The purse of one agent and one offer change, the registration with the purse.
LEMMA HandedOwn ==
  ASSUME NEW w \in Worlds, NEW v \in Worlds, NEW t \in Transfers, NEW a \in Agents,
         NEW p \in Purse, NEW o, Handed(v, w, a, p, t, o), LoggedIn(w, a),
         SameLogins(v, w)
  PROVE  /\ OwnedIn(w, a) = w.purses[a] /\ OwnedIn(v, a) = p
         /\ \A b \in Agents \ {a} : OwnedIn(v, b) = OwnedIn(w, b)
         /\ v.purses[a] = p /\ v.registrations[a] = p
         /\ \A b \in Agents \ {a} : /\ v.purses[b] = w.purses[b]
                                    /\ v.registrations[b] = w.registrations[b]
         /\ v.transfers[t] = o
         /\ \A u \in Transfers \ {t} : v.transfers[u] = w.transfers[u]
<1>1. /\ v.purses[a] = p /\ v.registrations[a] = p
      /\ \A b \in Agents \ {a} : /\ v.purses[b] = w.purses[b]
                                 /\ v.registrations[b] = w.registrations[b]
      /\ v.transfers[t] = o
      /\ \A u \in Transfers \ {t} : v.transfers[u] = w.transfers[u]
  BY WorldsFields DEF Handed
<1>2. LoggedIn(v, a) /\ \A b \in Agents : LoggedIn(v, b) <=> LoggedIn(w, b)
  BY DEF SameLogins
<1> QED
  BY <1>1, <1>2 DEF OwnedIn, Registered

\* Crediting what an offer holds empties it.
LEMMA HandedEmptied ==
  ASSUME NEW w \in Worlds, NEW v \in Worlds, NEW t \in Transfers, NEW a \in Agents,
         Handed(v, w, a, credit(w.purses[a], w.transfers[t].escrow), t, NoOffer),
         LoggedIn(w, a), SameLogins(v, w)
  PROVE  LET e == w.transfers[t].escrow
             n == fitting(w.purses[a].items, e.items)
         IN  e.items - n \in Nat /\ Emptied(v, w, {t}, a, e.items - n)
<1> DEFINE e == w.transfers[t].escrow
           p == w.purses[a]
           n == fitting(p.items, e.items)
<1>1. p \in Purse /\ e \in Purse
  BY WorldsFields DEF OfferRecord
<1>2. /\ n \in Nat /\ n <= e.items /\ credit(p, e) \in Purse
      /\ credit(p, e).money = p.money + e.money
      /\ credit(p, e).items = p.items + n
      /\ e.items \in Nat /\ e.money \in Nat /\ p.items \in Nat /\ p.money \in Nat
  BY <1>1, CreditFacts DEF Purse
<1>3. SumOver({t}, Coins(w)) = e.money /\ SumOver({t}, Goods(w)) = e.items
  <2>1. Coins(w)[t] = e.money /\ Goods(w)[t] = e.items
    BY DEF Coins, Goods
  <2>2. Coins(w)[t] \in Nat /\ Goods(w)[t] \in Nat
    BY <1>2, <2>1
  <2> QED
    BY <2>1, <2>2, SumOne
<1>4. /\ OwnedIn(w, a) = p /\ OwnedIn(v, a) = credit(p, e)
      /\ \A b \in Agents \ {a} : OwnedIn(v, b) = OwnedIn(w, b)
      /\ v.transfers[t] = NoOffer
      /\ \A u \in Transfers \ {t} : v.transfers[u] = w.transfers[u]
  BY <1>2, HandedOwn
<1> HIDE DEF e, p, n
<1>5. Emptied(v, w, {t}, a, e.items - n)
  BY <1>2, <1>3, <1>4 DEF Emptied
<1>6. e.items - n \in Nat
  BY <1>2
<1> QED
  BY <1>5, <1>6 DEF e, p, n

\* What is left is sound, if the agent credited has no other open offer.
LEMMA HandedSound ==
  ASSUME NEW w \in Worlds, NEW v \in Worlds, NEW t \in Transfers, NEW a \in Agents,
         Handed(v, w, a, credit(w.purses[a], w.transfers[t].escrow), t, NoOffer),
         LoggedIn(w, a), SameLogins(v, w), Sound(w),
         \A u \in Transfers \ {t} : Live(w, u) => w.transfers[u].from_agent_id \in Agents \ {a}
  PROVE  Sound(v)
<1> DEFINE e == w.transfers[t].escrow
           p == w.purses[a]
           q == credit(p, e)
<1>1. p \in Purse /\ e \in Purse
  BY WorldsFields DEF OfferRecord
<1>2. q \in Purse /\ (p.items <= MaxItems => q.items <= MaxItems)
  BY <1>1, CreditFacts
<1>3. Handed(v, w, a, q, t, NoOffer)
  OBVIOUS
<1> HIDE DEF q, p, e
<1>4. /\ v.purses[a] = q /\ v.registrations[a] = q
      /\ \A b \in Agents \ {a} : /\ v.purses[b] = w.purses[b]
                                 /\ v.registrations[b] = w.registrations[b]
      /\ v.transfers[t] = NoOffer
      /\ \A u \in Transfers \ {t} : v.transfers[u] = w.transfers[u]
  BY <1>2, <1>3, HandedOwn
<1>5. NoOffer.status = "absent"
  BY DEF NoOffer
<1>6. Escrows(v)
  BY <1>4, <1>5 DEF Sound, Escrows, Live
<1>7. Fits(v)
  <2> SUFFICES ASSUME "refund" \notin FailingWrites
               PROVE  /\ \A u \in Transfers : v.transfers[u].status # "refund_failed"
                      /\ \A b \in Agents :
                           /\ v.purses[b].items <= MaxItems
                           /\ Registered(v, b) => v.registrations[b].items <= MaxItems
                      /\ \A u \in Transfers : Live(v, u) =>
                           v.purses[v.transfers[u].from_agent_id].items
                             + v.transfers[u].escrow.items <= MaxItems
    BY DEF Fits
  <2>1. /\ \A u \in Transfers : w.transfers[u].status # "refund_failed"
        /\ \A b \in Agents :
             /\ w.purses[b].items <= MaxItems
             /\ Registered(w, b) => w.registrations[b].items <= MaxItems
        /\ \A u \in Transfers : Live(w, u) =>
             w.purses[w.transfers[u].from_agent_id].items
               + w.transfers[u].escrow.items <= MaxItems
    BY DEF Sound, Fits
  <2>2. \A u \in Transfers : v.transfers[u].status # "refund_failed"
    BY <1>4, <1>5, <2>1
  <2>3. \A b \in Agents :
          /\ v.purses[b].items <= MaxItems
          /\ Registered(v, b) => v.registrations[b].items <= MaxItems
    BY <1>2, <1>4, <2>1 DEF Registered, p
  <2>4. ASSUME NEW u \in Transfers, Live(v, u)
        PROVE  v.purses[v.transfers[u].from_agent_id].items
                 + v.transfers[u].escrow.items <= MaxItems
    <3>1. u # t
      BY <1>4, <1>5, <2>4 DEF Live
    <3>2. Live(w, u) /\ v.transfers[u] = w.transfers[u]
      BY <1>4, <2>4, <3>1 DEF Live
    <3>3. w.transfers[u].from_agent_id \in Agents \ {a}
      BY <3>1, <3>2
    <3> QED
      BY <1>4, <2>1, <3>2, <3>3
  <2> QED
    BY <2>2, <2>3, <2>4
<1> QED
  BY <1>6, <1>7 DEF Sound

\* An open offer is the only one its sender has, and its receiver has none.
LEMMA OnlyOffer ==
  ASSUME NEW w, Good(w), NEW t \in Transfers, Live(w, t)
  PROVE  LET from == w.transfers[t].from_agent_id
             to   == w.transfers[t].to_agent_id
         IN  /\ from \in Agents /\ to \in Agents /\ from # to
             /\ LoggedIn(w, from) /\ LoggedIn(w, to)
             /\ \A u \in Transfers \ {t} : Live(w, u) =>
                  /\ w.transfers[u].from_agent_id \in Agents \ {from}
                  /\ w.transfers[u].from_agent_id \in Agents \ {to}
<1>1. Control(w, None)
  BY DEF Good
<1>2. \A u \in Transfers : Live(w, u) =>
        /\ w.transfers[u].from_agent_id \in Agents
        /\ w.transfers[u].to_agent_id \in Agents
        /\ w.transfers[u].from_agent_id # w.transfers[u].to_agent_id
        /\ w.agents[w.transfers[u].from_agent_id].active_transfer_id = u
        /\ w.agents[w.transfers[u].to_agent_id].active_transfer_id = None
        /\ w.agents[w.transfers[u].from_agent_id].state = "in_transfer"
        /\ w.agents[w.transfers[u].to_agent_id].state = "in_transfer"
  BY <1>1, LiveFacts
<1>3. \A u \in Transfers : u # None
  BY WorldAssumption
<1> QED
  BY <1>2, <1>3 DEF LoggedIn

(***************************************************************************)
(* Refunds, payments and offers.                                           *)
(***************************************************************************)

\* Only writes of a kind that may throw do.
Allowed(faults) == \A f \in faults : f[1] \in FailingWrites

LEMMA AllowedFaults ==
  ASSUME NEW Points, NEW faults \in FaultSets(Points)
  PROVE  Allowed(faults)
BY DEF FaultSets, Allowed

\* A refund, written or failed, is even.
LEMMA RefundEven ==
  ASSUME NEW w, Good(w), Sound(w), NEW v \in Worlds, SameLogins(v, w),
         NEW faults, Allowed(faults),
         NEW t \in Transfers, Live(w, t), Refunded(v, w, t, faults)
  PROVE  Even(v, w)
<1> DEFINE e == w.transfers[t].escrow
           a == w.transfers[t].from_agent_id
           p == w.purses[a]
           n == fitting(p.items, e.items)
<1>1. /\ w \in Worlds /\ a \in Agents /\ LoggedIn(w, a)
      /\ \A u \in Transfers \ {t} : Live(w, u) => w.transfers[u].from_agent_id \in Agents \ {a}
  BY OnlyOffer DEF Good, Control
<1>2. CASE Handed(v, w, a, credit(p, e), t, NoOffer)
  <2>1. Emptied(v, w, {t}, a, e.items - n) /\ e.items - n \in Nat
    BY <1>1, <1>2, HandedEmptied
  <2>2. Sound(v)
    BY <1>1, <1>2, HandedSound
  <2>3. AllFrom(w, {t}, a)
    BY DEF AllFrom
  <2>4. "refund" \notin FailingWrites => e.items - n = 0
    <3>1. e \in Purse /\ p \in Purse
      BY <1>1, WorldsFields DEF OfferRecord
    <3>2. "refund" \notin FailingWrites => p.items + e.items <= MaxItems
      BY DEF Sound, Fits
    <3>3. p.items + e.items <= MaxItems => n = e.items
      BY <3>1, CreditFacts
    <3>4. e.items \in Nat
      BY <3>1 DEF Purse
    <3> HIDE DEF e, p, n
    <3> QED
      BY <3>2, <3>3, <3>4
  <2> DEFINE lost == e.items - n
  <2>5. /\ lost \in Nat /\ Emptied(v, w, {t}, a, lost)
        /\ "refund" \notin FailingWrites => lost = 0
    BY <2>1, <2>4
  <2>6. {t} \in SUBSET Transfers
    OBVIOUS
  <2> HIDE DEF lost, a, e, p, n
  <2> QED
    BY <1>1, <2>2, <2>3, <2>5, <2>6, EmptiedEven
<1>3. CASE /\ <<"refund", t>> \in faults
           /\ v.purses = w.purses /\ v.registrations = w.registrations
           /\ v.transfers = [w.transfers EXCEPT
                ![t] = [w.transfers[t] EXCEPT !.status = "refund_failed"]]
  <2>1. "refund" \in FailingWrites
    <3>1. <<"refund", t>>[1] \in FailingWrites
      BY <1>3 DEF Allowed
    <3> QED
      BY <3>1
  <2>2. w.transfers \in [Transfers -> OfferRecord]
    BY <1>1, WorldsFields
  <2>3. /\ v.transfers[t].status = "refund_failed"
        /\ v.transfers[t].from_agent_id = w.transfers[t].from_agent_id
        /\ v.transfers[t].escrow = w.transfers[t].escrow
        /\ \A u \in Transfers \ {t} : v.transfers[u] = w.transfers[u]
    BY <1>3, <2>2 DEF OfferRecord
  <2>4. \A b \in Agents : OwnedIn(v, b) = OwnedIn(w, b)
    BY <1>3 DEF OwnedIn, Registered, SameLogins
  <2>5. SumOver({}, Coins(w)) = 0 /\ SumOver({}, Goods(w)) = 0
    BY SumZero
  <2>6. /\ OwnedIn(w, a).money \in Nat /\ OwnedIn(w, a).items \in Nat
    BY <1>1, WorthTypes
  <2>7. Emptied(v, w, {}, a, 0)
    BY <1>1, <2>3, <2>4, <2>5, <2>6 DEF Emptied
  <2>8. Sound(v)
    BY <2>1, <2>3 DEF Sound, Escrows, Fits, Live
  <2>9. AllFrom(w, {}, a)
    BY DEF AllFrom
  <2>10. 0 \in Nat /\ {} \in SUBSET Transfers
    OBVIOUS
  <2> HIDE DEF a
  <2> QED
    BY <1>1, <2>7, <2>8, <2>9, <2>10, EmptiedEven
<1> QED
  BY <1>2, <1>3 DEF Refunded

\* Agent from pays e to agent to, out of what its offers hold.
Paid(v, w, from, to, e) ==
  /\ e.money <= MoneyOf(w, from) /\ e.items <= ItemsOf(w, from)
  /\ MoneyOf(v, from) = MoneyOf(w, from) - e.money
  /\ ItemsOf(v, from) = ItemsOf(w, from) - e.items
  /\ MoneyOf(v, to) = MoneyOf(w, to) + e.money
  /\ ItemsOf(v, to) = ItemsOf(w, to) + e.items
  /\ \A b \in Agents \ {from, to} : /\ MoneyOf(v, b) = MoneyOf(w, b)
                                    /\ ItemsOf(v, b) = ItemsOf(w, b)

\* An accepted offer is a payment.
LEMMA SettlePaid ==
  ASSUME NEW w, Good(w), Sound(w), NEW v \in Worlds, SameLogins(v, w),
         NEW t \in Transfers, Live(w, t), NEW a \in Agents,
         w.transfers[t].to_agent_id = a, ~drops(w.purses[a], w.transfers[t].escrow),
         Handed(v, w, a, credit(w.purses[a], w.transfers[t].escrow), t, NoOffer)
  PROVE  /\ Sound(v) /\ Conserved(v, w)
         /\ w.transfers[t].from_agent_id \in Agents \ {a}
         /\ w.transfers[t].escrow \in Payloads
         /\ Paid(v, w, w.transfers[t].from_agent_id, a, w.transfers[t].escrow)
<1> DEFINE e == w.transfers[t].escrow
           from == w.transfers[t].from_agent_id
           p == w.purses[a]
           n == fitting(p.items, e.items)
<1>1. /\ w \in Worlds /\ from \in Agents \ {a} /\ LoggedIn(w, a)
      /\ \A u \in Transfers \ {t} : Live(w, u) => w.transfers[u].from_agent_id \in Agents \ {a}
  BY OnlyOffer DEF Good, Control
<1>2. e \in Purse /\ p \in Purse
  BY <1>1, WorldsFields DEF OfferRecord
<1>3. n = e.items /\ e.items \in Nat /\ e.money \in Nat
  BY <1>2, CreditFacts DEF Purse
<1>4. Emptied(v, w, {t}, a, e.items - n)
  BY <1>1, HandedEmptied
<1>5. e.items - n = 0
  <2> HIDE DEF n, e, p
  <2> QED
    BY <1>3
<1>6. Emptied(v, w, {t}, a, 0) /\ 0 \in Nat /\ {t} \in SUBSET Transfers
  BY <1>4, <1>5
<1>7. Sound(v)
  BY <1>1, HandedSound
<1>8. e \in Payloads
  BY DEF Sound, Escrows
<1>9. SumOver({t}, Coins(w)) = e.money /\ SumOver({t}, Goods(w)) = e.items
  <2>1. Coins(w)[t] = e.money /\ Goods(w)[t] = e.items
    BY DEF Coins, Goods
  <2>2. Coins(w)[t] \in Nat /\ Goods(w)[t] \in Nat
    BY <1>3, <2>1
  <2> QED
    BY <2>1, <2>2, SumOne
<1>10. SumOver({}, Coins(w)) = 0 /\ SumOver({}, Goods(w)) = 0
  BY SumZero
<1>11. /\ SentBy(w, from) \cap {t} = {t}
       /\ \A b \in Agents \ {from} : SentBy(w, b) \cap {t} = {}
  BY DEF SentBy
<1> HIDE DEF e, from, p, n
<1>12. /\ AllMoney(v) = AllMoney(w) /\ AllItems(v) + 0 = AllItems(w)
       /\ AllItems(v) \in Nat
  BY <1>1, <1>6, EmptiedTotal, ShareTypes
<1>13. \A b \in Agents : Shares(v, w, {t}, a, 0, b, SentBy(w, b) \cap {t})
  BY <1>1, <1>6, EmptiedShares
<1>14. \A b \in Agents : /\ MoneyOf(v, b) \in Nat /\ ItemsOf(v, b) \in Nat
                         /\ MoneyOf(w, b) \in Nat /\ ItemsOf(w, b) \in Nat
  BY <1>1, ShareTypes
<1>15. /\ Shares(v, w, {t}, a, 0, from, {t}) /\ Shares(v, w, {t}, a, 0, a, {})
       /\ \A b \in Agents \ {from, a} : Shares(v, w, {t}, a, 0, b, {})
  BY <1>1, <1>11, <1>13
<1>16. /\ MoneyOf(v, from) + e.money = MoneyOf(w, from)
       /\ ItemsOf(v, from) + e.items = ItemsOf(w, from)
  BY <1>1, <1>9, <1>15 DEF Shares
<1>17. /\ MoneyOf(v, a) = MoneyOf(w, a) + e.money
       /\ ItemsOf(v, a) = ItemsOf(w, a) + e.items
  BY <1>3, <1>9, <1>10, <1>14, <1>15 DEF Shares
<1>18. \A b \in Agents \ {from, a} : /\ MoneyOf(v, b) = MoneyOf(w, b)
                                     /\ ItemsOf(v, b) = ItemsOf(w, b)
  BY <1>10, <1>14, <1>15 DEF Shares
<1>19. /\ e.money <= MoneyOf(w, from) /\ e.items <= ItemsOf(w, from)
       /\ MoneyOf(v, from) = MoneyOf(w, from) - e.money
       /\ ItemsOf(v, from) = ItemsOf(w, from) - e.items
  BY <1>1, <1>3, <1>14, <1>16
<1>20. Paid(v, w, from, a, e)
  BY <1>17, <1>18, <1>19 DEF Paid
<1>21. Conserved(v, w)
  BY <1>12 DEF Conserved
<1> QED
  BY <1>1, <1>7, <1>8, <1>20, <1>21 DEF e, from

\* Opening an offer is even: what the sender no longer owns, the offer holds.
LEMMA OpenEven ==
  ASSUME NEW w, Good(w), Sound(w), NEW v \in Worlds, SameLogins(v, w),
         NEW t \in Transfers, w.transfers[t].status = "absent",
         NEW a \in Agents, LoggedIn(w, a), w.agents[a].active_transfer_id = None,
         NEW payload \in Payloads, Covers(w.purses[a], payload),
         Opened(v, w, t, a, payload)
  PROVE  Even(v, w)
<1> DEFINE p == w.purses[a]
           q == debit(p, payload)
<1>1. w \in Worlds /\ p \in Purse /\ payload \in Purse
  BY WorldsFields, EngineAssumption DEF Good, Control
<1>2. /\ q \in Purse /\ q.money + payload.money = p.money
      /\ q.items + payload.items = p.items
      /\ payload.money \in Nat /\ payload.items \in Nat
  <2>1. /\ p.money \in Nat /\ p.items \in Nat
        /\ payload.money \in Nat /\ payload.items \in Nat
        /\ payload.money <= p.money /\ payload.items <= p.items
    BY <1>1 DEF Purse, Covers
  <2>2. q = [money |-> p.money - payload.money, items |-> p.items - payload.items]
    BY <2>1 DEF debit, AtLeastZero
  <2> HIDE DEF p, q
  <2> QED
    BY <2>1, <2>2 DEF Purse
<1>3. PICK o \in OfferRecord :
        /\ o.status = "open" /\ o.from_agent_id = a /\ o.escrow = payload
        /\ Handed(v, w, a, q, t, o)
  BY DEF Opened
<1> HIDE DEF q
<1>4. /\ OwnedIn(w, a) = p /\ OwnedIn(v, a) = q
      /\ \A b \in Agents \ {a} : OwnedIn(v, b) = OwnedIn(w, b)
      /\ v.purses[a] = q /\ v.registrations[a] = q
      /\ \A b \in Agents \ {a} : /\ v.purses[b] = w.purses[b]
                                 /\ v.registrations[b] = w.registrations[b]
      /\ v.transfers[t] = o
      /\ \A u \in Transfers \ {t} : v.transfers[u] = w.transfers[u]
  BY <1>1, <1>2, <1>3, HandedOwn
<1>5. w.transfers[t] = NoOffer
  BY DEF Sound, Escrows
<1>6. SumOver({t}, Coins(v)) = payload.money /\ SumOver({t}, Goods(v)) = payload.items
  <2>1. Coins(v)[t] = payload.money /\ Goods(v)[t] = payload.items
    BY <1>3, <1>4 DEF Coins, Goods
  <2>2. Coins(v)[t] \in Nat /\ Goods(v)[t] \in Nat
    BY <1>2, <2>1
  <2> QED
    BY <2>1, <2>2, SumOne
<1>7. Emptied(w, v, {t}, a, 0)
  <2>1. p.items \in Nat
    BY <1>1 DEF Purse
  <2> HIDE DEF p
  <2> QED
    BY <1>2, <1>4, <1>5, <1>6, <2>1 DEF Emptied
<1>8. AllFrom(v, {t}, a)
  BY <1>3, <1>4 DEF AllFrom
<1>9. 0 \in Nat /\ {t} \in SUBSET Transfers
  OBVIOUS
<1>10. /\ AllMoney(w) = AllMoney(v) /\ AllItems(w) + 0 = AllItems(v)
       /\ \A b \in Agents : KeepsShare(w, v, a, 0, b)
  BY <1>1, <1>7, <1>8, <1>9, EmptiedWorth
<1>11. /\ AllItems(v) \in Nat /\ AllItems(w) \in Nat
       /\ \A b \in Agents : /\ MoneyOf(v, b) \in Nat /\ ItemsOf(v, b) \in Nat
                            /\ MoneyOf(w, b) \in Nat /\ ItemsOf(w, b) \in Nat
  BY <1>1, ShareTypes
<1>12. Conserved(v, w) /\ NoGain(v, w)
  BY <1>10, <1>11 DEF Conserved, NoGain, KeepsShare
<1>13. Escrows(v)
  BY <1>3, <1>4 DEF Sound, Escrows, Live
<1>14. Fits(v)
  <2> SUFFICES ASSUME "refund" \notin FailingWrites
               PROVE  /\ \A u \in Transfers : v.transfers[u].status # "refund_failed"
                      /\ \A b \in Agents :
                           /\ v.purses[b].items <= MaxItems
                           /\ Registered(v, b) => v.registrations[b].items <= MaxItems
                      /\ \A u \in Transfers : Live(v, u) =>
                           v.purses[v.transfers[u].from_agent_id].items
                             + v.transfers[u].escrow.items <= MaxItems
    BY DEF Fits
  <2>1. /\ \A u \in Transfers : w.transfers[u].status # "refund_failed"
        /\ \A b \in Agents :
             /\ w.purses[b].items <= MaxItems
             /\ Registered(w, b) => w.registrations[b].items <= MaxItems
        /\ \A u \in Transfers : Live(w, u) =>
             w.purses[w.transfers[u].from_agent_id].items
               + w.transfers[u].escrow.items <= MaxItems
    BY DEF Sound, Fits
  <2>2. /\ q.items <= MaxItems /\ q.items + payload.items <= MaxItems
    <3>1. p.items <= MaxItems
      BY <2>1
    <3>2. p.items \in Nat /\ q.items \in Nat /\ MaxItems \in Nat
      BY <1>1, <1>2, WorldAssumption DEF Purse
    <3> HIDE DEF p
    <3> QED
      BY <1>2, <3>1, <3>2
  <2>3. \A u \in Transfers : v.transfers[u].status # "refund_failed"
    BY <1>3, <1>4, <2>1
  <2>4. \A b \in Agents :
          /\ v.purses[b].items <= MaxItems
          /\ Registered(v, b) => v.registrations[b].items <= MaxItems
    BY <1>4, <2>1, <2>2 DEF Registered
  <2>5. ASSUME NEW u \in Transfers, Live(v, u)
        PROVE  v.purses[v.transfers[u].from_agent_id].items
                 + v.transfers[u].escrow.items <= MaxItems
    <3>1. CASE u = t
      BY <1>3, <1>4, <2>2, <3>1
    <3>2. CASE u # t
      <4>1. Live(w, u) /\ v.transfers[u] = w.transfers[u]
        BY <1>4, <2>5, <3>2 DEF Live
      <4>2. /\ w.transfers[u].from_agent_id \in Agents
            /\ w.agents[w.transfers[u].from_agent_id].active_transfer_id = u
        BY <4>1, LiveFacts DEF Good
      <4>3. w.transfers[u].from_agent_id # a
        BY <4>2, WorldAssumption
      <4> QED
        BY <1>4, <2>1, <4>1, <4>2, <4>3
    <3> QED
      BY <3>1, <3>2
  <2> QED
    BY <2>3, <2>4, <2>5
<1> QED
  BY <1>12, <1>13, <1>14 DEF Even, Sound

(***************************************************************************)
(* Commands.                                                               *)
(***************************************************************************)

\* After an even step, one that leaves the stores alone.
LEMMA ThenSame ==
  ASSUME NEW w, Good(w), NEW u, Good(u), NEW v, Good(v),
         Keeps(u, w), Keeps(v, w), Even(u, w), SameStores(v, u)
  PROVE  Even(v, w)
<1>1. w \in Worlds /\ u \in Worlds /\ v \in Worlds
  BY DEF Good, Control
<1>2. SameLogins(v, u) /\ Sound(u)
  BY DEF Keeps, SameLogins, Even
<1>3. Even(v, u)
  BY <1>1, <1>2, SameEven
<1> QED
  BY <1>1, <1>3, EvenTwice

\* Nothing at all is even.
LEMMA SelfEven ==
  ASSUME NEW w, Good(w), Sound(w)
  PROVE  Even(w, w)
BY SameEven DEF Good, Control, SameStores, SameLogins

\* A step that only leaves the stores alone.
LEMMA KeepsEven ==
  ASSUME NEW w, Good(w), Sound(w), NEW v, Good(v), Keeps(v, w), SameStores(v, w)
  PROVE  Even(v, w)
BY SameEven DEF Good, Control, Keeps, SameLogins

\* A refund by another name.
LEMMA KeepsRefundEven ==
  ASSUME NEW w, Good(w), Sound(w), NEW v, Good(v), Keeps(v, w),
         NEW faults, Allowed(faults),
         NEW t \in Transfers, Live(w, t), Refunded(v, w, t, faults)
  PROVE  Even(v, w)
<1>1. v \in Worlds /\ SameLogins(v, w)
  BY DEF Good, Control, Keeps, SameLogins
<1> QED
  BY <1>1, RefundEven

\* The interruption before a command is even, and starts no offer.
LEMMA InterruptionEven ==
  ASSUME NEW w, Good(w), Sound(w), NEW a \in Agents, NEW faults, Allowed(faults)
  PROVE  LET v == handleServerAnnouncementInterruption(w, a, faults)
         IN  /\ Even(v, w)
             /\ \A t \in Transfers : w.transfers[t].status = "absent" =>
                  v.transfers[t].status = "absent"
<1> DEFINE v == handleServerAnnouncementInterruption(w, a, faults)
<1>1. /\ Good(v) /\ Keeps(v, w)
      /\ \/ SameStores(v, w)
         \/ \E t \in Transfers : Live(w, t) /\ Refunded(v, w, t, faults)
  BY InterruptionLemma
<1> HIDE DEF v
<1>2. CASE SameStores(v, w)
  BY <1>1, <1>2, KeepsEven DEF SameStores, v
<1>3. ASSUME NEW t \in Transfers, Live(w, t), Refunded(v, w, t, faults)
      PROVE  /\ Even(v, w)
             /\ \A u \in Transfers : w.transfers[u].status = "absent" =>
                  v.transfers[u].status = "absent"
  <2>1. Even(v, w)
    BY <1>1, <1>3, KeepsRefundEven
  <2>2. w.transfers \in [Transfers -> OfferRecord]
    BY WorldsFields DEF Good, Control
  <2>3. \A u \in Transfers \ {t} : v.transfers[u] = w.transfers[u]
    BY <1>3, <2>2 DEF Refunded, Handed
  <2> QED
    BY <1>3, <2>1, <2>3 DEF Live
<1> QED
  BY <1>1, <1>2, <1>3 DEF v

\* An activity starts without touching the stores.
LEMMA StartSame ==
  ASSUME NEW w \in Worlds, NEW a \in Agents, NEW s \in AgentStates,
         NEW type \in TimerTypes, NEW about \in Transfers \cup Actions \cup {None}
  PROVE  SameStores(startActivity(w, a, s, type, about), w)
<1>1. Updates(startActivity(w, a, s, type, about), w,
              [w.agents EXCEPT ![a].state = s, ![a].excluded = {}],
              Without(w.timers, a, {"idle_reminder", type})
                \cup {Timer(type, {a}, about)})
  BY StartActivityLemma
<1> QED
  BY <1>1 DEF Updates, SameStores

\* move is even.
LEMMA MoveEven ==
  ASSUME NEW w, Good(w), Sound(w), NEW a \in Agents, requireActionableAgent(w, a),
         NEW faults, Allowed(faults)
  PROVE  Even(executeValidatedMove(
                handleServerAnnouncementInterruption(w, a, faults), a), w)
<1> DEFINE u == handleServerAnnouncementInterruption(w, a, faults)
           v == executeValidatedMove(u, a)
<1>1. Good(u) /\ Keeps(u, w) /\ Even(u, w)
  BY InterruptionLemma, InterruptionEven
<1>2. Good(v) /\ Keeps(v, w)
  BY MoveLemma
<1> HIDE DEF u
<1>3. SameStores(v, u)
  <2>1. u \in Worlds /\ "moving" \in AgentStates /\ "movement" \in TimerTypes
    BY <1>1 DEF Good, Control, AgentStates, TimerTypes
  <2> QED
    BY <2>1, StartSame DEF executeValidatedMove
<1> HIDE DEF v
<1>4. Even(v, w)
  BY <1>1, <1>2, <1>3, ThenSame
<1> QED
  BY <1>4 DEF u, v

\* executeWait is even.
LEMMA WaitEven ==
  ASSUME NEW w, Good(w), Sound(w), NEW a \in Agents, requireActionableAgent(w, a),
         NEW faults, Allowed(faults)
  PROVE  Even(executeValidatedWait(
                handleServerAnnouncementInterruption(w, a, faults), a), w)
<1> DEFINE u == handleServerAnnouncementInterruption(w, a, faults)
           v == executeValidatedWait(u, a)
<1>1. Good(u) /\ Keeps(u, w) /\ Even(u, w)
  BY InterruptionLemma, InterruptionEven
<1>2. Good(v) /\ Keeps(v, w)
  BY WaitLemma
<1> HIDE DEF u
<1>3. SameStores(v, u)
  <2>1. u \in Worlds /\ "in_action" \in AgentStates /\ "wait" \in TimerTypes
    BY <1>1 DEF Good, Control, AgentStates, TimerTypes, ActivityTypes
  <2> QED
    BY <2>1, StartSame DEF executeValidatedWait
<1> HIDE DEF v
<1>4. Even(v, w)
  BY <1>1, <1>2, <1>3, ThenSame
<1> QED
  BY <1>4 DEF u, v

\* useItem is even: the item goes when the use is complete.
LEMMA UseEven ==
  ASSUME NEW w, Good(w), Sound(w), NEW a \in Agents, requireActionableAgent(w, a),
         NEW faults, Allowed(faults), NEW item_type
  PROVE  Even(executeValidatedUseItem(
                handleServerAnnouncementInterruption(w, a, faults), a, item_type), w)
<1> DEFINE u == handleServerAnnouncementInterruption(w, a, faults)
           v == executeValidatedUseItem(u, a, item_type)
<1>1. Good(u) /\ Keeps(u, w) /\ Even(u, w)
  BY InterruptionLemma, InterruptionEven
<1>2. Good(v) /\ Keeps(v, w)
  BY UseItemLemma
<1> HIDE DEF u
<1>3. SameStores(v, u)
  <2>1. u \in Worlds /\ "in_action" \in AgentStates /\ "item_use" \in TimerTypes
    BY <1>1 DEF Good, Control, AgentStates, TimerTypes, ActivityTypes
  <2>2. CASE item_type = "venue"
    BY <2>1, <2>2, ClearExcludedLemma DEF executeValidatedUseItem, Updates, SameStores
  <2>3. CASE item_type # "venue"
    BY <2>1, <2>3, StartSame DEF executeValidatedUseItem
  <2> QED
    BY <2>2, <2>3
<1> HIDE DEF v
<1>4. Even(v, w)
  BY <1>1, <1>2, <1>3, ThenSame
<1> QED
  BY <1>4 DEF u, v

\* A refused action is even.
LEMMA RejectActionEven ==
  ASSUME NEW w, Good(w), Sound(w), NEW a \in Agents, NEW faults, Allowed(faults)
  PROVE  Even(handleServerAnnouncementInterruption(
                clearExcludedInfoCommands(w, a), a, faults), w)
<1> DEFINE u == clearExcludedInfoCommands(w, a)
           v == handleServerAnnouncementInterruption(u, a, faults)
<1>1. Good(u) /\ Keeps(u, w)
  BY ClearExcludedGood
<1>2. SameStores(u, w) /\ w \in Worlds
  BY ClearExcludedLemma DEF Updates, SameStores, Good, Control
<1> HIDE DEF u
<1>3. Even(u, w)
  BY <1>1, <1>2, KeepsEven
<1>4. Even(v, u) /\ Good(v)
  BY <1>1, <1>3, InterruptionEven, InterruptionLemma DEF Even
<1> HIDE DEF v
<1>5. Even(v, w)
  BY <1>1, <1>2, <1>3, <1>4, EvenTwice DEF Good, Control
<1> QED
  BY <1>5 DEF u, v

\* A transfer request is even, accepted or refused.
LEMMA OfferEven ==
  ASSUME NEW w, Good(w), Sound(w), NEW a \in Agents, NEW to \in Agents,
         NEW payload \in Payloads, NEW t \in Transfers,
         w.transfers[t].status = "absent", NEW faults, Allowed(faults)
  PROVE  LET u == handleServerAnnouncementInterruption(w, a, faults)
             v == startTransfer(u, t, a, to, payload, faults)
         IN  /\ Even(u, w)
             /\ validateTransfer(u, a, to, payload) => Even(v, w)
<1> DEFINE u == handleServerAnnouncementInterruption(w, a, faults)
           v == startTransfer(u, t, a, to, payload, faults)
<1>1. /\ Good(u) /\ Keeps(u, w) /\ Even(u, w) /\ u.transfers[t].status = "absent"
  <2>1. Good(u) /\ Keeps(u, w)
    BY InterruptionLemma
  <2>2. /\ Even(u, w)
        /\ \A s \in Transfers : w.transfers[s].status = "absent" =>
             u.transfers[s].status = "absent"
    BY InterruptionEven
  <2> HIDE DEF u
  <2> QED
    BY <2>1, <2>2
<1> HIDE DEF u
<1>2. ASSUME validateTransfer(u, a, to, payload)
      PROVE  Even(v, w)
  <2>1. /\ a # to /\ Free(u, a) /\ Free(u, to) /\ LoggedIn(u, a)
        /\ u.agents[a].active_transfer_id = None /\ Covers(u.purses[a], payload)
    BY <1>2 DEF validateTransfer, validateTransferState, isInTransfer, Free
  <2>2. payload \in Purse /\ ~Live(u, t)
    BY <1>1, EngineAssumption DEF Live
  <2>3. /\ Good(v) /\ Keeps(v, u)
        /\ SameStores(v, u) \/ Opened(v, u, t, a, payload)
    BY <1>1, <2>1, <2>2, StartTransferLemma
  <2> HIDE DEF v
  <2>4. /\ w \in Worlds /\ u \in Worlds /\ v \in Worlds /\ Sound(u)
        /\ SameLogins(v, u)
    BY <1>1, <2>3 DEF Good, Control, Even, Keeps, SameLogins
  <2>5. CASE SameStores(v, u)
    BY <1>1, <2>3, <2>4, <2>5, SameEven, EvenTwice
  <2>6. CASE Opened(v, u, t, a, payload)
    <3>1. Even(v, u)
      BY <1>1, <2>1, <2>4, <2>6, OpenEven
    <3> QED
      BY <1>1, <2>4, <3>1, EvenTwice
  <2> QED
    BY <2>3, <2>5, <2>6
<1> QED
  BY <1>1, <1>2 DEF u

(***************************************************************************)
(* Answers, timers and announcements.                                      *)
(***************************************************************************)

\* A rejected offer is even.
LEMMA RejectEven ==
  ASSUME NEW w, Good(w), Sound(w), NEW t \in Transfers, Live(w, t), NEW a \in Agents,
         NEW faults, Allowed(faults)
  PROVE  Even(rejectTransfer(w, t, a, faults), w)
<1> DEFINE u == finalizeRefund(w, t, faults)
           v == rejectTransfer(w, t, a, faults)
<1>1. Good(u) /\ Keeps(u, w) /\ Refunded(u, w, t, faults)
  BY CancelTransferLemma
<1>2. Good(v) /\ Keeps(v, w)
  BY RejectTransferLemma
<1>3. v = clearExcludedInfoCommands(u, a)
  BY DEF rejectTransfer
<1> HIDE DEF u, v
<1>4. Even(u, w)
  BY <1>1, KeepsRefundEven
<1>5. Updates(v, u, [u.agents EXCEPT ![a].excluded = {}], u.timers)
  BY <1>1, <1>3, ClearExcludedLemma DEF Good, Control
<1>6. Even(v, w)
  BY <1>1, <1>2, <1>4, <1>5, ThenSame DEF Updates, SameStores
<1> QED
  BY <1>6 DEF v

\* One agent pays another, with nothing made or lost.
Payment(v, w) ==
  /\ Sound(v) /\ Conserved(v, w)
  /\ \E from, to \in Agents, e \in Payloads : from # to /\ Paid(v, w, from, to, e)

\* An accepted offer is a payment, or a refund when the receiver cannot take it.
LEMMA AcceptEven ==
  ASSUME NEW w, Good(w), Sound(w), NEW t \in Transfers, NEW a \in Agents,
         canAcceptTransfer(w, t, a), NEW faults, Allowed(faults)
  PROVE  LET v == acceptTransfer(w, t, a, faults)
         IN  Even(v, w) \/ Payment(v, w)
<1> DEFINE v == acceptTransfer(w, t, a, faults)
<1>1. Live(w, t) /\ w.transfers[t].to_agent_id = a
  BY DEF canAcceptTransfer, canRejectTransfer
<1>2. CASE cannotReceive(w, t, a, faults)
  <2>1. v = cancelTransfer(w, t, faults)
    BY <1>2 DEF acceptTransfer
  <2>2. Good(v) /\ Keeps(v, w) /\ Refunded(v, w, t, faults)
    BY <1>1, <2>1, CancelTransferLemma
  <2> HIDE DEF v
  <2>3. Even(v, w)
    BY <1>1, <2>2, KeepsRefundEven
  <2> QED
    BY <2>3 DEF v
<1>3. CASE ~cannotReceive(w, t, a, faults) /\ drops(w.purses[a], w.transfers[t].escrow)
  BY <1>1, <1>3, RejectEven DEF acceptTransfer
<1>4. CASE ~cannotReceive(w, t, a, faults) /\ ~drops(w.purses[a], w.transfers[t].escrow)
  <2>1. v = settleAccept(w, t, a)
    BY <1>4 DEF acceptTransfer
  <2>2. /\ Good(v) /\ Keeps(v, w)
        /\ Handed(v, w, a, credit(w.purses[a], w.transfers[t].escrow), t, NoOffer)
    BY <1>1, <2>1, SettleAcceptLemma
  <2> HIDE DEF v
  <2>3. v \in Worlds /\ SameLogins(v, w)
    BY <2>2 DEF Good, Control, Keeps, SameLogins
  <2>4. /\ Sound(v) /\ Conserved(v, w)
        /\ w.transfers[t].from_agent_id \in Agents \ {a}
        /\ w.transfers[t].escrow \in Payloads
        /\ Paid(v, w, w.transfers[t].from_agent_id, a, w.transfers[t].escrow)
    BY <1>1, <1>4, <2>2, <2>3, SettlePaid
  <2>5. Payment(v, w)
    BY <2>4 DEF Payment
  <2> QED
    BY <2>5 DEF v
<1> QED
  BY <1>2, <1>3, <1>4

\* An agent in its window is no longer pending when it answers.
LEMMA ReadyToAccept ==
  ASSUME NEW w, Good(w), NEW t \in Transfers, NEW a \in Agents, LoggedIn(w, a),
         NEW faults,
         canAcceptTransfer(handleServerAnnouncementInterruption(w, a, faults), t, a)
  PROVE  handleServerAnnouncementInterruption(w, a, faults) = w
<1> DEFINE u == handleServerAnnouncementInterruption(w, a, faults)
<1>1. /\ Good(u) /\ (~w.agents[a].announced => u = w)
      /\ requireActionableAgent(w, a) => u.agents[a].state = "idle"
  BY InterruptionLemma
<1>2. u.agents[a].pending_transfer_id = t /\ t # None
  BY WorldAssumption DEF canAcceptTransfer
<1> HIDE DEF u
<1>3. u.agents[a].state = "in_transfer"
  BY <1>1, <1>2 DEF Good, Control, Roles, Backed, isInTransfer
<1>4. ~requireActionableAgent(w, a)
  BY <1>1, <1>3
<1>5. ~w.agents[a].announced
  BY <1>4 DEF requireActionableAgent
<1> QED
  BY <1>1, <1>5 DEF u

\* A timer that is gone leaves the stores alone.
LEMMA CancelSame ==
  ASSUME NEW w \in Worlds, NEW x
  PROVE  SameStores(cancel(w, x), w)
BY DEF cancel, Worlds, SameStores

\* An expired offer is even.
LEMMA TimeoutEven ==
  ASSUME NEW w, Good(w), Sound(w), NEW x \in w.timers, x.type = "transfer",
         NEW faults, Allowed(faults)
  PROVE  Even(handleTransferTimeout(w, x, faults), w)
<1> DEFINE t == x.about
           u == cancel(w, x)
           v == handleTransferTimeout(w, x, faults)
<1>1. /\ t \in Transfers /\ Live(w, t) /\ Control(u, t) /\ Live(u, t)
  BY FiredTimer
<1>2. Good(v) /\ Keeps(v, w)
  BY TransferTimeoutLemma
<1>3. v = finalizeRefund(u, t, faults)
  BY <1>1 DEF handleTransferTimeout
<1>4. SameStores(u, w)
  BY CancelSame DEF Good, Control
<1> HIDE DEF u, v
<1>5. Refunded(v, u, t, faults)
  BY <1>1, <1>3, FinalizeRefundLemma
<1>6. Refunded(v, w, t, faults)
  BY <1>4, <1>5 DEF Refunded, Handed, SameStores
<1>7. Even(v, w)
  BY <1>1, <1>2, <1>6, KeepsRefundEven
<1> QED
  BY <1>7 DEF v

\* Reminders are even.
LEMMA ReminderEven ==
  ASSUME NEW w, Good(w), Sound(w), NEW a \in Agents, NEW x \in w.timers,
         a \in x.agent_ids, x.type = "idle_reminder"
  PROVE  Even(handleIdleReminderFired(w, x, a), w)
<1> DEFINE v == handleIdleReminderFired(w, x, a)
<1>1. Good(v) /\ Keeps(v, w)
  BY IdleReminderFiredLemma
<1>2. SameStores(v, w)
  BY DEF handleIdleReminderFired, create, cancel, SameStores, Good, Control, Worlds
<1> HIDE DEF v
<1>3. Even(v, w)
  BY <1>1, <1>2, KeepsEven
<1> QED
  BY <1>3 DEF v

\* Becoming idle leaves the stores alone.
LEMMA IdleSame ==
  ASSUME NEW w \in Worlds, NEW a \in Agents
  PROVE  SameStores(becomeIdle(w, a), w)
BY BecomeIdleLemma DEF Updates, SameStores

\* The end of a wait is even.
LEMMA WaitCompletedEven ==
  ASSUME NEW w, Good(w), Sound(w), NEW a \in Agents, NEW x \in w.timers,
         a \in x.agent_ids, x.type = "wait"
  PROVE  Even(handleWaitCompleted(w, x, a), w)
<1> DEFINE u == cancel(w, x)
           v == handleWaitCompleted(w, x, a)
<1>1. Good(v) /\ Keeps(v, w)
  BY WaitCompletedLemma
<1>2. u \in Worlds /\ LoggedIn(w, a)
  BY ActivityFired DEF ActivityTypes
<1>3. v = becomeIdle(u, a) /\ SameStores(u, w)
  BY <1>2, CancelSame DEF handleWaitCompleted, Good, Control
<1> HIDE DEF u, v
<1>4. SameStores(v, w)
  BY <1>2, <1>3, IdleSame DEF SameStores
<1>5. Even(v, w)
  BY <1>1, <1>4, KeepsEven
<1> QED
  BY <1>5 DEF v

\* An arrival is even.
LEMMA MovementCompletedEven ==
  ASSUME NEW w, Good(w), Sound(w), NEW a \in Agents, NEW x \in w.timers,
         a \in x.agent_ids, x.type = "movement"
  PROVE  Even(handleMovementCompleted(w, x, a), w)
<1> DEFINE u == cancel(w, x)
           y == becomeIdle(u, a)
           v == handleMovementCompleted(w, x, a)
<1>1. Good(v) /\ Keeps(v, w)
  BY MovementCompletedLemma
<1>2. LoggedIn(w, a) /\ SameStores(u, w) /\ w \in Worlds
  BY CancelSame DEF Good, Control, Timing, Timed, LoggedIn
<1>3. v = handlePendingServerAnnouncements(y, a)
  BY <1>2 DEF handleMovementCompleted
<1>4. u \in Worlds
  BY <1>2, WorldsFields DEF cancel, Worlds
<1> HIDE DEF u
<1>5. SameStores(y, u) /\ y \in Worlds
  BY <1>4, IdleSame, BecomeIdleLemma DEF Updates
<1> HIDE DEF y, v
<1>6. SameStores(v, w)
  BY <1>2, <1>3, <1>5, DeliverLemma DEF SameStores, Delivered
<1>7. Even(v, w)
  BY <1>1, <1>6, KeepsEven
<1> QED
  BY <1>7 DEF v

\* Announcements, their delivery and info requests are even.
LEMMA AnnounceEven ==
  ASSUME NEW w, Good(w), Sound(w), NEW n \in Announcements, unusedAnnouncement(w, n)
  PROVE  Even(fireServerAnnouncement(w, n), w)
<1> DEFINE v == fireServerAnnouncement(w, n)
<1>1. Good(v) /\ Keeps(v, w)
  BY AnnounceLemma
<1>2. SameStores(v, w)
  BY DEF fireServerAnnouncement, SameStores, Good, Control, Worlds
<1> HIDE DEF v
<1>3. Even(v, w)
  BY <1>1, <1>2, KeepsEven
<1> QED
  BY <1>3 DEF v

LEMMA DeliveryEven ==
  ASSUME NEW w, Good(w), Sound(w), NEW a \in Agents
  PROVE  Even(clearActiveServerAnnouncement(w, a), w)
<1> DEFINE v == clearActiveServerAnnouncement(w, a)
<1>1. Good(v) /\ Keeps(v, w) /\ SameStores(v, w)
  BY ClearWindowGood
<1> HIDE DEF v
<1>2. Even(v, w)
  BY <1>1, KeepsEven
<1> QED
  BY <1>2 DEF v

LEMMA InfoEven ==
  ASSUME NEW w, Good(w), Sound(w), NEW a \in Agents, NEW command \in InfoCommands
  PROVE  Even([w EXCEPT !.agents = [w.agents EXCEPT ![a].excluded = @ \cup {command}]], w)
<1> DEFINE A == [w.agents EXCEPT ![a].excluded = @ \cup {command}]
           v == [w EXCEPT !.agents = A]
<1>1. Good(v) /\ Keeps(v, w)
  BY InfoLemma
<1>2. SameStores(v, w)
  <2> HIDE DEF A
  <2> QED
    BY DEF SameStores, Good, Control, Worlds
<1> HIDE DEF v
<1>3. Even(v, w)
  BY <1>1, <1>2, KeepsEven
<1> QED
  BY <1>3 DEF v

(***************************************************************************)
(* Paying and earning.                                                     *)
(***************************************************************************)

\* The purse of a logged-in agent changes, its registration with it or not.
Changed(v, w, a, p) ==
  /\ v.transfers = w.transfers
  /\ v.purses[a] = p /\ v.registrations[a] \in {p, w.registrations[a]}
  /\ \A b \in Agents \ {a} : /\ v.purses[b] = w.purses[b]
                             /\ v.registrations[b] = w.registrations[b]

\* What agents own and their offers hold, with another purse for agent a.
LEMMA ChangedWorth ==
  ASSUME NEW w \in Worlds, NEW v \in Worlds, NEW a \in Agents, NEW p \in Purse,
         Changed(v, w, a, p), LoggedIn(w, a), SameLogins(v, w)
  PROVE  /\ MoneyOf(v, a) + w.purses[a].money = MoneyOf(w, a) + p.money
         /\ ItemsOf(v, a) + w.purses[a].items = ItemsOf(w, a) + p.items
         /\ \A b \in Agents \ {a} : /\ MoneyOf(v, b) = MoneyOf(w, b)
                                    /\ ItemsOf(v, b) = ItemsOf(w, b)
<1>1. Coins(v) = Coins(w) /\ Goods(v) = Goods(w) /\ \A b : SentBy(v, b) = SentBy(w, b)
  BY DEF Coins, Goods, SentBy, Changed
<1>2. /\ OwnedIn(w, a) = w.purses[a] /\ OwnedIn(v, a) = p
      /\ \A b \in Agents \ {a} : OwnedIn(v, b) = OwnedIn(w, b)
  BY DEF OwnedIn, Changed, SameLogins, Registered
<1>3. /\ IsFiniteSet(SentBy(w, a)) /\ SentBy(w, a) \in SUBSET Transfers
  BY WorldAssumption, FS_Subset DEF SentBy
<1>4. \A t \in Transfers : Coins(w)[t] \in Nat /\ Goods(w)[t] \in Nat
  BY WorthTypes
<1> DEFINE m == SumOver(SentBy(w, a), Coins(w))
           i == SumOver(SentBy(w, a), Goods(w))
<1>5. m \in Nat /\ i \in Nat
  BY <1>3, <1>4, SumInNat
<1>6. /\ MoneyOf(w, a) = w.purses[a].money + m /\ MoneyOf(v, a) = p.money + m
      /\ ItemsOf(w, a) = w.purses[a].items + i /\ ItemsOf(v, a) = p.items + i
  BY <1>1, <1>2 DEF MoneyOf, ItemsOf
<1>7. /\ w.purses[a].money \in Nat /\ w.purses[a].items \in Nat
      /\ p.money \in Nat /\ p.items \in Nat
  BY WorldsFields DEF Purse
<1> HIDE DEF m, i
<1>8. /\ MoneyOf(v, a) + w.purses[a].money = MoneyOf(w, a) + p.money
      /\ ItemsOf(v, a) + w.purses[a].items = ItemsOf(w, a) + p.items
  BY <1>5, <1>6, <1>7
<1>9. \A b \in Agents \ {a} : MoneyOf(v, b) = MoneyOf(w, b) /\ ItemsOf(v, b) = ItemsOf(w, b)
  BY <1>1, <1>2 DEF MoneyOf, ItemsOf
<1> QED
  BY <1>8, <1>9

\* An agent without an offer may own what fits.
LEMMA ChangedSound ==
  ASSUME NEW w, Good(w), Sound(w), NEW v \in Worlds, NEW a \in Agents,
         NEW p \in Purse, Changed(v, w, a, p), w.agents[a].state # "in_transfer",
         w.purses[a].items <= MaxItems => p.items <= MaxItems
  PROVE  Sound(v)
<1>1. Escrows(v)
  BY DEF Sound, Escrows, Live, Changed
<1>2. ASSUME NEW t \in Transfers, Live(w, t)
      PROVE  w.transfers[t].from_agent_id \in Agents \ {a}
  BY <1>2, LiveFacts DEF Good
<1>3. Fits(v)
  BY <1>2 DEF Sound, Fits, Changed, Live, Registered
<1> QED
  BY <1>1, <1>3 DEF Sound

\* Who pays gains nothing.
LEMMA PoorerGain ==
  ASSUME NEW w \in Worlds, NEW v \in Worlds, NEW a \in Agents, NEW p \in Purse,
         Changed(v, w, a, p), LoggedIn(w, a), SameLogins(v, w),
         p.money <= w.purses[a].money, p.items <= w.purses[a].items
  PROVE  NoGain(v, w)
<1>1. /\ MoneyOf(v, a) + w.purses[a].money = MoneyOf(w, a) + p.money
      /\ ItemsOf(v, a) + w.purses[a].items = ItemsOf(w, a) + p.items
      /\ \A b \in Agents \ {a} : /\ MoneyOf(v, b) = MoneyOf(w, b)
                                 /\ ItemsOf(v, b) = ItemsOf(w, b)
  BY ChangedWorth
<1>2. /\ \A b \in Agents : /\ MoneyOf(v, b) \in Nat /\ ItemsOf(v, b) \in Nat
                           /\ MoneyOf(w, b) \in Nat /\ ItemsOf(w, b) \in Nat
  BY ShareTypes
<1>3. /\ w.purses[a].money \in Nat /\ w.purses[a].items \in Nat
      /\ p.money \in Nat /\ p.items \in Nat
  BY WorldsFields DEF Purse
<1>4. MoneyOf(v, a) <= MoneyOf(w, a) /\ ItemsOf(v, a) <= ItemsOf(w, a)
  BY <1>1, <1>2, <1>3
<1>5. \A b \in Agents \ {a} : MoneyOf(v, b) <= MoneyOf(w, b) /\ ItemsOf(v, b) <= ItemsOf(w, b)
  BY <1>1, <1>2
<1> QED
  BY <1>4, <1>5 DEF NoGain

\* A debit leaves no more than there was.
LEMMA DebitFacts ==
  ASSUME NEW p \in Purse, NEW q \in Purse
  PROVE  /\ debit(p, q) \in Purse
         /\ debit(p, q).money <= p.money /\ debit(p, q).items <= p.items
BY DEF debit, AtLeastZero, Purse

\* Agent a collects the reward of action x, as far as it fits.
Earned(v, w, a, x) ==
  /\ MoneyOf(v, a) = MoneyOf(w, a) + Catalogue[x].reward.money
  /\ \E n \in 0 .. Catalogue[x].reward.items : ItemsOf(v, a) = ItemsOf(w, a) + n
  /\ \A b \in Agents \ {a} : /\ MoneyOf(v, b) = MoneyOf(w, b)
                             /\ ItemsOf(v, b) = ItemsOf(w, b)

\* A credited purse earns.
LEMMA RicherEarned ==
  ASSUME NEW w \in Worlds, NEW v \in Worlds, NEW a \in Agents, NEW x \in Actions,
         Changed(v, w, a, credit(w.purses[a], Catalogue[x].reward)),
         LoggedIn(w, a), SameLogins(v, w)
  PROVE  Earned(v, w, a, x)
<1> DEFINE q == Catalogue[x].reward
           r == w.purses[a]
           p == credit(r, q)
           n == fitting(r.items, q.items)
<1>1. q \in Purse /\ r \in Purse
  BY WorldAssumption, WorldsFields
<1>2. /\ n \in Nat /\ n <= q.items /\ p \in Purse
      /\ p.money = r.money + q.money /\ p.items = r.items + n
  BY <1>1, CreditFacts
<1>3. /\ r.money \in Nat /\ r.items \in Nat /\ q.money \in Nat /\ q.items \in Nat
  BY <1>1 DEF Purse
<1> HIDE DEF p, n
<1>4. /\ MoneyOf(v, a) + r.money = MoneyOf(w, a) + p.money
      /\ ItemsOf(v, a) + r.items = ItemsOf(w, a) + p.items
      /\ \A b \in Agents \ {a} : /\ MoneyOf(v, b) = MoneyOf(w, b)
                                 /\ ItemsOf(v, b) = ItemsOf(w, b)
  BY <1>2, ChangedWorth DEF p
<1>5. /\ MoneyOf(v, a) \in Nat /\ ItemsOf(v, a) \in Nat
      /\ MoneyOf(w, a) \in Nat /\ ItemsOf(w, a) \in Nat
  BY ShareTypes
<1> HIDE DEF q, r
<1>6. MoneyOf(v, a) = MoneyOf(w, a) + q.money /\ ItemsOf(v, a) = ItemsOf(w, a) + n
  BY <1>2, <1>3, <1>4, <1>5
<1>7. n \in 0 .. q.items
  BY <1>2, <1>3
<1> QED
  BY <1>4, <1>6, <1>7 DEF Earned, q

\* What leaves the stores as a change left them, has made that change.
LEMMA ChangedSame ==
  ASSUME NEW w, NEW u, NEW v, NEW a, NEW p, Changed(u, w, a, p), SameStores(v, u)
  PROVE  Changed(v, w, a, p)
BY DEF Changed, SameStores

\* An action that starts costs, and nobody gains.
LEMMA ActionPays ==
  ASSUME NEW w, Good(w), Sound(w), NEW a \in Agents, NEW x \in Actions,
         requireActionableAgent(w, a), NEW faults, Allowed(faults),
         <<"activity", a>> \in faults => "activity" \in FailingWrites
  PROVE  LET v == executeValidatedAction(
                    handleServerAnnouncementInterruption(w, a, faults), a, x, faults)
         IN  Sound(v) /\ NoGain(v, w)
<1> DEFINE u == handleServerAnnouncementInterruption(w, a, faults)
           u1 == payForAction(u, a, x, faults)
           u2 == startActivity(u1, a, "in_action", "action", x)
           v == executeValidatedAction(u, a, x, faults)
           q == Catalogue[x].cost
<1>1. Good(u) /\ Keeps(u, w) /\ u.agents[a].state = "idle"
  BY InterruptionLemma
<1>2. Even(u, w)
  BY InterruptionEven
<1>3. Good(v) /\ Keeps(v, w)
  BY ActionLemma
<1>4. v = [u2 EXCEPT !.agents[a].last_action_id = x]
  BY DEF executeValidatedAction
<1> HIDE DEF u, v
<1>5. /\ u \in Worlds /\ w \in Worlds /\ v \in Worlds /\ Sound(u) /\ LoggedIn(u, a)
      /\ u.purses[a] \in Purse /\ q \in Purse
  BY <1>1, <1>2, <1>3, WorldsFields, WorldAssumption
  DEF Good, Control, LoggedIn, Even
<1>6. \E p \in Purse : /\ Changed(u1, u, a, p) /\ u1 \in Worlds
                       /\ p.money <= u.purses[a].money
                       /\ p.items <= u.purses[a].items
  <2>1. CASE q = Nothing
    <3>1. u1 = u
      BY <2>1 DEF payForAction
    <3>2. Changed(u1, u, a, u.purses[a])
      BY <3>1 DEF Changed
    <3>3. /\ u.purses[a].money <= u.purses[a].money
          /\ u.purses[a].items <= u.purses[a].items
      BY <1>5 DEF Purse
    <3> QED
      BY <1>5, <3>1, <3>2, <3>3
  <2>2. CASE q # Nothing
    <3> DEFINE p == debit(u.purses[a], q)
    <3>1. u1 = settleActivity(u, a, p, faults)
      BY <2>2 DEF payForAction
    <3>2. p \in Purse /\ p.money <= u.purses[a].money /\ p.items <= u.purses[a].items
      BY <1>5, DebitFacts
    <3> HIDE DEF p, u1
    <3>3. Registered(u, a)
      BY <1>1, <1>5, SettledSelf
    <3>4. /\ Settled(u1, u, a) /\ u1.purses[a] = p
          /\ u1.registrations[a] \in {p, u.registrations[a]}
      BY <1>5, <3>1, <3>2, <3>3, SettleLemma
    <3>5. Changed(u1, u, a, p) /\ u1 \in Worlds
      BY <3>4 DEF Changed, Settled
    <3> QED
      BY <3>2, <3>5
  <2> QED
    BY <2>1, <2>2
<1>7. PICK p \in Purse : /\ Changed(u1, u, a, p) /\ u1 \in Worlds
                         /\ p.money <= u.purses[a].money
                         /\ p.items <= u.purses[a].items
  BY <1>6
<1> HIDE DEF u1
<1>8. "in_action" \in AgentStates /\ "action" \in TimerTypes
  BY DEF AgentStates, TimerTypes, ActivityTypes
<1>9. SameStores(u2, u1) /\ u2 \in Worlds
  BY <1>7, <1>8, StartSame, StartActivityLemma DEF Updates
<1> HIDE DEF u2
<1>10. SameStores(v, u1)
  BY <1>4, <1>9 DEF SameStores, Worlds
<1>11. Changed(v, u, a, p)
  BY <1>7, <1>10, ChangedSame
<1>12. u.purses[a].items <= MaxItems => p.items <= MaxItems
  <2>1. /\ u.purses[a].items \in Nat /\ p.items \in Nat /\ MaxItems \in Nat
    BY <1>5, <1>7, WorldAssumption DEF Purse
  <2> QED
    BY <1>7, <2>1
<1>13. Sound(v)
  BY <1>1, <1>5, <1>7, <1>11, <1>12, ChangedSound
<1>14. SameLogins(v, u)
  BY <1>1, <1>3 DEF SameLogins, Keeps
<1>15. NoGain(v, u)
  BY <1>5, <1>7, <1>11, <1>14, PoorerGain
<1>16. NoGain(u, w)
  BY <1>2 DEF Even
<1>17. NoGain(v, w)
  BY <1>5, <1>15, <1>16, NoGainTwice
<1> QED
  BY <1>13, <1>17 DEF u, v

\* What an activity that ends leaves in the stores is what settling it left.
LEMMA CompletedChanged ==
  ASSUME NEW w, Good(w), NEW a \in Agents, NEW x \in w.timers, a \in x.agent_ids,
         x.type \in ActivityTypes, NEW p \in Purse, NEW y \in Worlds,
         Changed(y, cancel(w, x), a, p)
  PROVE  Changed(becomeIdle(y, a), w, a, p)
<1>1. SameStores(cancel(w, x), w)
  BY CancelSame DEF Good, Control
<1>2. Changed(y, w, a, p)
  BY <1>1 DEF Changed, SameStores
<1>3. SameStores(becomeIdle(y, a), y)
  BY IdleSame
<1> QED
  BY <1>2, <1>3, ChangedSame

\* A used item is gone.
LEMMA ItemUsePays ==
  ASSUME NEW w, Good(w), Sound(w), NEW a \in Agents, NEW x \in w.timers,
         a \in x.agent_ids, x.type = "item_use", NEW faults,
         <<"activity", a>> \in faults => "activity" \in FailingWrites
  PROVE  LET v == handleItemUseCompleted(w, x, a, faults)
         IN  Sound(v) /\ NoGain(v, w)
<1> DEFINE u == cancel(w, x)
           p == debit(w.purses[a], [money |-> 0, items |-> 1])
           y == settleActivity(u, a, p, faults)
           v == handleItemUseCompleted(w, x, a, faults)
<1>1. x.type \in ActivityTypes
  BY DEF ActivityTypes
<1>2. /\ w.agents[a].state = "in_action" /\ LoggedIn(w, a)
      /\ u \in Worlds /\ w.purses[a] \in Purse /\ Registered(u, a)
  BY <1>1, ActivityFired
<1>3. [money |-> 0, items |-> 1] \in Purse
  BY DEF Purse
<1>4. p \in Purse /\ p.money <= w.purses[a].money /\ p.items <= w.purses[a].items
  BY <1>2, <1>3, DebitFacts
<1>5. v = becomeIdle(y, a)
  BY <1>2 DEF handleItemUseCompleted
<1>6. Good(v) /\ Keeps(v, w)
  BY ItemUseCompletedLemma
<1> HIDE DEF u, p, v
<1>7. /\ Settled(y, u, a) /\ y.purses[a] = p
      /\ y.registrations[a] \in {p, u.registrations[a]}
  BY <1>2, <1>4, SettleLemma
<1> HIDE DEF y
<1>8. Changed(y, u, a, p) /\ y \in Worlds
  BY <1>7 DEF Changed, Settled
<1>9. Changed(v, w, a, p)
  BY <1>1, <1>4, <1>5, <1>8, CompletedChanged DEF u
<1>10. /\ w \in Worlds /\ v \in Worlds /\ SameLogins(v, w)
  BY <1>6 DEF Good, Control, SameLogins, Keeps
<1>11. w.purses[a].items <= MaxItems => p.items <= MaxItems
  <2>1. /\ w.purses[a].items \in Nat /\ p.items \in Nat /\ MaxItems \in Nat
    BY <1>2, <1>4, WorldAssumption DEF Purse
  <2> QED
    BY <1>4, <2>1
<1>12. Sound(v)
  BY <1>2, <1>4, <1>9, <1>10, <1>11, ChangedSound
<1>13. NoGain(v, w)
  BY <1>2, <1>4, <1>9, <1>10, PoorerGain
<1> QED
  BY <1>12, <1>13 DEF v

\* The end of an action earns its reward.
LEMMA ActionEarns ==
  ASSUME NEW w, Good(w), Sound(w), NEW a \in Agents, NEW x \in w.timers,
         a \in x.agent_ids, x.type = "action", NEW faults,
         <<"activity", a>> \in faults => "activity" \in FailingWrites
  PROVE  LET v == handleActionCompleted(w, x, a, faults)
         IN  Sound(v) /\ \E act \in Actions : Earned(v, w, a, act)
<1> DEFINE u == cancel(w, x)
           act == x.about
           y == rewardAction(u, a, act, faults)
           v == handleActionCompleted(w, x, a, faults)
           q == Catalogue[act].reward
           p == credit(w.purses[a], q)
<1>1. x.type \in ActivityTypes
  BY DEF ActivityTypes
<1>2. /\ w.agents[a].state = "in_action" /\ LoggedIn(w, a)
      /\ u \in Worlds /\ w.purses[a] \in Purse /\ Registered(u, a)
      /\ u.purses = w.purses
  BY <1>1, ActivityFired
<1>3. act \in Actions /\ q \in Purse
  BY WorldAssumption DEF Good, Control, Timing, Timed
<1>4. /\ p \in Purse
      /\ w.purses[a].items <= MaxItems => p.items <= MaxItems
  BY <1>2, <1>3, CreditFacts
<1>5. v = becomeIdle(y, a)
  BY <1>2 DEF handleActionCompleted
<1>6. Good(v) /\ Keeps(v, w)
  BY ActionCompletedLemma
<1>7. Changed(y, u, a, p) /\ y \in Worlds
  <2>1. CASE q = Nothing
    <3>1. y = u
      BY <2>1 DEF rewardAction
    <3>2. p = w.purses[a]
      <4>1. w.purses[a].items \in Nat /\ w.purses[a].money \in Nat /\ MaxItems \in Nat
        BY <1>2, WorldAssumption DEF Purse
      <4>2. fitting(w.purses[a].items, 0) = 0
        BY <4>1 DEF fitting
      <4>3. q.money = 0 /\ q.items = 0
        BY <2>1 DEF Nothing
      <4>4. p = [money |-> w.purses[a].money, items |-> w.purses[a].items]
        BY <4>1, <4>2, <4>3 DEF credit
      <4> QED
        BY <1>2, <4>4 DEF Purse
    <3> HIDE DEF p, u, y
    <3> QED
      BY <1>2, <3>1, <3>2 DEF Changed
  <2>2. CASE q # Nothing
    <3>1. y = settleActivity(u, a, p, faults)
      BY <1>2, <2>2 DEF rewardAction
    <3> HIDE DEF p, u, y
    <3>2. /\ Settled(y, u, a) /\ y.purses[a] = p
          /\ y.registrations[a] \in {p, u.registrations[a]}
      BY <1>2, <1>4, <3>1, SettleLemma
    <3> QED
      BY <3>2 DEF Changed, Settled
  <2> QED
    BY <2>1, <2>2
<1> HIDE DEF v, p, y, u, act, q
<1>8. Changed(v, w, a, p)
  BY <1>1, <1>4, <1>5, <1>7, CompletedChanged DEF u
<1>9. /\ w \in Worlds /\ v \in Worlds /\ SameLogins(v, w)
  BY <1>6 DEF Good, Control, SameLogins, Keeps
<1>10. Sound(v)
  BY <1>2, <1>4, <1>8, <1>9, ChangedSound
<1>11. Earned(v, w, a, act)
  BY <1>2, <1>3, <1>8, <1>9, RicherEarned DEF p, q
<1> QED
  BY <1>3, <1>10, <1>11 DEF v

(***************************************************************************)
(* Logins, logouts, registrations and restarts.                            *)
(***************************************************************************)

\* A login is even: the agent owns what its registration held.
LEMMA LoginEven ==
  ASSUME NEW w, Good(w), Sound(w), NEW a \in Agents, ~LoggedIn(w, a), Registered(w, a)
  PROVE  Even(startIdleReminder(login(w, a), a), w)
<1> DEFINE v == startIdleReminder(login(w, a), a)
<1>1. /\ Good(v) /\ v.registrations = w.registrations
      /\ \A b \in Agents : LoggedIn(v, b) <=> LoggedIn(w, b) \/ b = a
      /\ v.transfers = w.transfers /\ v.purses[a] = w.registrations[a]
      /\ \A b \in Agents \ {a} : v.purses[b] = w.purses[b]
  BY LoginLemma
<1> HIDE DEF v
<1>2. w \in Worlds /\ v \in Worlds
  BY <1>1 DEF Good, Control
<1>3. \A b \in Agents : OwnedIn(v, b) = OwnedIn(w, b)
  BY <1>1 DEF OwnedIn, Registered
<1>4. Conserved(v, w) /\ NoGain(v, w)
  BY <1>1, <1>2, <1>3, SameWorth
<1>5. Escrows(v)
  BY <1>1 DEF Sound, Escrows, Live
<1>6. \A t \in Transfers : Live(w, t) => w.transfers[t].from_agent_id \in Agents \ {a}
  BY OnlyOffer
<1>7. Fits(v)
  BY <1>1, <1>6 DEF Sound, Fits, Live, Registered
<1>8. Even(v, w)
  BY <1>4, <1>5, <1>7 DEF Even, Sound
<1> QED
  BY <1>8 DEF v

\* The loop over an agent's offers is even.
LEMMA CancelPendingEven ==
  ASSUME NEW w, Good(w), Sound(w), NEW a \in Agents, NEW faults, Allowed(faults)
  PROVE  Even(cancelPendingTransfersForAgent(w, a, faults), w)
<1> DEFINE open == {t \in Transfers :
                      Live(w, t) /\ a \in {w.transfers[t].from_agent_id,
                                           w.transfers[t].to_agent_id}}
           v == cancelPendingTransfersForAgent(w, a, faults)
<1>1. CASE open = {}
  <2>1. v = w
    BY <1>1 DEF cancelPendingTransfersForAgent
  <2> QED
    BY <2>1, SelfEven
<1>2. CASE open # {}
  <2>1. PICK t : t = CHOOSE u \in open : TRUE
    OBVIOUS
  <2>2. t \in open
    BY <1>2, <2>1, ChooseElement
  <2>3. v = cancelTransfer(w, t, faults)
    BY <1>2, <2>1 DEF cancelPendingTransfersForAgent
  <2>4. t \in Transfers /\ Live(w, t)
    BY <2>2
  <2> HIDE DEF v, open
  <2>5. Good(v) /\ Keeps(v, w) /\ Refunded(v, w, t, faults)
    BY <2>3, <2>4, CancelTransferLemma
  <2>6. Even(v, w)
    BY <2>4, <2>5, KeepsRefundEven
  <2> QED
    BY <2>6 DEF v
<1> QED
  BY <1>1, <1>2

\* Agent a is gone, its failed offers F in its registration.
Departed(v, w, a, F) ==
  /\ v.agents[a].state = "logged_out" /\ v.purses[a] = Nothing
  /\ \A b \in Agents \ {a} : /\ v.agents[b] = w.agents[b]
                             /\ v.purses[b] = w.purses[b]
                             /\ v.registrations[b] = w.registrations[b]
  /\ Registered(v, a)
  /\ v.registrations[a].money = w.purses[a].money + SumOver(F, Coins(w))
  /\ v.registrations[a].items = w.purses[a].items + SumOver(F, Goods(w))
  /\ \A t \in F : /\ w.transfers[t].from_agent_id = a
                  /\ w.transfers[t].status = "refund_failed"
                  /\ v.transfers[t] = NoOffer
  /\ \A t \in Transfers \ F : v.transfers[t] = w.transfers[t]

\* A logout keeps all its agent owns and its failed offers hold.
LEMMA DepartedEven ==
  ASSUME NEW w, Good(w), Sound(w), NEW v, Good(v), NEW a \in Agents, LoggedIn(w, a),
         w.agents[a].state # "in_transfer",
         NEW F \in SUBSET Transfers, Departed(v, w, a, F)
  PROVE  Even(v, w)
<1>1. w \in Worlds /\ v \in Worlds
  BY DEF Good, Control
<1>2. /\ OwnedIn(w, a) = w.purses[a] /\ OwnedIn(v, a) = v.registrations[a]
      /\ \A b \in Agents \ {a} : OwnedIn(v, b) = OwnedIn(w, b)
  BY DEF OwnedIn, LoggedIn, Registered, Departed
<1>3. /\ w.purses[a].items \in Nat /\ w.purses[a].money \in Nat
      /\ SumOver(F, Coins(w)) \in Nat /\ SumOver(F, Goods(w)) \in Nat
  <2>1. \A t \in Transfers : Coins(w)[t] \in Nat /\ Goods(w)[t] \in Nat
    BY <1>1, WorthTypes
  <2>2. IsFiniteSet(F)
    BY WorldAssumption, FS_Subset
  <2> QED
    BY <1>1, <2>1, <2>2, SumInNat, WorldsFields DEF Purse
<1>4. Emptied(v, w, F, a, 0)
  BY <1>1, <1>2, <1>3 DEF Emptied, Departed
<1>5. AllFrom(w, F, a)
  BY DEF AllFrom, Departed
<1>6. \A t \in Transfers : Live(w, t) => w.transfers[t].from_agent_id \in Agents \ {a}
  BY LiveFacts DEF Good
<1>7. NoOffer.status = "absent"
  BY DEF NoOffer
<1>8. Escrows(v)
  BY <1>7 DEF Sound, Escrows, Live, Departed
<1>9. Fits(v)
  <2> SUFFICES ASSUME "refund" \notin FailingWrites
               PROVE  /\ \A u \in Transfers : v.transfers[u].status # "refund_failed"
                      /\ \A b \in Agents :
                           /\ v.purses[b].items <= MaxItems
                           /\ Registered(v, b) => v.registrations[b].items <= MaxItems
                      /\ \A u \in Transfers : Live(v, u) =>
                           v.purses[v.transfers[u].from_agent_id].items
                             + v.transfers[u].escrow.items <= MaxItems
    BY DEF Fits
  <2>1. /\ \A u \in Transfers : w.transfers[u].status # "refund_failed"
        /\ \A b \in Agents :
             /\ w.purses[b].items <= MaxItems
             /\ Registered(w, b) => w.registrations[b].items <= MaxItems
        /\ \A u \in Transfers : Live(w, u) =>
             w.purses[w.transfers[u].from_agent_id].items
               + w.transfers[u].escrow.items <= MaxItems
    BY DEF Sound, Fits
  <2>2. F = {}
    BY <2>1 DEF Departed
  <2>3. SumOver(F, Goods(w)) = 0
    BY <2>2, SumZero
  <2>4. v.registrations[a].items = w.purses[a].items
    BY <1>3, <2>3 DEF Departed
  <2>5. v.purses[a].items <= MaxItems
    BY WorldAssumption DEF Departed, Nothing
  <2>6. \A u \in Transfers : v.transfers[u] = w.transfers[u]
    BY <2>2 DEF Departed
  <2> QED
    BY <1>6, <2>1, <2>4, <2>5, <2>6 DEF Departed, Live, Registered
<1>10. Sound(v)
  BY <1>8, <1>9 DEF Sound
<1>11. 0 \in Nat
  OBVIOUS
<1> QED
  BY <1>1, <1>4, <1>5, <1>10, <1>11, EmptiedEven

\* A logout departs from the world its cancelled offer left.
LEMMA LogoutDeparts ==
  ASSUME NEW s, Good(s), NEW a \in Agents, s.agents[a].state # "in_transfer", NEW faults
  PROVE  LET r == recoverRefundFailedTransfersForAgent(
                    persistLoggedInAgentState(s, a), a, faults)
             v == logout(cleanupServerAnnouncementsForAgent(cancelByAgent(r, a), a), a)
         IN  \E F \in SUBSET Transfers : Departed(v, s, a, F)
<1> DEFINE p == persistLoggedInAgentState(s, a)
           r == recoverRefundFailedTransfersForAgent(p, a, faults)
           v == logout(cleanupServerAnnouncementsForAgent(cancelByAgent(r, a), a), a)
           G == [s.registrations EXCEPT ![a] = s.purses[a]]
<1>2. /\ s \in Worlds /\ s.purses[a] \in Purse /\ s.purses[a] # None
      /\ s.registrations \in [Agents -> Purse \cup {None}]
      /\ Control(s, None)
  BY WorldsFields, WorldAssumption DEF Good, Control
<1>3. p = [s EXCEPT !.registrations = G]
  BY <1>2 DEF persistLoggedInAgentState, Worlds
<1>4. /\ G \in [Agents -> Purse \cup {None}] /\ G[a] = s.purses[a] /\ G[a] # None
      /\ \A b \in Agents \ {a} : G[b] = s.registrations[b]
  BY <1>2
<1> HIDE DEF G, p
<1>5. /\ p \in Worlds /\ p.agents = s.agents /\ p.timers = s.timers
      /\ p.announcements = s.announcements /\ p.purses = s.purses
      /\ p.transfers = s.transfers /\ p.registrations = G
  BY <1>2, <1>3, <1>4 DEF Worlds
<1>6. Recovered(p, s, a)
  BY <1>4, <1>5 DEF Recovered, Registered
<1>7. Control(p, None)
  BY <1>2, <1>6, RecoveredControl
<1>8. /\ Recovered(r, p, a)
      /\ \E F \in SUBSET Transfers : r = p \/ Gathered(r, p, a, F)
  BY <1>4, <1>5, RecoverLemma DEF Registered
<1> HIDE DEF r
<1>9. Control(r, None) /\ r.agents[a].state # "in_transfer"
  BY <1>5, <1>7, <1>8, RecoveredControl DEF Recovered
<1>10. /\ v.registrations = r.registrations /\ v.transfers = r.transfers
       /\ v.agents[a].state = "logged_out" /\ v.purses[a] = Nothing
       /\ \A b \in Agents \ {a} : /\ v.agents[b] = r.agents[b]
                                  /\ v.purses[b] = r.purses[b]
  BY <1>9, LeaveLemma
<1> HIDE DEF v
<1>11. /\ \A b \in Agents \ {a} :
            /\ v.agents[b] = s.agents[b] /\ v.purses[b] = s.purses[b]
            /\ v.registrations[b] = s.registrations[b]
       /\ Registered(v, a)
  BY <1>4, <1>5, <1>8, <1>10 DEF Recovered, Registered
<1>12. CASE r = p
  <2>1. SumOver({}, Coins(s)) = 0 /\ SumOver({}, Goods(s)) = 0
    BY SumZero
  <2>2. /\ v.registrations[a] = s.purses[a] /\ v.transfers = s.transfers
        /\ s.purses[a].money \in Nat /\ s.purses[a].items \in Nat
    BY <1>2, <1>4, <1>5, <1>10, <1>12 DEF Purse
  <2>3. Departed(v, s, a, {})
    BY <1>10, <1>11, <2>1, <2>2 DEF Departed
  <2> QED
    BY <2>3 DEF v, r, p
<1>13. ASSUME NEW F \in SUBSET Transfers, Gathered(r, p, a, F)
       PROVE  \E E \in SUBSET Transfers : Departed(v, s, a, E)
  <2>1. /\ SumOver(F, [t \in F |-> p.transfers[t].escrow.money]) = SumOver(F, Coins(s))
        /\ SumOver(F, [t \in F |-> p.transfers[t].escrow.items]) = SumOver(F, Goods(s))
    <3>1. \A t \in F : /\ [u \in F |-> p.transfers[u].escrow.money][t] = Coins(s)[t]
                       /\ [u \in F |-> p.transfers[u].escrow.items][t] = Goods(s)[t]
      BY <1>5 DEF Coins, Goods
    <3> QED
      BY <3>1, SumSame
  <2>2. /\ v.registrations[a].money = s.purses[a].money + SumOver(F, Coins(s))
        /\ v.registrations[a].items = s.purses[a].items + SumOver(F, Goods(s))
    BY <1>4, <1>5, <1>10, <1>13, <2>1 DEF Gathered
  <2>3. /\ \A t \in F : /\ s.transfers[t].from_agent_id = a
                        /\ s.transfers[t].status = "refund_failed"
                        /\ v.transfers[t] = NoOffer
        /\ \A t \in Transfers \ F : v.transfers[t] = s.transfers[t]
    BY <1>5, <1>10, <1>13 DEF Gathered
  <2>4. Departed(v, s, a, F)
    BY <1>10, <1>11, <2>2, <2>3 DEF Departed
  <2> QED
    BY <2>4
<1> QED
  BY <1>8, <1>12, <1>13 DEF v, r, p

\* A logout is even, whether its writeback throws or not.
LEMMA LogoutEven ==
  ASSUME NEW w, Good(w), Sound(w), NEW a \in Agents, LoggedIn(w, a),
         NEW faults, Allowed(faults)
  PROVE  LET settled   == cancelPendingTransfersForAgent(w, a, faults)
             recovered == recoverRefundFailedTransfersForAgent(
                            persistLoggedInAgentState(settled, a), a, faults)
             v         == logout(cleanupServerAnnouncementsForAgent(
                                   cancelByAgent(recovered, a), a), a)
         IN  Even(settled, w) /\ Even(v, w)
<1> DEFINE s == cancelPendingTransfersForAgent(w, a, faults)
           r == recoverRefundFailedTransfersForAgent(
                  persistLoggedInAgentState(s, a), a, faults)
           v == logout(cleanupServerAnnouncementsForAgent(cancelByAgent(r, a), a), a)
<1>1. Good(s) /\ Keeps(s, w) /\ s.agents[a].state # "in_transfer"
  BY CancelPendingLemma
<1>2. Even(s, w)
  BY CancelPendingEven
<1>3. Good(v)
  BY LogoutLemma
<1> HIDE DEF s
<1>4. \E F \in SUBSET Transfers : Departed(v, s, a, F)
  BY <1>1, LogoutDeparts
<1> HIDE DEF v, r
<1>5. LoggedIn(s, a) /\ Sound(s)
  BY <1>1, <1>2 DEF Keeps, Even
<1>6. Even(v, s)
  BY <1>1, <1>3, <1>4, <1>5, DepartedEven
<1>7. Even(v, w)
  BY <1>1, <1>2, <1>3, <1>6, EvenTwice DEF Good, Control
<1> QED
  BY <1>2, <1>7 DEF v, r, s

\* Agent a is given the initial money.
Endowed(v, w, a) ==
  /\ MoneyOf(v, a) = MoneyOf(w, a) + InitialMoney /\ ItemsOf(v, a) = ItemsOf(w, a)
  /\ \A b \in Agents \ {a} : /\ MoneyOf(v, b) = MoneyOf(w, b)
                             /\ ItemsOf(v, b) = ItemsOf(w, b)

\* One registration changes, and nothing else.
Recorded(v, w, a, p) ==
  /\ v.agents = w.agents /\ v.purses = w.purses /\ v.transfers = w.transfers
  /\ v.registrations = [w.registrations EXCEPT ![a] = p]

\* What that leaves alone.
LEMMA RecordedFacts ==
  ASSUME NEW w \in Worlds, NEW v \in Worlds, NEW a \in Agents,
         NEW p \in Purse \cup {None}, Recorded(v, w, a, p), ~LoggedIn(w, a)
  PROVE  /\ Coins(v) = Coins(w) /\ Goods(v) = Goods(w)
         /\ \A b : SentBy(v, b) = SentBy(w, b)
         /\ p # None => OwnedIn(v, a) = p
         /\ p = None => OwnedIn(v, a) = Nothing
         /\ \A b \in Agents \ {a} : OwnedIn(v, b) = OwnedIn(w, b)
<1>1. Coins(v) = Coins(w) /\ Goods(v) = Goods(w) /\ \A b : SentBy(v, b) = SentBy(w, b)
  BY DEF Coins, Goods, SentBy, Recorded
<1>2. v.registrations[a] = p
      /\ \A b \in Agents \ {a} : v.registrations[b] = w.registrations[b]
  BY WorldsFields DEF Recorded
<1>3. \A b \in Agents : LoggedIn(v, b) <=> LoggedIn(w, b)
  BY DEF Recorded, LoggedIn
<1>4. /\ p # None => OwnedIn(v, a) = p
      /\ p = None => OwnedIn(v, a) = Nothing
  BY <1>2, <1>3 DEF OwnedIn, Registered
<1>5. \A b \in Agents \ {a} : OwnedIn(v, b) = OwnedIn(w, b)
  BY <1>2, <1>3 DEF OwnedIn, Registered, Recorded
<1> QED
  BY <1>1, <1>4, <1>5

LEMMA RecordedSound ==
  ASSUME NEW w \in Worlds, Sound(w), NEW v \in Worlds, NEW a \in Agents,
         NEW p \in Purse \cup {None}, Recorded(v, w, a, p), p # None => p.items = 0
  PROVE  Sound(v)
<1>1. v.registrations[a] = p
      /\ \A b \in Agents \ {a} : v.registrations[b] = w.registrations[b]
  BY WorldsFields DEF Recorded
<1>2. Escrows(v)
  BY DEF Sound, Escrows, Live, Recorded
<1>3. 0 <= MaxItems
  BY WorldAssumption
<1>4. Fits(v)
  BY <1>1, <1>3 DEF Sound, Fits, Live, Registered, Recorded
<1> QED
  BY <1>2, <1>4 DEF Sound

\* A registration endows its agent.
LEMMA RegisterEndows ==
  ASSUME NEW w \in Worlds, NEW v \in Worlds, NEW a \in Agents,
         Recorded(v, w, a, [money |-> InitialMoney, items |-> 0]),
         ~LoggedIn(w, a), ~Registered(w, a)
  PROVE  Endowed(v, w, a)
<1> DEFINE p == [money |-> InitialMoney, items |-> 0]
<1>1. p \in Purse /\ p # None /\ p.money = InitialMoney /\ p.items = 0
  BY WorldAssumption DEF Purse
<1> HIDE DEF p
<1>2. Recorded(v, w, a, p)
  BY DEF p
<1>3. /\ Coins(v) = Coins(w) /\ Goods(v) = Goods(w)
      /\ \A b : SentBy(v, b) = SentBy(w, b)
      /\ OwnedIn(v, a) = p
      /\ \A b \in Agents \ {a} : OwnedIn(v, b) = OwnedIn(w, b)
  BY <1>1, <1>2, RecordedFacts
<1>4. OwnedIn(w, a) = Nothing
  BY DEF OwnedIn
<1>5. /\ MoneyOf(w, a) \in Nat /\ ItemsOf(w, a) \in Nat
  BY ShareTypes
<1>6. \A b \in Agents \ {a} : MoneyOf(v, b) = MoneyOf(w, b) /\ ItemsOf(v, b) = ItemsOf(w, b)
  BY <1>3 DEF MoneyOf, ItemsOf
<1> DEFINE m == SumOver(SentBy(w, a), Coins(w))
           i == SumOver(SentBy(w, a), Goods(w))
<1>7. /\ MoneyOf(w, a) = 0 + m /\ MoneyOf(v, a) = InitialMoney + m
      /\ ItemsOf(w, a) = 0 + i /\ ItemsOf(v, a) = 0 + i
  BY <1>1, <1>3, <1>4 DEF MoneyOf, ItemsOf, Nothing
<1>8. m \in Nat /\ i \in Nat
  <2>1. \A t \in Transfers : Coins(w)[t] \in Nat /\ Goods(w)[t] \in Nat
    BY WorthTypes
  <2>2. IsFiniteSet(SentBy(w, a)) /\ SentBy(w, a) \in SUBSET Transfers
    BY WorldAssumption, FS_Subset DEF SentBy
  <2> QED
    BY <2>1, <2>2, SumInNat
<1> HIDE DEF m, i
<1>9. MoneyOf(v, a) = MoneyOf(w, a) + InitialMoney /\ ItemsOf(v, a) = ItemsOf(w, a)
  BY <1>7, <1>8, WorldAssumption
<1> QED
  BY <1>6, <1>9 DEF Endowed

\* Nobody gains by a registration that is deleted.
LEMMA DeleteGain ==
  ASSUME NEW w \in Worlds, NEW v \in Worlds, NEW a \in Agents,
         Recorded(v, w, a, None), ~LoggedIn(w, a)
  PROVE  NoGain(v, w)
<1>1. /\ Coins(v) = Coins(w) /\ Goods(v) = Goods(w)
      /\ \A b : SentBy(v, b) = SentBy(w, b)
      /\ OwnedIn(v, a) = Nothing
      /\ \A b \in Agents \ {a} : OwnedIn(v, b) = OwnedIn(w, b)
  BY RecordedFacts
<1>2. \A b \in Agents : /\ MoneyOf(w, b) \in Nat /\ ItemsOf(w, b) \in Nat
  BY ShareTypes
<1>3. \A b \in Agents \ {a} : MoneyOf(v, b) = MoneyOf(w, b) /\ ItemsOf(v, b) = ItemsOf(w, b)
  BY <1>1 DEF MoneyOf, ItemsOf
<1> DEFINE m == SumOver(SentBy(w, a), Coins(w))
           i == SumOver(SentBy(w, a), Goods(w))
<1>4. /\ MoneyOf(w, a) = OwnedIn(w, a).money + m /\ MoneyOf(v, a) = 0 + m
      /\ ItemsOf(w, a) = OwnedIn(w, a).items + i /\ ItemsOf(v, a) = 0 + i
  BY <1>1 DEF MoneyOf, ItemsOf, Nothing
<1>5. m \in Nat /\ i \in Nat
  <2>1. \A t \in Transfers : Coins(w)[t] \in Nat /\ Goods(w)[t] \in Nat
    BY WorthTypes
  <2>2. IsFiniteSet(SentBy(w, a)) /\ SentBy(w, a) \in SUBSET Transfers
    BY WorldAssumption, FS_Subset DEF SentBy
  <2> QED
    BY <2>1, <2>2, SumInNat
<1>6. OwnedIn(w, a).money \in Nat /\ OwnedIn(w, a).items \in Nat
  BY WorthTypes
<1> HIDE DEF m, i
<1>7. MoneyOf(v, a) <= MoneyOf(w, a) /\ ItemsOf(v, a) <= ItemsOf(w, a)
  BY <1>4, <1>5, <1>6
<1> QED
  BY <1>2, <1>3, <1>7 DEF NoGain

\* A restart is sound, and nobody gains as long as memory matched the disk.
LEMMA RestartGain ==
  ASSUME NEW w, Good(w), Sound(w)
  PROVE  /\ Sound(Started(w.registrations))
         /\ "activity" \notin FailingWrites => NoGain(Started(w.registrations), w)
<1> DEFINE v == Started(w.registrations)
<1>1. w \in Worlds /\ w.registrations \in [Agents -> Purse \cup {None}]
  BY WorldsFields DEF Good, Control
<1>2. v \in Worlds /\ \A a \in Agents : ~LoggedIn(v, a)
  BY <1>1, EmptyLemma DEF Good, Control
<1>3. /\ \A t \in Transfers : v.transfers[t] = NoOffer
      /\ \A a \in Agents : v.purses[a] = Nothing
      /\ v.registrations = w.registrations
  BY DEF Started
<1>4. /\ NoOffer.status = "absent" /\ NoOffer.from_agent_id = None
      /\ Nothing.items = 0
  BY DEF NoOffer, Nothing
<1> HIDE DEF v
<1>5. Escrows(v)
  BY <1>3, <1>4 DEF Escrows, Live
<1>6. Fits(v)
  BY <1>3, <1>4, WorldAssumption DEF Sound, Fits, Live, Registered
<1>7. ASSUME "activity" \notin FailingWrites
      PROVE  NoGain(v, w)
  <2>1. \A a \in Agents : OwnedIn(v, a) = OwnedIn(w, a)
    BY <1>2, <1>3, <1>7 DEF OwnedIn, Registered, Good, Saved
  <2>2. ASSUME NEW a \in Agents
        PROVE  MoneyOf(v, a) <= MoneyOf(w, a) /\ ItemsOf(v, a) <= ItemsOf(w, a)
    <3>1. SentBy(v, a) = {}
      BY <1>3, <1>4, WorldAssumption DEF SentBy
    <3>2. SumOver({}, Coins(v)) = 0 /\ SumOver({}, Goods(v)) = 0
      BY SumZero
    <3>3. /\ OwnedIn(w, a).money <= MoneyOf(w, a) /\ OwnedIn(w, a).items <= ItemsOf(w, a)
          /\ OwnedIn(w, a).money \in Nat /\ OwnedIn(w, a).items \in Nat
          /\ MoneyOf(w, a) \in Nat /\ ItemsOf(w, a) \in Nat
      BY <1>1, ShareTypes, WorthTypes
    <3>4. /\ MoneyOf(v, a) = OwnedIn(w, a).money + 0
          /\ ItemsOf(v, a) = OwnedIn(w, a).items + 0
      BY <2>1, <3>1, <3>2 DEF MoneyOf, ItemsOf
    <3> QED
      BY <3>3, <3>4
  <2> QED
    BY <2>2 DEF NoGain
<1> QED
  BY <1>5, <1>6, <1>7 DEF Sound, v

(***************************************************************************)
(* The steps.                                                              *)
(***************************************************************************)

\* A deal is what the ledger knows of.
Dealt(v, w) ==
  \/ NoGain(v, w)
  \/ \E a \in Agents : Endowed(v, w, a) \/ \E x \in Actions : Earned(v, w, a, x)
  \/ \E from, to \in Agents, e \in Payloads : from # to /\ Paid(v, w, from, to, e)

Traded ==
  /\ Sound(world')
  /\ Conserved(world', world) \/ Exchange
  /\ "activity" \notin FailingWrites => Dealt(world', world)

\* An even step, a payment and an exchange.
LEMMA EvenTraded ==
  ASSUME NEW v, Good(v), Become(v), Even(v, world) \/ Payment(v, world)
  PROVE  Traded
<1>1. world' = v
  BY BecomeWorld DEF Good, Control
<1> QED
  BY <1>1 DEF Traded, Even, Payment, Dealt

LEMMA ExchangeTraded ==
  ASSUME NEW v, v \in Worlds, Become(v), Exchange, Sound(v),
         "activity" \notin FailingWrites => Dealt(v, world)
  PROVE  Traded
<1>1. world' = v
  BY BecomeWorld
<1> QED
  BY <1>1 DEF Traded

\* A step of loggingIn only.
LEMMA StillTraded ==
  ASSUME IInv, Sound(world), world' = world
  PROVE  Traded
<1>1. Even(world, world)
  BY WorldNow, SelfEven
<1> QED
  BY <1>1 DEF Traded, Even, Dealt

\* Every command deals.
LEMMA CommandTraded ==
  ASSUME IInv, Sound(world), CommandNext
  PROVE  Traded
<1>1. ASSUME NEW a \in Agents, move(a) PROVE Traded
  <2>1. PICK faults \in FaultSets(InterruptionWrites(a)) :
          Become(executeValidatedMove(Interrupted(a, faults), a))
    BY <1>1 DEF move
  <2>2. requireActionableAgent(world, a) /\ Allowed(faults)
    BY <1>1, AllowedFaults DEF move
  <2> DEFINE v == executeValidatedMove(
                    handleServerAnnouncementInterruption(world, a, faults), a)
  <2>3. Good(v)
    BY <2>2, WorldNow, MoveLemma
  <2>4. Even(v, world)
    BY <2>2, WorldNow, MoveEven
  <2>5. Become(v)
    BY <2>1 DEF Interrupted
  <2> HIDE DEF v
  <2> QED
    BY <2>3, <2>4, <2>5, EvenTraded
<1>2. ASSUME NEW a \in Agents, executeWait(a) PROVE Traded
  <2>1. PICK faults \in FaultSets(InterruptionWrites(a)) :
          Become(executeValidatedWait(Interrupted(a, faults), a))
    BY <1>2 DEF executeWait
  <2>2. requireActionableAgent(world, a) /\ Allowed(faults)
    BY <1>2, AllowedFaults DEF executeWait
  <2> DEFINE v == executeValidatedWait(
                    handleServerAnnouncementInterruption(world, a, faults), a)
  <2>3. Good(v)
    BY <2>2, WorldNow, WaitLemma
  <2>4. Even(v, world)
    BY <2>2, WorldNow, WaitEven
  <2>5. Become(v)
    BY <2>1 DEF Interrupted
  <2> HIDE DEF v
  <2> QED
    BY <2>3, <2>4, <2>5, EvenTraded
<1>3. ASSUME NEW a \in Agents, NEW x \in Actions, executeAction(a, x) PROVE Traded
  <2>1. PICK faults \in FaultSets(InterruptionWrites(a) \cup {<<"activity", a>>}) :
          Become(executeValidatedAction(Interrupted(a, faults), a, x, faults))
    BY <1>3 DEF executeAction
  <2>2. requireActionableAgent(world, a) /\ Allowed(faults)
    BY <1>3, AllowedFaults DEF executeAction
  <2>3. <<"activity", a>> \in faults => "activity" \in FailingWrites
    BY FaultsFail
  <2> DEFINE v == executeValidatedAction(
                    handleServerAnnouncementInterruption(world, a, faults), a, x, faults)
  <2>4. Good(v)
    BY <2>2, <2>3, WorldNow, ActionLemma
  <2>5. Sound(v) /\ NoGain(v, world)
    BY <2>2, <2>3, WorldNow, ActionPays
  <2>6. Become(v)
    BY <2>1 DEF Interrupted
  <2> HIDE DEF v
  <2>7. Exchange
    BY <1>3 DEF Exchange
  <2> QED
    BY <2>4, <2>5, <2>6, <2>7, ExchangeTraded DEF Good, Control, Dealt
<1>4. ASSUME NEW a \in Agents, NEW x \in Actions, rejectAction(a, x) PROVE Traded
  <2>1. PICK faults \in FaultSets(InterruptionWrites(a)) :
          Become(handleServerAnnouncementInterruption(
                   clearExcludedInfoCommands(world, a), a, faults))
    BY <1>4 DEF rejectAction
  <2>2. Allowed(faults)
    BY AllowedFaults
  <2> DEFINE v == handleServerAnnouncementInterruption(
                    clearExcludedInfoCommands(world, a), a, faults)
  <2>3. Good(v)
    BY WorldNow, RejectActionLemma
  <2>4. Even(v, world)
    BY <2>2, WorldNow, RejectActionEven
  <2>5. Become(v)
    BY <2>1
  <2> HIDE DEF v
  <2> QED
    BY <2>3, <2>4, <2>5, EvenTraded
<1>5. ASSUME NEW a \in Agents, NEW item_type, useItem(a, item_type) PROVE Traded
  <2>1. PICK faults \in FaultSets(InterruptionWrites(a)) :
          Become(executeValidatedUseItem(Interrupted(a, faults), a, item_type))
    BY <1>5 DEF useItem
  <2>2. requireActionableAgent(world, a) /\ Allowed(faults)
    BY <1>5, AllowedFaults DEF useItem
  <2> DEFINE v == executeValidatedUseItem(
                    handleServerAnnouncementInterruption(world, a, faults), a, item_type)
  <2>3. Good(v)
    BY <2>2, WorldNow, UseItemLemma
  <2>4. Even(v, world)
    BY <2>2, WorldNow, UseEven
  <2>5. Become(v)
    BY <2>1 DEF Interrupted
  <2> HIDE DEF v
  <2> QED
    BY <2>3, <2>4, <2>5, EvenTraded
<1>6. ASSUME NEW a \in Agents, NEW command \in InfoCommands, requestInfo(a, command)
      PROVE  Traded
  <2> DEFINE A == [agents EXCEPT ![a].excluded = @ \cup {command}]
             v == [world EXCEPT !.agents = A]
  <2>1. /\ agents' = A
        /\ UNCHANGED <<purses, transfers, announcements, timers, registrations>>
    BY <1>6 DEF requestInfo
  <2>2. Good(v)
    BY WorldNow, InfoLemma
  <2>3. Even(v, world)
    BY WorldNow, InfoEven
  <2> HIDE DEF A
  <2>4. Become(v)
    BY <2>1, WorldNow DEF Become, world
  <2> HIDE DEF v
  <2> QED
    BY <2>2, <2>3, <2>4, EvenTraded
<1> QED
  BY <1>1, <1>2, <1>3, <1>4, <1>5, <1>6 DEF CommandNext

\* Every timer deals.
LEMMA TimerTraded ==
  ASSUME IInv, Sound(world), TimerNext
  PROVE  Traded
<1>1. \A type, x : x \in Pending(type) => x \in world.timers /\ x.type = type
  BY WorldNow DEF Pending
<1>2. ASSUME NEW a \in Agents, idleReminderFired(a) PROVE Traded
  <2>1. PICK x \in Pending("idle_reminder") :
          a \in x.agent_ids /\ Become(handleIdleReminderFired(world, x, a))
    BY <1>2 DEF idleReminderFired
  <2>2. Good(handleIdleReminderFired(world, x, a))
    BY <1>1, <2>1, WorldNow, IdleReminderFiredLemma
  <2>3. Even(handleIdleReminderFired(world, x, a), world)
    BY <1>1, <2>1, WorldNow, ReminderEven
  <2> QED
    BY <2>1, <2>2, <2>3, EvenTraded
<1>3. ASSUME NEW a \in Agents, waitCompleted(a) PROVE Traded
  <2>1. PICK x \in Pending("wait") :
          a \in x.agent_ids /\ Become(handleWaitCompleted(world, x, a))
    BY <1>3 DEF waitCompleted
  <2>2. Good(handleWaitCompleted(world, x, a))
    BY <1>1, <2>1, WorldNow, WaitCompletedLemma
  <2>3. Even(handleWaitCompleted(world, x, a), world)
    BY <1>1, <2>1, WorldNow, WaitCompletedEven
  <2> QED
    BY <2>1, <2>2, <2>3, EvenTraded
<1>4. ASSUME NEW a \in Agents, movementCompleted(a) PROVE Traded
  <2>1. PICK x \in Pending("movement") :
          a \in x.agent_ids /\ Become(handleMovementCompleted(world, x, a))
    BY <1>4 DEF movementCompleted
  <2>2. Good(handleMovementCompleted(world, x, a))
    BY <1>1, <2>1, WorldNow, MovementCompletedLemma
  <2>3. Even(handleMovementCompleted(world, x, a), world)
    BY <1>1, <2>1, WorldNow, MovementCompletedEven
  <2> QED
    BY <2>1, <2>2, <2>3, EvenTraded
<1>5. ASSUME NEW a \in Agents, actionCompleted(a) PROVE Traded
  <2>1. PICK x \in Pending("action"), faults \in FaultSets({<<"activity", a>>}) :
          a \in x.agent_ids /\ Become(handleActionCompleted(world, x, a, faults))
    BY <1>5 DEF actionCompleted
  <2>2. <<"activity", a>> \in faults => "activity" \in FailingWrites
    BY FaultsFail
  <2> DEFINE v == handleActionCompleted(world, x, a, faults)
  <2>3. Good(v)
    BY <1>1, <2>1, <2>2, WorldNow, ActionCompletedLemma
  <2>4. Sound(v) /\ \E act \in Actions : Earned(v, world, a, act)
    BY <1>1, <2>1, <2>2, WorldNow, ActionEarns
  <2>5. Exchange
    BY <1>5 DEF Exchange
  <2>6. Become(v)
    BY <2>1
  <2> HIDE DEF v
  <2> QED
    BY <2>3, <2>4, <2>5, <2>6, ExchangeTraded DEF Good, Control, Dealt
<1>6. ASSUME NEW a \in Agents, itemUseCompleted(a) PROVE Traded
  <2>1. PICK x \in Pending("item_use"), faults \in FaultSets({<<"activity", a>>}) :
          a \in x.agent_ids /\ Become(handleItemUseCompleted(world, x, a, faults))
    BY <1>6 DEF itemUseCompleted
  <2>2. <<"activity", a>> \in faults => "activity" \in FailingWrites
    BY FaultsFail
  <2> DEFINE v == handleItemUseCompleted(world, x, a, faults)
  <2>3. Good(v)
    BY <1>1, <2>1, <2>2, WorldNow, ItemUseCompletedLemma
  <2>4. Sound(v) /\ NoGain(v, world)
    BY <1>1, <2>1, <2>2, WorldNow, ItemUsePays
  <2>5. Exchange
    BY <1>6 DEF Exchange
  <2>6. Become(v)
    BY <2>1
  <2> HIDE DEF v
  <2> QED
    BY <2>3, <2>4, <2>5, <2>6, ExchangeTraded DEF Good, Control, Dealt
<1>7. ASSUME NEW t \in Transfers, transferTimeout(t) PROVE Traded
  <2>1. PICK x \in Pending("transfer"), faults \in FaultSets({<<"refund", t>>}) :
          x.about = t /\ Become(handleTransferTimeout(world, x, faults))
    BY <1>7 DEF transferTimeout
  <2>2. Allowed(faults)
    BY AllowedFaults
  <2>3. Good(handleTransferTimeout(world, x, faults))
    BY <1>1, <2>1, WorldNow, TransferTimeoutLemma
  <2>4. Even(handleTransferTimeout(world, x, faults), world)
    BY <1>1, <2>1, <2>2, WorldNow, TimeoutEven
  <2> QED
    BY <2>1, <2>3, <2>4, EvenTraded
<1> QED
  BY <1>2, <1>3, <1>4, <1>5, <1>6, <1>7 DEF TimerNext

\* Every announcement deals.
LEMMA AnnouncementTraded ==
  ASSUME IInv, Sound(world), AnnouncementNext
  PROVE  Traded
<1>1. ASSUME NEW n \in Announcements, announce(n) PROVE Traded
  <2>1. unusedAnnouncement(world, n) /\ Become(fireServerAnnouncement(world, n))
    BY <1>1 DEF announce
  <2>2. Good(fireServerAnnouncement(world, n))
    BY <2>1, WorldNow, AnnounceLemma
  <2>3. Even(fireServerAnnouncement(world, n), world)
    BY <2>1, WorldNow, AnnounceEven
  <2> QED
    BY <2>1, <2>2, <2>3, EvenTraded
<1>2. ASSUME NEW a \in Agents, deliverNotification(a) PROVE Traded
  <2>1. Become(clearActiveServerAnnouncement(world, a))
    BY <1>2 DEF deliverNotification
  <2>2. Good(clearActiveServerAnnouncement(world, a))
    BY WorldNow, ClearWindowGood
  <2>3. Even(clearActiveServerAnnouncement(world, a), world)
    BY WorldNow, DeliveryEven
  <2> QED
    BY <2>1, <2>2, <2>3, EvenTraded
<1> QED
  BY <1>1, <1>2 DEF AnnouncementNext

\* Every request about an offer deals.
LEMMA TransferTraded ==
  ASSUME IInv, Sound(world), TransferNext
  PROVE  Traded
<1>1. ASSUME NEW a \in Agents, NEW to \in Agents, NEW payload \in Payloads,
             NEW t \in Transfers, startTransferRequest(a, to, payload, t)
      PROVE  Traded
  <2>1. PICK faults \in FaultSets(InterruptionWrites(a) \cup {<<"debit", t>>}) :
          LET ready == Interrupted(a, faults)
          IN  Become(IF validateTransfer(ready, a, to, payload)
                     THEN startTransfer(ready, t, a, to, payload, faults)
                     ELSE ready)
    BY <1>1 DEF startTransferRequest
  <2> DEFINE ready == handleServerAnnouncementInterruption(world, a, faults)
             offered == startTransfer(ready, t, a, to, payload, faults)
  <2>2. world.transfers[t].status = "absent" /\ payload \in Purse
    BY <1>1, EngineAssumption DEF startTransferRequest, world
  <2>3. ~Live(world, t)
    BY <2>2 DEF Live
  <2>4. Good(ready) /\ (validateTransfer(ready, a, to, payload) => Good(offered))
    BY <2>2, <2>3, WorldNow, OfferLemma
  <2>5. /\ Even(ready, world)
        /\ validateTransfer(ready, a, to, payload) => Even(offered, world)
    BY <2>2, AllowedFaults, WorldNow, OfferEven
  <2>6. \/ validateTransfer(ready, a, to, payload) /\ Become(offered)
        \/ Become(ready)
    BY <2>1 DEF Interrupted
  <2> HIDE DEF ready, offered
  <2> QED
    BY <2>4, <2>5, <2>6, EvenTraded
<1>2. ASSUME NEW a \in Agents, acceptTransferRequest(a) PROVE Traded
  <2> DEFINE t == agents[a].pending_transfer_id
  <2>1. PICK faults \in FaultSets(AnswerWrites(a)) :
          LET ready == Interrupted(a, faults)
          IN  Become(IF canAcceptTransfer(ready, t, a)
                     THEN acceptTransfer(ready, t, a, faults) ELSE ready)
    BY <1>2 DEF acceptTransferRequest
  <2> DEFINE ready == handleServerAnnouncementInterruption(world, a, faults)
             answered == acceptTransfer(ready, t, a, faults)
  <2>2. t # None /\ LoggedIn(world, a) /\ Allowed(faults)
    BY <1>2, AllowedFaults DEF acceptTransferRequest
  <2>3. t \in Transfers
    BY <2>2, WorldNow, WorldsFields DEF AgentRecord
  <2>4. Good(ready)
    BY WorldNow, InterruptionLemma
  <2>5. Even(ready, world)
    BY <2>2, WorldNow, InterruptionEven
  <2>6. \/ canAcceptTransfer(ready, t, a) /\ Become(answered)
        \/ Become(ready)
    BY <2>1 DEF Interrupted
  <2> HIDE DEF t
  <2>7. canAcceptTransfer(ready, t, a) => ready = world
    BY <2>2, <2>3, WorldNow, ReadyToAccept
  <2> HIDE DEF ready
  <2>8. canAcceptTransfer(ready, t, a) => Good(answered)
    BY <2>3, <2>4, AcceptTransferLemma
  <2>9. canAcceptTransfer(ready, t, a) =>
          Even(answered, world) \/ Payment(answered, world)
    BY <2>2, <2>3, <2>4, <2>7, AcceptEven
  <2> HIDE DEF answered
  <2> QED
    BY <2>4, <2>5, <2>6, <2>8, <2>9, EvenTraded
<1>3. ASSUME NEW a \in Agents, rejectTransferRequest(a) PROVE Traded
  <2> DEFINE t == agents[a].pending_transfer_id
  <2>1. PICK faults \in FaultSets(AnswerWrites(a)) :
          LET ready == Interrupted(a, faults)
          IN  Become(IF canRejectTransfer(ready, t, a)
                     THEN rejectTransfer(ready, t, a, faults) ELSE ready)
    BY <1>3 DEF rejectTransferRequest
  <2> DEFINE ready == handleServerAnnouncementInterruption(world, a, faults)
             answered == rejectTransfer(ready, t, a, faults)
  <2>2. t # None /\ Allowed(faults)
    BY <1>3, AllowedFaults DEF rejectTransferRequest
  <2>3. t \in Transfers
    BY <2>2, WorldNow, WorldsFields DEF AgentRecord
  <2>4. Good(ready)
    BY WorldNow, InterruptionLemma
  <2>5. Even(ready, world)
    BY <2>2, WorldNow, InterruptionEven
  <2>6. \/ canRejectTransfer(ready, t, a) /\ Become(answered)
        \/ Become(ready)
    BY <2>1 DEF Interrupted
  <2> HIDE DEF ready, t
  <2>7. canRejectTransfer(ready, t, a) => Good(answered)
    BY <2>3, <2>4, RejectTransferLemma DEF canRejectTransfer
  <2>8. canRejectTransfer(ready, t, a) => Even(answered, ready)
    BY <2>2, <2>3, <2>4, <2>5, RejectEven DEF canRejectTransfer, Even
  <2> HIDE DEF answered
  <2>9. canRejectTransfer(ready, t, a) => Even(answered, world)
    BY <2>4, <2>5, <2>7, <2>8, WorldNow, EvenTwice DEF Good, Control
  <2> QED
    BY <2>4, <2>5, <2>6, <2>7, <2>9, EvenTraded
<1> QED
  BY <1>1, <1>2, <1>3 DEF TransferNext

\* registerAgent and deleteAgent exchange one registration.
LEMMA RecordedTraded ==
  ASSUME IInv, Sound(world), NEW a \in Agents, ~LoggedIn(world, a),
         NEW p \in Purse \cup {None}, p # None => p.items = 0,
         registrations' = [registrations EXCEPT ![a] = p],
         UNCHANGED <<agents, purses, transfers, announcements, timers>>,
         \/ p = None
         \/ p = [money |-> InitialMoney, items |-> 0] /\ ~Registered(world, a),
         Exchange
  PROVE  Traded
<1> DEFINE R == [registrations EXCEPT ![a] = p]
           v == [ agents |-> agents, purses |-> purses, transfers |-> transfers,
                  announcements |-> announcements, timers |-> timers,
                  registrations |-> R ]
<1>1. R \in [Agents -> Purse \cup {None}]
  BY WorldNow, WorldsFields
<1>2. registrations' = R /\ R = [world.registrations EXCEPT ![a] = p]
  BY WorldNow
<1> HIDE DEF R
<1>3. v \in Worlds
  BY <1>1, WorldNow, WorldsFields DEF Worlds
<1>4. Become(v)
  BY <1>2 DEF Become
<1>5. Recorded(v, world, a, p)
  BY <1>2, WorldNow DEF Recorded
<1> HIDE DEF v
<1>6. Sound(v)
  BY <1>3, <1>5, WorldNow, RecordedSound
<1>7. CASE p = None
  <2>1. NoGain(v, world)
    BY <1>3, <1>5, <1>7, WorldNow, DeleteGain
  <2> QED
    BY <1>3, <1>4, <1>6, <2>1, ExchangeTraded DEF Dealt
<1>8. CASE p = [money |-> InitialMoney, items |-> 0] /\ ~Registered(world, a)
  <2>1. Endowed(v, world, a)
    BY <1>3, <1>5, <1>8, WorldNow, RegisterEndows
  <2> QED
    BY <1>3, <1>4, <1>6, <2>1, ExchangeTraded DEF Dealt
<1> QED
  BY <1>7, <1>8

\* Every lifecycle step deals.
LEMMA LifecycleTraded ==
  ASSUME IInv, Sound(world), LifecycleNext
  PROVE  Traded
<1>1. ASSUME NEW a \in Agents, registerAgent(a) PROVE Traded
  <2> DEFINE p == [money |-> InitialMoney, items |-> 0]
  <2>1. ~LoggedIn(world, a) /\ ~Registered(world, a) /\ Exchange
    BY <1>1, WorldNow DEF registerAgent, Good, Saved, Exchange
  <2>2. p \in Purse \cup {None} /\ p.items = 0
    BY WorldAssumption DEF Purse
  <2>3. /\ registrations' = [registrations EXCEPT ![a] = p]
        /\ UNCHANGED <<agents, purses, transfers, announcements, timers>>
    BY <1>1 DEF registerAgent
  <2> QED
    BY <2>1, <2>2, <2>3, RecordedTraded
<1>2. ASSUME NEW a \in Agents, deleteAgent(a) PROVE Traded
  <2>1. ~LoggedIn(world, a) /\ Exchange
    BY <1>2 DEF deleteAgent, Exchange
  <2>2. /\ registrations' = [registrations EXCEPT ![a] = None]
        /\ UNCHANGED <<agents, purses, transfers, announcements, timers>>
    BY <1>2 DEF deleteAgent
  <2> QED
    BY <2>1, <2>2, RecordedTraded
<1>3. ASSUME NEW a \in Agents, loginAgent(a) \/ failLogin(a) PROVE Traded
  <2>1. world' = world
    BY <1>3 DEF loginAgent, failLogin, world
  <2> QED
    BY <2>1, StillTraded
<1>4. ASSUME NEW a \in Agents, completeLogin(a) PROVE Traded
  <2>1. Registered(world, a) /\ ~LoggedIn(world, a)
    BY <1>4 DEF completeLogin, IInv
  <2>2. Good(startIdleReminder(login(world, a), a))
    BY <2>1, WorldNow, LoginLemma
  <2>3. Even(startIdleReminder(login(world, a), a), world)
    BY <2>1, WorldNow, LoginEven
  <2>4. Become(startIdleReminder(login(world, a), a))
    BY <1>4 DEF completeLogin
  <2> QED
    BY <2>2, <2>3, <2>4, EvenTraded
<1>5. ASSUME NEW a \in Agents, logoutAgent(a) PROVE Traded
  <2>1. PICK faults \in FaultSets(LogoutWrites(a)) :
          LET settled   == cancelPendingTransfersForAgent(world, a, faults)
              recovered == recoverRefundFailedTransfersForAgent(
                             persistLoggedInAgentState(settled, a), a, faults)
          IN  Become(IF <<"writeback", a>> \in faults THEN settled
                     ELSE logout(cleanupServerAnnouncementsForAgent(
                                   cancelByAgent(recovered, a), a), a))
    BY <1>5 DEF logoutAgent
  <2> DEFINE settled   == cancelPendingTransfersForAgent(world, a, faults)
             recovered == recoverRefundFailedTransfersForAgent(
                            persistLoggedInAgentState(settled, a), a, faults)
             gone      == logout(cleanupServerAnnouncementsForAgent(
                                   cancelByAgent(recovered, a), a), a)
  <2>2. LoggedIn(world, a) /\ Allowed(faults)
    BY <1>5, AllowedFaults DEF logoutAgent
  <2>3. Good(settled) /\ Good(gone)
    BY <2>2, WorldNow, LogoutLemma
  <2>4. Even(settled, world) /\ Even(gone, world)
    BY <2>2, WorldNow, LogoutEven
  <2>5. Become(settled) \/ Become(gone)
    BY <2>1
  <2> HIDE DEF settled, recovered, gone
  <2> QED
    BY <2>3, <2>4, <2>5, EvenTraded
<1>6. CASE restart
  <2>1. Started(world.registrations) \in Worlds
    BY WorldNow, WorldsFields, EmptyLemma DEF Good, Control
  <2>2. /\ Sound(Started(world.registrations))
        /\ "activity" \notin FailingWrites =>
             NoGain(Started(world.registrations), world)
    BY WorldNow, RestartGain
  <2>3. Become(Started(world.registrations))
    BY <1>6, WorldNow DEF restart, Become, EmptyWorld, Started
  <2>4. Exchange
    BY <1>6 DEF Exchange
  <2> QED
    BY <2>1, <2>2, <2>3, <2>4, ExchangeTraded DEF Dealt
<1> QED
  BY <1>1, <1>2, <1>3, <1>4, <1>5, <1>6 DEF LifecycleNext

\* Every step deals.
LEMMA TradedStep ==
  ASSUME IInv, Sound(world), [Next]_vars
  PROVE  Traded
<1>1. CASE UNCHANGED vars
  <2>1. world' = world
    BY <1>1 DEF vars, world
  <2> QED
    BY <2>1, StillTraded
<1>2. CASE Next
  BY <1>2, LifecycleTraded, CommandTraded, TransferTraded, TimerTraded,
     AnnouncementTraded DEF Next
<1> QED
  BY <1>1, <1>2

\* The world before the first registration is sound.
LEMMA InitSound == Init => Sound(world)
<1> SUFFICES ASSUME Init PROVE Sound(world)
  OBVIOUS
<1>1. /\ world.transfers = [t \in Transfers |-> NoOffer]
      /\ world.purses = [a \in Agents |-> Nothing]
      /\ world.registrations = [a \in Agents |-> None]
  BY DEF Init, EmptyWorld, world
<1>2. Nothing.items = 0 /\ NoOffer.status = "absent"
  BY DEF Nothing, NoOffer
<1> HIDE DEF world
<1>3. Escrows(world)
  BY <1>1, <1>2 DEF Escrows, Live
<1>4. Fits(world)
  BY <1>1, <1>2, WorldAssumption DEF Fits, Live, Registered
<1> QED
  BY <1>3, <1>4 DEF Sound

(***************************************************************************)
(* The theorems.                                                           *)
(***************************************************************************)

\* In every reachable world what an open offer holds is a payload somebody
\* offered, an offer that is gone holds nothing, and as long as refunds are
\* written whatever an open offer holds would still fit its sender's inventory.
Bookkeeping == IInv /\ Sound(world)

THEOREM BooksAreSound == Spec => []Bookkeeping
<1>1. Init => Bookkeeping
  BY InitLemma, InitSound DEF Bookkeeping
<1>2. Bookkeeping /\ [Next]_vars => Bookkeeping'
  <2> SUFFICES ASSUME Bookkeeping, [Next]_vars PROVE Bookkeeping'
    OBVIOUS
  <2>1. IInv'
    BY InductiveStep DEF Bookkeeping
  <2>2. Sound(world')
    BY TradedStep DEF Bookkeeping, Traded
  <2> QED
    BY <2>1, <2>2 DEF Bookkeeping
<1> QED
  BY <1>1, <1>2, PTL DEF Spec

\* What the module sums is what the engine's properties sum.
LEMMA TotalsAre ==
  /\ TotalMoney = AllMoney(world) /\ TotalItems = AllItems(world)
  /\ TotalMoney' = AllMoney(world') /\ TotalItems' = AllItems(world')
BY DEF TotalMoney, TotalItems, AllMoney, AllItems, Coins, Goods, Owned, OwnedIn,
       world, LoggedIn, Registered

\* Offers, answers, refunds, timeouts, interruptions, logins and logouts never
\* create money or items nor lose any, whichever of the writes of startTransfer,
\* acceptTransfer, refundEscrow and logoutAgent throw; but items a refund brings
\* back after an earlier one failed need not fit.
THEOREM ValueIsConserved == Spec => ValueConserved
<1>1. Bookkeeping /\ [Next]_vars => [ConserveStep]_vars
  <2> SUFFICES ASSUME Bookkeeping, [Next]_vars PROVE ConserveStep
    OBVIOUS
  <2>1. Conserved(world', world) \/ Exchange
    BY TradedStep DEF Bookkeeping, Traded
  <2> QED
    BY <2>1, TotalsAre DEF Conserved, ConserveStep
<1> QED
  BY <1>1, BooksAreSound, PTL DEF Spec, ValueConserved

(***************************************************************************)
(* The ledger.                                                             *)
(***************************************************************************)

BalanceIn(w) ==
  [a \in Agents |-> [money |-> MoneyOf(w, a), items |-> ItemsOf(w, a)]]

\* What the engine's mapping sums is what this module sums.
LEMMA EscrowedIs ==
  ASSUME NEW a \in Agents
  PROVE  /\ Escrowed(a, "money") = SumOver(SentBy(world, a), Coins(world))
         /\ Escrowed(a, "items") = SumOver(SentBy(world, a), Goods(world))
<1> DEFINE own == SentBy(world, a)
<1>1. own = {t \in Transfers : transfers[t].from_agent_id = a} /\ own \subseteq Transfers
  BY DEF SentBy, world
<1>2. \A t \in own :
        /\ [u \in own |-> transfers[u].escrow["money"]][t] = Coins(world)[t]
        /\ [u \in own |-> transfers[u].escrow["items"]][t] = Goods(world)[t]
  BY <1>1 DEF Coins, Goods, world
<1> HIDE DEF own
<1>3. /\ SumOver(own, [u \in own |-> transfers[u].escrow["money"]])
           = SumOver(own, Coins(world))
      /\ SumOver(own, [u \in own |-> transfers[u].escrow["items"]])
           = SumOver(own, Goods(world))
  BY <1>2, SumSame
<1> QED
  BY <1>1, <1>3 DEF Escrowed, own

LEMMA BalanceNow == Balance = BalanceIn(world)
<1>1. \A a \in Agents : Owned(a) = OwnedIn(world, a)
  BY DEF Owned, OwnedIn, world
<1>2. ASSUME NEW a \in Agents
      PROVE  /\ Owned(a).money + Escrowed(a, "money") = MoneyOf(world, a)
             /\ Owned(a).items + Escrowed(a, "items") = ItemsOf(world, a)
  BY <1>1, EscrowedIs DEF MoneyOf, ItemsOf
<1> QED
  BY <1>2 DEF Balance, BalanceIn

LEMMA BalanceNext == Balance' = BalanceIn(world')
<1>1. \A a \in Agents :
        /\ Escrowed(a, "money")' = SumOver(SentBy(world', a), Coins(world'))
        /\ Escrowed(a, "items")' = SumOver(SentBy(world', a), Goods(world'))
  <2> TAKE a \in Agents
  <2> DEFINE own == SentBy(world', a)
  <2>1. /\ own = {t \in Transfers : transfers'[t].from_agent_id = a}
        /\ own \subseteq Transfers
    BY DEF SentBy, world
  <2>2. \A t \in own :
          /\ [u \in own |-> transfers'[u].escrow["money"]][t] = Coins(world')[t]
          /\ [u \in own |-> transfers'[u].escrow["items"]][t] = Goods(world')[t]
    BY <2>1 DEF Coins, Goods, world
  <2> HIDE DEF own
  <2>3. /\ SumOver(own, [u \in own |-> transfers'[u].escrow["money"]])
             = SumOver(own, Coins(world'))
        /\ SumOver(own, [u \in own |-> transfers'[u].escrow["items"]])
             = SumOver(own, Goods(world'))
    BY <2>2, SumSame
  <2> QED
    BY <2>1, <2>3 DEF Escrowed, own
<1>2. \A a \in Agents : Owned(a)' = OwnedIn(world', a)
  BY DEF Owned, OwnedIn, world, LoggedIn, Registered
<1>3. ASSUME NEW a \in Agents
      PROVE  /\ (Owned(a).money + Escrowed(a, "money"))' = MoneyOf(world', a)
             /\ (Owned(a).items + Escrowed(a, "items"))' = ItemsOf(world', a)
  BY <1>1, <1>2 DEF MoneyOf, ItemsOf
<1> QED
  BY <1>3 DEF Balance, BalanceIn

\* Nobody's balance grows.
LEMMA ForfeitsBalance ==
  ASSUME NEW w, NEW v, NoGain(v, w)
  PROVE  \A a \in Agents : /\ BalanceIn(v)[a].money <= BalanceIn(w)[a].money
                           /\ BalanceIn(v)[a].items <= BalanceIn(w)[a].items
BY DEF NoGain, BalanceIn

\* One agent's balance has another value.
LEMMA OneBalance ==
  ASSUME NEW w, NEW v, NEW a \in Agents, NEW money, NEW items,
         MoneyOf(v, a) = money, ItemsOf(v, a) = items,
         \A b \in Agents \ {a} : /\ MoneyOf(v, b) = MoneyOf(w, b)
                                 /\ ItemsOf(v, b) = ItemsOf(w, b)
  PROVE  BalanceIn(v) = [BalanceIn(w) EXCEPT ![a] = [money |-> money, items |-> items]]
BY DEF BalanceIn

\* An endowment.
LEMMA EndowsBalance ==
  ASSUME NEW w, NEW v, NEW a \in Agents, Endowed(v, w, a)
  PROVE  BalanceIn(v) = [BalanceIn(w) EXCEPT ![a].money = @ + InitialMoney]
BY DEF BalanceIn, Endowed

\* What a step deals, the ledger does.
LEMMA LedgerStep ==
  ASSUME Dealt(world', world)
  PROVE  Economy!Next
<1> DEFINE b == BalanceIn(world)
           c == BalanceIn(world')
<1>1. Balance = b /\ Balance' = c
  BY BalanceNow, BalanceNext
<1>2. /\ b = [a \in Agents |-> [money |-> MoneyOf(world, a), items |-> ItemsOf(world, a)]]
      /\ c = [a \in Agents |-> [money |-> MoneyOf(world', a), items |-> ItemsOf(world', a)]]
  BY DEF BalanceIn
<1>3. CASE NoGain(world', world)
  <2>1. \A a \in Agents : c[a].money <= b[a].money /\ c[a].items <= b[a].items
    BY <1>3, ForfeitsBalance
  <2>2. DOMAIN c = Agents
    BY <1>2
  <2> HIDE DEF b, c
  <2> QED
    BY <1>1, <2>1, <2>2 DEF Economy!Next, Economy!Forfeit, Economy!AtMost
<1>4. ASSUME NEW a \in Agents, Endowed(world', world, a) PROVE Economy!Next
  <2>1. c = [b EXCEPT ![a].money = @ + InitialMoney]
    BY <1>4, EndowsBalance
  <2> HIDE DEF b, c
  <2> QED
    BY <1>1, <2>1 DEF Economy!Next, Economy!Endow
<1>5. ASSUME NEW a \in Agents, NEW x \in Actions, Earned(world', world, a, x)
      PROVE  Economy!Next
  <2>1. PICK n \in 0 .. Catalogue[x].reward.items :
          ItemsOf(world', a) = ItemsOf(world, a) + n
    BY <1>5 DEF Earned
  <2>2. c = [b EXCEPT ![a] =
              [money |-> MoneyOf(world, a) + Catalogue[x].reward.money,
               items |-> ItemsOf(world, a) + n]]
    BY <1>5, <2>1, OneBalance DEF Earned
  <2>3. b[a].money = MoneyOf(world, a) /\ b[a].items = ItemsOf(world, a)
    BY <1>2
  <2> HIDE DEF b, c
  <2>4. c = [b EXCEPT ![a] =
              Economy!Plus(@, [money |-> Catalogue[x].reward.money, items |-> n])]
    BY <2>2, <2>3 DEF Economy!Plus
  <2>5. Economy!Earn(a, x)
    BY <1>1, <2>4 DEF Economy!Earn
  <2> QED
    BY <2>5 DEF Economy!Next
<1>6. ASSUME NEW from \in Agents, NEW to \in Agents, NEW e \in Payloads,
             from # to, Paid(world', world, from, to, e)
      PROVE  Economy!Next
  <2>1. /\ c[from] = Economy!Minus(b[from], e) /\ c[to] = Economy!Plus(b[to], e)
        /\ \A a \in Agents \ {from, to} : c[a] = b[a]
        /\ Economy!AtMost(e, b[from])
    BY <1>2, <1>6 DEF Paid, Economy!Minus, Economy!Plus, Economy!AtMost
  <2>2. c = [a \in Agents |-> c[a]] /\ b = [a \in Agents |-> b[a]]
    BY <1>2
  <2> HIDE DEF b, c
  <2>3. c = [b EXCEPT ![from] = Economy!Minus(@, e), ![to] = Economy!Plus(@, e)]
    BY <1>6, <2>1, <2>2
  <2>4. Economy!Pay(from, to, e)
    BY <1>1, <2>1, <2>3 DEF Economy!Pay
  <2> QED
    BY <1>6, <2>4 DEF Economy!Next
<1> QED
  BY <1>3, <1>4, <1>5, <1>6 DEF Dealt

\* Before the first registration nobody has anything.
LEMMA LedgerInit == Init => Economy!Init
<1> SUFFICES ASSUME Init PROVE Economy!Init
  OBVIOUS
<1>1. /\ \A t \in Transfers : world.transfers[t] = NoOffer
      /\ \A a \in Agents : OwnedIn(world, a) = Nothing
  BY DEF Init, EmptyWorld, world, OwnedIn, LoggedIn, LoggedOut, Registered
<1>2. /\ NoOffer.from_agent_id = None /\ Nothing.money = 0 /\ Nothing.items = 0
  BY DEF NoOffer, Nothing
<1>3. ASSUME NEW a \in Agents
      PROVE  MoneyOf(world, a) = 0 /\ ItemsOf(world, a) = 0
  <2>1. SentBy(world, a) = {}
    BY <1>1, <1>2, WorldAssumption DEF SentBy
  <2>2. SumOver({}, Coins(world)) = 0 /\ SumOver({}, Goods(world)) = 0
    BY SumZero
  <2> QED
    BY <1>1, <1>2, <2>1, <2>2 DEF MoneyOf, ItemsOf
<1>4. BalanceIn(world) = [a \in Agents |-> [money |-> 0, items |-> 0]]
  BY <1>3 DEF BalanceIn
<1> QED
  BY <1>4, BalanceNow DEF Economy!Init

\* The engine is a ledger: with activity writes that succeed, what an agent
\* owns together with what its offers hold changes by endowments, rewards and
\* losses of its own, or by a payment that takes from one agent in the very
\* step it gives to the other.  The escrow, the debit and the credit of
\* startTransfer and acceptTransfer are nowhere to be seen.
THEOREM EngineIsALedger ==
  ASSUME "activity" \notin FailingWrites
  PROVE  Spec => ImplementsLedger
<1>1. Init => Economy!Init
  BY LedgerInit
<1>2. Bookkeeping /\ [Next]_vars => [Economy!Next]_Balance
  <2> SUFFICES ASSUME Bookkeeping, [Next]_vars PROVE Economy!Next
    OBVIOUS
  <2>1. Dealt(world', world)
    BY TradedStep DEF Bookkeeping, Traded
  <2> QED
    BY <2>1, LedgerStep
<1> QED
  BY <1>1, <1>2, BooksAreSound, PTL DEF Spec, ImplementsLedger, Economy!Spec

============================================================================
